------------------------------ MODULE Unlambda -------------------------------
(***************************************************************************)
(* The language the program implements, as an abstract machine without     *)
(* instructions, segments or reference counts: an expression under         *)
(* evaluation, and the frames of what is left to do with its value.        *)
(*                                                                         *)
(* An expression is an application or a value, a value has the arguments   *)
(* it got so far, a continuation has the frames it goes back to.           *)
(***************************************************************************)
EXTENDS Defs

App(l, r)        == [fn |-> "app", ch |-> NUL, args |-> <<l, r>>]
Val(fn, ch, q)   == [fn |-> fn, ch |-> ch, args |-> q]
Fn(fn)           == Val(fn, NUL, <<>>)
Leaf(tok)        == Val(tok.fn, tok.ch, <<>>)

(* What is left to do with a value: it is the function of an application   *)
(* whose operand is yet to be evaluated, the operand of a function, or a   *)
(* forced promise that awaits the operand the promise was applied to.      *)
Operand(r)  == [to |-> "operand", with |-> r]
Apply(f)    == [to |-> "apply", with |-> f]
Awaiting(w) == [to |-> "awaiting", with |-> w]

EOF_ == -1

(* The machine: mode "eval" or "return" and the expression or value cur,   *)
(* "apply" of fun to cur, or "exit" with cur; its frames, innermost last;  *)
(* the characters to read, the last one read, the ones written.            *)
Start(expr, input) ==
  [mode |-> "eval", fun |-> Fn("i"), cur |-> expr, frames |-> <<>>,
   input |-> input, char |-> EOF_, out |-> <<>>]

Eval(m, e)     == [m EXCEPT !.mode = "eval", !.cur = e]
Return(m, v)   == [m EXCEPT !.mode = "return", !.cur = v]
DoApply(m, f, x) == [m EXCEPT !.mode = "apply", !.fun = f, !.cur = x]
PushFrame(m, k) == [m EXCEPT !.frames = Append(m.frames, k)]
Test(b)        == IF b THEN Fn("i") ELSE Fn("v")

ApplyStep(m) ==
  LET f == m.fun
      x == m.cur
  IN CASE f.fn = "i"   -> Return(m, x)
       [] f.fn = "v"   -> Return(m, Fn("v"))
       [] f.fn = "k"   -> Return(m, Val("k1", NUL, <<x>>))
       [] f.fn = "k1"  -> Return(m, f.args[1])
       [] f.fn = "s"   -> Return(m, Val("s1", NUL, <<x>>))
       [] f.fn = "s1"  -> Return(m, Val("s2", NUL, <<f.args[1], x>>))
       [] f.fn = "s2"  -> Eval(m, App(App(f.args[1], x), App(f.args[2], x)))
       [] f.fn = "d"   -> Return(m, Val("d1", NUL, <<x>>))
       [] f.fn = "d1"  -> Eval(PushFrame(m, Awaiting(x)), f.args[1])
       [] f.fn = "c"   -> DoApply(m, x, Val("c1", NUL, m.frames))
       [] f.fn = "c1"  -> Return([m EXCEPT !.frames = f.args], x)
       [] f.fn = "out" -> Return([m EXCEPT !.out = Append(m.out, f.ch)], x)
       [] f.fn = "in"  ->
            IF m.input = <<>> THEN DoApply([m EXCEPT !.char = EOF_], x, Fn("v"))
            ELSE DoApply([m EXCEPT !.char = Head(m.input),
                                   !.input = Tail(m.input)], x, Fn("i"))
       [] f.fn = "cmp"  -> DoApply(m, x, Test(f.ch = m.char))
       [] f.fn = "pipe" -> DoApply(m, x, IF m.char = EOF_ THEN Fn("v")
                                         ELSE Val("out", m.char, <<>>))
       [] f.fn = "e"    -> [m EXCEPT !.mode = "exit"]

ReturnStep(m) ==
  LET k    == m.frames[Len(m.frames)]
      rest == [m EXCEPT !.frames = SubSeq(m.frames, 1, Len(m.frames) - 1)]
  IN CASE k.to = "operand" /\ m.cur.fn = "d" ->
            Return(rest, Val("d1", NUL, <<k.with>>))
       [] k.to = "operand" /\ m.cur.fn # "d" ->
            Eval(PushFrame(rest, Apply(m.cur)), k.with)
       [] k.to = "apply"    -> DoApply(rest, k.with, m.cur)
       [] k.to = "awaiting" -> DoApply(rest, m.cur, k.with)

Step(m) ==
  CASE m.mode = "eval" /\ m.cur.fn = "app" ->
         Eval(PushFrame(m, Operand(m.cur.args[2])), m.cur.args[1])
    [] m.mode = "eval" /\ m.cur.fn # "app" -> Return(m, m.cur)
    [] m.mode = "return" -> ReturnStep(m)
    [] m.mode = "apply"  -> ApplyStep(m)
    [] m.mode = "exit"   -> m

(* The machine after at most 8 * fuel steps; exit is final.                *)
Step2(m) == Step(Step(m))
Step8(m) == Step2(Step2(Step2(Step2(m))))

Run(expr, input, fuel) ==
  LET after[n \in 0..fuel] ==
        IF n = 0 THEN Start(expr, input)
        ELSE LET m == after[n - 1] IN IF m.mode = "exit" THEN m ELSE Step8(m)
  IN  after[fuel]

(* The expression at a node of the parser's array.                         *)
ExprOf(ast) ==
  LET e[n \in DOMAIN ast] ==
        IF IsApp(ast[n].tok) THEN App(e[n + 1], e[ast[n + 1].sibling])
        ELSE Leaf(ast[n].tok)
  IN  e[1]

=============================================================================
