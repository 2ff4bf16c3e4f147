----------------------------- MODULE CodegenOps -----------------------------
(***************************************************************************)
(* u6a_codegen's loop body as an operator on its buffers:                  *)
(*                                                                         *)
(*   text    text_buffer; instruction n is the code's text_buffer[n - 1]   *)
(*   rodata  rodata_buffer                                                 *)
(*   stack   the instructions that wait for a subtree to be generated,     *)
(*           with the number of the instruction whose offset they complete *)
(*                                                                         *)
(* The tree is the parser's array of nodes.                                *)
(***************************************************************************)
EXTENDS Defs, SequencesExt

OptimizeStrMinLen == 4

NewBuffers == [text |-> <<>>, rodata |-> <<>>, stack |-> <<>>]

PendingNext(ins, n) == [ins |-> ins, at |-> n + 1]
Pending(ins, n) == [ins |-> ins, at |-> n]

PushIns(g, ins) == [g EXCEPT !.stack = Append(g.stack, Pending(ins, 0))]

EmitAndPushEarly(g, ins, later) ==
  [g EXCEPT !.text  = Append(g.text, ins),
            !.stack = Append(g.stack, Pending(later, Len(g.text)))]

(* Emits ins now and what completes its offset later.                      *)
EmitAndPush(g, ins, later) ==
  [g EXCEPT !.text  = Append(g.text, ins),
            !.stack = Append(g.stack, Pending(later, Len(g.text) + 1))]

(* A leaf application is out: the waiting instructions follow, innermost   *)
(* first, up to the next sa, whose right subtree comes first.  An la sets  *)
(* the offset of its sa or del to the place after itself.                  *)
LastSa(stack) ==
  LET S == {0} \cup {i \in DOMAIN stack : stack[i].ins.op = "sa"}
  IN  CHOOSE i \in S : \A j \in S : j <= i

Drain(g) ==
  LET k    == LastSa(g.stack)
      outs == Reverse(SubSeq(g.stack, k + 1, Len(g.stack)))
      all  == g.text \o [i \in DOMAIN outs |-> outs[i].ins]
      Done(n, i) == outs[i].ins.op = "la" /\ outs[i].at = n
      done == [n \in DOMAIN all |->
                 IF \E i \in DOMAIN outs : Done(n, i)
                 THEN [all[n] EXCEPT !.offset =
                         Swap32(Len(g.text) +
                                (CHOOSE i \in DOMAIN outs : Done(n, i)))]
                 ELSE all[n]]
      rest == [g EXCEPT !.text = done, !.stack = SubSeq(g.stack, 1, k - 1)]
  IN  IF k = 0 THEN rest
      ELSE EmitAndPush(rest, OpIns("sa", 0), OpIns("la", 0))

(* How many of the waiting instructions print a character each and are     *)
(* next to follow.                                                         *)
IsPrint(w) == w.ins.op = "app" /\ w.ins.first.fn = "out" /\ w.ins.second = NoTok
PrintRun(stack) ==
  LET S == {n \in 0..Len(stack) :
              \A i \in (Len(stack) - n + 1)..Len(stack) : IsPrint(stack[i])}
  IN  CHOOSE n \in S : \A m \in S : m <= n

(* Both children are leaves.  A run of prints becomes one print of a       *)
(* string.                                                                 *)
LeafApp(g, l, r, optimize) ==
  LET n   == PrintRun(g.stack)
      top == Len(g.stack)
      str == <<l.ch>> \o [i \in 1..n |-> g.stack[top - i + 1].ins.first.ch]
  IN  IF optimize /\ l.fn = "out" /\ n + 1 >= OptimizeStrMinLen
      THEN [text   |-> g.text \o <<OpIns("lc", Swap32(Len(g.rodata))),
                                   AppIns(NoTok, r)>>,
            rodata |-> Append(g.rodata \o str, NUL),
            stack  |-> SubSeq(g.stack, 1, top - n)]
      ELSE [g EXCEPT !.text = Append(g.text, AppIns(l, r))]

(* An application of the leaf l to an application.                         *)
LeafToAppBoth(g, l) ==
  IF l.fn # "d" THEN PushIns(g, AppIns(l, NoTok))
  ELSE PushIns(EmitAndPush(g, OpIns("del", 0), OpIns("la", 0)),
               AppIns(l, NoTok))

LeafToApp(g, l) ==
  IF l.fn = "d" THEN EmitAndPush(g, OpIns("del", 0), OpIns("la", 0))
  ELSE PushIns(g, AppIns(l, NoTok))

(* One node of the tree.                                                   *)
GenNode(g, ast, n, optimize) ==
  LET l == ast[n + 1].tok
      r == ast[ast[n + 1].sibling].tok
  IN  CASE ~IsApp(ast[n].tok) -> g
        [] IsApp(ast[n].tok) /\ IsApp(l) /\ IsApp(r) ->
             PushIns(g, OpIns("sa", 0))
        [] IsApp(ast[n].tok) /\ IsApp(l) /\ ~IsApp(r) ->
             PushIns(g, AppIns(NoTok, r))
        [] IsApp(ast[n].tok) /\ ~IsApp(l) /\ IsApp(r) ->
             LeafToApp(g, l)
        [] IsApp(ast[n].tok) /\ ~IsApp(l) /\ ~IsApp(r) ->
             Drain(LeafApp(g, l, r, optimize))

=============================================================================
