------------------------------- MODULE Runtime -------------------------------
(***************************************************************************)
(* u6a_runtime_init and u6a_runtime_execute: a compiled program is loaded  *)
(* and interpreted, one instruction in one or two steps: one that finds    *)
(* function and argument, one for each case of the switch on the function. *)
(* Instruction n is the code's text[n].                                    *)
(***************************************************************************)
EXTENDS RuntimeHeap, CodegenOps

CONSTANTS Programs,   (* syntax trees, see Parser, each with what standard *)
                      (* input holds when it is run                        *)
          Fuel,       (* bound: a program gets 8 * Fuel steps of the       *)
                      (* abstract machine to exit                          *)
          MaxOut,     (* bound: characters a program may write             *)
          MaxRefcnt   (* bound: the count of a cell; a loop may add to it  *)
                      (* for ever                                          *)

U == INSTANCE Unlambda

VARIABLES
  text, rodata,     (* the loaded sections                                 *)
  heap,             (* the stack and the pool, see RuntimeHeap             *)
  acc, top, func, arg,
  ins,              (* ins - text                                          *)
  pc,               (* "fetch", or "apply" at the label do_apply           *)
  current_char, input, out,
  status,           (* "running", "exit", "error", "wild" or "cut"         *)
  expect            (* history: what the language says of the program      *)

vars == <<text, rodata, heap, acc, top, func, arg, ins, pc, current_char,
          input, out, status, expect>>

program == <<text, rodata, expect>>
stream  == <<current_char, input, out>>

-----------------------------------------------------------------------------
(* Loading.                                                                *)

(* u6a_codegen's result for a tree.                                        *)
Compiled(ast, optimize) ==
  LET gen[n \in 0..Len(ast)] ==
        IF n = 0 THEN NewBuffers ELSE GenNode(gen[n - 1], ast, n, optimize)
  IN  gen[Len(ast)]

TextSubst == <<OpIns("la", 0), OpIns("xch", 0), OpIns("la", 0),
               OpIns("la", 0), OpIns("la", 0)>>
TextSubstLen == Len(TextSubst)

(* The offsets are converted up to instruction number text_len, although   *)
(* text holds text_subst_len instructions more.                            *)
LoadedIns(t, i) ==
  IF HasOffset(t[i + 1 - TextSubstLen]) /\ i < Len(t)
  THEN [t[i + 1 - TextSubstLen] EXCEPT !.offset = Swap32(@)]
  ELSE t[i + 1 - TextSubstLen]

Loaded(t) ==
  [i \in 0..(TextSubstLen + Len(t) - 1) |->
     IF i < TextSubstLen THEN TextSubst[i + 1] ELSE LoadedIns(t, i)]

Init ==
  /\ \E p \in Programs, optimize \in BOOLEAN :
       LET code == Compiled(p.ast, optimize)
       IN  /\ text = Loaded(code.text)
           /\ rodata = code.rodata
           /\ input = p.input
           /\ LET m == U!Run(U!ExprOf(p.ast), p.input, Fuel)
              IN  expect = [exits |-> m.mode = "exit", fn |-> m.cur.fn,
                            out |-> m.out]
  /\ heap = NewHeap
  /\ acc = NoVal /\ top = NoVal /\ func = NoVal /\ arg = NoVal
  /\ ins = TextSubstLen
  /\ pc = "fetch"
  /\ current_char = U!EOF_
  /\ out = <<>>
  /\ status = "running"

-----------------------------------------------------------------------------
(* Steps.                                                                  *)

TokVal(t) == Vf(t.fn, 0, t.ch)
JumpTo(n)   == Vf("j", 0, n)
Finalize(n) == Vf("f", 0, n)

(* The heap after a step; a fault ends the program.                        *)
Bounded(h) == \A c \in Cell : h.pool.refcnt[c] <= MaxRefcnt
HeapIs(h) == /\ heap' = h
             /\ status' = CASE h.fault # "" -> h.fault
                            [] h.fault = "" /\ Bounded(h) -> "running"
                            [] h.fault = "" /\ ~Bounded(h) -> "cut"

(* The value of the cell that is allocated next, if there is one.          *)
NewVal(h, fn) == IF HasRoom(h.pool) THEN Vf(fn, NewCell(h.pool), 0) ELSE NoVal

(* acc = a, then on with instruction n.                                    *)
Continue(a, n) == acc' = a /\ ins' = n /\ pc' = "fetch"

Fetching(op) == /\ status = "running" /\ pc = "fetch"
                /\ ins \in DOMAIN text
                /\ text[ins].op = op

(* u6a_vo_app: both from the instruction, or one of them from acc.         *)
FetchApp ==
  LET i == text[ins]
  IN  /\ Fetching("app")
      /\ func' = IF i.first.fn # "" THEN TokVal(i.first) ELSE acc
      /\ arg' = IF i.first.fn = "" \/ i.second.fn # ""
                THEN TokVal(i.second) ELSE acc
      /\ pc' = "apply"
      /\ UNCHANGED <<program, stream, heap, acc, top, ins, status>>

(* u6a_vo_la.                                                              *)
FetchLa ==
  /\ Fetching("la")
  /\ HeapIs(PopFreeing(heap, top))
  /\ top' = PoppedVal(heap, top)
  /\ func' = PoppedVal(heap, top)
  /\ arg' = acc
  /\ pc' = "apply"
  /\ UNCHANGED <<program, stream, acc, ins>>

(* u6a_vo_sa, and the label delay.                                         *)
Delay == /\ Continue(Vf("d1_d", 0, ins + 1), TextSubstLen + text[ins].offset)
         /\ UNCHANGED <<program, stream, heap, top, func, arg, status>>

StoreAcc ==
  /\ Fetching("sa")
  /\ acc.fn # "d"
  /\ HeapIs(PushVals(AddrefVal(heap, acc), <<acc>>))
  /\ Continue(acc, ins + 1)
  /\ UNCHANGED <<program, stream, top, func, arg>>

DelaySa  == Fetching("sa") /\ acc.fn = "d" /\ Delay
DelayDel == Fetching("del") /\ Delay

(* u6a_vo_xch.                                                             *)
Exchange ==
  /\ Fetching("xch")
  /\ acc.fn # "d"
  /\ HeapIs(XchVal(heap, acc))
  /\ Continue(XchOld(heap), ins + 1)
  /\ UNCHANGED <<program, stream, top, func, arg>>

ExchangeD ==
  LET f  == PoppedVal(heap, top)
      h1 == AddrefVal(PopFreeing(heap, top), f)
      a  == PoppedVal(h1, f)
      h2 == AddrefVal(PopFreeing(h1, f), a)
  IN  /\ Fetching("xch")
      /\ acc.fn = "d"
      /\ HeapIs(PoolAlloc(h2, f, a, NoSaved))
      /\ func' = f /\ arg' = a /\ top' = a
      /\ Continue(NewVal(h2, "d1_s"), ins + 1)
      /\ UNCHANGED <<program, stream>>

(* u6a_vo_lc.                                                              *)
LoadString ==
  /\ Fetching("lc")
  /\ Continue(Vf("p", 0, text[ins].offset), ins + 1)
  /\ UNCHANGED <<program, stream, heap, top, func, arg, status>>

(* ins points outside text.                                                *)
WildIns ==
  /\ status = "running" /\ pc = "fetch"
  /\ ins \notin DOMAIN text
  /\ status' = "wild"
  /\ UNCHANGED <<program, stream, heap, acc, top, func, arg, ins, pc>>

-----------------------------------------------------------------------------
(* The switch on func.token.fn.                                            *)

Applying(fn) == status = "running" /\ pc = "apply" /\ func.fn = fn

Cell1 == heap.pool.v1[func.ref]
Cell2 == heap.pool.v2[func.ref]

(* A new cell that holds a and b, in acc as a value fn.                    *)
AccAlloc(h, fn, a, b, s) ==
  /\ HeapIs(PoolAlloc(h, a, b, s))
  /\ acc' = NewVal(h, fn)

(* s, k and d take their first argument.                                   *)
Partial == [s |-> "s1", k |-> "k1", d |-> "d1_c"]

ApplyPartial(fn) ==
  /\ Applying(fn)
  /\ AccAlloc(AddrefVal(heap, arg), Partial[fn], arg, NoVal, NoSaved)
  /\ ins' = ins + 1 /\ pc' = "fetch"
  /\ UNCHANGED <<program, stream, top, func, arg>>

ApplyS1 ==
  /\ Applying("s1")
  /\ AccAlloc(AddrefVal(AddrefVal(heap, arg), Cell1), "s2", Cell1, arg, NoSaved)
  /\ ins' = ins + 1 /\ pc' = "fetch"
  /\ UNCHANGED <<program, stream, top, func, arg>>

TailCall == ins = 3

(* ``sXYZ: push Z, Y and X, below them the way back unless it is the tail  *)
(* call, and run text_subst.                                               *)
ApplyS2 ==
  LET xyz == <<arg, Cell2, Cell1>>
  IN  /\ Applying("s2")
      /\ HeapIs(PushVals(AddrefAll(heap, xyz),
                         IF TailCall THEN xyz ELSE <<JumpTo(ins)>> \o xyz))
      /\ Continue(arg, 0)
      /\ UNCHANGED <<program, stream, top, func, arg>>

ApplyK1 ==
  /\ Applying("k1")
  /\ HeapIs(AddrefVal(heap, Cell1))
  /\ Continue(Cell1, ins + 1)
  /\ UNCHANGED <<program, stream, top, func, arg>>

ApplyI ==
  /\ Applying("i")
  /\ Continue(arg, ins + 1)
  /\ UNCHANGED <<program, stream, heap, top, func, arg, status>>

ApplyV ==
  /\ Applying("v")
  /\ Continue(Vf("v", 0, 0), ins + 1)
  /\ UNCHANGED <<program, stream, heap, top, func, arg, status>>

(* fputc or fputs of q.                                                    *)
PrintOut(q) ==
  /\ out' = out \o q
  /\ status' = IF Len(out \o q) <= MaxOut THEN "running" ELSE "cut"
  /\ Continue(arg, ins + 1)
  /\ UNCHANGED <<program, heap, top, func, arg, current_char, input>>

ApplyOut == Applying("out") /\ PrintOut(<<func.n>>)

StringEnd(o) == CHOOSE n \in (o + 1)..Len(rodata) :
                  /\ rodata[n] = NUL
                  /\ \A m \in (o + 1)..(n - 1) : rodata[m] # NUL

ApplyP == /\ Applying("p")
          /\ func.n < Len(rodata)
          /\ PrintOut(SubSeq(rodata, func.n + 1, StringEnd(func.n) - 1))

ApplyPWild ==
  /\ Applying("p")
  /\ func.n >= Len(rodata)
  /\ status' = "wild"
  /\ UNCHANGED <<program, stream, heap, acc, top, func, arg, ins, pc>>

ApplyJAgain ==
  /\ Applying("j")
  /\ Continue(arg, func.n)
  /\ UNCHANGED <<program, stream, heap, top, func, arg, status>>

(* The internal functions on the stack: jump back, and finalize a forced   *)
(* promise, whose value is applied to what the promise was applied to.     *)
ApplyJ ==
  /\ Applying("j")
  /\ Continue(arg, func.n + 1)
  /\ UNCHANGED <<program, stream, heap, top, func, arg, status>>

ApplyF ==
  LET h == PopFreeing(heap, top)
      v == PoppedVal(heap, top)
  IN  /\ Applying("f")
      /\ HeapIs(PushVals(AddrefVal(h, arg), <<JumpTo(func.n), arg>>))
      /\ top' = v
      /\ Continue(v, 3)
      /\ UNCHANGED <<program, stream, func, arg>>

ApplyCPushed ==
  LET h1 == PushVals(AddrefVal(heap, arg), <<JumpTo(ins), arg>>)
      s  == Fresh(h1)
      h2 == DupSeg(h1, h1.stk.active)
  IN  /\ Applying("c")
      /\ AccAlloc(h2, "c1", NoVal, Vf("", 0, ins), s)
      /\ ins' = 3 /\ pc' = "fetch"
      /\ UNCHANGED <<program, stream, top, func, arg>>

(* The current continuation: a copy of the stack and the instruction.      *)
ApplyC ==
  LET s  == Fresh(heap)
      h1 == DupSeg(heap, heap.stk.active)
      h2 == PushVals(AddrefVal(h1, arg), <<JumpTo(ins), arg>>)
  IN  /\ Applying("c")
      /\ AccAlloc(h2, "c1", NoVal, Vf("", 0, ins), s)
      /\ ins' = 3 /\ pc' = "fetch"
      /\ UNCHANGED <<program, stream, top, func, arg>>

ApplyC1 ==
  /\ Applying("c1")
  /\ HeapIs(ResumeCont(heap, func.ref))
  /\ Continue(arg, Cell2.n + 1)
  /\ UNCHANGED <<program, stream, top, func, arg>>

(* Forcing a promise of a value, of `YZ from an s, and of code.            *)
ApplyD1c ==
  /\ Applying("d1_c")
  /\ HeapIs(PushVals(AddrefVal(heap, Cell1), <<JumpTo(ins), Cell1>>))
  /\ Continue(arg, 3)
  /\ UNCHANGED <<program, stream, top, func, arg>>

ApplyD1s ==
  /\ Applying("d1_s")
  /\ HeapIs(PushVals(AddrefVal(AddrefVal(heap, arg), Cell1),
                     <<arg, Finalize(ins), Cell1>>))
  /\ Continue(Cell2, 3)
  /\ UNCHANGED <<program, stream, top, func, arg>>

ApplyD1d ==
  /\ Applying("d1_d")
  /\ HeapIs(PushVals(AddrefVal(heap, arg), <<arg, Finalize(ins)>>))
  /\ Continue(acc, func.n)
  /\ UNCHANGED <<program, stream, top, func, arg>>

(* @, ?x and | apply their argument to v, i or a print.                    *)
ApplyTo(v) ==
  /\ HeapIs(PushVals(AddrefVal(heap, arg), <<JumpTo(ins), arg>>))
  /\ arg' = v
  /\ Continue(v, 3)
  /\ UNCHANGED <<program, top, func, out>>

ApplyIn ==
  /\ Applying("in")
  /\ current_char' = IF input = <<>> THEN U!EOF_ ELSE Head(input)
  /\ input' = IF input = <<>> THEN <<>> ELSE Tail(input)
  /\ ApplyTo(Vf(IF input = <<>> THEN "v" ELSE "i", 0, 0))

ApplyCmp ==
  /\ Applying("cmp")
  /\ ApplyTo(Vf(IF func.n = current_char THEN "i" ELSE "v", 0, 0))
  /\ UNCHANGED <<current_char, input>>

ApplyPipe ==
  /\ Applying("pipe")
  /\ ApplyTo(IF current_char = U!EOF_ THEN Vf("v", 0, 0)
             ELSE Vf("out", 0, current_char))
  /\ UNCHANGED <<current_char, input>>

ApplyE ==
  /\ Applying("e")
  /\ status' = "exit"
  /\ UNCHANGED <<program, stream, heap, acc, top, func, arg, ins, pc>>

Apply ==
  \/ \E fn \in DOMAIN Partial : ApplyPartial(fn)
  \/ ApplyS1 \/ ApplyS2 \/ ApplyK1 \/ ApplyI \/ ApplyV
  \/ ApplyOut \/ ApplyP \/ ApplyPWild \/ ApplyJ \/ ApplyF
  \/ ApplyC \/ ApplyC1 \/ ApplyD1c \/ ApplyD1s \/ ApplyD1d
  \/ ApplyIn \/ ApplyCmp \/ ApplyPipe \/ ApplyE

Step ==
  \/ FetchApp \/ FetchLa \/ StoreAcc \/ DelaySa \/ DelayDel
  \/ Exchange \/ ExchangeD \/ LoadString \/ WildIns
  \/ Apply

(* u6a_runtime_execute has returned.                                       *)
Over == status # "running" /\ UNCHANGED vars

Next == Step \/ Over

(* The interpreter is one loop that nothing but its own steps stops: while *)
(* it runs, it goes on.  (With the absence of deadlocks, which every run   *)
(* checks, this is WF_vars(Step).)                                         *)
Fairness == []<>(status # "running") \/ []<><<Step>>_vars

Spec == Init /\ [][Next]_vars /\ Fairness

-----------------------------------------------------------------------------
(* What running a program ought to be.                                     *)

(* Registers, stacks and heap of u6a_runtime_execute keep their ranges     *)
(* after every instruction.                                                *)
TypeOK ==
  /\ ins \in Nat
  /\ {acc.ref, top.ref, func.ref, arg.ref} \subseteq 0..PoolLen
  /\ heap.stk.live \subseteq Seg
  /\ heap.pool.pos \in 0..PoolLen
  /\ out \in Seq(Nat)
  /\ status \in {"running", "exit", "error", "wild", "cut"}
  /\ pc \in {"fetch", "apply"}

(* The kind of a value in the language.                                    *)
Kind(fn) == IF fn \in {"d1_c", "d1_s", "d1_d"} THEN "d1" ELSE fn

IsPrefixOf(p, q) == Len(p) <= Len(q) /\ SubSeq(q, 1, Len(p)) = p

(* The loader left an offset in network order: no text is that long.       *)
Misloaded == \E n \in DOMAIN text : text[n].offset >= 16777216

Faultless == ~Misloaded /\ heap.broken = {}

(* A compiled program writes what the language says, in this order, and    *)
(* exits with the value the language says, whatever is in its way: delayed *)
(* operands, strings, segments, copies of stacks.                          *)
SameAsLanguage ==
  expect.exits =>
    /\ IsPrefixOf(out, expect.out)
    /\ status = "exit" => out = expect.out /\ Kind(arg.fn) = expect.fn
    /\ status # "wild"

Agrees == Faultless => SameAsLanguage

(* The same for every program the compiler writes, wherever its delayed    *)
(* operands are.                                                           *)
AgreesAlways == heap.broken = {} => SameAsLanguage

(* An access to memory that is not there comes from one of the defects.    *)
WildHasCause == status = "wild" => ~Faultless

(* A program that exits in the language exits.                             *)
Exits == expect.exits ~> (status = "exit" \/ ~Faultless)

(* The values a program can still get at without going through a cell.     *)
Held == {acc, top} \cup (IF pc = "apply" THEN {func, arg} ELSE {})
OnStack == UNION {{heap.stk.elems[s][i] : i \in DOMAIN heap.stk.elems[s]}
                    : s \in heap.stk.live}
LiveCells == {c \in Cell : heap.pool.refcnt[c] > 0}
InCells == UNION {{heap.pool.v1[c], heap.pool.v2[c]} :
                    c \in {d \in LiveCells : heap.pool.saved[d] = NoSaved}}

(* No value refers to a cell that was given back: acc, func and arg have   *)
(* no counted reference of their own, and top loses its at the next pop.   *)
NoDangling ==
  status = "running" /\ Faultless =>
    \A v \in Held \cup OnStack \cup InCells : v.ref \in {0} \cup LiveCells

(* The counted references to cell c.                                       *)
Counted(c) ==
  LET onstack == {<<s, i>> \in heap.stk.live \X (1..StackSegLen) :
                    i \in DOMAIN heap.stk.elems[s]
                      /\ heap.stk.elems[s][i].ref = c}
      pairs   == {d \in LiveCells : heap.pool.saved[d] = NoSaved}
  IN  Cardinality(onstack)
      + Cardinality({d \in pairs : heap.pool.v1[d].ref = c})
      + Cardinality({d \in pairs : heap.pool.v2[d].ref = c})
      + (IF top.ref = c THEN 1 ELSE 0)

(* A cell's count covers the references that will be dropped one day, and  *)
(* one more for the value in acc: nothing drops what acc loses, so that    *)
(* cells are leaked, but what acc borrows it never has to count.           *)
CountsCover ==
  status = "running" /\ Faultless =>
    \A c \in Cell :
      heap.pool.refcnt[c] >= Counted(c) + (IF acc.ref = c THEN 1 ELSE 0)

=============================================================================
