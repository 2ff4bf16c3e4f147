---------------------------- MODULE RuntimeHeap -----------------------------
(***************************************************************************)
(* The interpreter's memory: the stack and the pool together, with the     *)
(* calls that go from one to the other and back.  Each operation is one    *)
(* call, run to its end; VmStack and VmPool look inside.  A heap is        *)
(*                                                                         *)
(*   stk, pool  see VmStackOps and VmPoolOps; saved[c] is a segment        *)
(*   lost       segments top() has walked away from                        *)
(*   moved      cells whose stack became the active one                    *)
(*   broken     the defects met: "crossed" when top() walks into a segment *)
(*              that others lie on, "stale" when a moved cell destroys the *)
(*              stack it no longer has                                     *)
(*   fault      "", or why it is over: "error" after a longjmp, "wild"     *)
(*              after an access to memory that is not there                *)
(***************************************************************************)
EXTENDS VmStackOps, VmPoolOps

CONSTANTS MaxSegs   (* bound: segments before malloc fails                 *)

Seg == 1..MaxSegs

Vf(fn, ref, n) == [fn |-> fn, ref |-> ref, n |-> n]
NoVal == Vf("", 0, 0)

NewHeap == [stk |-> NewStack(Seg, 1), pool |-> NewPool(NoVal), lost |-> {},
            moved |-> {}, broken |-> {}, fault |-> ""]

Fault(h, f) == [h EXCEPT !.fault = f]
Sane(h)     == h.fault = "" /\ h.stk.active \in h.stk.live
FreeSegs(h) == Seg \ h.stk.live
Fresh(h)    == CHOOSE s \in FreeSegs(h) : \A t \in FreeSegs(h) : s <= t

AddrefValNone(h, v) == h
AddrefVal(h, v) == [h EXCEPT !.pool = Addref(h.pool, v)]
AddrefAllNone(h, q) == h
AddrefAll(h, q) ==
  [h EXCEPT !.pool.refcnt =
     [c \in Cell |-> h.pool.refcnt[c]
                     + Cardinality({i \in DOMAIN q : q[i].ref = c})]]

(* u6a_vm_stack_push1 .. push4.                                            *)
PushVals(h, vs) ==
  CASE h.fault # "" -> h
    [] h.fault = "" /\ ~Sane(h) -> Fault(h, "wild")
    [] Sane(h) /\ Fits(h.stk, Len(vs)) -> [h EXCEPT !.stk = PushIn(h.stk, vs)]
    [] Sane(h) /\ ~Fits(h.stk, Len(vs)) ->
         IF FreeSegs(h) = {} THEN Fault(h, "error")
         ELSE [h EXCEPT !.stk = PushSplit(h.stk, Fresh(h), vs),
                        !.lost = h.lost \ {Fresh(h)}]

(* u6a_vm_stack_top, then u6a_vm_stack_pop.                                *)
TopSeg(h) == IF ActiveElems(h.stk) # <<>> THEN h.stk.active ELSE Below(h.stk)
TopVal(h) == IF Sane(h) /\ TopSeg(h) \in h.stk.live
                        /\ h.stk.elems[TopSeg(h)] # <<>>
             THEN Last1(h.stk.elems[TopSeg(h)]) ELSE NoVal

LieOn(h, s) == {t \in h.stk.live \ h.lost : h.stk.prev[t] = s}

PopVal(h) ==
  LET p == TopSeg(h)
  IN CASE h.fault # "" -> h
       [] h.fault = "" /\ ~Sane(h) -> Fault(h, "wild")
       [] Sane(h) /\ p = h.stk.active -> [h EXCEPT !.stk = PopIn(h.stk)]
       [] Sane(h) /\ p # h.stk.active /\ p = NULL -> Fault(h, "error")
       [] Sane(h) /\ p # h.stk.active /\ p # NULL ->
            IF p \notin h.stk.live THEN Fault(h, "wild")
            ELSE IF h.stk.elems[p] = <<>> THEN Fault(h, "wild")
            ELSE [h EXCEPT
                    !.stk = PopCross(h.stk),
                    !.lost = h.lost \cup {h.stk.active},
                    !.broken = IF LieOn(h, p) = {h.stk.active} THEN h.broken
                               ELSE h.broken \cup {"crossed"}]

(* u6a_vm_stack_xch: the value it returns, and the stack after it.         *)
XchSeg(h) == IF Len(ActiveElems(h.stk)) >= 2 THEN h.stk.active ELSE Below(h.stk)
XchPos(h) == IF Len(ActiveElems(h.stk)) = 1
             THEN Len(h.stk.elems[XchSeg(h)]) ELSE Len(h.stk.elems[XchSeg(h)]) - 1
XchOK(h)  == /\ Sane(h)
             /\ XchSeg(h) \in h.stk.live
             /\ XchPos(h) >= 1
XchOld(h) == IF XchOK(h) THEN h.stk.elems[XchSeg(h)][XchPos(h)] ELSE NoVal

XchVal(h, v) ==
  LET n == Len(ActiveElems(h.stk))
      copies == MustCopyBelow(h.stk)
      d == IF copies THEN Fresh(h) ELSE Below(h.stk)
      counted == IF copies THEN AddrefAll(h, h.stk.elems[Below(h.stk)]) ELSE h
  IN CASE h.fault # "" -> h
       [] h.fault = "" /\ ~XchOK(h) ->
            Fault(h, IF Sane(h) /\ XchSeg(h) = NULL THEN "error" ELSE "wild")
       [] XchOK(h) /\ n >= 2 -> [h EXCEPT !.stk = XchIn(h.stk, v)]
       [] XchOK(h) /\ n < 2 ->
            IF copies /\ FreeSegs(h) = {} THEN Fault(h, "error")
            ELSE [counted EXCEPT
                    !.lost = IF copies THEN h.lost \ {d} ELSE h.lost,
                    !.stk = IF n = 1 THEN XchBelow(h.stk, v, d)
                                     ELSE XchDrop(h.stk, v, d)]

(* vm_stack_dup of segment t, into the segment Fresh(h).                   *)
DupSeg(h, t) ==
  CASE h.fault # "" -> h
    [] h.fault = "" /\ t \notin h.stk.live -> Fault(h, "wild")
    [] h.fault = "" /\ t \in h.stk.live ->
         IF FreeSegs(h) = {} THEN Fault(h, "error")
         ELSE [AddrefAll(h, h.stk.elems[t]) EXCEPT
                 !.stk = Dup(h.stk, t, Fresh(h)),
                 !.lost = h.lost \ {Fresh(h)}]

(* u6a_vm_pool_alloc1, alloc2 and alloc2_ptr.                              *)
PoolAlloc(h, a, b, s) ==
  CASE h.fault # "" -> h
    [] h.fault = "" /\ ~HasRoom(h.pool) -> Fault(h, "error")
    [] h.fault = "" /\ HasRoom(h.pool) ->
         [h EXCEPT !.pool = Alloc(h.pool, a, b, s),
                   !.moved = h.moved \ {NewCell(h.pool)}]

-----------------------------------------------------------------------------
RECURSIVE FreeLoop(_, _), FreeSegments(_, _), FreeVals(_, _)

(* u6a_vm_pool_free's loop, with cell c next.                              *)
FreeLoop(h, c) ==
  LET zero == DropsToZero(h.pool, c)
      s    == h.pool.saved[c]
      h1   == [h EXCEPT !.pool = FreeCell(h.pool, c),
                        !.broken = IF zero /\ c \in h.moved
                                   THEN h.broken \cup {"stale"} ELSE h.broken]
      h2   == IF zero /\ s # NoSaved
              THEN IF s \in h.stk.live
                   THEN FreeSegments([h1 EXCEPT !.stk = SetRefcnt(h.stk, s, 1)], s)
                   ELSE Fault(h1, "wild")
              ELSE h1
  IN  IF h2.fault # "" \/ h2.pool.fstack = <<>> THEN h2
      ELSE FreeLoop([h2 EXCEPT !.pool.fstack = Shorter(h2.pool.fstack)],
                    Last1(h2.pool.fstack))

(* vm_var_fn_free and u6a_vm_pool_free.                                    *)
FreeVal(h, v) == IF h.fault # "" \/ v.ref = 0 THEN h
                 ELSE FreeLoop([h EXCEPT !.pool.fstack = <<>>], v.ref)

(* The values q of a segment, from the last one down.                      *)
FreeVals(h, q) == IF q = <<>> THEN h
                  ELSE FreeVals(FreeVal(h, Last1(q)), Shorter(q))

(* vm_stack_free's loop, with segment s next.                              *)
FreeSegments(h, s) ==
  IF s \notin h.stk.live THEN Fault(h, "wild")
  ELSE LET n  == h.stk.refcnt[s] - 1
           p  == h.stk.prev[s]
           h1 == [h EXCEPT !.stk = SetRefcnt(h.stk, s, n)]
           h2 == FreeVals(h1, h.stk.elems[s])
           h3 == [h2 EXCEPT !.stk = Release(h2.stk, s), !.lost = h2.lost \ {s}]
       IN  IF n # 0 THEN h1
           ELSE IF h2.fault # "" THEN h2
           ELSE IF s \notin h2.stk.live THEN Fault(h2, "wild")
           ELSE IF p = NULL THEN h3
           ELSE FreeSegments(h3, p)

(* STACK_POP: the value popped before is dropped first.                    *)
PopFreeing(h, old) == PopVal(FreeVal(h, old))
PoppedVal(h, old)  == TopVal(FreeVal(h, old))

ResumeContEarly(h, c) ==
  LET s  == h.pool.saved[c]
      h1 == [h EXCEPT !.stk = SetActive(SetRefcnt(h.stk, s, 1), s)]
  IN  IF s \in h.stk.live THEN FreeSegments(h1, s) ELSE Fault(h, "wild")

(* POOL_GET2_SEPARATE and u6a_vm_stack_resume of the continuation c.       *)
ResumeCont(h, c) ==
  LET shared == h.pool.refcnt[c] > 1
      s      == IF shared THEN Fresh(h) ELSE h.pool.saved[c]
      h1     == IF shared THEN DupSeg(h, h.pool.saved[c])
                ELSE [h EXCEPT !.moved = h.moved \cup {c}]
      a      == h1.stk.active
      h2     == FreeSegments([h1 EXCEPT !.stk = SetRefcnt(h1.stk, a, 1)], a)
  IN  IF h1.fault # "" THEN h1
      ELSE IF a \notin h1.stk.live THEN Fault(h1, "wild")
      ELSE IF h2.fault # "" THEN h2
      ELSE [h2 EXCEPT !.stk = SetActive(h2.stk, s)]

=============================================================================
