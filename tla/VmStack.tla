------------------------------ MODULE VmStack ------------------------------
(***************************************************************************)
(* The segmented stack driven by its one client, the interpreter loop:     *)
(* pushes, pops and exchanges on the active stack, saves of it into        *)
(* continuations, reinstatement and destruction of continuations, in any   *)
(* order the interpreter can produce.  malloc may fail at every call.      *)
(*                                                                         *)
(* vm_stack_free runs in two steps per segment while every other operation *)
(* waits, except the nested calls its own frees make.  The reference       *)
(* counts of the object pool, which the stack only moves up and down, are  *)
(* the net count owned[v] of the references to v that the stack holds; a   *)
(* value without the REF flag has no count and owned[v] is its number of   *)
(* copies.                                                                 *)
(***************************************************************************)
EXTENDS VmStackOps, Counting

CONSTANTS Seg,        (* the addresses of segments                         *)
          Value,      (* the values the interpreter pushes                 *)
          Pushes,     (* the sequences of values it pushes at once         *)
          MaxDepth,   (* bound: no push makes the stack deeper             *)
          MaxConts    (* bound: continuations saved at one time            *)

ASSUME SegAssumption == IsFiniteSet(Seg) /\ NULL \notin Seg
ASSUME PushesAssumption ==
         \A vs \in Pushes : vs \in Seq(Value) /\ Len(vs) \in 1..4

VARIABLES
  stk,      (* the segments, see VmStackOps                                *)
  conts,    (* segments saved in continuations (cells that hold a pointer) *)
  stale,    (* the segment a reinstated continuation's cell still points   *)
            (* to while the interpreter's top holds that cell, else NULL   *)
  uncount,  (* vs of the running vm_stack_free before --vs->refcnt, or NULL*)
  freeing,  (* the calls of vm_stack_free that are freeing their vs's      *)
            (* values, innermost last                                      *)
  owned,    (* references to pool cells held by the stack, per value       *)
  status,   (* "ok", "error" after longjmp, "wild" after undefined access  *)
  \* History variables, read by no guard but the bound of the pushes:
  content,  (* the stack each segment and those below it ought to hold     *)
  lost,     (* segments top() has walked away from                         *)
  broken    (* "crossed": top() has walked into a segment others lie on;   *)
            (* "stale": a stale cell has destroyed its stack               *)

vars == <<stk, conts, stale, uncount, freeing, owned, status,
          content, lost, broken>>

Quiet == status = "ok" /\ uncount = NULL
Ready == Quiet /\ freeing = <<>> /\ stk.active \in stk.live

(* STACK_POP drops the value it popped last before it reads the next one.  *)
ReadyToPop == Ready /\ stale = NULL

OwnedPlus(q)  == [v \in Value |-> owned[v] + Copies(v, q)]
OwnedMinusButFirst(q) ==
  [v \in Value |-> owned[v] - Copies(v, SubSeq(q, 2, Len(q)))]
OwnedMinus(q) == [v \in Value |-> owned[v] - Copies(v, q)]

(* One reference goes; or one comes and one goes.                          *)
Drop(o, v)    == [o EXCEPT ![v] = @ - 1]
Swap(o, v, w) == Drop([o EXCEPT ![v] = @ + 1], w)

(* The segments top() did not walk away from, and those that lie on s.     *)
InUse       == stk.live \ lost
Children(s) == {t \in InUse : stk.prev[t] = s}

Fail(outcome) ==
  /\ status' = outcome
  /\ UNCHANGED <<stk, conts, stale, uncount, freeing, owned, content, lost,
                 broken>>

-----------------------------------------------------------------------------

Init ==
  /\ \E s \in Seg : stk = NewStack(Seg, s)
  /\ conts = {}
  /\ stale = NULL
  /\ uncount = NULL
  /\ freeing = <<>>
  /\ owned = [v \in Value |-> 0]
  /\ status = "ok"
  /\ content = [s \in Seg |-> <<>>]
  /\ lost = {}
  /\ broken = {}

(* u6a_vm_stack_push1 .. push4.                                            *)
Push(vs) ==
  /\ Ready
  /\ Len(content[stk.active]) + Len(vs) <= MaxDepth
  /\ Fits(stk, Len(vs))
  /\ stk' = PushIn(stk, vs)
  /\ content' = [content EXCEPT ![stk.active] = @ \o vs]
  /\ owned' = OwnedPlus(vs)
  /\ UNCHANGED <<conts, stale, uncount, freeing, status, lost, broken>>

(* u6a_vm_stack_push1_split_ .. push4_split_.                              *)
PushNew(vs) ==
  /\ Ready
  /\ Len(content[stk.active]) + Len(vs) <= MaxDepth
  /\ ~Fits(stk, Len(vs))
  /\ \E s \in Seg \ stk.live :
       /\ stk' = PushSplit(stk, s, vs)
       /\ content' = [content EXCEPT ![s] = content[stk.active] \o vs]
  /\ owned' = OwnedPlus(vs)
  /\ UNCHANGED <<conts, stale, uncount, freeing, status, lost, broken>>

(* vm_stack_create got NULL: the old stack stays and the VM gives up.      *)
PushNewFails(vs) ==
  /\ Ready
  /\ ~Fits(stk, Len(vs))
  /\ Fail("error")

(* STACK_POP within the active segment.                                    *)
Pop ==
  /\ ReadyToPop
  /\ ActiveElems(stk) # <<>>
  /\ stk' = PopIn(stk)
  /\ content' = [content EXCEPT ![stk.active] = Popped(@)]
  /\ owned' = Drop(owned, ActiveElems(stk)[Len(ActiveElems(stk))])
  /\ UNCHANGED <<conts, stale, uncount, freeing, status, lost, broken>>

(* STACK_POP on an empty segment: top() moves to the segment below.        *)
PopBelow ==
  LET p == Below(stk)
  IN  /\ ReadyToPop
      /\ ActiveElems(stk) = <<>>
      /\ p \in stk.live
      /\ stk.elems[p] # <<>>
      /\ stk' = PopCross(stk)
      /\ content' = [content EXCEPT ![p] = Popped(@), ![stk.active] = <<>>]
      /\ owned' = Drop(owned, stk.elems[p][Len(stk.elems[p])])
      /\ lost' = lost \cup {stk.active}
      /\ broken' = IF Children(p) = {stk.active} THEN broken
                    ELSE broken \cup {"crossed"}
      /\ UNCHANGED <<conts, stale, uncount, freeing, status>>

(* top() finds no segment below: longjmp.                                  *)
PopUnderflow ==
  /\ ReadyToPop
  /\ ActiveElems(stk) = <<>>
  /\ Below(stk) = NULL
  /\ Fail("error")

(* top() reads elems[UINT32_MAX] of an empty segment or a freed segment.   *)
PopWild ==
  LET p == Below(stk)
  IN  /\ ReadyToPop
      /\ ActiveElems(stk) = <<>>
      /\ p # NULL
      /\ p \notin stk.live \/ stk.elems[p] = <<>>
      /\ Fail("wild")

(* u6a_vm_stack_xch within the active segment.                             *)
Xch(v) ==
  LET q == ActiveElems(stk)
  IN  /\ Ready
      /\ Len(q) >= 2
      /\ stk' = XchIn(stk, v)
      /\ content' = [content EXCEPT ![stk.active] = WithSecond(@, v)]
      /\ owned' = Swap(owned, v, q[Len(q) - 1])
      /\ UNCHANGED <<conts, stale, uncount, freeing, status, lost, broken>>

(* u6a_vm_stack_xch_split_ with top = 0.  Copying the segment below takes  *)
(* a reference to each of its values.                                      *)
XchAcross(v) ==
  LET p == Below(stk)
      q == stk.elems[p]
  IN  /\ Ready
      /\ Len(ActiveElems(stk)) = 1
      /\ p \in stk.live
      /\ q # <<>>
      /\ \E d \in Seg :
           /\ IF MustCopyBelow(stk) THEN d \notin stk.live ELSE d = p
           /\ stk' = XchBelow(stk, v, d)
           /\ content' = [content EXCEPT ![stk.active] = WithSecond(@, v),
                                         ![d] = WithTop(content[p], v)]
      /\ owned' = Swap(IF MustCopyBelow(stk) THEN OwnedPlus(q) ELSE owned,
                       v, q[Len(q)])
      /\ UNCHANGED <<conts, stale, uncount, freeing, status, lost, broken>>

(* u6a_vm_stack_xch_split_ with top = UINT32_MAX.                          *)
XchEmpty(v) ==
  LET p == Below(stk)
      q == stk.elems[p]
  IN  /\ Ready
      /\ ActiveElems(stk) = <<>>
      /\ p \in stk.live
      /\ Len(q) >= 2
      /\ \E d \in Seg :
           /\ IF MustCopyBelow(stk) THEN d \notin stk.live ELSE d = p
           /\ stk' = XchDrop(stk, v, d)
           /\ content' = [content EXCEPT ![stk.active] = <<>>,
                                         ![d] = WithSecond(content[p], v)]
      /\ owned' = Swap(IF MustCopyBelow(stk) THEN OwnedPlus(q) ELSE owned,
                       v, q[Len(q) - 1])
      /\ UNCHANGED <<conts, stale, uncount, freeing, status, lost, broken>>

(* The exchange finds no segment below, or cannot copy it.                 *)
XchFails ==
  /\ Ready
  /\ Len(ActiveElems(stk)) <= 1
  /\ \/ Below(stk) = NULL
     \/ Below(stk) \in stk.live /\ MustCopyBelow(stk)
  /\ Fail("error")

(* The exchange uses a freed segment, or one with too few values.          *)
XchWild ==
  LET p == Below(stk)
  IN  /\ Ready
      /\ Len(ActiveElems(stk)) <= 1
      /\ p # NULL
      /\ \/ p \notin stk.live
         \/ Len(stk.elems[p]) + Len(ActiveElems(stk)) < 2
      /\ Fail("wild")

(* u6a_vm_stack_save: the head segment is copied, the rest is shared.      *)
Save ==
  /\ Ready
  /\ Cardinality(conts) < MaxConts
  /\ \E s \in Seg \ stk.live :
       /\ stk' = Dup(stk, stk.active, s)
       /\ conts' = conts \cup {s}
       /\ content' = [content EXCEPT ![s] = content[stk.active]]
  /\ owned' = OwnedPlus(ActiveElems(stk))
  /\ UNCHANGED <<stale, uncount, freeing, status, lost, broken>>

SaveFails ==
  /\ Ready
  /\ Cardinality(conts) < MaxConts
  /\ Fail("error")

(* vm_stack_free(t): the count of the head is overwritten, whatever it is. *)
StartFree(k, t) ==
  /\ uncount' = t
  /\ stk' = SetRefcnt(k, t, 1)

(* u6a_vm_stack_discard, when the last reference to a continuation goes:   *)
(* dropped by the interpreter, or by the values another call of            *)
(* vm_stack_free is freeing.                                               *)
Discard(c) ==
  /\ Quiet
  /\ Ready \/ freeing # <<>>
  /\ StartFree(stk, c)
  /\ conts' = conts \ {c}
  /\ UNCHANGED <<stale, freeing, owned, status, content, lost, broken>>

(* u6a_vm_pool_get2_separate and u6a_vm_stack_resume of a continuation     *)
(* nobody else holds: the old stack goes, the saved segment itself becomes *)
(* active.  Its cell keeps the pointer.  When the interpreter popped the   *)
(* continuation, its top owns the cell and drops it at the next pop; when  *)
(* the continuation was the accumulator, the cell is never dropped.        *)
ResumeMove(c) ==
  /\ Ready
  /\ StartFree(SetActive(stk, c), stk.active)
  /\ conts' = conts \ {c}
  /\ \/ stale = NULL /\ stale' = c
     \/ UNCHANGED stale
  /\ UNCHANGED <<freeing, owned, status, content, lost, broken>>

(* STACK_POP drops the cell of a reinstated continuation: its stack, now   *)
(* the active one, is discarded.                                           *)
DropStale ==
  /\ Ready
  /\ stale # NULL
  /\ StartFree(stk, stale)
  /\ stale' = NULL
  /\ broken' = broken \cup {"stale"}
  /\ UNCHANGED <<conts, freeing, owned, status, content, lost>>

(* u6a_vm_pool_get2_separate: a continuation with other holders is copied  *)
(* and the copy is reinstated.                                             *)
ResumeCopy(c) ==
  /\ Ready
  /\ c \in stk.live
  /\ \E s \in Seg \ stk.live :
       /\ StartFree(SetActive(Dup(stk, c, s), s), stk.active)
       /\ content' = [content EXCEPT ![s] = content[c]]
  /\ owned' = OwnedPlus(stk.elems[c])
  /\ UNCHANGED <<conts, stale, freeing, status, lost, broken>>

ResumeWild(c) ==
  /\ Ready
  /\ c \notin stk.live
  /\ Fail("wild")

(* vm_stack_free's loop: uncount a segment.  At 0 its values are freed,    *)
(* which may call u6a_vm_stack_discard again, otherwise the call returns.  *)
FreeUncount ==
  /\ status = "ok"
  /\ uncount \in stk.live
  /\ stk' = SetRefcnt(stk, uncount, stk.refcnt[uncount] - 1)
  /\ freeing' = IF stk.refcnt[uncount] = 1 THEN Append(freeing, uncount)
                                           ELSE freeing
  /\ uncount' = NULL
  /\ UNCHANGED <<conts, stale, owned, status, content, lost, broken>>

(* The values are freed: free the segment, go on with the one below.       *)
FreeSegment ==
  LET s == freeing[Len(freeing)]
  IN  /\ Quiet
      /\ freeing # <<>>
      /\ s \in stk.live
      /\ owned' = OwnedMinus(stk.elems[s])
      /\ freeing' = Popped(freeing)
      /\ uncount' = stk.prev[s]
      /\ stk' = Release(stk, s)
      /\ content' = [content EXCEPT ![s] = <<>>]
      /\ UNCHANGED <<conts, stale, status, lost, broken>>

(* vm_stack_free reaches a segment that is free already.                   *)
FreeWild ==
  /\ status = "ok"
  /\ \/ uncount # NULL /\ uncount \notin stk.live
     \/ /\ uncount = NULL
        /\ freeing # <<>>
        /\ freeing[Len(freeing)] \notin stk.live
  /\ Fail("wild")

(* Any operation on an active segment that is free.                        *)
ActiveWild ==
  /\ Quiet
  /\ freeing = <<>>
  /\ stk.active \notin stk.live
  /\ Fail("wild")

-----------------------------------------------------------------------------

Next ==
  \/ \E vs \in Pushes : Push(vs) \/ PushNew(vs) \/ PushNewFails(vs)
  \/ Pop \/ PopBelow \/ PopUnderflow \/ PopWild
  \/ \E v \in Value : Xch(v) \/ XchAcross(v) \/ XchEmpty(v)
  \/ XchFails \/ XchWild
  \/ Save \/ SaveFails
  \/ \E c \in conts :
       Discard(c) \/ ResumeMove(c) \/ ResumeCopy(c) \/ ResumeWild(c)
  \/ DropStale
  \/ FreeUncount \/ FreeSegment \/ FreeWild \/ ActiveWild

Spec == Init /\ [][Next]_vars

-----------------------------------------------------------------------------
(* What the segments ought to be.                                          *)

Heads     == {stk.active} \cup conts
FreeCalls == {freeing[i] : i \in DOMAIN freeing}
Sound     == status = "ok" /\ broken = {}

(* What the segments ought to hold, one on top of the other.               *)
BelowContent(s) == IF stk.prev[s] = NULL THEN <<>> ELSE content[stk.prev[s]]
Chained(s)      == content[s] = BelowContent(s) \o stk.elems[s]

(* The references to s that its refcnt ought to count.                     *)
References(s) == Cardinality(Children(s)) + (IF uncount = s THEN 1 ELSE 0)

(* Every segment of vm_stack.c keeps its shape: prev is a segment or NULL, *)
(* its elements are values, and the active stack is never NULL.            *)
TypeOK ==
  /\ stk \in [live : SUBSET Seg, prev : [Seg -> Seg \cup {NULL}],
              elems : [Seg -> Seq(Value)], refcnt : [Seg -> Int],
              active : Seg]
  /\ conts \subseteq Seg
  /\ stale \in Seg \cup {NULL}
  /\ uncount \in Seg \cup {NULL}
  /\ freeing \in Seq(Seg)
  /\ owned \in [Value -> Int]
  /\ status \in {"ok", "error", "wild"}
  /\ content \in [Seg -> Seq(Value)]
  /\ lost \subseteq Seg
  /\ broken \subseteq {"crossed", "stale"}

(* The values found by walking from a segment to the bottom are the ones   *)
(* that were pushed and not popped on the way to it, whatever was shared,  *)
(* copied or written in place in between: for the active stack and for     *)
(* every saved one.                                                        *)
Represents == Sound => \A s \in InUse : Chained(s)

(* A segment's refcnt is the number of segments lying on it, counting the  *)
(* reference vm_stack_free is about to drop; top() leaves references       *)
(* behind, which can only make it larger.                                  *)
CountsExact ==
  Sound => \A s \in InUse : /\ stk.refcnt[s] >= References(s)
                            /\ lost = {} => stk.refcnt[s] = References(s)

(* Every reference to a pool cell that the stack took is held by exactly   *)
(* one slot of a segment that is not freed: none is dropped twice, none    *)
(* is forgotten, whatever went wrong with the segments themselves.         *)
OwnedExact ==
  \A v \in Value : owned[v] = Cardinality(Places(v, stk.live, stk.elems))

(* Until top() walks away from a segment, every segment that is not freed  *)
(* is a head, lies below another one, or is being freed.                   *)
NoLeak ==
  Sound /\ lost = {} =>
    \A s \in stk.live : s \in Heads \cup FreeCalls \cup {uncount}
                        \/ Children(s) # {}

(* No operation touches a freed segment, or a value below the bottom of a  *)
(* segment, unless one of the two defects came first.                      *)
WildOnlyIfBroken == status = "wild" => broken # {}

(* The inductive invariant behind the properties above.                    *)

(* Nothing lies on the active segment or on a saved one.                   *)
HeadsOK == /\ stk.active \in InUse \ conts
           /\ conts \subseteq InUse
           /\ \A h \in Heads : Children(h) = {}

(* A segment below another one is in use, and top() and the exchange find  *)
(* the values they look for there.                                         *)
LinksOK == \A s \in InUse : stk.prev[s] # NULL =>
             stk.prev[s] \in InUse /\ Len(stk.elems[stk.prev[s]]) >= 2

CountsOK == \A s \in InUse : /\ stk.refcnt[s] >= References(s)
                             /\ lost = {} => stk.refcnt[s] = References(s)

(* What vm_stack_free works on is nobody's head, and no two of its calls   *)
(* work on the same segment.                                               *)
FreeOK ==
  /\ uncount # NULL => uncount \in InUse \ Heads
  /\ \A i \in DOMAIN freeing :
       /\ freeing[i] \in InUse \ Heads
       /\ freeing[i] # uncount
       /\ Children(freeing[i]) = {}
       /\ \A j \in DOMAIN freeing : freeing[i] = freeing[j] => i = j

LeakOK == lost = {} =>
            \A s \in InUse : s \in Heads \cup FreeCalls \cup {uncount}
                            \/ Children(s) # {}

ChainsOK == \A s \in InUse : Chained(s)

SegmentsOK == /\ lost \subseteq stk.live
              /\ HeadsOK /\ LinksOK /\ CountsOK /\ FreeOK /\ LeakOK /\ ChainsOK

StackInv == broken = {} => status # "wild" /\ SegmentsOK

-----------------------------------------------------------------------------

(* The interpreter sees one stack, and saved stacks that never change.     *)
Abs == INSTANCE AbsStack WITH stack  <- content[stk.active],
                              snap   <- [c \in conts |-> content[c]],
                              Handle <- Seg

(* Each operation of the segmented stack is the operation of the plain one *)
(* or leaves it as it was.                                                 *)
ImplementsAbs ==
  [][Sound /\ Sound' => Abs!Next]_<<content[stk.active],
                                   [c \in conts |-> content[c]]>>

(* The same for every execution, whatever happened before: a continuation  *)
(* can be reinstated as it was saved.                                      *)
ContinuationsWork == status = "ok" => \A c \in conts : Chained(c)

(* The active stack is never given back to malloc.                         *)
ActiveIsLive == Quiet /\ freeing = <<>> => stk.active \in stk.live

=============================================================================
