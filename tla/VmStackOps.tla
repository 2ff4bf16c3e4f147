----------------------------- MODULE VmStackOps -----------------------------
(***************************************************************************)
(* The operations of the segmented VM stack (vm_stack.h, vm_stack.c) as    *)
(* operators on one record, the part of the heap that holds segments:      *)
(*                                                                         *)
(*   live    the segments malloc returned and free did not take back       *)
(*   prev    the segment below, NULL for the bottom one                    *)
(*   elems   the values of a segment; top = Len(elems) - 1, so the empty   *)
(*           sequence is the code's top = UINT32_MAX                       *)
(*   refcnt  how many segments have this one as their prev; the code only  *)
(*           tests whether a count just decremented is 0, so an integer    *)
(*           below 0 stands for the unsigned one that wrapped around       *)
(*   active  ctx->active_stack                                             *)
(*                                                                         *)
(* Operators that allocate take the address malloc returned as a           *)
(* parameter.  The fields of a freed segment are cleared: nothing may read *)
(* them any more, and whoever does is caught by looking at live.           *)
(***************************************************************************)
EXTENDS Integers, Sequences, FiniteSets

CONSTANTS NULL,         (* the null segment pointer                        *)
          StackSegLen   (* ctx->stack_seg_len, values per segment          *)

(* The command line accepts 64 and more.  Pushes write up to four values   *)
(* at once and the exchange reaches two values down, so five is what the   *)
(* algorithm needs for a segment below another to hold at least two.       *)
ASSUME StackSegLenAssumption == StackSegLen \in Nat /\ StackSegLen >= 5

(* PoppedTwice, PushSplitUncounted and the like are mistakes one could     *)
(* make in the definition that follows them, to see which property would   *)
(* tell; no specification uses them, here or in the other modules.         *)

(* The sequence without its last value.                                    *)
PoppedTwice(q) == SubSeq(q, 1, Len(q) - 2)
Popped(q) == SubSeq(q, 1, Len(q) - 1)

(* The sequence with its last value, or the one below it, replaced.        *)
WithTop(q, v)    == [q EXCEPT ![Len(q)] = v]
WithSecond(q, v) == [q EXCEPT ![Len(q) - 1] = v]

(* A stack of one empty segment.                                           *)
NewStack(Segs, s) ==
  [live   |-> {s},
   prev   |-> [t \in Segs |-> NULL],
   elems  |-> [t \in Segs |-> <<>>],
   refcnt |-> [t \in Segs |-> 0],
   active |-> s]

ActiveElems(k) == k.elems[k.active]
Below(k)       == k.prev[k.active]

(* vs->top + n < ctx->stack_seg_len, with the wrap of top = UINT32_MAX.    *)
Fits(k, n) == Len(ActiveElems(k)) + n <= StackSegLen

PushIn(k, vs) == [k EXCEPT !.elems[k.active] = @ \o vs]

PushSplitUncounted(k, s, vs) ==
  [live   |-> k.live \cup {s},
   prev   |-> [k.prev EXCEPT ![s] = k.active],
   elems  |-> [k.elems EXCEPT ![s] = vs],
   refcnt |-> [k.refcnt EXCEPT ![s] = 0],
   active |-> s]

(* The values go to a new segment s; the slots left in the old one stay    *)
(* unused.                                                                 *)
PushSplit(k, s, vs) ==
  [live   |-> k.live \cup {s},
   prev   |-> [k.prev EXCEPT ![s] = k.active],
   elems  |-> [k.elems EXCEPT ![s] = vs],
   refcnt |-> [k.refcnt EXCEPT ![s] = 0, ![k.active] = @ + 1],
   active |-> s]

DupUncounted(k, t, s) ==
  [live   |-> k.live \cup {s},
   prev   |-> [k.prev EXCEPT ![s] = k.prev[t]],
   elems  |-> [k.elems EXCEPT ![s] = k.elems[t]],
   refcnt |-> [k.refcnt EXCEPT ![s] = 0],
   active |-> k.active]

(* A private copy s of segment t; both now lie on t's prev.                *)
Dup(k, t, s) ==
  [live   |-> k.live \cup {s},
   prev   |-> [k.prev EXCEPT ![s] = k.prev[t]],
   elems  |-> [k.elems EXCEPT ![s] = k.elems[t]],
   refcnt |-> [u \in DOMAIN k.refcnt |->
                 IF u = s THEN 0
                 ELSE IF u = k.prev[t] THEN k.refcnt[u] + 1
                 ELSE k.refcnt[u]],
   active |-> k.active]

(* free(t).                                                                *)
Release(k, t) ==
  [live   |-> k.live \ {t},
   prev   |-> [k.prev EXCEPT ![t] = NULL],
   elems  |-> [k.elems EXCEPT ![t] = <<>>],
   refcnt |-> [k.refcnt EXCEPT ![t] = 0],
   active |-> k.active]

SetRefcnt(k, t, n) == [k EXCEPT !.refcnt[t] = n]
SetActive(k, t)    == [k EXCEPT !.active = t]

(* u6a_vm_stack_top followed by u6a_vm_stack_pop, the only way the runtime *)
(* pops.  On an empty segment top() has already moved active_stack to the  *)
(* segment below, so pop() takes its fast path there: the segment left     *)
(* behind is not freed and the one below is neither uncounted nor copied.  *)
PopIn(k)    == [k EXCEPT !.elems[k.active] = Popped(@)]
PopCrossFar(k) == PopIn(SetActive(k, k.prev[Below(k)]))
PopCross(k) == PopIn(SetActive(k, Below(k)))

(* u6a_vm_stack_xch when both values are in the active segment.            *)
XchIn(k, v) == [k EXCEPT !.elems[k.active] = WithSecond(@, v)]

CopyBelowNever(k) == FALSE

(* --prev->refcnt > 0: another segment lies on the one below too.          *)
MustCopyBelow(k) == k.refcnt[Below(k)] # 1

(* u6a_vm_stack_xch_split_ with one value in the active segment: the value *)
(* to replace is the top one of the segment below.                         *)
XchBelow(k, v, d) ==
  LET p  == Below(k)
      q  == IF MustCopyBelow(k) THEN d ELSE p
      k1 == IF MustCopyBelow(k)
            THEN Dup(SetRefcnt(k, p, k.refcnt[p] - 1), p, d)
            ELSE SetRefcnt(k, p, k.refcnt[p] - 1)
  IN  [live   |-> k1.live,
       prev   |-> [k1.prev EXCEPT ![k.active] = q],
       elems  |-> [k1.elems EXCEPT ![q] = WithTop(@, v)],
       refcnt |-> [k1.refcnt EXCEPT ![q] = @ + 1],
       active |-> k.active]

XchDropKept(k, v, d) ==
  LET p  == Below(k)
      q  == IF MustCopyBelow(k) THEN d ELSE p
      k1 == SetRefcnt(k, p, k.refcnt[p] - 1)
      k2 == IF MustCopyBelow(k) THEN Dup(k1, p, d) ELSE k1
  IN  [k2 EXCEPT !.elems[q] = WithSecond(@, v), !.active = q]

(* u6a_vm_stack_xch_split_ with an empty active segment: it is freed and   *)
(* the exchange happens in the segment below.                              *)
XchDrop(k, v, d) ==
  LET p  == Below(k)
      q  == IF MustCopyBelow(k) THEN d ELSE p
      k1 == IF MustCopyBelow(k)
            THEN Dup(SetRefcnt(k, p, k.refcnt[p] - 1), p, d)
            ELSE SetRefcnt(k, p, k.refcnt[p] - 1)
      k2 == Release(k1, k.active)
  IN  [live   |-> k2.live,
       prev   |-> k2.prev,
       elems  |-> [k2.elems EXCEPT ![q] = WithSecond(@, v)],
       refcnt |-> k2.refcnt,
       active |-> q]

=============================================================================
