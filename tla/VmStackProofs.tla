--------------------------- MODULE VmStackProofs ---------------------------
(***************************************************************************)
(* Proofs about VmStack, for every number of segments, every segment       *)
(* length the command line accepts and every set of values.                *)
(***************************************************************************)
EXTENDS VmStack, CountingFacts

(* The record of segments.                                                 *)
StackRec == [live : SUBSET Seg, prev : [Seg -> Seg \cup {NULL}],
             elems : [Seg -> Seq(Value)], refcnt : [Seg -> Int],
             active : Seg]

-----------------------------------------------------------------------------
(* The helpers on sequences.                                               *)

(* Dropping the last value of a sequence yields a sequence.                *)
LEMMA PoppedType ==
  ASSUME NEW S, NEW q \in Seq(S)
  PROVE  Popped(q) \in Seq(S)
<1>1. CASE q = <<>>
  BY <1>1 DEF Popped
<1>2. CASE q # <<>>
  BY <1>2 DEF Popped
<1> QED BY <1>1, <1>2

(* So does replacing one of the two last.                                  *)
LEMMA SeqTypes ==
  ASSUME NEW S, NEW q \in Seq(S), NEW v \in S
  PROVE  WithTop(q, v) \in Seq(S) /\ WithSecond(q, v) \in Seq(S)
<1>2. ASSUME NEW i \in Int
      PROVE  [q EXCEPT ![i] = v] \in Seq(S)
  <2>1. CASE i \in 1..Len(q)
    BY <2>1, ExceptSeq
  <2>2. CASE i \notin 1..Len(q)
    <3>1. DOMAIN q = 1..Len(q)
      OBVIOUS
    <3>2. [q EXCEPT ![i] = v] = q
      BY <2>2, <3>1
    <3> QED BY <3>2
  <2> QED BY <2>1, <2>2
<1>3. Len(q) \in Int /\ Len(q) - 1 \in Int
  OBVIOUS
<1>4. WithTop(q, v) \in Seq(S) /\ WithSecond(q, v) \in Seq(S)
  BY <1>2, <1>3 DEF WithTop, WithSecond
<1> QED BY <1>4

(* The empty sequence is a sequence of anything.                           *)
LEMMA EmptyIsSeq ==
  \A S : <<>> \in Seq(S)
OBVIOUS

-----------------------------------------------------------------------------
(* The operations on the record of segments keep its type.                 *)

(* Pushing values, in place or to a new segment, keeps the record's type.  *)
LEMMA OpTypes ==
  ASSUME NEW k \in StackRec, NEW s \in Seg, NEW vs \in Seq(Value)
  PROVE  /\ PushIn(k, vs) \in StackRec
         /\ PushSplit(k, s, vs) \in StackRec
<1>1. PushIn(k, vs) \in StackRec
  <2>1. k.elems[k.active] \o vs \in Seq(Value)
    BY ConcatProperties DEF StackRec
  <2> QED BY <2>1 DEF PushIn, StackRec
<1>2. PushSplit(k, s, vs) \in StackRec
  BY DEF PushSplit, StackRec
<1> QED BY <1>1, <1>2

(* Copying and freeing a segment, setting its refcnt and changing          *)
(* active_stack keep the record's type.                                    *)
LEMMA SegTypes ==
  ASSUME NEW k \in StackRec, NEW s \in Seg, NEW t \in Seg, NEW n \in Int
  PROVE  /\ Dup(k, t, s) \in StackRec
         /\ Release(k, t) \in StackRec
         /\ SetRefcnt(k, t, n) \in StackRec
         /\ SetActive(k, t) \in StackRec
<1>3. Dup(k, t, s) \in StackRec
  BY DEF Dup, StackRec
<1>4. Release(k, t) \in StackRec
  BY DEF Release, StackRec
<1>5. SetRefcnt(k, t, n) \in StackRec
  BY DEF SetRefcnt, StackRec
<1>6. SetActive(k, t) \in StackRec
  BY DEF SetActive, StackRec
<1> QED BY <1>3, <1>4, <1>5, <1>6

(* Popping, with or without top() crossing to the segment below, and       *)
(* exchanging in place keep the record's type.                             *)
LEMMA PopTypes ==
  ASSUME NEW k \in StackRec
  PROVE  /\ PopIn(k) \in StackRec
         /\ \A t \in Seg : PopIn(SetActive(k, t)) \in StackRec
         /\ \A v \in Value : XchIn(k, v) \in StackRec
<1>7. ASSUME NEW r \in StackRec PROVE PopIn(r) \in StackRec
  <2>1. Popped(r.elems[r.active]) \in Seq(Value)
    BY PoppedType DEF StackRec
  <2> QED BY <2>1 DEF PopIn, StackRec
<1>8. ASSUME NEW v \in Value PROVE XchIn(k, v) \in StackRec
  <2>1. WithSecond(k.elems[k.active], v) \in Seq(Value)
    BY SeqTypes DEF StackRec
  <2> QED BY <2>1 DEF XchIn, StackRec
<1>9. \A t \in Seg : SetActive(k, t) \in StackRec
  BY SegTypes
<1> QED BY <1>7, <1>8, <1>9

(* So do the exchanges that reach the segment below.                       *)
LEMMA XchTypes ==
  ASSUME NEW k \in StackRec, NEW v \in Value, NEW d \in Seg,
         Below(k) \in Seg
  PROVE  XchBelow(k, v, d) \in StackRec /\ XchDrop(k, v, d) \in StackRec
<1> DEFINE p  == Below(k)
           q  == IF MustCopyBelow(k) THEN d ELSE p
           k0 == SetRefcnt(k, p, k.refcnt[p] - 1)
           k1 == IF MustCopyBelow(k) THEN Dup(k0, p, d) ELSE k0
           k2 == Release(k1, k.active)
<1>1. k.refcnt[p] - 1 \in Int /\ q \in Seg /\ p \in Seg /\ k.active \in Seg
  BY DEF StackRec
<1>2. k0 \in StackRec
  BY <1>1, SegTypes
<1>3. k1 \in StackRec
  BY <1>1, <1>2, SegTypes
<1>4. k2 \in StackRec
  BY <1>1, <1>3, SegTypes
<1>5. /\ WithTop(k1.elems[q], v) \in Seq(Value)
      /\ WithSecond(k2.elems[q], v) \in Seq(Value)
  BY <1>1, <1>3, <1>4, SeqTypes DEF StackRec
<1>6. XchBelow(k, v, d) =
        [live   |-> k1.live,
         prev   |-> [k1.prev EXCEPT ![k.active] = q],
         elems  |-> [k1.elems EXCEPT ![q] = WithTop(k1.elems[q], v)],
         refcnt |-> [k1.refcnt EXCEPT ![q] = k1.refcnt[q] + 1],
         active |-> k.active]
  BY DEF XchBelow
<1>7. XchDrop(k, v, d) =
        [live   |-> k2.live,
         prev   |-> k2.prev,
         elems  |-> [k2.elems EXCEPT ![q] = WithSecond(k2.elems[q], v)],
         refcnt |-> k2.refcnt,
         active |-> q]
  BY DEF XchDrop
<1>a. ASSUME NEW r \in StackRec, NEW t \in Seg, NEW a \in Seg,
             NEW e \in Seq(Value)
      PROVE  /\ [live   |-> r.live,
                 prev   |-> [r.prev EXCEPT ![a] = t],
                 elems  |-> [r.elems EXCEPT ![t] = e],
                 refcnt |-> [r.refcnt EXCEPT ![t] = r.refcnt[t] + 1],
                 active |-> a] \in StackRec
             /\ [live   |-> r.live,
                 prev   |-> r.prev,
                 elems  |-> [r.elems EXCEPT ![t] = e],
                 refcnt |-> r.refcnt,
                 active |-> t] \in StackRec
  <2>1. /\ r.prev \in [Seg -> Seg \cup {NULL}]
        /\ r.elems \in [Seg -> Seq(Value)]
        /\ r.refcnt \in [Seg -> Int]
        /\ r.live \in SUBSET Seg
    BY DEF StackRec
  <2>2. /\ [r.prev EXCEPT ![a] = t] \in [Seg -> Seg \cup {NULL}]
        /\ [r.elems EXCEPT ![t] = e] \in [Seg -> Seq(Value)]
        /\ [r.refcnt EXCEPT ![t] = r.refcnt[t] + 1] \in [Seg -> Int]
    BY <2>1
  <2> QED BY <2>1, <2>2 DEF StackRec
<1> HIDE DEF q, k1, k2
<1>8. XchBelow(k, v, d) \in StackRec
  <2>1. \A e \in Seq(Value) :
          [live   |-> k1.live,
           prev   |-> [k1.prev EXCEPT ![k.active] = q],
           elems  |-> [k1.elems EXCEPT ![q] = e],
           refcnt |-> [k1.refcnt EXCEPT ![q] = k1.refcnt[q] + 1],
           active |-> k.active] \in StackRec
    BY <1>1, <1>3, <1>a
  <2> QED BY <1>5, <1>6, <2>1, Zenon
<1>9. XchDrop(k, v, d) \in StackRec
  <2>1. \A e \in Seq(Value) :
          [live   |-> k2.live,
           prev   |-> k2.prev,
           elems  |-> [k2.elems EXCEPT ![q] = e],
           refcnt |-> k2.refcnt,
           active |-> q] \in StackRec
    BY <1>1, <1>4, <1>a
  <2> QED BY <1>5, <1>7, <2>1, Zenon
<1> QED BY <1>8, <1>9

-----------------------------------------------------------------------------
(* Type correctness.                                                       *)

(* Moving references in and out of the stack keeps the counts integers.    *)
LEMMA SwapType ==
  ASSUME NEW o \in [Value -> Int], NEW v \in Value, NEW w \in Value
  PROVE  Drop(o, w) \in [Value -> Int] /\ Swap(o, v, w) \in [Value -> Int]
BY DEF Drop, Swap

(* Counting the references of pushed, copied or freed values keeps the     *)
(* counts integers.                                                        *)
LEMMA OwnedTypes ==
  ASSUME owned \in [Value -> Int], NEW q \in Seq(Value)
  PROVE  /\ OwnedPlus(q) \in [Value -> Int]
         /\ OwnedMinus(q) \in [Value -> Int]
<1>1. \A v \in Value : Copies(v, q) \in Int
  BY CopiesType
<1> QED BY <1>1 DEF OwnedPlus, OwnedMinus

(* Init and every step of the stack keep the type invariant.               *)
LEMMA TypeInit == Init => TypeOK
<1> SUFFICES ASSUME Init PROVE TypeOK
  OBVIOUS
<1>1. PICK s \in Seg : stk = NewStack(Seg, s)
  BY DEF Init
<1>2. stk \in [live : SUBSET Seg, prev : [Seg -> Seg \cup {NULL}],
               elems : [Seg -> Seq(Value)], refcnt : [Seg -> Int],
               active : Seg]
  BY <1>1, EmptyIsSeq DEF NewStack
<1> QED BY <1>2, EmptyIsSeq DEF Init, TypeOK

(* Every operation of vm_stack.c and every failure of one keeps the type   *)
(* invariant.                                                              *)
LEMMA TypeStep == TypeOK /\ [Next]_vars => TypeOK'
<1> SUFFICES ASSUME TypeOK, [Next]_vars PROVE TypeOK'
  OBVIOUS
<1> USE DEF TypeOK
<1>t. stk \in StackRec /\ stk.active \in Seg /\ stk.live \subseteq Seg
  BY DEF StackRec
<1>e. \A s \in Seg : /\ stk.elems[s] \in Seq(Value)
                     /\ content[s] \in Seq(Value)
                     /\ stk.refcnt[s] \in Int
                     /\ stk.prev[s] \in Seg \cup {NULL}
  OBVIOUS
<1>p. ASSUME NEW q \in Seq(Value), q # <<>>
      PROVE  q[Len(q)] \in Value
  BY <1>p
<1>f. ASSUME NEW o \in {"error", "wild"}, Fail(o) PROVE TypeOK'
  BY <1>f DEF Fail
<1>1. ASSUME NEW vs \in Pushes, Push(vs) PROVE TypeOK'
  <2>1. vs \in Seq(Value)
    BY PushesAssumption
  <2>2. stk' \in StackRec
    BY <1>1, <1>t, <2>1, OpTypes DEF Push
  <2>3. content' \in [Seg -> Seq(Value)]
    BY <1>1, <1>t, <1>e, <2>1 DEF Push
  <2>4. owned' \in [Value -> Int]
    BY <1>1, <2>1, OwnedTypes DEF Push
  <2> QED BY <1>1, <2>2, <2>3, <2>4 DEF Push, StackRec
<1>2. ASSUME NEW vs \in Pushes, PushNew(vs) PROVE TypeOK'
  <2>1. vs \in Seq(Value)
    BY PushesAssumption
  <2>2. stk' \in StackRec
    BY <1>2, <1>t, <2>1, OpTypes DEF PushNew
  <2>3. content' \in [Seg -> Seq(Value)]
    BY <1>2, <1>t, <1>e, <2>1 DEF PushNew
  <2>4. owned' \in [Value -> Int]
    BY <1>2, <2>1, OwnedTypes DEF PushNew
  <2> QED BY <1>2, <2>2, <2>3, <2>4 DEF PushNew, StackRec
<1>3. ASSUME NEW vs \in Pushes, PushNewFails(vs) PROVE TypeOK'
  BY <1>3, <1>f DEF PushNewFails
<1>4. CASE Pop
  <2>2. stk' \in StackRec
    BY <1>4, <1>t, PopTypes DEF Pop
  <2>3. content' \in [Seg -> Seq(Value)]
    <3>1. Popped(content[stk.active]) \in Seq(Value)
      BY <1>t, <1>e, PoppedType
    <3> QED BY <1>4, <1>t, <3>1 DEF Pop
  <2>4. owned' \in [Value -> Int]
    <3>1. ActiveElems(stk)[Len(ActiveElems(stk))] \in Value
      BY <1>4, <1>t, <1>e, <1>p DEF Pop, ActiveElems
    <3> QED BY <1>4, <3>1, SwapType DEF Pop
  <2> QED BY <1>4, <2>2, <2>3, <2>4 DEF Pop, StackRec
<1>5. CASE PopBelow
  <2> DEFINE p == Below(stk)
  <2>1. p \in Seg
    BY <1>5, <1>t DEF PopBelow
  <2>2. stk' \in StackRec
    BY <1>5, <1>t, <2>1, PopTypes DEF PopBelow, PopCross
  <2>3. content' \in [Seg -> Seq(Value)]
    <3>1. Popped(content[p]) \in Seq(Value)
      BY <2>1, <1>e, PoppedType
    <3> QED BY <1>5, <1>t, <2>1, <3>1, EmptyIsSeq DEF PopBelow
  <2>4. owned' \in [Value -> Int]
    <3>1. stk.elems[p][Len(stk.elems[p])] \in Value
      BY <1>5, <2>1, <1>e, <1>p DEF PopBelow
    <3> QED BY <1>5, <3>1, SwapType DEF PopBelow
  <2>5. lost' \subseteq Seg /\ broken' \subseteq {"crossed", "stale"}
    BY <1>5, <1>t DEF PopBelow
  <2> QED BY <1>5, <2>2, <2>3, <2>4, <2>5 DEF PopBelow, StackRec
<1>6. CASE PopUnderflow \/ PopWild
  BY <1>6, <1>f DEF PopUnderflow, PopWild
<1>7. ASSUME NEW v \in Value, Xch(v) PROVE TypeOK'
  <2> DEFINE q == ActiveElems(stk)
  <2>1. q \in Seq(Value) /\ Len(q) - 1 \in 1..Len(q)
    BY <1>7, <1>t, <1>e DEF Xch, ActiveElems
  <2>2. stk' \in StackRec
    BY <1>7, <1>t, PopTypes DEF Xch
  <2>3. content' \in [Seg -> Seq(Value)]
    <3>1. WithSecond(content[stk.active], v) \in Seq(Value)
      BY <1>t, <1>e, SeqTypes
    <3> QED BY <1>7, <1>t, <3>1 DEF Xch
  <2>4. owned' \in [Value -> Int]
    <3>1. q[Len(q) - 1] \in Value
      BY <2>1
    <3> QED BY <1>7, <3>1, SwapType DEF Xch
  <2> QED BY <1>7, <2>2, <2>3, <2>4 DEF Xch, StackRec
<1>8. ASSUME NEW v \in Value, XchAcross(v) PROVE TypeOK'
  <2> DEFINE p == Below(stk)
             q == stk.elems[p]
  <2>1. p \in Seg /\ q \in Seq(Value) /\ q # <<>>
    BY <1>8, <1>t, <1>e DEF XchAcross
  <2>2. PICK d \in Seg :
          /\ stk' = XchBelow(stk, v, d)
          /\ content' = [content EXCEPT ![stk.active] = WithSecond(@, v),
                                        ![d] = WithTop(content[p], v)]
    BY <1>8 DEF XchAcross
  <2>3. stk' \in StackRec
    BY <1>t, <2>1, <2>2, XchTypes
  <2>4. content' \in [Seg -> Seq(Value)]
    <3>1. /\ WithSecond(content[stk.active], v) \in Seq(Value)
          /\ WithTop(content[p], v) \in Seq(Value)
      BY <1>t, <1>e, <2>1, SeqTypes
    <3> QED BY <1>t, <2>2, <3>1
  <2>5. owned' \in [Value -> Int]
    <3> DEFINE base == IF MustCopyBelow(stk) THEN OwnedPlus(q) ELSE owned
    <3>1. q[Len(q)] \in Value
      BY <2>1, <1>p
    <3>2. base \in [Value -> Int]
      BY <2>1, OwnedTypes
    <3>3. owned' = Swap(base, v, q[Len(q)])
      BY <1>8 DEF XchAcross
    <3> HIDE DEF base
    <3> QED BY <3>1, <3>2, <3>3, SwapType
  <2> QED BY <1>8, <2>3, <2>4, <2>5 DEF XchAcross, StackRec
<1>9. ASSUME NEW v \in Value, XchEmpty(v) PROVE TypeOK'
  <2> DEFINE p == Below(stk)
             q == stk.elems[p]
  <2>1. p \in Seg /\ q \in Seq(Value) /\ Len(q) - 1 \in 1..Len(q)
    BY <1>9, <1>t, <1>e DEF XchEmpty
  <2>2. PICK d \in Seg :
          /\ stk' = XchDrop(stk, v, d)
          /\ content' = [content EXCEPT ![stk.active] = <<>>,
                                        ![d] = WithSecond(content[p], v)]
    BY <1>9 DEF XchEmpty
  <2>3. stk' \in StackRec
    BY <1>t, <2>1, <2>2, XchTypes
  <2>4. content' \in [Seg -> Seq(Value)]
    <3>1. WithSecond(content[p], v) \in Seq(Value)
      BY <1>e, <2>1, SeqTypes
    <3> QED BY <1>t, <2>2, <3>1, EmptyIsSeq
  <2>5. owned' \in [Value -> Int]
    <3> DEFINE base == IF MustCopyBelow(stk) THEN OwnedPlus(q) ELSE owned
    <3>1. q[Len(q) - 1] \in Value
      BY <2>1
    <3>2. base \in [Value -> Int]
      BY <2>1, OwnedTypes
    <3>3. owned' = Swap(base, v, q[Len(q) - 1])
      BY <1>9 DEF XchEmpty
    <3> HIDE DEF base
    <3> QED BY <3>1, <3>2, <3>3, SwapType
  <2> QED BY <1>9, <2>3, <2>4, <2>5 DEF XchEmpty, StackRec
<1>10. CASE XchFails \/ XchWild \/ SaveFails
  BY <1>10, <1>f DEF XchFails, XchWild, SaveFails
<1>11. CASE Save
  <2>1. PICK s \in Seg : /\ stk' = Dup(stk, stk.active, s)
                         /\ conts' = conts \cup {s}
                         /\ content' = [content EXCEPT ![s] = content[stk.active]]
    BY <1>11 DEF Save
  <2>2. stk' \in StackRec
    BY <1>t, <2>1, SegTypes
  <2>3. content' \in [Seg -> Seq(Value)] /\ conts' \subseteq Seg
    BY <1>t, <2>1
  <2>4. owned' \in [Value -> Int]
    BY <1>11, <1>t, <1>e, OwnedTypes DEF Save, ActiveElems
  <2> QED BY <1>11, <2>2, <2>3, <2>4 DEF Save, StackRec
<1>12. ASSUME NEW k \in StackRec, NEW s \in Seg, StartFree(k, s)
       PROVE  stk' \in StackRec /\ uncount' \in Seg \cup {NULL}
  BY <1>12, SegTypes DEF StartFree
<1>13. ASSUME NEW c \in conts, Discard(c) PROVE TypeOK'
  <2>1. stk' \in StackRec /\ uncount' \in Seg \cup {NULL}
    BY <1>13, <1>12, <1>t DEF Discard
  <2> QED BY <1>13, <2>1 DEF Discard, StackRec
<1>14. ASSUME NEW c \in conts, ResumeMove(c) PROVE TypeOK'
  <2>1. SetActive(stk, c) \in StackRec
    BY <1>t, SegTypes
  <2>2. stk' \in StackRec /\ uncount' \in Seg \cup {NULL}
    BY <1>14, <1>12, <1>t, <2>1 DEF ResumeMove
  <2> QED BY <1>14, <2>2 DEF ResumeMove, StackRec
<1>15. ASSUME NEW c \in conts, ResumeCopy(c) PROVE TypeOK'
  <2>1. PICK s \in Seg :
          /\ StartFree(SetActive(Dup(stk, c, s), s), stk.active)
          /\ content' = [content EXCEPT ![s] = content[c]]
    BY <1>15 DEF ResumeCopy
  <2>2. Dup(stk, c, s) \in StackRec
    BY <1>t, SegTypes
  <2>3. SetActive(Dup(stk, c, s), s) \in StackRec
    BY <2>2, SegTypes
  <2>4. stk' \in StackRec /\ uncount' \in Seg \cup {NULL}
    BY <1>12, <1>t, <2>1, <2>3
  <2>5. content' \in [Seg -> Seq(Value)]
    BY <1>e, <2>1
  <2>6. owned' \in [Value -> Int]
    BY <1>15, <1>e, OwnedTypes DEF ResumeCopy
  <2> QED BY <1>15, <2>4, <2>5, <2>6 DEF ResumeCopy, StackRec
<1>16. ASSUME NEW c \in conts, ResumeWild(c) PROVE TypeOK'
  BY <1>16, <1>f DEF ResumeWild
<1>17. CASE DropStale
  <2>1. stale \in Seg
    BY <1>17 DEF DropStale
  <2>2. stk' \in StackRec /\ uncount' \in Seg \cup {NULL}
    BY <1>17, <1>12, <1>t, <2>1 DEF DropStale
  <2> QED BY <1>17, <2>2 DEF DropStale, StackRec
<1>18. CASE FreeUncount
  <2>1. uncount \in Seg /\ stk.refcnt[uncount] - 1 \in Int
    BY <1>18, <1>t, <1>e DEF FreeUncount
  <2>2. stk' \in StackRec
    BY <1>18, <1>t, <2>1, SegTypes DEF FreeUncount
  <2>3. freeing' \in Seq(Seg)
    BY <1>18, <2>1, AppendProperties DEF FreeUncount
  <2> QED BY <1>18, <2>2, <2>3 DEF FreeUncount, StackRec
<1>19. CASE FreeSegment
  <2> DEFINE s == freeing[Len(freeing)]
  <2>1. s \in Seg
    BY <1>19, <1>t DEF FreeSegment
  <2>2. stk' \in StackRec
    BY <1>19, <1>t, <2>1, SegTypes DEF FreeSegment
  <2>3. freeing' \in Seq(Seg)
    BY <1>19, PoppedType DEF FreeSegment
  <2>4. owned' \in [Value -> Int]
    BY <1>19, <1>e, <2>1, OwnedTypes DEF FreeSegment
  <2>5. content' \in [Seg -> Seq(Value)]
    BY <1>19, <2>1, EmptyIsSeq DEF FreeSegment
  <2> QED BY <1>19, <1>e, <2>1, <2>2, <2>3, <2>4, <2>5 DEF FreeSegment, StackRec
<1>20. CASE FreeWild \/ ActiveWild
  BY <1>20, <1>f DEF FreeWild, ActiveWild
<1>21. CASE UNCHANGED vars
  BY <1>21 DEF vars
<1> QED
  BY <1>1, <1>2, <1>3, <1>4, <1>5, <1>6, <1>7, <1>8, <1>9, <1>10, <1>11,
     <1>13, <1>14, <1>15, <1>16, <1>17, <1>18, <1>19, <1>20, <1>21 DEF Next

(* Every reachable state of the segmented stack is well typed.             *)
THEOREM TypeCorrect == Spec => []TypeOK
BY TypeInit, TypeStep, PTL DEF Spec

-----------------------------------------------------------------------------
(* The inductive invariant.                                                *)

(* The fields of a well-typed stack.                                       *)
LEMMA Fields ==
  ASSUME TypeOK
  PROVE  /\ stk \in StackRec
         /\ stk.live \subseteq Seg /\ stk.active \in Seg
         /\ stk.prev \in [Seg -> Seg \cup {NULL}]
         /\ stk.elems \in [Seg -> Seq(Value)]
         /\ stk.refcnt \in [Seg -> Int]
         /\ content \in [Seg -> Seq(Value)]
         /\ NULL \notin Seg
BY SegAssumption DEF TypeOK, StackRec

(* The sets of segments lying on a segment can be counted.                 *)
LEMMA SegSets ==
  ASSUME NEW T \in SUBSET Seg
  PROVE  /\ IsFiniteSet(T)
         /\ Cardinality(T) \in Nat
         /\ Cardinality(T) = 0 <=> T = {}
<1>1. IsFiniteSet(T)
  BY SegAssumption, FS_Subset
<1> QED BY <1>1, FS_CardinalityType, FS_EmptySet

(* The segments that lie on a segment are finitely many, as its refcnt     *)
(* has to count them.                                                      *)
LEMMA ChildrenFinite ==
  ASSUME TypeOK, NEW s
  PROVE  /\ IsFiniteSet(Children(s))
         /\ Cardinality(Children(s)) \in Nat
         /\ Cardinality(Children(s)) = 0 <=> Children(s) = {}
<1>1. Children(s) \in SUBSET Seg
  BY Fields DEF Children, InUse
<1> QED BY <1>1, SegSets

(* The references to a segment, when vm_stack_free holds one and when not, *)
(* before a step and after it.                                             *)
LEMMA ReferencesAre ==
  ASSUME TypeOK, TypeOK', NEW s
  PROVE  /\ uncount # s => References(s) = Cardinality(Children(s))
         /\ uncount = s => References(s) = Cardinality(Children(s)) + 1
         /\ uncount' # s => References(s)' = Cardinality(Children(s)')
         /\ uncount' = s => References(s)' = Cardinality(Children(s)') + 1
         /\ Cardinality(Children(s)) \in Nat
         /\ Cardinality(Children(s)') \in Nat
<1>1. Children(s) \in SUBSET Seg /\ Children(s)' \in SUBSET Seg
  BY DEF TypeOK, Children, InUse
<1>2. Cardinality(Children(s)) \in Nat /\ Cardinality(Children(s)') \in Nat
  BY <1>1, SegSets
<1> QED BY <1>2 DEF References

(* Steps that only write the active segment: the shape stays, and so do    *)
(* the contents of every other segment, since none lies on the active one. *)
LEMMA SameShape ==
  ASSUME TypeOK, TypeOK', SegmentsOK,
         stk'.live = stk.live, stk'.prev = stk.prev,
         stk'.refcnt = stk.refcnt, stk'.active = stk.active,
         UNCHANGED <<conts, uncount, freeing, lost>>,
         \A s \in Seg \ {stk.active} : /\ stk'.elems[s] = stk.elems[s]
                                      /\ content'[s] = content[s],
         Chained(stk.active)'
  PROVE  SegmentsOK'
<1> USE DEF SegmentsOK
<1>1. InUse' = InUse /\ Heads' = Heads /\ FreeCalls' = FreeCalls
  BY DEF InUse, Heads, FreeCalls
<1>2. \A s : Children(s)' = Children(s)
  BY <1>1 DEF Children
<1>3. \A s \in InUse : s \in Seg /\ stk.prev[s] # stk.active
  BY Fields DEF HeadsOK, Heads, Children, InUse
<1>4. HeadsOK'
  BY <1>1, <1>2 DEF HeadsOK
<1>5. LinksOK'
  BY <1>1, <1>3, Fields DEF LinksOK
<1>6. CountsOK' /\ LeakOK'
  BY <1>1, <1>2 DEF CountsOK, References, LeakOK
<1>7. FreeOK'
  BY <1>1, <1>2 DEF FreeOK
<1>8. ASSUME NEW s \in InUse PROVE Chained(s)'
  <2>1. CASE s = stk.active
    BY <2>1
  <2>2. CASE s # stk.active
    <3>1. /\ Chained(s)
          /\ content'[s] = content[s] /\ stk'.elems[s] = stk.elems[s]
      BY <1>3, <2>2 DEF ChainsOK
    <3>2. stk.prev[s] # NULL => content'[stk.prev[s]] = content[stk.prev[s]]
      BY <1>3, Fields
    <3> QED BY <3>1, <3>2 DEF Chained, BelowContent
  <2> QED BY <2>1, <2>2
<1>9. ChainsOK'
  BY <1>1, <1>8 DEF ChainsOK
<1> QED BY <1>4, <1>5, <1>6, <1>7, <1>9

(* Writing into a concatenation writes into one of its parts.              *)
LEMMA ConcatExcept ==
  ASSUME NEW S, NEW a \in Seq(S), NEW b \in Seq(S), NEW v \in S, NEW i \in Int
  PROVE  /\ i \in 1..Len(b) =>
              [a \o b EXCEPT ![Len(a) + i] = v] = a \o [b EXCEPT ![i] = v]
         /\ i \in 1..Len(a) =>
              [a \o b EXCEPT ![i] = v] = [a EXCEPT ![i] = v] \o b
<1> DEFINE ab == a \o b
<1>1. /\ ab \in Seq(S) /\ Len(ab) = Len(a) + Len(b)
      /\ Len(a) \in Nat /\ Len(b) \in Nat
      /\ \A j \in 1..(Len(a) + Len(b)) :
           ab[j] = IF j <= Len(a) THEN a[j] ELSE b[j - Len(a)]
  BY ConcatProperties
<1>2. ASSUME i \in 1..Len(b)
      PROVE  [a \o b EXCEPT ![Len(a) + i] = v] = a \o [b EXCEPT ![i] = v]
  <2> DEFINE c == [b EXCEPT ![i] = v]
             d == [ab EXCEPT ![Len(a) + i] = v]
             e == a \o c
  <2>1. /\ c \in Seq(S) /\ Len(c) = Len(b)
        /\ \A j \in 1..Len(b) : c[j] = IF j = i THEN v ELSE b[j]
    BY <1>2, ExceptSeq
  <2>2. Len(a) + i \in 1..Len(ab)
    BY <1>1, <1>2
  <2> HIDE DEF ab, c
  <2>3. /\ d \in Seq(S) /\ Len(d) = Len(ab)
        /\ \A j \in 1..Len(ab) : d[j] = IF j = Len(a) + i THEN v ELSE ab[j]
    BY <1>1, <2>2, ExceptSeq
  <2>4. /\ e \in Seq(S) /\ Len(e) = Len(a) + Len(c)
        /\ \A j \in 1..(Len(a) + Len(c)) :
             e[j] = IF j <= Len(a) THEN a[j] ELSE c[j - Len(a)]
    BY <2>1, ConcatProperties
  <2> HIDE DEF d, e
  <2>5. ASSUME NEW j \in 1..Len(d) PROVE d[j] = e[j]
    <3>1. /\ j \in 1..(Len(a) + Len(b)) /\ j \in 1..Len(ab)
          /\ j \in 1..(Len(a) + Len(c))
      BY <1>1, <2>1, <2>3
    <3>2. d[j] = IF j = Len(a) + i THEN v ELSE ab[j]
      BY <2>3, <3>1
    <3>3. ab[j] = IF j <= Len(a) THEN a[j] ELSE b[j - Len(a)]
      BY <1>1, <3>1
    <3>4. e[j] = IF j <= Len(a) THEN a[j] ELSE c[j - Len(a)]
      BY <2>4, <3>1
    <3>5. /\ j <= Len(a) => j \in 1..Len(a)
          /\ ~(j <= Len(a)) => j - Len(a) \in 1..Len(b)
      BY <1>1, <3>1
    <3>6. /\ Len(a) = Len(a) /\ j \in Nat /\ i \in Nat
          /\ Len(a) \in Nat
      BY <1>1, <1>2, <2>1, <3>1
    <3>7. ~(j <= Len(a)) => c[j - Len(a)] = IF j - Len(a) = i THEN v
                                                     ELSE b[j - Len(a)]
      BY <2>1, <3>5
    <3> QED BY <1>2, <3>2, <3>3, <3>4, <3>6, <3>7
  <2>6. Len(d) = Len(e)
    BY <1>1, <2>1, <2>3, <2>4
  <2>7. d = e
    BY <2>3, <2>4, <2>5, <2>6, SeqEqual
  <2> QED BY <2>7 DEF ab, c, d, e
<1>3. ASSUME i \in 1..Len(a)
      PROVE  [a \o b EXCEPT ![i] = v] = [a EXCEPT ![i] = v] \o b
  <2> DEFINE c == [a EXCEPT ![i] = v]
             d == [ab EXCEPT ![i] = v]
             e == c \o b
  <2>1. /\ c \in Seq(S) /\ Len(c) = Len(a)
        /\ \A j \in 1..Len(a) : c[j] = IF j = i THEN v ELSE a[j]
    BY <1>3, ExceptSeq
  <2>2. i \in 1..Len(ab)
    BY <1>1, <1>3
  <2> HIDE DEF ab, c
  <2>3. /\ d \in Seq(S) /\ Len(d) = Len(ab)
        /\ \A j \in 1..Len(ab) : d[j] = IF j = i THEN v ELSE ab[j]
    BY <1>1, <2>2, ExceptSeq
  <2>4. /\ e \in Seq(S) /\ Len(e) = Len(c) + Len(b)
        /\ \A j \in 1..(Len(c) + Len(b)) :
             e[j] = IF j <= Len(c) THEN c[j] ELSE b[j - Len(c)]
    BY <2>1, ConcatProperties
  <2> HIDE DEF d, e
  <2>5. ASSUME NEW j \in 1..Len(d) PROVE d[j] = e[j]
    <3>1. /\ j \in 1..(Len(a) + Len(b)) /\ j \in 1..Len(ab)
          /\ j \in 1..(Len(c) + Len(b))
      BY <1>1, <2>1, <2>3
    <3>2. d[j] = IF j = i THEN v ELSE ab[j]
      BY <2>3, <3>1
    <3>3. ab[j] = IF j <= Len(a) THEN a[j] ELSE b[j - Len(a)]
      BY <1>1, <3>1
    <3>4. e[j] = IF j <= Len(c) THEN c[j] ELSE b[j - Len(c)]
      BY <2>4, <3>1
    <3>5. /\ j <= Len(a) => j \in 1..Len(a)
          /\ ~(j <= Len(a)) => j - Len(a) \in 1..Len(b)
      BY <1>1, <3>1
    <3>6. /\ Len(c) = Len(a) /\ j \in Nat /\ i \in Nat
          /\ Len(a) \in Nat
      BY <1>1, <1>3, <2>1, <3>1
    <3>7. j <= Len(a) => c[j] = IF j = i THEN v ELSE a[j]
      BY <2>1, <3>5
    <3> QED BY <1>3, <3>2, <3>3, <3>4, <3>6, <3>7
  <2>6. Len(d) = Len(e)
    BY <1>1, <2>1, <2>3, <2>4
  <2>7. d = e
    BY <2>3, <2>4, <2>5, <2>6, SeqEqual
  <2> QED BY <2>7 DEF ab, c, d, e
<1> QED BY <1>2, <1>3

(* The last value of a concatenation, and the one below it when the second *)
(* part has two values, or one.                                            *)
LEMMA ConcatTop ==
  ASSUME NEW S, NEW a \in Seq(S), NEW b \in Seq(S), NEW v \in S
  PROVE  b # <<>> => WithTop(a \o b, v) = a \o WithTop(b, v)
<1> SUFFICES ASSUME b # <<>>
             PROVE  WithTop(a \o b, v) = a \o WithTop(b, v)
  OBVIOUS
<1>1. Len(a \o b) = Len(a) + Len(b)
  BY ConcatProperties
<1>2. ASSUME NEW i \in Int, i \in 1..Len(b)
      PROVE  [a \o b EXCEPT ![Len(a) + i] = v] = a \o [b EXCEPT ![i] = v]
  BY <1>2, ConcatExcept
<1>3. Len(b) \in 1..Len(b) /\ Len(b) \in Int
  OBVIOUS
<1>4. [a \o b EXCEPT ![Len(a) + Len(b)] = v] = a \o [b EXCEPT ![Len(b)] = v]
  BY <1>2, <1>3, Zenon
<1> QED BY <1>1, <1>4, Zenon DEF WithTop

TwoOrMore(q) == Len(q) >= 2

(* Replacing the second value from the top, when the upper segment holds   *)
(* it.                                                                     *)
LEMMA ConcatSecond ==
  ASSUME NEW S, NEW a \in Seq(S), NEW b \in Seq(S), NEW v \in S
  PROVE  TwoOrMore(b) => WithSecond(a \o b, v) = a \o WithSecond(b, v)
<1> SUFFICES ASSUME Len(b) >= 2
             PROVE  WithSecond(a \o b, v) = a \o WithSecond(b, v)
  BY DEF TwoOrMore
<1> DEFINE m == Len(b) - 1
<1>1. Len(a) \in Nat /\ Len(b) \in Nat /\ Len(a \o b) = Len(a) + Len(b)
  BY ConcatProperties
<1>2. ASSUME NEW i \in Int, i \in 1..Len(b)
      PROVE  [a \o b EXCEPT ![Len(a) + i] = v] = a \o [b EXCEPT ![i] = v]
  BY <1>2, ConcatExcept
<1>3. m \in Int /\ m \in 1..Len(b) /\ Len(a \o b) - 1 = Len(a) + m
  BY <1>1
<1>4. WithSecond(a \o b, v) = [a \o b EXCEPT ![Len(a \o b) - 1] = v]
  BY Zenon DEF WithSecond
<1>5. WithSecond(b, v) = [b EXCEPT ![m] = v]
  BY Zenon DEF WithSecond
<1> HIDE DEF m
<1>6. [a \o b EXCEPT ![Len(a) + m] = v] = a \o [b EXCEPT ![m] = v]
  BY <1>2, <1>3, Zenon
<1> QED BY <1>3, <1>4, <1>5, <1>6, Zenon

(* Replacing the second value from the top, when the upper segment holds   *)
(* one value: it is the top one of the segment below.                      *)
LEMMA ConcatAcross ==
  ASSUME NEW S, NEW a \in Seq(S), NEW b \in Seq(S), NEW v \in S
  PROVE  Len(b) = 1 /\ a # <<>> => WithSecond(a \o b, v) = WithTop(a, v) \o b
<1>1. Len(a) \in Nat /\ Len(b) \in Nat /\ Len(a \o b) = Len(a) + Len(b)
  BY ConcatProperties
<1>2. ASSUME Len(b) = 1, a # <<>>
      PROVE  WithSecond(a \o b, v) = WithTop(a, v) \o b
  <2>1. Len(a) \in 1..Len(a) /\ Len(a) + Len(b) - 1 = Len(a)
    BY <1>1, <1>2
  <2> QED BY <1>1, <2>1, ConcatExcept DEF WithSecond, WithTop
<1> QED BY <1>2

(* Dropping the last value of a concatenation.                             *)
LEMMA ConcatPopped ==
  ASSUME NEW S, NEW a \in Seq(S), NEW b \in Seq(S), b # <<>>
  PROVE  Popped(a \o b) = a \o Popped(b)
BY DEF Popped

(* A concatenation with at least two values is not what it began with.     *)
LEMMA ConcatLonger ==
  ASSUME NEW S, NEW a \in Seq(S), NEW b \in Seq(S), Len(b) >= 2
  PROVE  a \o b # a /\ a \o b # <<>>
<1>1. Len(a) \in Nat /\ Len(b) \in Nat /\ Len(a \o b) = Len(a) + Len(b)
  BY ConcatProperties
<1>2. Len(a \o b) # Len(a) /\ Len(a \o b) # 0
  BY <1>1
<1> QED BY <1>2, EmptyIsSeq

(* What lies below a segment is well typed, and not the segment itself.    *)
LEMMA BelowType ==
  ASSUME TypeOK, NEW s \in Seg
  PROVE  BelowContent(s) \in Seq(Value)
BY Fields, EmptyIsSeq DEF BelowContent

(* Between two operations the active segment is in use, nothing lies on    *)
(* it and its contents are the ones below it with its own values on top.   *)
LEMMA ActiveBase ==
  ASSUME TypeOK, SegmentsOK
  PROVE  /\ stk.active \in InUse
         /\ stk.prev[stk.active] # stk.active
         /\ BelowContent(stk.active) \in Seq(Value)
         /\ content[stk.active] =
              BelowContent(stk.active) \o ActiveElems(stk)
<1>1. stk.active \in InUse /\ stk.active \notin Children(stk.active)
  BY DEF SegmentsOK, HeadsOK, Heads
<1> QED BY <1>1, Fields, BelowType
        DEF SegmentsOK, ChainsOK, Chained, Children, ActiveElems

(* Steps that write the active segment only, restated on its contents.     *)
LEMMA ActiveWrite ==
  ASSUME TypeOK, TypeOK', SegmentsOK,
         NEW e \in Seq(Value), NEW c \in Seq(Value),
         stk'.live = stk.live, stk'.prev = stk.prev,
         stk'.refcnt = stk.refcnt, stk'.active = stk.active,
         UNCHANGED <<conts, uncount, freeing, lost>>,
         stk'.elems = [stk.elems EXCEPT ![stk.active] = e],
         content' = [content EXCEPT ![stk.active] = c],
         c = BelowContent(stk.active) \o e
  PROVE  SegmentsOK'
<1>1. stk.active \in Seg
  BY Fields
<1>2. /\ stk'.elems[stk.active] = e
      /\ content'[stk.active] = c
      /\ \A s \in Seg \ {stk.active} : /\ stk'.elems[s] = stk.elems[s]
                                      /\ content'[s] = content[s]
  BY <1>1, Fields
<1>3. BelowContent(stk.active)' = BelowContent(stk.active)
  <2> DEFINE p == stk.prev[stk.active]
  <2>1. p \in Seg \cup {NULL} /\ p # stk.active
    BY ActiveBase, Fields
  <2>2. p # NULL => content'[p] = content[p]
    BY <1>2, <2>1
  <2>3. stk'.prev[stk'.active] = p
    OBVIOUS
  <2> QED BY <2>2, <2>3 DEF BelowContent
<1>4. Chained(stk.active)'
  BY <1>2, <1>3 DEF Chained
<1> QED BY <1>2, <1>4, SameShape

(* u6a_vm_stack_push1 .. push4 within the active segment keep the          *)
(* segments sound.                                                         *)
LEMMA PushInv ==
  ASSUME TypeOK, TypeOK', SegmentsOK, NEW vs \in Pushes, Push(vs)
  PROVE  SegmentsOK'
<1> DEFINE a == BelowContent(stk.active)
           b == ActiveElems(stk)
<1>1. vs \in Seq(Value) /\ a \in Seq(Value) /\ b \in Seq(Value)
  BY PushesAssumption, ActiveBase, Fields DEF ActiveElems
<1>2. /\ stk'.live = stk.live /\ stk'.prev = stk.prev
      /\ stk'.refcnt = stk.refcnt /\ stk'.active = stk.active
      /\ stk'.elems = [stk.elems EXCEPT ![stk.active] = b \o vs]
  BY Fields DEF Push, PushIn, ActiveElems, StackRec
<1>3. content' = [content EXCEPT ![stk.active] = content[stk.active] \o vs]
  BY DEF Push
<1>4. content[stk.active] \o vs = a \o (b \o vs)
  <2>1. content[stk.active] = a \o b
    BY ActiveBase
  <2> HIDE DEF a, b
  <2>2. (a \o b) \o vs = a \o (b \o vs)
    BY <1>1, ConcatAssociative
  <2> QED BY <2>1, <2>2, Zenon
<1>5. b \o vs \in Seq(Value) /\ content[stk.active] \o vs \in Seq(Value)
  BY <1>1, <1>4, ConcatProperties
<1>6. UNCHANGED <<conts, uncount, freeing, lost>>
  BY DEF Push
<1> QED BY <1>2, <1>3, <1>4, <1>5, <1>6, ActiveWrite

(* u6a_vm_stack_pop within the active segment keeps the segments sound.    *)
LEMMA PopInv ==
  ASSUME TypeOK, TypeOK', SegmentsOK, Pop
  PROVE  SegmentsOK'
<1> DEFINE a == BelowContent(stk.active)
           b == ActiveElems(stk)
<1>1. a \in Seq(Value) /\ b \in Seq(Value) /\ b # <<>>
  BY ActiveBase, Fields DEF ActiveElems, Pop
<1>2. /\ stk'.live = stk.live /\ stk'.prev = stk.prev
      /\ stk'.refcnt = stk.refcnt /\ stk'.active = stk.active
      /\ stk'.elems = [stk.elems EXCEPT ![stk.active] = Popped(b)]
  BY Fields DEF Pop, PopIn, ActiveElems, StackRec
<1>3. content' = [content EXCEPT ![stk.active] = Popped(content[stk.active])]
  BY DEF Pop
<1>4. Popped(content[stk.active]) = a \o Popped(b)
  BY <1>1, ActiveBase, ConcatPopped
<1>5. Popped(b) \in Seq(Value) /\ Popped(content[stk.active]) \in Seq(Value)
  BY <1>1, Fields, PoppedType
<1>6. UNCHANGED <<conts, uncount, freeing, lost>>
  BY DEF Pop
<1> QED BY <1>2, <1>3, <1>4, <1>5, <1>6, ActiveWrite

(* u6a_vm_stack_xch within the active segment keeps the segments sound.    *)
LEMMA XchInv ==
  ASSUME TypeOK, TypeOK', SegmentsOK, NEW v \in Value, Xch(v)
  PROVE  SegmentsOK'
<1> DEFINE a == BelowContent(stk.active)
           b == ActiveElems(stk)
<1>1. a \in Seq(Value) /\ b \in Seq(Value) /\ Len(b) >= 2
  BY ActiveBase, Fields DEF ActiveElems, Xch
<1>2. /\ stk'.live = stk.live /\ stk'.prev = stk.prev
      /\ stk'.refcnt = stk.refcnt /\ stk'.active = stk.active
      /\ stk'.elems = [stk.elems EXCEPT ![stk.active] = WithSecond(b, v)]
  BY Fields DEF Xch, XchIn, ActiveElems, StackRec
<1>3. content' =
        [content EXCEPT ![stk.active] = WithSecond(content[stk.active], v)]
  BY DEF Xch
<1>4. WithSecond(content[stk.active], v) = a \o WithSecond(b, v)
  <2>1. content[stk.active] = a \o b
    BY ActiveBase
  <2> HIDE DEF a, b
  <2>2. TwoOrMore(b)
    BY <1>1 DEF TwoOrMore
  <2>3. WithSecond(a \o b, v) = a \o WithSecond(b, v)
    BY <1>1, <2>2, ConcatSecond
  <2> QED BY <2>1, <2>3, Zenon
<1>5. /\ WithSecond(b, v) \in Seq(Value)
      /\ WithSecond(content[stk.active], v) \in Seq(Value)
  BY <1>1, Fields, SeqTypes
<1>6. UNCHANGED <<conts, uncount, freeing, lost>>
  BY DEF Xch
<1> QED BY <1>2, <1>3, <1>4, <1>5, <1>6, ActiveWrite

(* Steps that put a new segment s with the values e on top of x, or at the *)
(* bottom, and what they do to the shape.                                  *)
Grows(s, x, e, c) ==
  /\ stk'.live = stk.live \cup {s}
  /\ stk'.prev = [stk.prev EXCEPT ![s] = x]
  /\ stk'.elems = [stk.elems EXCEPT ![s] = e]
  /\ content' = [content EXCEPT ![s] = c]
  /\ lost' = lost
  /\ x # NULL => Len(stk.elems[x]) >= 2
  /\ c = (IF x = NULL THEN <<>> ELSE content[x]) \o e

Grown(s, x) ==
  /\ s \notin InUse /\ InUse' = InUse \cup {s} /\ lost' \subseteq stk'.live
  /\ \A t \in InUse : stk'.prev[t] = stk.prev[t]
  /\ Children(s)' = {}
  /\ x # NULL => Children(x)' = Children(x) \cup {s}
  /\ \A t \in InUse \ {x} : Children(t)' = Children(t)
  /\ LinksOK' /\ ChainsOK'

(* A new segment s put on x, malloc's address being nobody else's,         *)
(* changes the shape only there.                                           *)
LEMMA NewSegment ==
  ASSUME TypeOK, TypeOK', SegmentsOK,
         NEW s \in Seg \ stk.live, NEW x \in InUse \cup {NULL},
         NEW e \in Seq(Value), NEW c \in Seq(Value), Grows(s, x, e, c)
  PROVE  Grown(s, x)
<1> USE DEF Grows
<1> USE DEF SegmentsOK
<1>1. s \notin InUse /\ InUse' = InUse \cup {s} /\ lost' \subseteq stk'.live
  BY DEF InUse
<1>2. InUse \subseteq Seg /\ x # s
  BY <1>1, Fields DEF InUse
<1>3. \A t \in InUse : /\ stk'.prev[t] = stk.prev[t]
                       /\ stk'.elems[t] = stk.elems[t]
                       /\ content'[t] = content[t]
                       /\ stk.prev[t] \in InUse \cup {NULL}
                       /\ stk.prev[t] # s
  BY <1>1, <1>2, Fields DEF LinksOK
<1>4. stk'.prev[s] = x /\ stk'.elems[s] = e /\ content'[s] = c
  BY Fields
<1>5. Children(s)' = {}
  BY <1>1, <1>2, <1>3, <1>4 DEF Children
<1>6. x # NULL => Children(x)' = Children(x) \cup {s}
  BY <1>1, <1>3, <1>4 DEF Children
<1>7. \A t \in InUse \ {x} : Children(t)' = Children(t)
  BY <1>1, <1>3, <1>4 DEF Children
<1>8. LinksOK'
  <2> SUFFICES ASSUME NEW t \in InUse', stk'.prev[t] # NULL
               PROVE  /\ stk'.prev[t] \in InUse'
                      /\ Len(stk'.elems[stk'.prev[t]]) >= 2
    BY DEF LinksOK
  <2>1. CASE t = s
    BY <1>1, <1>3, <1>4, <2>1
  <2>2. CASE t # s
    BY <1>1, <1>3, <2>2 DEF LinksOK
  <2> QED BY <2>1, <2>2
<1>9. ChainsOK'
  <2> SUFFICES ASSUME NEW t \in InUse' PROVE Chained(t)'
    BY DEF ChainsOK
  <2>1. CASE t = s
    <3>1. BelowContent(s)' = IF x = NULL THEN <<>> ELSE content[x]
      BY <1>3, <1>4 DEF BelowContent
    <3> QED BY <1>4, <2>1, <3>1 DEF Chained
  <2>2. CASE t # s
    <3>1. t \in InUse /\ Chained(t)
      BY <1>1, <2>2 DEF ChainsOK
    <3>2. BelowContent(t)' = BelowContent(t)
      BY <1>3, <3>1 DEF BelowContent
    <3> QED BY <1>3, <3>1, <3>2 DEF Chained
  <2> QED BY <2>1, <2>2
<1> QED BY <1>1, <1>3, <1>5, <1>6, <1>7, <1>8, <1>9 DEF Grown

(* One more segment on another one is one more reference to count.         *)
LEMMA OneMore ==
  ASSUME TypeOK, NEW x, NEW s, s \notin Children(x)
  PROVE  Cardinality(Children(x) \cup {s}) = Cardinality(Children(x)) + 1
BY ChildrenFinite, FS_AddElement

(* The push splits, which start a new segment and count it in the one      *)
(* below, keep the segments sound.                                         *)
LEMMA PushNewInv ==
  ASSUME TypeOK, TypeOK', SegmentsOK, NEW vs \in Pushes, PushNew(vs)
  PROVE  SegmentsOK'
<1> USE DEF SegmentsOK
<1>0. PICK a \in Seg : a = stk.active
  BY Fields
<1>1. PICK s \in Seg \ stk.live :
        /\ stk' = PushSplit(stk, s, vs)
        /\ content' = [content EXCEPT ![s] = content[a] \o vs]
  BY <1>0 DEF PushNew
<1>2. /\ stk'.live = stk.live \cup {s}
      /\ stk'.prev = [stk.prev EXCEPT ![s] = a]
      /\ stk'.elems = [stk.elems EXCEPT ![s] = vs]
      /\ stk'.refcnt = [stk.refcnt EXCEPT ![s] = 0, ![a] = @ + 1]
      /\ stk'.active = s
  BY <1>0, <1>1 DEF PushSplit
<1>3. /\ UNCHANGED <<conts, uncount, freeing, lost>>
      /\ uncount = NULL /\ freeing = <<>>
  BY DEF PushNew, Ready, Quiet
<1>4. a \in InUse /\ a \notin conts /\ Children(a) = {} /\ a # NULL
  BY <1>0, Fields DEF HeadsOK, Heads
<1>5. Len(stk.elems[a]) >= 2
  <2> DEFINE m == Len(stk.elems[a])
             n == Len(vs)
  <2>1. m \in Nat
    BY Fields
  <2>2. n \in 1..4
    BY PushesAssumption
  <2>3. ~(m + n <= StackSegLen)
    BY <1>0 DEF PushNew, Fits, ActiveElems
  <2> HIDE DEF m, n
  <2>4. m >= 2
    BY <2>1, <2>2, <2>3, StackSegLenAssumption
  <2> QED BY <2>4 DEF m
<1>6. vs \in Seq(Value) /\ content[a] \o vs \in Seq(Value)
  BY PushesAssumption, Fields, ConcatProperties
<1>7. Grown(s, a)
  <2>1. content[a] \o vs = (IF a = NULL THEN <<>> ELSE content[a]) \o vs
    BY <1>4
  <2>2. Grows(s, a, vs, content[a] \o vs)
    BY <1>1, <1>2, <1>3, <1>5, <2>1 DEF Grows
  <2>3. PICK c \in Seq(Value) : c = content[a] \o vs
    BY <1>6
  <2> QED BY <1>4, <1>6, <2>2, <2>3, NewSegment
<1>u. /\ s \notin InUse /\ InUse' = InUse \cup {s} /\ lost' \subseteq stk'.live
      /\ Children(s)' = {} /\ Children(a)' = {s}
      /\ \A t \in InUse \ {a} : Children(t)' = Children(t)
      /\ LinksOK' /\ ChainsOK'
  BY <1>4, <1>7 DEF Grown
<1>8. Heads' = {s} \cup conts /\ FreeCalls = {} /\ FreeCalls' = {}
  BY <1>2, <1>3 DEF Heads, FreeCalls
<1>9. HeadsOK'
  BY <1>0, <1>2, <1>3, <1>4, <1>u, <1>8 DEF HeadsOK, Heads
<1>10. CountsOK'
  <2> SUFFICES ASSUME NEW t \in InUse'
               PROVE  /\ stk'.refcnt[t] >= References(t)'
                      /\ lost' = {} => stk'.refcnt[t] = References(t)'
    BY DEF CountsOK
  <2>1. t \in Seg /\ References(t)' = Cardinality(Children(t)')
    BY <1>3, <1>u, Fields, ReferencesAre DEF InUse
  <2>2. CASE t = s
    <3>1. stk'.refcnt[s] = 0
      BY <1>2, <1>4, <1>u, Fields
    <3>2. References(s)' = 0
      BY <1>u, <2>1, <2>2, FS_EmptySet
    <3> QED BY <2>2, <3>1, <3>2
  <2>3. CASE t = a
    <3>1. Cardinality(Children(a)') = 1
      BY <1>u, FS_Singleton
    <3>2. References(a) = 0
      BY <1>3, <1>4, FS_EmptySet, ReferencesAre
    <3>3. stk'.refcnt[a] = stk.refcnt[a] + 1 /\ stk.refcnt[a] \in Int
      BY <1>2, <1>4, <1>u, Fields
    <3> QED BY <1>3, <1>4, <2>1, <2>3, <3>1, <3>2, <3>3 DEF CountsOK
  <2>4. CASE t # s /\ t # a
    <3>1. t \in InUse /\ stk'.refcnt[t] = stk.refcnt[t]
      BY <1>2, <1>u, <2>1, <2>4, Fields
    <3>2. References(t) = Cardinality(Children(t))
      BY <1>3, <2>1, ReferencesAre, Fields
    <3> QED BY <1>3, <1>u, <2>1, <2>4, <3>1, <3>2 DEF CountsOK
  <2> QED BY <2>2, <2>3, <2>4
<1>11. FreeOK'
  BY <1>3 DEF FreeOK
<1>12. LeakOK'
  <2> SUFFICES ASSUME lost = {}, NEW t \in InUse \cup {s}
               PROVE  t \in Heads' \/ Children(t)' # {}
    BY <1>3, <1>u DEF LeakOK
  <2>1. CASE t \in {a, s}
    BY <1>u, <1>8, <2>1
  <2>2. CASE t \in InUse \ {a, s}
    <3>1. t \in conts \/ Children(t) # {}
      BY <1>0, <1>3, <1>8, <2>2, Fields DEF LeakOK, Heads, InUse
    <3> QED BY <1>u, <1>8, <2>2, <3>1
  <2> QED BY <2>1, <2>2
<1> QED BY <1>u, <1>9, <1>10, <1>11, <1>12

(* How the counts of children change when s is put on x.                   *)
LEMMA GrownCounts ==
  ASSUME TypeOK, TypeOK', NEW s, NEW x \in InUse \cup {NULL}, Grown(s, x)
  PROVE  /\ Cardinality(Children(s)') = 0
         /\ \A t \in InUse : /\ Cardinality(Children(t)') =
                                 IF t = x THEN Cardinality(Children(t)) + 1
                                          ELSE Cardinality(Children(t))
                             /\ Children(t) # {} => Children(t)' # {}
<1>1. Cardinality(Children(s)') = 0
  BY FS_EmptySet DEF Grown
<1>2. ASSUME NEW t \in InUse
      PROVE  /\ Cardinality(Children(t)') =
                  IF t = x THEN Cardinality(Children(t)) + 1
                           ELSE Cardinality(Children(t))
             /\ Children(t) # {} => Children(t)' # {}
  <2>1. CASE t # x
    BY <2>1 DEF Grown
  <2>2. CASE t = x
    <3>1. x # NULL
      BY <2>2, Fields DEF InUse
    <3>2. Children(x)' = Children(x) \cup {s} /\ s \notin Children(x)
      BY <3>1 DEF Grown, Children
    <3> QED BY <2>2, <3>2, OneMore
  <2> QED BY <2>1, <2>2
<1> QED BY <1>1, <1>2

(* A copy of the segment h of somebody's stack grows the shape.            *)
LEMMA DupGrows ==
  ASSUME TypeOK, TypeOK', SegmentsOK,
         NEW h \in InUse, NEW s \in Seg \ stk.live,
         stk'.live = stk.live \cup {s},
         stk'.prev = [stk.prev EXCEPT ![s] = stk.prev[h]],
         stk'.elems = [stk.elems EXCEPT ![s] = stk.elems[h]],
         content' = [content EXCEPT ![s] = content[h]],
         lost' = lost
  PROVE  \E x \in InUse \cup {NULL} : x = stk.prev[h] /\ Grown(s, x)
<1> USE DEF SegmentsOK
<1>1. h \in Seg /\ stk.prev[h] \in InUse \cup {NULL}
  BY Fields DEF LinksOK, InUse
<1>2. PICK x \in InUse \cup {NULL} : x = stk.prev[h]
  BY <1>1
<1>3. PICK e \in Seq(Value) : e = stk.elems[h]
  BY <1>1, Fields
<1>4. PICK c \in Seq(Value) : c = content[h]
  BY <1>1, Fields
<1>5. c = (IF x = NULL THEN <<>> ELSE content[x]) \o e
  BY <1>2, <1>3, <1>4 DEF ChainsOK, Chained, BelowContent
<1>6. x # NULL => Len(stk.elems[x]) >= 2
  BY <1>2 DEF LinksOK
<1>7. Grows(s, x, e, c)
  BY <1>2, <1>3, <1>4, <1>5, <1>6 DEF Grows
<1>8. Grown(s, x)
  BY <1>7, NewSegment
<1> QED BY <1>2, <1>8

(* u6a_vm_stack_save, which copies the head and shares the rest, keeps     *)
(* the segments sound.                                                     *)
LEMMA SaveInv ==
  ASSUME TypeOK, TypeOK', SegmentsOK, Save
  PROVE  SegmentsOK'
<1> USE DEF SegmentsOK
<1>0. PICK a \in Seg : a = stk.active
  BY Fields
<1>1. PICK s \in Seg \ stk.live :
        /\ stk' = Dup(stk, a, s)
        /\ conts' = conts \cup {s}
        /\ content' = [content EXCEPT ![s] = content[a]]
  BY <1>0 DEF Save
<1>2. /\ UNCHANGED <<uncount, freeing, lost>>
      /\ uncount = NULL /\ freeing = <<>>
  BY DEF Save, Ready, Quiet
<1>3. a \in InUse /\ a \notin conts /\ Children(a) = {}
  BY <1>0 DEF HeadsOK, Heads
<1>4. PICK x \in InUse \cup {NULL} : x = stk.prev[a] /\ Grown(s, x)
  BY <1>1, <1>2, <1>3, DupGrows DEF Dup
<1>5. /\ stk'.active = a
      /\ stk'.refcnt = [u \in Seg |-> IF u = s THEN 0
                                      ELSE IF u = x THEN stk.refcnt[u] + 1
                                      ELSE stk.refcnt[u]]
  BY <1>0, <1>1, <1>4, Fields DEF Dup
<1>6. /\ s \notin InUse /\ InUse' = InUse \cup {s} /\ lost' \subseteq stk'.live
      /\ Children(s)' = {}
      /\ \A t \in InUse \ {x} : Children(t)' = Children(t)
      /\ LinksOK' /\ ChainsOK'
  BY <1>4 DEF Grown
<1>7. /\ Heads = {a} \cup conts /\ Heads' = {a} \cup conts \cup {s}
      /\ FreeCalls = {} /\ FreeCalls' = {}
  BY <1>0, <1>1, <1>2, <1>5 DEF Heads, FreeCalls
<1>8. HeadsOK'
  <2>1. x \notin Heads
    BY <1>3, <1>4, <1>7, Fields DEF HeadsOK, Children, InUse
  <2>2. \A h \in Heads : h \in InUse /\ Children(h) = {}
    BY <1>3, <1>7 DEF HeadsOK
  <2>3. \A h \in Heads' : Children(h)' = {}
    BY <1>6, <1>7, <2>1, <2>2
  <2> QED BY <1>1, <1>3, <1>5, <1>6, <1>7, <2>3 DEF HeadsOK
<1>9. CountsOK'
  <2> SUFFICES ASSUME NEW t \in InUse'
               PROVE  /\ stk'.refcnt[t] >= References(t)'
                      /\ lost' = {} => stk'.refcnt[t] = References(t)'
    BY DEF CountsOK
  <2>1. t \in Seg /\ References(t)' = Cardinality(Children(t)')
    BY <1>2, <1>6, Fields, ReferencesAre DEF InUse
  <2>2. CASE t = s
    BY <1>4, <1>5, <2>1, <2>2, GrownCounts
  <2>3. CASE t # s
    <3>1. t \in InUse /\ References(t) = Cardinality(Children(t))
      BY <1>2, <1>6, <2>1, <2>3, ReferencesAre, Fields
    <3>2. stk'.refcnt[t] = IF t = x THEN stk.refcnt[t] + 1 ELSE stk.refcnt[t]
      BY <1>5, <2>1, <2>3
    <3>3. Cardinality(Children(t)') =
            IF t = x THEN Cardinality(Children(t)) + 1
                     ELSE Cardinality(Children(t))
      BY <1>4, <3>1, GrownCounts
    <3>4. stk.refcnt[t] \in Int /\ Cardinality(Children(t)) \in Int
      BY <2>1, Fields, ChildrenFinite
    <3> QED BY <1>2, <2>1, <3>1, <3>2, <3>3, <3>4 DEF CountsOK
  <2> QED BY <2>2, <2>3
<1>10. FreeOK'
  BY <1>2 DEF FreeOK
<1>11. LeakOK'
  <2> SUFFICES ASSUME lost = {}, NEW t \in InUse \cup {s}
               PROVE  t \in Heads' \/ Children(t)' # {}
    BY <1>2, <1>6 DEF LeakOK
  <2>1. CASE t = s
    BY <1>7, <2>1
  <2>2. CASE t \in InUse
    <3>1. t \in Heads \/ Children(t) # {}
      BY <1>2, <1>7, <2>2, Fields DEF LeakOK, InUse
    <3> QED BY <1>4, <1>7, <2>2, <3>1, GrownCounts
  <2> QED BY <2>1, <2>2
<1> QED BY <1>6, <1>8, <1>9, <1>10, <1>11

(* Steps that hand a head h to vm_stack_free.                              *)
LEMMA Retire ==
  ASSUME TypeOK, TypeOK', SegmentsOK, NEW h \in Heads,
         stk'.live = stk.live, stk'.prev = stk.prev, stk'.elems = stk.elems,
         UNCHANGED <<content, lost, freeing>>,
         stk'.refcnt = [stk.refcnt EXCEPT ![h] = 1],
         uncount = NULL, uncount' = h,
         Heads' = Heads \ {h}, stk'.active \notin conts'
  PROVE  SegmentsOK'
<1> USE DEF SegmentsOK
<1>1. InUse' = InUse /\ FreeCalls' = FreeCalls
  BY DEF InUse, FreeCalls
<1>2. \A s : Children(s)' = Children(s)
  BY <1>1 DEF Children
<1>3. \A g \in Heads : g \in InUse /\ g \in Seg /\ Children(g) = {}
  BY Fields DEF HeadsOK, Heads, InUse
<1>4. HeadsOK'
  BY <1>1, <1>2, <1>3 DEF HeadsOK, Heads
<1>5. LinksOK' /\ ChainsOK'
  BY <1>1 DEF LinksOK, ChainsOK, Chained, BelowContent
<1>6. CountsOK'
  <2> SUFFICES ASSUME NEW t \in InUse
               PROVE  /\ stk'.refcnt[t] >= References(t)'
                      /\ lost = {} => stk'.refcnt[t] = References(t)'
    BY <1>1 DEF CountsOK
  <2>1. t \in Seg /\ t # NULL
    BY Fields DEF InUse
  <2>2. CASE t = h
    <3>0. Cardinality(Children(t)') = 0
      BY <1>2, <1>3, <2>2, FS_EmptySet
    <3>1. References(t)' = 1
      BY <2>2, <3>0, ReferencesAre
    <3>2. stk'.refcnt[t] = 1
      BY <2>1, <2>2, Fields
    <3> QED BY <3>1, <3>2
  <2>3. CASE t # h
    <3>1. References(t)' = References(t)
      BY <1>2, <2>1, <2>3, ReferencesAre
    <3>2. stk'.refcnt[t] = stk.refcnt[t]
      BY <2>1, <2>3, Fields
    <3> QED BY <3>1, <3>2 DEF CountsOK
  <2> QED BY <2>2, <2>3
<1>7. FreeOK'
  BY <1>1, <1>2, <1>3 DEF FreeOK
<1>8. LeakOK'
  <2> SUFFICES ASSUME lost = {}, NEW t \in InUse
               PROVE  \/ t \in Heads' \cup FreeCalls' \cup {uncount'}
                      \/ Children(t)' # {}
    BY <1>1 DEF LeakOK
  <2>1. t # NULL
    BY Fields DEF InUse
  <2>2. t \in Heads \cup FreeCalls \/ Children(t) # {}
    BY <2>1 DEF LeakOK
  <2> QED BY <1>1, <1>2, <2>2
<1> QED BY <1>1, <1>4, <1>5, <1>6, <1>7, <1>8

(* u6a_vm_stack_discard of a saved stack starts vm_stack_free on a         *)
(* segment nothing lies on.                                                *)
LEMMA DiscardInv ==
  ASSUME TypeOK, TypeOK', SegmentsOK, NEW c \in conts, Discard(c)
  PROVE  SegmentsOK'
<1>1. c # stk.active
  BY DEF SegmentsOK, HeadsOK
<1>2. /\ stk'.live = stk.live /\ stk'.prev = stk.prev
      /\ stk'.elems = stk.elems /\ stk'.active = stk.active
      /\ stk'.refcnt = [stk.refcnt EXCEPT ![c] = 1]
  BY Fields DEF Discard, StartFree, SetRefcnt, StackRec
<1>3. /\ UNCHANGED <<content, lost, freeing>>
      /\ uncount = NULL /\ uncount' = c /\ conts' = conts \ {c}
  BY DEF Discard, StartFree, Quiet
<1>4. Heads' = Heads \ {c} /\ c \in Heads /\ stk'.active \notin conts'
  BY <1>1, <1>2, <1>3 DEF Heads, SegmentsOK, HeadsOK
<1> QED BY <1>2, <1>3, <1>4, Retire

(* Reinstating a continuation nobody else holds starts vm_stack_free on    *)
(* the old stack and makes the saved one active.                           *)
LEMMA ResumeMoveInv ==
  ASSUME TypeOK, TypeOK', SegmentsOK, NEW c \in conts, ResumeMove(c)
  PROVE  SegmentsOK'
<1>0. PICK a \in Seg : a = stk.active
  BY Fields
<1>1. a \notin conts /\ a \in Heads
  BY <1>0 DEF SegmentsOK, HeadsOK, Heads
<1>2. /\ stk'.live = stk.live /\ stk'.prev = stk.prev
      /\ stk'.elems = stk.elems /\ stk'.active = c
      /\ stk'.refcnt = [stk.refcnt EXCEPT ![a] = 1]
  BY <1>0, Fields DEF ResumeMove, StartFree, SetRefcnt, SetActive, StackRec
<1>3. /\ UNCHANGED <<content, lost, freeing>>
      /\ uncount = NULL /\ uncount' = a /\ conts' = conts \ {c}
  BY <1>0 DEF ResumeMove, StartFree, Ready, Quiet
<1>4. Heads' = Heads \ {a} /\ stk'.active \notin conts'
  BY <1>0, <1>1, <1>2, <1>3 DEF Heads
<1> QED BY <1>1, <1>2, <1>3, <1>4, Retire

(* Reinstating a copy of a continuation others hold does the same and      *)
(* leaves the saved stack as it was.                                       *)
LEMMA ResumeCopyInv ==
  ASSUME TypeOK, TypeOK', SegmentsOK, NEW c \in conts, ResumeCopy(c)
  PROVE  SegmentsOK'
<1> USE DEF SegmentsOK
<1>0. PICK a \in Seg : a = stk.active
  BY Fields
<1>1. PICK s \in Seg \ stk.live :
        /\ stk' = SetRefcnt(SetActive(Dup(stk, c, s), s), a, 1)
        /\ uncount' = a
        /\ content' = [content EXCEPT ![s] = content[c]]
  BY <1>0 DEF ResumeCopy, StartFree
<1>2. /\ UNCHANGED <<conts, freeing, lost>>
      /\ uncount = NULL /\ freeing = <<>>
  BY DEF ResumeCopy, Ready, Quiet
<1>3. /\ a \in InUse /\ a \notin conts /\ Children(a) = {}
      /\ c \in InUse /\ c \in Seg
  BY <1>0, Fields DEF HeadsOK, Heads, InUse
<1>4. PICK x \in InUse \cup {NULL} : x = stk.prev[c] /\ Grown(s, x)
  <2>1. Dup(stk, c, s) \in StackRec
    BY <1>3, Fields, SegTypes
  <2>2. /\ stk'.live = Dup(stk, c, s).live
        /\ stk'.prev = Dup(stk, c, s).prev
        /\ stk'.elems = Dup(stk, c, s).elems
    BY <1>1, <2>1 DEF SetRefcnt, SetActive, StackRec
  <2>3. /\ stk'.live = stk.live \cup {s}
        /\ stk'.prev = [stk.prev EXCEPT ![s] = stk.prev[c]]
        /\ stk'.elems = [stk.elems EXCEPT ![s] = stk.elems[c]]
    BY <2>2 DEF Dup
  <2> QED BY <1>1, <1>2, <1>3, <2>3, DupGrows
<1>5. /\ stk'.active = s
      /\ \A u \in Seg : stk'.refcnt[u] = IF u = a THEN 1
                                         ELSE IF u = s THEN 0
                                         ELSE IF u = x THEN stk.refcnt[u] + 1
                                         ELSE stk.refcnt[u]
  BY <1>1, <1>4, Fields DEF Dup, SetRefcnt, SetActive
<1>6. /\ s \notin InUse /\ InUse' = InUse \cup {s} /\ lost' \subseteq stk'.live
      /\ Children(s)' = {}
      /\ \A t \in InUse \ {x} : Children(t)' = Children(t)
      /\ LinksOK' /\ ChainsOK'
  BY <1>4 DEF Grown
<1>7. /\ Heads = {a} \cup conts /\ Heads' = {s} \cup conts
      /\ FreeCalls = {} /\ FreeCalls' = {}
  BY <1>0, <1>2, <1>5 DEF Heads, FreeCalls
<1>x. x \notin Heads
  BY <1>3, <1>4, <1>7, Fields DEF HeadsOK, Children, InUse
<1>8. HeadsOK'
  <2>2. \A h \in Heads : h \in InUse /\ Children(h) = {}
    BY <1>3, <1>7 DEF HeadsOK
  <2>3. \A h \in Heads' : Children(h)' = {}
    BY <1>6, <1>7, <1>x, <2>2
  <2> QED BY <1>2, <1>3, <1>5, <1>6, <1>7, <2>2, <2>3 DEF HeadsOK
<1>9. CountsOK'
  <2> SUFFICES ASSUME NEW t \in InUse'
               PROVE  /\ stk'.refcnt[t] >= References(t)'
                      /\ lost' = {} => stk'.refcnt[t] = References(t)'
    BY DEF CountsOK
  <2>1. t \in Seg /\ (t # a => References(t)' = Cardinality(Children(t)'))
    BY <1>1, <1>6, Fields, ReferencesAre DEF InUse
  <2>2. CASE t = s
    BY <1>3, <1>4, <1>5, <1>6, <2>1, <2>2, GrownCounts
  <2>3. CASE t = a
    <3>1. Cardinality(Children(t)') = 0
      BY <1>3, <1>6, <1>7, <1>x, <2>3, FS_EmptySet
    <3>2. References(t)' = 1
      BY <1>1, <2>3, <3>1, ReferencesAre
    <3> QED BY <1>5, <2>3, <3>2
  <2>4. CASE t # s /\ t # a
    <3>1. t \in InUse /\ References(t) = Cardinality(Children(t))
      BY <1>2, <1>6, <2>1, <2>4, ReferencesAre, Fields
    <3>2. stk'.refcnt[t] = IF t = x THEN stk.refcnt[t] + 1 ELSE stk.refcnt[t]
      BY <1>5, <2>1, <2>4
    <3>3. Cardinality(Children(t)') =
            IF t = x THEN Cardinality(Children(t)) + 1
                     ELSE Cardinality(Children(t))
      BY <1>4, <3>1, GrownCounts
    <3>4. stk.refcnt[t] \in Int /\ Cardinality(Children(t)) \in Int
      BY <2>1, Fields, ChildrenFinite
    <3> QED BY <1>2, <2>1, <2>4, <3>1, <3>2, <3>3, <3>4 DEF CountsOK
  <2> QED BY <2>2, <2>3, <2>4
<1>10. FreeOK'
  BY <1>1, <1>2, <1>3, <1>6, <1>7 DEF FreeOK
<1>11. LeakOK'
  <2> SUFFICES ASSUME lost = {}, NEW t \in InUse \cup {s}
               PROVE  t \in Heads' \cup {uncount'} \/ Children(t)' # {}
    BY <1>2, <1>6 DEF LeakOK
  <2>1. CASE t = s
    BY <1>7, <2>1
  <2>2. CASE t \in InUse
    <3>1. t \in Heads \/ Children(t) # {}
      BY <1>2, <1>7, <2>2, Fields DEF LeakOK, InUse
    <3> QED BY <1>1, <1>4, <1>7, <2>2, <3>1, GrownCounts
  <2> QED BY <2>1, <2>2
<1> QED BY <1>6, <1>8, <1>9, <1>10, <1>11

(* A pop for which top() crosses to a segment nobody else lies on keeps    *)
(* the rest sound; the segment it left only makes counts larger.           *)
LEMMA PopBelowInv ==
  ASSUME TypeOK, TypeOK', SegmentsOK, PopBelow, broken' = {}
  PROVE  SegmentsOK'
<1> USE DEF SegmentsOK
<1>0. PICK a \in Seg : a = stk.active
  BY Fields
<1>1. PICK p \in Seg : p = stk.prev[a] /\ p \in stk.live /\ stk.elems[p] # <<>>
  BY <1>0, Fields DEF PopBelow, Below
<1>2. /\ UNCHANGED <<conts, uncount, freeing>>
      /\ uncount = NULL /\ freeing = <<>> /\ lost' = lost \cup {a}
      /\ content' = [content EXCEPT ![p] = Popped(@), ![a] = <<>>]
      /\ stk' = PopIn(SetActive(stk, p))
  BY <1>0, <1>1 DEF PopBelow, ReadyToPop, Ready, Quiet, PopCross, Below
<1>3. Children(p) = {a}
  BY <1>0, <1>1 DEF PopBelow, Below
<1>4. /\ stk'.live = stk.live /\ stk'.prev = stk.prev
      /\ stk'.refcnt = stk.refcnt /\ stk'.active = p
      /\ stk'.elems = [stk.elems EXCEPT ![p] = Popped(stk.elems[p])]
  BY <1>2, Fields DEF PopIn, SetActive, StackRec
<1>5. /\ a \in InUse /\ a \notin conts /\ Children(a) = {} /\ p # a
      /\ p \in InUse
  BY <1>0, <1>1, <1>3, Fields DEF HeadsOK, Heads, LinksOK
<1>6. /\ InUse' = InUse \ {a} /\ Children(p)' = {}
      /\ \A t \in InUse \ {a, p} : Children(t)' = Children(t)
      /\ lost' \subseteq stk'.live
  <2>1. InUse' = InUse \ {a} /\ lost' \subseteq stk'.live
    BY <1>2, <1>4, <1>5 DEF InUse
  <2> QED BY <1>1, <1>3, <1>4, <2>1 DEF Children
<1>7. p \notin conts /\ Heads' = {p} \cup conts
  BY <1>2, <1>3, <1>4 DEF HeadsOK, Heads
<1>8. HeadsOK'
  BY <1>2, <1>4, <1>5, <1>6, <1>7 DEF HeadsOK, Heads
<1>9. \A t \in InUse' : /\ t \in Seg /\ t \in InUse
                        /\ stk.prev[t] # a /\ stk.prev[t] # p
                        /\ stk.prev[t] \in InUse \cup {NULL}
  BY <1>3, <1>5, <1>6, Fields DEF Children, LinksOK, InUse
<1>10. LinksOK'
  BY <1>4, <1>6, <1>9, Fields DEF LinksOK
<1>11. CountsOK'
  <2> SUFFICES ASSUME NEW t \in InUse'
               PROVE  stk'.refcnt[t] >= References(t)'
    BY <1>2 DEF CountsOK
  <2>1. /\ t \in Seg /\ t # NULL /\ stk.refcnt[t] \in Int
        /\ References(t)' = Cardinality(Children(t)')
        /\ References(t) = Cardinality(Children(t))
        /\ stk.refcnt[t] >= References(t)
    BY <1>2, <1>9, Fields, ReferencesAre DEF CountsOK
  <2>2. Cardinality(Children(p)') = 0 /\ Cardinality(Children(p)) = 1
    BY <1>3, <1>6, FS_EmptySet, FS_Singleton
  <2>3. CASE t = p
    BY <1>4, <2>1, <2>2, <2>3
  <2>4. CASE t # p
    BY <1>4, <1>6, <1>9, <2>1, <2>4
  <2> QED BY <2>3, <2>4
<1>12. FreeOK' /\ LeakOK'
  BY <1>2 DEF FreeOK, LeakOK
<1>13. ChainsOK'
  <2> SUFFICES ASSUME NEW t \in InUse' PROVE Chained(t)'
    BY DEF ChainsOK
  <2>1. BelowContent(t)' = BelowContent(t)
    BY <1>2, <1>4, <1>9, Fields DEF BelowContent
  <2>2. Chained(t) /\ BelowContent(t) \in Seq(Value)
    BY <1>9, BelowType DEF ChainsOK
  <2>3. CASE t = p
    <3>1. /\ content'[t] = Popped(content[t])
          /\ stk'.elems[t] = Popped(stk.elems[t])
          /\ stk.elems[t] # <<>> /\ stk.elems[t] \in Seq(Value)
      BY <1>1, <1>2, <1>4, <1>5, <2>3, Fields
    <3>2. Popped(BelowContent(t) \o stk.elems[t]) =
            BelowContent(t) \o Popped(stk.elems[t])
      BY <2>2, <3>1, ConcatPopped
    <3> QED BY <2>1, <2>2, <3>1, <3>2 DEF Chained
  <2>4. CASE t # p
    <3>1. content'[t] = content[t] /\ stk'.elems[t] = stk.elems[t]
      BY <1>2, <1>4, <1>6, <1>9, <2>4, Fields
    <3> QED BY <2>1, <2>2, <3>1 DEF Chained
  <2> QED BY <2>3, <2>4
<1> QED BY <1>6, <1>8, <1>10, <1>11, <1>12, <1>13

(* One segment less on another one is one reference less to count.         *)
LEMMA OneLess ==
  ASSUME TypeOK, NEW x, NEW s \in Children(x)
  PROVE  Cardinality(Children(x) \ {s}) = Cardinality(Children(x)) - 1
BY ChildrenFinite, FS_RemoveElement

(* vm_stack_free's --vs->refcnt either ends the loop or leaves a segment   *)
(* that nothing lies on.                                                   *)
LEMMA FreeUncountInv ==
  ASSUME TypeOK, TypeOK', SegmentsOK, FreeUncount
  PROVE  SegmentsOK'
<1> USE DEF SegmentsOK
<1>0. PICK u \in Seg : u = uncount
  BY Fields DEF FreeUncount
<1>1. /\ stk'.live = stk.live /\ stk'.prev = stk.prev
      /\ stk'.elems = stk.elems /\ stk'.active = stk.active
      /\ stk'.refcnt = [stk.refcnt EXCEPT ![u] = stk.refcnt[u] - 1]
  BY <1>0, Fields DEF FreeUncount, SetRefcnt, StackRec
<1>2. /\ UNCHANGED <<conts, content, lost>> /\ uncount' = NULL
      /\ freeing' = IF stk.refcnt[u] = 1 THEN Append(freeing, u) ELSE freeing
  BY <1>0 DEF FreeUncount
<1>3. InUse' = InUse /\ Heads' = Heads
  BY <1>1, <1>2 DEF InUse, Heads
<1>4. \A s : Children(s)' = Children(s)
  BY <1>1, <1>3 DEF Children
<1>5. /\ u \in InUse /\ u \notin Heads /\ u # NULL /\ stk.refcnt[u] \in Int
      /\ \A i \in DOMAIN freeing : freeing[i] # u
  BY <1>0, Fields DEF FreeOK
<1>6. /\ References(u) = Cardinality(Children(u)) + 1
      /\ References(u)' = Cardinality(Children(u))
      /\ Cardinality(Children(u)) \in Nat
  BY <1>0, <1>2, <1>4, <1>5, ReferencesAre
<1>7. /\ stk.refcnt[u] >= Cardinality(Children(u)) + 1
      /\ lost = {} => stk.refcnt[u] = Cardinality(Children(u)) + 1
  BY <1>5, <1>6 DEF CountsOK
<1>8. /\ stk.refcnt[u] = 1 => Children(u) = {}
      /\ lost = {} /\ stk.refcnt[u] # 1 => Children(u) # {}
  BY <1>5, <1>6, <1>7, ChildrenFinite
<1>9. HeadsOK' /\ LinksOK' /\ ChainsOK'
  BY <1>1, <1>2, <1>3, <1>4
     DEF HeadsOK, LinksOK, ChainsOK, Chained, BelowContent
<1>10. CountsOK'
  <2> SUFFICES ASSUME NEW t \in InUse
               PROVE  /\ stk'.refcnt[t] >= References(t)'
                      /\ lost = {} => stk'.refcnt[t] = References(t)'
    BY <1>2, <1>3 DEF CountsOK
  <2>1. t \in Seg /\ t # NULL
    BY Fields DEF InUse
  <2>2. CASE t = u
    <3>1. stk'.refcnt[u] = stk.refcnt[u] - 1
      BY <1>1, Fields
    <3> QED BY <1>5, <1>6, <1>7, <2>2, <3>1
  <2>3. CASE t # u
    <3>1. References(t)' = References(t)
      BY <1>0, <1>2, <1>4, <2>1, <2>3, ReferencesAre
    <3>2. stk'.refcnt[t] = stk.refcnt[t]
      BY <1>1, <2>1, <2>3, Fields
    <3> QED BY <3>1, <3>2 DEF CountsOK
  <2> QED BY <2>2, <2>3
<1>11. CASE stk.refcnt[u] = 1
  <2>1. freeing \in Seq(Seg) /\ freeing' = Append(freeing, u)
    BY <1>2, <1>11 DEF TypeOK
  <2>2. /\ Len(freeing) \in Nat /\ DOMAIN freeing = 1..Len(freeing)
        /\ DOMAIN freeing' = 1..(Len(freeing) + 1)
        /\ \A i \in 1..Len(freeing) : freeing'[i] = freeing[i]
        /\ freeing'[Len(freeing) + 1] = u
    BY <2>1, AppendProperties, LenProperties
  <2>3. \A i \in 1..(Len(freeing) + 1) : i \in 1..Len(freeing) \/ i = Len(freeing) + 1
    BY <2>2
  <2>4. FreeOK'
    <3> SUFFICES ASSUME NEW i \in DOMAIN freeing'
                 PROVE  /\ freeing'[i] \in InUse \ Heads
                        /\ freeing'[i] # NULL
                        /\ Children(freeing'[i]) = {}
                        /\ \A j \in DOMAIN freeing' :
                             freeing'[i] = freeing'[j] => i = j
      BY <1>2, <1>3, <1>4 DEF FreeOK
    <3>1. CASE i = Len(freeing) + 1
      BY <1>5, <1>8, <1>11, <2>2, <2>3, <3>1
    <3>2. CASE i \in 1..Len(freeing)
      <4>1. /\ freeing'[i] = freeing[i] /\ freeing[i] \in InUse \ Heads
            /\ Children(freeing[i]) = {} /\ freeing[i] # u
            /\ \A j \in DOMAIN freeing : freeing[i] = freeing[j] => i = j
        BY <1>5, <2>2, <3>2 DEF FreeOK
      <4>2. freeing[i] # NULL
        BY <4>1, Fields DEF InUse
      <4> QED BY <2>2, <2>3, <4>1, <4>2
    <3> QED BY <2>2, <2>3, <3>1, <3>2
  <2>5. LeakOK'
    <3>1. FreeCalls \cup {u} \subseteq FreeCalls'
      BY <2>2, <2>3 DEF FreeCalls
    <3> QED BY <1>0, <1>2, <1>3, <1>4, <3>1 DEF LeakOK
  <2> QED BY <1>1, <1>2, <1>9, <1>10, <2>4, <2>5
<1>12. CASE stk.refcnt[u] # 1
  <2>1. freeing' = freeing /\ FreeCalls' = FreeCalls
    BY <1>2, <1>12 DEF FreeCalls
  <2>2. FreeOK'
    <3>1. \A i \in DOMAIN freeing : freeing[i] # NULL
      BY Fields DEF FreeOK, InUse
    <3> QED BY <1>2, <1>3, <1>4, <2>1, <3>1 DEF FreeOK
  <2>3. LeakOK'
    BY <1>0, <1>2, <1>3, <1>4, <1>8, <1>12, <2>1 DEF LeakOK
  <2> QED BY <1>1, <1>2, <1>9, <1>10, <2>2, <2>3
<1> QED BY <1>11, <1>12

(* vm_stack_free gives back a segment that nothing lies on and goes on     *)
(* with the reference that one had to the segment below.                   *)
LEMMA FreeSegmentInv ==
  ASSUME TypeOK, TypeOK', SegmentsOK, FreeSegment
  PROVE  SegmentsOK'
<1> USE DEF SegmentsOK
<1>0. /\ freeing \in Seq(Seg) /\ freeing # <<>> /\ Len(freeing) \in Nat
      /\ DOMAIN freeing = 1..Len(freeing) /\ Len(freeing) \in DOMAIN freeing
  <2>1. freeing \in Seq(Seg) /\ freeing # <<>>
    BY DEF TypeOK, FreeSegment
  <2> QED BY <2>1
<1>1. PICK s \in Seg : s = freeing[Len(freeing)]
  BY <1>0
<1>2. /\ stk'.live = stk.live \ {s}
      /\ stk'.prev = [stk.prev EXCEPT ![s] = NULL]
      /\ stk'.elems = [stk.elems EXCEPT ![s] = <<>>]
      /\ stk'.refcnt = [stk.refcnt EXCEPT ![s] = 0]
      /\ stk'.active = stk.active
  BY <1>1 DEF FreeSegment, Release
<1>3. /\ UNCHANGED <<conts, lost>> /\ uncount = NULL /\ uncount' = stk.prev[s]
      /\ freeing' = Popped(freeing)
      /\ content' = [content EXCEPT ![s] = <<>>]
  BY <1>1 DEF FreeSegment, Quiet
<1>4. s \in InUse /\ s \notin Heads /\ Children(s) = {}
  BY <1>0, <1>1 DEF FreeOK
<1>5. InUse' = InUse \ {s} /\ Heads' = Heads /\ lost' \subseteq stk'.live
  BY <1>2, <1>3, <1>4 DEF InUse, Heads
<1>6. \A t \in InUse' : /\ t \in Seg /\ t # NULL /\ t \in InUse
                        /\ stk.prev[t] # s
                        /\ stk.prev[t] \in InUse \cup {NULL}
                        /\ stk'.prev[t] = stk.prev[t]
                        /\ stk'.elems[t] = stk.elems[t]
                        /\ stk'.refcnt[t] = stk.refcnt[t]
                        /\ content'[t] = content[t]
  BY <1>2, <1>3, <1>4, <1>5, Fields DEF Children, LinksOK, InUse
<1>7. PICK x \in InUse \cup {NULL} : x = stk.prev[s]
  BY <1>4 DEF LinksOK
<1>8. /\ \A t \in InUse' \ {x} : Children(t)' = Children(t)
      /\ Children(x)' = Children(x) \ {s}
      /\ s \in Children(x) /\ x # s
  <2>1. s \in Children(x) /\ x # s
    BY <1>4, <1>7 DEF Children
  <2> QED BY <1>4, <1>5, <1>6, <1>7, <2>1 DEF Children
<1>9. HeadsOK'
  <2>1. x \notin Heads
    BY <1>8 DEF HeadsOK
  <2> QED BY <1>2, <1>3, <1>4, <1>5, <1>8, <2>1 DEF HeadsOK, Heads
<1>10. LinksOK'
  <2>1. \A t \in InUse' : stk.prev[t] # NULL => stk.prev[t] \in InUse'
    BY <1>5, <1>6
  <2> QED BY <1>6, <2>1 DEF LinksOK
<1>11. CountsOK'
  <2> SUFFICES ASSUME NEW t \in InUse'
               PROVE  /\ stk'.refcnt[t] >= References(t)'
                      /\ lost = {} => stk'.refcnt[t] = References(t)'
    BY <1>3 DEF CountsOK
  <2>1. References(t) = Cardinality(Children(t))
    BY <1>3, <1>6, ReferencesAre
  <2>2. References(t)' = References(t)
    <3>1. CASE t = x
      BY <1>3, <1>7, <1>8, <2>1, <3>1, OneLess, ReferencesAre
    <3>2. CASE t # x
      BY <1>3, <1>7, <1>8, <2>1, <3>2, ReferencesAre
    <3> QED BY <3>1, <3>2
  <2> QED BY <1>6, <2>2 DEF CountsOK
<1>12. ChainsOK'
  <2> SUFFICES ASSUME NEW t \in InUse' PROVE Chained(t)'
    BY DEF ChainsOK
  <2>1. BelowContent(t)' = BelowContent(t)
    <3>1. stk.prev[t] # NULL => stk.prev[t] \in InUse'
      BY <1>5, <1>6
    <3> QED BY <1>6, <3>1 DEF BelowContent
  <2> QED BY <1>6, <2>1 DEF ChainsOK, Chained
<1>f. /\ DOMAIN freeing' = 1..(Len(freeing) - 1)
      /\ \A i \in 1..(Len(freeing) - 1) :
           /\ i \in DOMAIN freeing /\ i # Len(freeing)
           /\ freeing'[i] = freeing[i]
      /\ \A i \in DOMAIN freeing :
           i \in 1..(Len(freeing) - 1) \/ i = Len(freeing)
  <2> DEFINE n == Len(freeing) - 1
  <2>1. n \in Nat /\ Len(freeing) = n + 1 /\ DOMAIN freeing = 1..(n + 1)
    BY <1>0
  <2>2. freeing' = SubSeq(freeing, 1, n)
    BY <1>3 DEF Popped
  <2>3. \A i \in 1..n : freeing[i] \in Seg
    BY <1>0, <2>1
  <2>4. /\ freeing' \in Seq(Seg) /\ Len(freeing') = n
        /\ \A i \in 1..n : freeing'[i] = freeing[i]
    BY <1>0, <2>1, <2>2, <2>3, SubSeqProperties
  <2> HIDE DEF n
  <2>5. DOMAIN freeing' = 1..n
    BY <2>4
  <2>6. \A i \in 1..n : i \in 1..(n + 1) /\ i # n + 1
    BY <2>1
  <2>7. \A i \in 1..(n + 1) : i \in 1..n \/ i = n + 1
    BY <2>1
  <2>8. /\ DOMAIN freeing' = 1..n
        /\ \A i \in 1..n : /\ i \in DOMAIN freeing /\ i # Len(freeing)
                           /\ freeing'[i] = freeing[i]
        /\ \A i \in DOMAIN freeing : i \in 1..n \/ i = Len(freeing)
    BY <2>1, <2>4, <2>5, <2>6, <2>7
  <2> QED BY <2>8 DEF n
<1>13. FreeOK'
  <2>1. x # NULL => x \in InUse' /\ x \notin Heads'
    BY <1>5, <1>8 DEF HeadsOK
  <2>2. ASSUME NEW i \in 1..(Len(freeing) - 1)
        PROVE  /\ freeing'[i] \in InUse' \ Heads'
               /\ freeing'[i] # uncount'
               /\ Children(freeing[i])' = {}
               /\ \A j \in DOMAIN freeing' : freeing'[i] = freeing'[j] => i = j
    <3>0. i \in DOMAIN freeing /\ i # Len(freeing) /\ freeing'[i] = freeing[i]
      BY <1>f
    <3>a. freeing[i] \in Seg
      BY <1>0, <3>0
    <3>1. PICK g \in Seg : g = freeing[i] /\ freeing'[i] = g
      BY <3>0, <3>a
    <3>2. g \in InUse \ Heads /\ Children(g) = {} /\ g # s
      BY <1>0, <1>1, <3>0, <3>1 DEF FreeOK
    <3>3. g # x
      BY <1>8, <3>2
    <3>4. Children(g)' = {}
      BY <1>5, <1>8, <3>2, <3>3
    <3>5. \A j \in DOMAIN freeing' : freeing'[i] = freeing'[j] => i = j
      BY <1>f, <3>1 DEF FreeOK
    <3>6. Children(freeing[i])' = {}
      BY <3>1, <3>4
    <3> QED BY <1>3, <1>5, <1>7, <3>1, <3>2, <3>3, <3>5, <3>6
  <2> QED BY <1>3, <1>7, <1>f, <2>1, <2>2 DEF FreeOK
<1>14. LeakOK'
  <2> SUFFICES ASSUME lost = {}, NEW t \in InUse'
               PROVE  \/ t \in Heads' \cup FreeCalls' \cup {uncount'}
                      \/ Children(t)' # {}
    BY <1>3 DEF LeakOK
  <2>1. t # s /\ (t \in Heads \cup FreeCalls \/ Children(t) # {})
    BY <1>3, <1>5, <1>6 DEF LeakOK
  <2>2. t \in FreeCalls => t \in FreeCalls'
    BY <1>1, <1>f, <2>1 DEF FreeCalls
  <2> QED BY <1>3, <1>5, <1>7, <1>8, <2>1, <2>2
<1> QED BY <1>5, <1>9, <1>10, <1>11, <1>12, <1>13, <1>14

(* What the exchange finds when it looks below the active segment a: the   *)
(* segment p there, the one x below p, and that a alone lies on p when p   *)
(* has one reference.                                                      *)
XchFinds(a, p, x) ==
  /\ a = stk.active /\ p = stk.prev[a] /\ x = stk.prev[p]
  /\ a \in InUse /\ a \notin conts /\ Children(a) = {}
  /\ p \in InUse /\ p # a /\ p \notin conts /\ a \in Children(p)
  /\ Len(stk.elems[p]) >= 2 /\ stk.elems[p] \in Seq(Value)
  /\ x \in InUse \cup {NULL} /\ x # p /\ x # a
  /\ x # NULL => Len(stk.elems[x]) >= 2 /\ p \in Children(x)
  /\ stk.refcnt[p] = 1 => Children(p) = {a}
  /\ uncount = NULL /\ freeing = <<>>

(* What u6a_vm_stack_xch_split_ finds: the segment below, in use, with at  *)
(* least two values, and not shared when its refcnt is 1.                  *)
LEMMA XchBase ==
  ASSUME TypeOK, TypeOK', SegmentsOK, Ready, Below(stk) \in stk.live
  PROVE  \E a, p \in Seg : \E x \in Seg \cup {NULL} : XchFinds(a, p, x)
<1> USE DEF SegmentsOK
<1>0. PICK a \in Seg : a = stk.active
  BY Fields
<1>1. PICK p \in Seg : p = stk.prev[a] /\ p \in stk.live
  BY <1>0, Fields DEF Below
<1>2. PICK x \in Seg \cup {NULL} : x = stk.prev[p]
  BY <1>1, Fields
<1>3. a \in InUse /\ a \notin conts /\ Children(a) = {}
  BY <1>0 DEF HeadsOK, Heads
<1>4. /\ p \in InUse /\ Len(stk.elems[p]) >= 2 /\ a \in Children(p)
      /\ stk.elems[p] \in Seq(Value)
  BY <1>1, <1>3, Fields DEF LinksOK, Children
<1>5. p # a /\ p \notin conts
  BY <1>3, <1>4 DEF HeadsOK, Heads
<1>6. /\ x \in InUse \cup {NULL} /\ x # a
      /\ x # NULL => Len(stk.elems[x]) >= 2 /\ p \in Children(x)
  BY <1>2, <1>3, <1>4, Fields DEF LinksOK, Children
<1>7. x # p
  <2> SUFFICES ASSUME x = p PROVE FALSE
    OBVIOUS
  <2>1. content[p] = content[p] \o stk.elems[p] /\ content[p] \in Seq(Value)
    BY <1>2, <1>4, Fields DEF ChainsOK, Chained, BelowContent
  <2>2. content[p] \o stk.elems[p] # content[p]
    BY <1>4, <2>1, ConcatLonger, Zenon
  <2> QED BY <2>1, <2>2, Zenon
<1>8. uncount = NULL /\ freeing = <<>>
  BY DEF Ready, Quiet
<1>9. ASSUME stk.refcnt[p] = 1 PROVE Children(p) = {a}
  <2>1. Cardinality(Children(p)) <= 1
    BY <1>4, <1>8, <1>9, Fields, ReferencesAre DEF CountsOK
  <2>2. Cardinality(Children(p) \ {a}) = Cardinality(Children(p)) - 1
    BY <1>4, OneLess
  <2>3. Children(p) \ {a} \in SUBSET Seg
    BY Fields DEF Children, InUse
  <2>4. Cardinality(Children(p) \ {a}) \in Nat /\ Cardinality(Children(p)) \in Nat
    BY <2>3, SegSets, ChildrenFinite
  <2>5. Cardinality(Children(p) \ {a}) = 0
    BY <2>1, <2>2, <2>4
  <2>6. Children(p) \ {a} = {}
    BY <2>3, <2>5, SegSets
  <2> QED BY <1>4, <2>6
<1> QED BY <1>0, <1>1, <1>2, <1>3, <1>4, <1>5, <1>6, <1>7, <1>8, <1>9
        DEF XchFinds

(* The exchange writes the segment below in place.                         *)
LEMMA XchAcrossSame ==
  ASSUME TypeOK, TypeOK', SegmentsOK, NEW v \in Value, XchAcross(v),
         ~MustCopyBelow(stk)
  PROVE  SegmentsOK'
<1> USE DEF SegmentsOK
<1>0. PICK a \in Seg, p \in Seg, x \in Seg \cup {NULL} : XchFinds(a, p, x)
  BY XchBase DEF XchAcross
<1> USE DEF XchFinds
<1>1. stk.refcnt[p] = 1 /\ Children(p) = {a}
  BY <1>0 DEF MustCopyBelow, Below
<1>2. /\ stk' = XchBelow(stk, v, p)
      /\ content' = [content EXCEPT ![a] = WithSecond(@, v),
                                    ![p] = WithTop(content[p], v)]
      /\ UNCHANGED <<conts, uncount, freeing, lost>>
      /\ Len(stk.elems[a]) = 1
  BY <1>0 DEF XchAcross, Below, ActiveElems
<1>3. /\ stk'.live = stk.live /\ stk'.active = a
      /\ stk'.prev = [stk.prev EXCEPT ![a] = p]
      /\ stk'.elems = [stk.elems EXCEPT ![p] = WithTop(stk.elems[p], v)]
      /\ stk'.refcnt = [[stk.refcnt EXCEPT ![p] = stk.refcnt[p] - 1]
                          EXCEPT ![p] = @ + 1]
  BY <1>0, <1>2, Fields DEF XchBelow, Below, SetRefcnt, StackRec
<1>4. stk'.prev = stk.prev
  BY <1>0, <1>3, Fields
<1>5. stk'.refcnt = stk.refcnt
  <2>1. \A u \in Seg : stk'.refcnt[u] = stk.refcnt[u]
    BY <1>1, <1>3, Fields
  <2> QED BY <1>3, <2>1, Fields
<1>6. InUse' = InUse /\ Heads' = Heads /\ FreeCalls' = FreeCalls
  BY <1>0, <1>2, <1>3 DEF InUse, Heads, FreeCalls
<1>7. \A s : Children(s)' = Children(s)
  BY <1>4, <1>6 DEF Children
<1>8. /\ HeadsOK' /\ CountsOK' /\ FreeOK' /\ LeakOK' /\ lost' \subseteq stk'.live
  <2>1. stk'.active = stk.active
    BY <1>0, <1>3
  <2>2. HeadsOK'
    BY <1>2, <1>6, <1>7, <2>1 DEF HeadsOK
  <2>3. \A s : References(s)' = References(s)
    BY <1>2, <1>7 DEF References
  <2>4. CountsOK'
    BY <1>2, <1>5, <1>6, <2>3 DEF CountsOK
  <2>5. FreeOK'
    BY <1>2, <1>6, <1>7 DEF FreeOK
  <2>6. LeakOK'
    BY <1>2, <1>6, <1>7 DEF LeakOK
  <2> QED BY <1>2, <1>3, <2>2, <2>4, <2>5, <2>6
<1>9. \A t \in InUse : /\ t \in Seg /\ stk.prev[t] # a
                       /\ stk.prev[t] \in InUse \cup {NULL}
                       /\ t # a => stk.prev[t] # p
  BY <1>0, <1>1, Fields DEF Children, LinksOK, InUse
<1>10. /\ WithTop(stk.elems[p], v) \in Seq(Value)
       /\ Len(WithTop(stk.elems[p], v)) = Len(stk.elems[p])
       /\ stk.elems[p] # <<>>
  BY <1>0, SeqTypes DEF WithTop
<1>11. LinksOK'
  <2> SUFFICES ASSUME NEW t \in InUse, stk.prev[t] # NULL
               PROVE  /\ stk.prev[t] \in InUse
                      /\ Len(stk'.elems[stk.prev[t]]) >= 2
    BY <1>4, <1>6 DEF LinksOK
  <2>1. stk.prev[t] \in InUse /\ Len(stk.elems[stk.prev[t]]) >= 2
    BY DEF LinksOK
  <2>2. CASE stk.prev[t] = p
    BY <1>0, <1>3, <1>10, <2>1, <2>2, Fields
  <2>3. CASE stk.prev[t] # p
    BY <1>3, <2>1, <2>3, Fields
  <2> QED BY <2>1, <2>2, <2>3
<1>12. ChainsOK'
  <2>1. Chained(a)' /\ Chained(p)'
    <3>1. /\ content[p] = BelowContent(p) \o stk.elems[p]
          /\ content[a] = content[p] \o stk.elems[a]
          /\ BelowContent(p) \in Seq(Value)
          /\ content[p] \in Seq(Value) /\ stk.elems[a] \in Seq(Value)
          /\ stk.elems[p] \in Seq(Value)
      BY <1>0, Fields, BelowType DEF ChainsOK, Chained, BelowContent
    <3>2. WithTop(content[p], v) = BelowContent(p) \o WithTop(stk.elems[p], v)
      <4>1. WithTop(BelowContent(p) \o stk.elems[p], v) =
              BelowContent(p) \o WithTop(stk.elems[p], v)
        <5>1. \A b, e \in Seq(Value) :
                e # <<>> => WithTop(b \o e, v) = b \o WithTop(e, v)
          BY ConcatTop
        <5> QED BY <1>10, <3>1, <5>1, Zenon
      <4> QED BY <3>1, <4>1, Zenon
    <3>3. content[p] # <<>>
      <4>1. BelowContent(p) \o stk.elems[p] # <<>>
        <5>1. Len(stk.elems[p]) >= 2
          BY <1>0
        <5> QED BY <3>1, <5>1, ConcatLonger, Zenon
      <4> QED BY <3>1, <4>1, Zenon
    <3>4. WithSecond(content[a], v) = WithTop(content[p], v) \o stk.elems[a]
      BY <1>2, <3>1, <3>3, ConcatAcross
    <3>5. /\ content'[a] = WithSecond(content[a], v)
          /\ content'[p] = WithTop(content[p], v)
          /\ stk'.elems[a] = stk.elems[a]
          /\ stk'.elems[p] = WithTop(stk.elems[p], v)
          /\ x # NULL => content'[x] = content[x]
      BY <1>0, <1>2, <1>3, Fields
    <3>6. BelowContent(p)' = BelowContent(p)
      BY <1>0, <1>4, <3>5 DEF BelowContent
    <3>7. BelowContent(a)' = content'[p]
      BY <1>0, <1>4, Fields DEF BelowContent
    <3> QED BY <3>2, <3>4, <3>5, <3>6, <3>7 DEF Chained
  <2>2. ASSUME NEW t \in InUse, t # a, t # p PROVE Chained(t)'
    <3>1. /\ content'[t] = content[t] /\ stk'.elems[t] = stk.elems[t]
          /\ stk.prev[t] # NULL => content'[stk.prev[t]] = content[stk.prev[t]]
      BY <1>2, <1>3, <1>9, <2>2, Fields
    <3>2. BelowContent(t)' = BelowContent(t)
      BY <1>4, <3>1 DEF BelowContent
    <3> QED BY <2>2, <3>1, <3>2 DEF Chained, ChainsOK
  <2> QED BY <1>6, <2>1, <2>2 DEF ChainsOK
<1> QED BY <1>8, <1>11, <1>12

(* ConcatTop for the values of the stack.                                  *)
LEMMA TopAcross ==
  \A v \in Value : \A r, t \in Seq(Value) :
    t # <<>> => WithTop(r \o t, v) = r \o WithTop(t, v)
BY ConcatTop

(* Exchanges write the top value below into the contents of two segments.  *)
LEMMA ExchangedAcross ==
  \A b, e, f \in Seq(Value) : \A v \in Value :
    TwoOrMore(e) =>
      /\ WithTop(b \o e, v) = b \o WithTop(e, v)
      /\ Len(f) = 1 => WithSecond((b \o e) \o f, v) = WithTop(b \o e, v) \o f
      /\ WithSecond(b \o e, v) = b \o WithSecond(e, v)
<1> SUFFICES ASSUME NEW b \in Seq(Value), NEW e \in Seq(Value),
                    NEW f \in Seq(Value), NEW v \in Value, TwoOrMore(e)
             PROVE  /\ WithTop(b \o e, v) = b \o WithTop(e, v)
                    /\ Len(f) = 1 => WithSecond((b \o e) \o f, v) =
                                       WithTop(b \o e, v) \o f
                    /\ WithSecond(b \o e, v) = b \o WithSecond(e, v)
  BY Zenon
<1>1. e # <<>>
  BY DEF TwoOrMore
<1>2. PICK c \in Seq(Value) : c = b \o e
  BY ConcatProperties
<1>3. c # <<>>
  BY <1>2, ConcatLonger DEF TwoOrMore
<1>4. WithTop(b \o e, v) = b \o WithTop(e, v)
  BY <1>1, TopAcross, Zenon
<1>5. WithSecond(b \o e, v) = b \o WithSecond(e, v)
  BY ONLY b \in Seq(Value), e \in Seq(Value), v \in Value, TwoOrMore(e),
          ConcatSecond
<1>6. Len(f) = 1 /\ c # <<>> => WithSecond(c \o f, v) = WithTop(c, v) \o f
  BY ConcatAcross
<1>7. Len(f) = 1 => WithSecond(c \o f, v) = WithTop(c, v) \o f
  BY <1>3, <1>6, Zenon
<1> QED BY <1>2, <1>4, <1>5, <1>7, Zenon

(* The exchange copies the segment below to d first.                       *)
LEMMA XchAcrossCopy ==
  ASSUME TypeOK, TypeOK', SegmentsOK, NEW v \in Value, XchAcross(v),
         MustCopyBelow(stk)
  PROVE  SegmentsOK'
<1> USE DEF SegmentsOK
<1>0. PICK a \in Seg, p \in Seg, x \in Seg \cup {NULL} : XchFinds(a, p, x)
  BY XchBase DEF XchAcross
<1> USE DEF XchFinds
<1>1. stk.refcnt[p] # 1
  BY <1>0 DEF MustCopyBelow, Below
<1>2. PICK d \in Seg \ stk.live :
        /\ stk' = XchBelow(stk, v, d)
        /\ content' = [content EXCEPT ![a] = WithSecond(@, v),
                                      ![d] = WithTop(content[p], v)]
  BY <1>0 DEF XchAcross, Below
<1>3. /\ UNCHANGED <<conts, uncount, freeing, lost>>
      /\ Len(stk.elems[a]) = 1
  BY <1>0 DEF XchAcross, ActiveElems
<1>4. d \notin InUse /\ d # a /\ d # p /\ d # x /\ d # NULL
  BY <1>0, Fields DEF InUse
<1>5. /\ stk'.live = stk.live \cup {d} /\ stk'.active = a
      /\ stk'.prev = [[stk.prev EXCEPT ![d] = x] EXCEPT ![a] = d]
      /\ stk'.elems = [[stk.elems EXCEPT ![d] = stk.elems[p]]
                         EXCEPT ![d] = WithTop(@, v)]
  BY <1>0, <1>1, <1>2, Fields
     DEF XchBelow, Below, SetRefcnt, Dup, StackRec, MustCopyBelow
<1>6. \A u \in Seg :
        /\ stk'.prev[u] = IF u = a THEN d ELSE IF u = d THEN x ELSE stk.prev[u]
        /\ stk'.elems[u] = IF u = d THEN WithTop(stk.elems[p], v)
                                    ELSE stk.elems[u]
        /\ content'[u] = IF u = a THEN WithSecond(content[a], v)
                         ELSE IF u = d THEN WithTop(content[p], v)
                         ELSE content[u]
  <2>1. \A u \in Seg : stk'.prev[u] = IF u = a THEN d ELSE IF u = d THEN x
                                      ELSE stk.prev[u]
    BY <1>4, <1>5, Fields
  <2>2. \A u \in Seg : stk'.elems[u] = IF u = d THEN WithTop(stk.elems[p], v)
                                       ELSE stk.elems[u]
    BY <1>5, Fields
  <2>3. \A u \in Seg : content'[u] = IF u = a THEN WithSecond(content[a], v)
                                     ELSE IF u = d THEN WithTop(content[p], v)
                                     ELSE content[u]
    BY <1>2, <1>4, Fields
  <2> QED BY <2>1, <2>2, <2>3
<1>7. \A u \in Seg :
        stk'.refcnt[u] = IF u = d THEN 1
                         ELSE IF u = x THEN stk.refcnt[u] + 1
                         ELSE IF u = p THEN stk.refcnt[u] - 1
                         ELSE stk.refcnt[u]
  <2> DEFINE k0 == SetRefcnt(stk, p, stk.refcnt[p] - 1)
  <2>1. /\ k0.prev = stk.prev
        /\ k0.refcnt = [stk.refcnt EXCEPT ![p] = stk.refcnt[p] - 1]
    BY Fields DEF SetRefcnt, StackRec
  <2>2. stk'.refcnt = [Dup(k0, p, d).refcnt EXCEPT ![d] = @ + 1]
    BY <1>0, <1>2 DEF XchBelow, Below
  <2>3. Dup(k0, p, d).refcnt =
          [u \in Seg |-> IF u = d THEN 0
                         ELSE IF u = x THEN k0.refcnt[u] + 1 ELSE k0.refcnt[u]]
    BY <1>0, <2>1, Fields DEF Dup
  <2> HIDE DEF k0
  <2>4. \A u \in Seg :
          stk'.refcnt[u] = IF u = d THEN 0 + 1
                           ELSE IF u = x THEN k0.refcnt[u] + 1 ELSE k0.refcnt[u]
    BY <2>2, <2>3
  <2>5. \A u \in Seg : k0.refcnt[u] = IF u = p THEN stk.refcnt[u] - 1
                                      ELSE stk.refcnt[u]
    BY <2>1, Fields
  <2> QED BY <1>0, <2>4, <2>5
<1>8. /\ InUse' = InUse \cup {d} /\ Heads' = Heads /\ FreeCalls' = FreeCalls
      /\ lost' \subseteq stk'.live /\ InUse \subseteq Seg
  BY <1>0, <1>2, <1>3, <1>5, Fields DEF InUse, Heads, FreeCalls
<1>9. \A t \in InUse : t # a => /\ stk'.prev[t] = stk.prev[t]
                               /\ stk.prev[t] \in InUse \cup {NULL}
                               /\ stk.prev[t] # a /\ stk.prev[t] # d
  BY <1>0, <1>4, <1>6, <1>8 DEF LinksOK, Children
<1>10. Children(d)' = {a}
  BY <1>0, <1>4, <1>6, <1>8, <1>9 DEF Children
<1>11. Children(p)' = Children(p) \ {a}
  BY <1>0, <1>4, <1>6, <1>8, <1>9 DEF Children
<1>12. x # NULL => Children(x)' = Children(x) \cup {d}
  BY <1>0, <1>4, <1>6, <1>8, <1>9 DEF Children
<1>13. \A t \in InUse \ {p, x} : Children(t)' = Children(t)
  BY <1>0, <1>4, <1>6, <1>8, <1>9 DEF Children
<1>14. HeadsOK'
  <2>1. x \notin Heads /\ p \notin Heads /\ d \notin Heads
    BY <1>0, <1>4, Fields DEF HeadsOK, Heads, InUse
  <2>2. \A h \in Heads : h \in InUse /\ Children(h) = {}
    BY <1>0 DEF HeadsOK, Heads
  <2>3. \A h \in Heads : Children(h)' = {}
    BY <1>13, <2>1, <2>2
  <2> QED BY <1>0, <1>3, <1>5, <1>8, <2>2, <2>3 DEF HeadsOK
<1>15. WithTop(stk.elems[p], v) \in Seq(Value)
       /\ Len(WithTop(stk.elems[p], v)) = Len(stk.elems[p])
  BY <1>0, SeqTypes DEF WithTop
<1>16. LinksOK'
  <2> SUFFICES ASSUME NEW t \in InUse', stk'.prev[t] # NULL
               PROVE  /\ stk'.prev[t] \in InUse'
                      /\ Len(stk'.elems[stk'.prev[t]]) >= 2
    BY DEF LinksOK
  <2>1. CASE t = a
    BY <1>0, <1>6, <1>8, <1>15, <2>1
  <2>2. CASE t = d
    BY <1>0, <1>4, <1>6, <1>8, <2>2
  <2>3. CASE t # a /\ t # d
    BY <1>6, <1>8, <1>9, <2>3 DEF LinksOK
  <2> QED BY <2>1, <2>2, <2>3
<1>17. CountsOK'
  <2> SUFFICES ASSUME NEW t \in InUse'
               PROVE  /\ stk'.refcnt[t] >= References(t)'
                      /\ lost = {} => stk'.refcnt[t] = References(t)'
    BY <1>3 DEF CountsOK
  <2>1. /\ t \in Seg /\ t # NULL
        /\ References(t)' = Cardinality(Children(t)')
        /\ References(t) = Cardinality(Children(t))
        /\ Cardinality(Children(t)) \in Nat
    BY <1>0, <1>3, <1>8, Fields, ReferencesAre
  <2>2. t \in InUse => /\ stk.refcnt[t] \in Int
                       /\ stk.refcnt[t] >= Cardinality(Children(t))
                       /\ lost = {} => stk.refcnt[t] = Cardinality(Children(t))
    BY <2>1, Fields DEF CountsOK
  <2>3. CASE t = d
    <3>1. Cardinality(Children(t)') = 1
      BY <1>10, <2>3, FS_Singleton
    <3> QED BY <1>7, <2>1, <2>3, <3>1
  <2>4. CASE t = p
    <3>1. Cardinality(Children(t)') = Cardinality(Children(t)) - 1
      BY <1>0, <1>11, <2>4, OneLess
    <3> QED BY <1>0, <1>4, <1>7, <2>1, <2>2, <2>4, <3>1
  <2>5. CASE t = x
    <3>0. d \notin Children(x)
      BY <1>4 DEF Children
    <3>1. Cardinality(Children(t)') = Cardinality(Children(t)) + 1
      BY <1>12, <2>1, <2>5, <3>0, OneMore
    <3>2. stk'.refcnt[t] = stk.refcnt[t] + 1 /\ t \in InUse
      BY <1>0, <1>4, <1>7, <2>1, <2>5
    <3> QED BY <2>1, <2>2, <3>1, <3>2
  <2>6. CASE t # d /\ t # p /\ t # x
    BY <1>7, <1>8, <1>13, <2>1, <2>2, <2>6
  <2> QED BY <2>3, <2>4, <2>5, <2>6
<1>18. FreeOK'
  BY <1>0, <1>3 DEF FreeOK
<1>19. LeakOK'
  <2> SUFFICES ASSUME lost = {}, NEW t \in InUse'
               PROVE  t \in Heads \/ Children(t)' # {}
    BY <1>3, <1>8 DEF LeakOK
  <2>1. t \in InUse => t \in Heads \/ Children(t) # {}
    <3>1. FreeCalls = {} /\ t # NULL
      BY <1>0, <1>4, <1>8, Fields DEF FreeCalls
    <3> QED BY <1>0, <3>1 DEF LeakOK
  <2>2. CASE t = d
    BY <1>10, <2>2
  <2>3. CASE t = p
    <3>1. stk.refcnt[p] = Cardinality(Children(p))
      BY <1>0, Fields, ReferencesAre DEF CountsOK
    <3>2. Children(p) # {a}
      BY <1>1, <3>1, FS_Singleton
    <3> QED BY <1>0, <1>11, <2>3, <3>2
  <2>4. CASE t = x /\ t # d
    BY <1>4, <1>8, <1>12, <2>4, Fields
  <2>5. CASE t # d /\ t # p /\ t # x
    BY <1>8, <1>13, <2>1, <2>5
  <2> QED BY <2>2, <2>3, <2>4, <2>5
<1>20. ChainsOK'
  <2>1. Chained(a)' /\ Chained(d)'
    <3>1. /\ content[p] = BelowContent(p) \o stk.elems[p]
          /\ content[a] = content[p] \o stk.elems[a]
          /\ BelowContent(p) \in Seq(Value)
          /\ stk.elems[a] \in Seq(Value)
      BY <1>0, Fields, BelowType DEF ChainsOK, Chained, BelowContent
    <3>2. /\ WithTop(content[p], v) =
               BelowContent(p) \o WithTop(stk.elems[p], v)
          /\ WithSecond(content[a], v) = WithTop(content[p], v) \o stk.elems[a]
      <4>1. stk.elems[p] \in Seq(Value) /\ Len(stk.elems[p]) >= 2
        BY <1>0
      <4>2. PICK b \in Seq(Value), e \in Seq(Value), f \in Seq(Value) :
              b = BelowContent(p) /\ e = stk.elems[p] /\ f = stk.elems[a]
        BY <3>1, <4>1, Zenon
      <4>3. /\ WithTop(b \o e, v) = b \o WithTop(e, v)
            /\ WithSecond((b \o e) \o f, v) = WithTop(b \o e, v) \o f
        <5>1. TwoOrMore(e) /\ Len(f) = 1
          BY <1>3, <4>1, <4>2 DEF TwoOrMore
        <5>2. TwoOrMore(e) =>
                /\ WithTop(b \o e, v) = b \o WithTop(e, v)
                /\ Len(f) = 1 => WithSecond((b \o e) \o f, v) =
                                   WithTop(b \o e, v) \o f
          BY ONLY b \in Seq(Value), e \in Seq(Value), f \in Seq(Value),
                  v \in Value, ExchangedAcross
        <5> QED BY <5>1, <5>2, Zenon
      <4>4. content[p] = b \o e /\ content[a] = (b \o e) \o f
        BY <3>1, <4>2, Zenon
      <4> QED BY <4>2, <4>3, <4>4, Zenon
    <3>3. BelowContent(d)' = BelowContent(p)
      BY <1>0, <1>4, <1>6 DEF BelowContent
    <3>4. BelowContent(a)' = content'[d]
      BY <1>4, <1>6 DEF BelowContent
    <3> QED BY <1>4, <1>6, <3>2, <3>3, <3>4 DEF Chained
  <2>2. ASSUME NEW t \in InUse, t # a PROVE Chained(t)'
    <3>1. BelowContent(t)' = BelowContent(t)
      BY <1>6, <1>8, <1>9, <2>2 DEF BelowContent
    <3> QED BY <1>4, <1>6, <1>8, <2>2, <3>1 DEF Chained, ChainsOK
  <2> QED BY <1>8, <2>1, <2>2 DEF ChainsOK
<1> QED BY <1>8, <1>14, <1>16, <1>17, <1>18, <1>19, <1>20

(* The contents of the segment p below change in their second value.       *)
LEMMA SecondBelow ==
  ASSUME TypeOK, SegmentsOK, NEW p \in InUse, NEW v \in Value,
         Len(stk.elems[p]) >= 2
  PROVE  /\ WithSecond(content[p], v) =
              BelowContent(p) \o WithSecond(stk.elems[p], v)
         /\ WithSecond(stk.elems[p], v) \in Seq(Value)
<1>1. p \in Seg
  BY Fields DEF InUse
<1>2. /\ content[p] = BelowContent(p) \o stk.elems[p]
      /\ BelowContent(p) \in Seq(Value) /\ stk.elems[p] \in Seq(Value)
  BY <1>1, Fields, BelowType DEF SegmentsOK, ChainsOK, Chained
<1>3. PICK b \in Seq(Value), e \in Seq(Value) :
        b = BelowContent(p) /\ e = stk.elems[p]
  BY <1>2, Zenon
<1>4. TwoOrMore(e)
  BY <1>3 DEF TwoOrMore
<1>5. WithSecond(b \o e, v) = b \o WithSecond(e, v)
  BY ONLY b \in Seq(Value), e \in Seq(Value), v \in Value, <1>4, ConcatSecond
<1>6. WithSecond(e, v) \in Seq(Value)
  BY SeqTypes
<1> QED BY <1>2, <1>3, <1>5, <1>6, Zenon

(* The empty segment goes and the one below is written in place.           *)
LEMMA XchEmptySame ==
  ASSUME TypeOK, TypeOK', SegmentsOK, NEW v \in Value, XchEmpty(v),
         ~MustCopyBelow(stk)
  PROVE  SegmentsOK'
<1> USE DEF SegmentsOK
<1>0. PICK a \in Seg, p \in Seg, x \in Seg \cup {NULL} : XchFinds(a, p, x)
  BY XchBase DEF XchEmpty
<1> USE DEF XchFinds
<1>1. stk.refcnt[p] = 1 /\ Children(p) = {a}
  BY <1>0 DEF MustCopyBelow, Below
<1>2. /\ stk' = XchDrop(stk, v, p)
      /\ content' = [content EXCEPT ![a] = <<>>,
                                    ![p] = WithSecond(content[p], v)]
      /\ UNCHANGED <<conts, uncount, freeing, lost>>
  BY <1>0 DEF XchEmpty, Below
<1>3. /\ stk'.live = stk.live \ {a} /\ stk'.active = p
      /\ stk'.prev = [stk.prev EXCEPT ![a] = NULL]
      /\ stk'.elems = [[stk.elems EXCEPT ![a] = <<>>]
                         EXCEPT ![p] = WithSecond(@, v)]
      /\ stk'.refcnt = [[stk.refcnt EXCEPT ![p] = stk.refcnt[p] - 1]
                          EXCEPT ![a] = 0]
  BY <1>0, <1>2, Fields
     DEF XchDrop, Below, SetRefcnt, Release, StackRec, MustCopyBelow
<1>4. \A u \in Seg \ {a} :
        /\ stk'.prev[u] = stk.prev[u]
        /\ stk'.elems[u] = IF u = p THEN WithSecond(stk.elems[p], v)
                                    ELSE stk.elems[u]
        /\ content'[u] = IF u = p THEN WithSecond(content[p], v)
                                  ELSE content[u]
        /\ stk'.refcnt[u] = IF u = p THEN 0 ELSE stk.refcnt[u]
  <2> SUFFICES ASSUME NEW u \in Seg \ {a}
               PROVE  /\ stk'.prev[u] = stk.prev[u]
                      /\ stk'.elems[u] = IF u = p THEN WithSecond(stk.elems[p], v)
                                                  ELSE stk.elems[u]
                      /\ content'[u] = IF u = p THEN WithSecond(content[p], v)
                                                ELSE content[u]
                      /\ stk'.refcnt[u] = IF u = p THEN 0 ELSE stk.refcnt[u]
    OBVIOUS
  <2>1. p # a
    BY <1>0
  <2>2. stk'.prev[u] = stk.prev[u]
    BY <1>3, Fields
  <2>3. stk'.elems[u] = IF u = p THEN WithSecond(stk.elems[p], v)
                        ELSE stk.elems[u]
    BY <1>3, <2>1, Fields
  <2>4. content'[u] = IF u = p THEN WithSecond(content[p], v) ELSE content[u]
    BY <1>2, <2>1, Fields
  <2>5. stk'.refcnt[u] = IF u = p THEN 0 ELSE stk.refcnt[u]
    BY <1>1, <1>3, <2>1, Fields
  <2> QED BY <2>2, <2>3, <2>4, <2>5
<1>5. InUse' = InUse \ {a} /\ lost' \subseteq stk'.live
  BY <1>0, <1>2, <1>3 DEF InUse
<1>6. \A t \in InUse' : /\ t \in InUse /\ t \in Seg /\ t # a /\ t # NULL
                        /\ stk.prev[t] # a /\ stk.prev[t] # p
                        /\ stk.prev[t] \in InUse' \cup {NULL}
  BY <1>0, <1>1, <1>5, Fields DEF Children, LinksOK, InUse
<1>7. Children(p)' = {} /\ \A t \in InUse' \ {p} : Children(t)' = Children(t)
  <2>1. \A u \in InUse' : stk'.prev[u] = stk.prev[u]
    BY <1>4, <1>6
  <2>2. Children(p)' = {}
    BY <1>6, <2>1 DEF Children
  <2>3. ASSUME NEW t \in InUse' \ {p} PROVE Children(t)' = Children(t)
    <3>1. stk.prev[a] # t
      BY <1>0, <2>3
    <3> QED BY <1>5, <2>1, <3>1 DEF Children
  <2> QED BY <2>2, <2>3
<1>8. Heads' = {p} \cup conts /\ Heads = {a} \cup conts /\ FreeCalls' = {}
  BY <1>0, <1>2, <1>3 DEF Heads, FreeCalls
<1>9. HeadsOK'
  <2>1. \A h \in conts : h \in InUse' /\ Children(h) = {} /\ h # p
    BY <1>0, <1>5 DEF HeadsOK, Heads
  <2>2. \A h \in conts : Children(h)' = {}
    BY <1>7, <2>1
  <2> QED BY <1>0, <1>2, <1>3, <1>5, <1>7, <1>8, <2>1, <2>2 DEF HeadsOK
<1>10. LinksOK'
  BY <1>4, <1>6 DEF LinksOK
<1>11. CountsOK'
  <2> SUFFICES ASSUME NEW t \in InUse'
               PROVE  /\ stk'.refcnt[t] >= References(t)'
                      /\ lost = {} => stk'.refcnt[t] = References(t)'
    BY <1>2 DEF CountsOK
  <2>1. /\ References(t)' = Cardinality(Children(t)')
        /\ References(t) = Cardinality(Children(t))
    BY <1>0, <1>2, <1>6, ReferencesAre
  <2>2. CASE t = p
    <3>1. Cardinality(Children(t)') = 0
      BY <1>7, <2>2, FS_EmptySet
    <3> QED BY <1>4, <1>6, <2>1, <2>2, <3>1
  <2>3. CASE t # p
    BY <1>4, <1>6, <1>7, <2>1, <2>3 DEF CountsOK
  <2> QED BY <2>2, <2>3
<1>12. FreeOK'
  BY <1>0, <1>2 DEF FreeOK
<1>13. LeakOK'
  <2> SUFFICES ASSUME lost = {}, NEW t \in InUse'
               PROVE  t \in Heads' \/ Children(t)' # {}
    BY <1>2, <1>8 DEF LeakOK
  <2>1. FreeCalls = {}
    BY <1>0 DEF FreeCalls
  <2>2. t \in Heads \/ Children(t) # {}
    BY <1>0, <1>6, <2>1 DEF LeakOK
  <2> QED BY <1>6, <1>7, <1>8, <2>2
<1>14. ChainsOK'
  <2> SUFFICES ASSUME NEW t \in InUse' PROVE Chained(t)'
    BY DEF ChainsOK
  <2>1. BelowContent(t)' = BelowContent(t)
    BY <1>4, <1>6, Fields DEF BelowContent
  <2>2. CASE t = p
    <3>1. WithSecond(content[p], v) =
            BelowContent(p) \o WithSecond(stk.elems[p], v)
      BY <1>0, SecondBelow
    <3>2. /\ content'[t] = WithSecond(content[p], v)
          /\ stk'.elems[t] = WithSecond(stk.elems[p], v)
      BY <1>4, <1>6, <2>2
    <3> QED BY <2>1, <2>2, <3>1, <3>2 DEF Chained
  <2>3. CASE t # p
    BY <1>4, <1>6, <2>1, <2>3 DEF Chained, ChainsOK
  <2> QED BY <2>2, <2>3
<1> QED BY <1>5, <1>9, <1>10, <1>11, <1>12, <1>13, <1>14

(* The empty segment goes and a copy d of the one below becomes active.    *)
LEMMA XchEmptyCopy ==
  ASSUME TypeOK, TypeOK', SegmentsOK, NEW v \in Value, XchEmpty(v),
         MustCopyBelow(stk)
  PROVE  SegmentsOK'
<1> USE DEF SegmentsOK
<1>0. PICK a \in Seg, p \in Seg, x \in Seg \cup {NULL} : XchFinds(a, p, x)
  BY XchBase DEF XchEmpty
<1> USE DEF XchFinds
<1>1. stk.refcnt[p] # 1
  BY <1>0 DEF MustCopyBelow, Below
<1>2. PICK d \in Seg \ stk.live :
        /\ stk' = XchDrop(stk, v, d)
        /\ content' = [content EXCEPT ![a] = <<>>,
                                      ![d] = WithSecond(content[p], v)]
  BY <1>0 DEF XchEmpty, Below
<1>3. UNCHANGED <<conts, uncount, freeing, lost>>
  BY DEF XchEmpty
<1>4. d \notin InUse /\ d # a /\ d # p /\ d # x /\ d # NULL
  BY <1>0, Fields DEF InUse
<1>5. /\ stk'.live = (stk.live \cup {d}) \ {a} /\ stk'.active = d
      /\ stk'.prev = [[stk.prev EXCEPT ![d] = x] EXCEPT ![a] = NULL]
      /\ stk'.elems = [[[stk.elems EXCEPT ![d] = stk.elems[p]]
                         EXCEPT ![a] = <<>>] EXCEPT ![d] = WithSecond(@, v)]
  BY <1>0, <1>1, <1>2, Fields
     DEF XchDrop, Below, SetRefcnt, Dup, Release, StackRec, MustCopyBelow
<1>6. \A u \in Seg \ {a} :
        /\ stk'.prev[u] = IF u = d THEN x ELSE stk.prev[u]
        /\ stk'.elems[u] = IF u = d THEN WithSecond(stk.elems[p], v)
                                    ELSE stk.elems[u]
        /\ content'[u] = IF u = d THEN WithSecond(content[p], v)
                                  ELSE content[u]
  BY <1>2, <1>4, <1>5, Fields
<1>7. \A u \in Seg \ {a} :
        stk'.refcnt[u] = IF u = d THEN 0
                         ELSE IF u = x THEN stk.refcnt[u] + 1
                         ELSE IF u = p THEN stk.refcnt[u] - 1
                         ELSE stk.refcnt[u]
  BY <1>0, <1>1, <1>2, <1>4, Fields
     DEF XchDrop, Below, SetRefcnt, Dup, Release, StackRec, MustCopyBelow
<1>8. /\ InUse' = (InUse \cup {d}) \ {a} /\ InUse \subseteq Seg
      /\ lost' \subseteq stk'.live
      /\ Heads' = {d} \cup conts /\ Heads = {a} \cup conts
      /\ FreeCalls = {} /\ FreeCalls' = {}
  <2>1. lost \subseteq stk.live /\ a \notin lost /\ d \notin lost
    BY <1>0, <1>4 DEF InUse
  <2>2. InUse' = (InUse \cup {d}) \ {a} /\ InUse \subseteq Seg
    BY <1>3, <1>5, <2>1, Fields DEF InUse
  <2> QED BY <1>0, <1>3, <1>5, <2>1, <2>2 DEF Heads, FreeCalls
<1>9. \A t \in InUse : t # a => /\ stk'.prev[t] = stk.prev[t]
                               /\ stk.prev[t] \in InUse \cup {NULL}
                               /\ stk.prev[t] # a /\ stk.prev[t] # d
  BY <1>0, <1>4, <1>6, <1>8 DEF LinksOK, Children
<1>10. Children(d)' = {}
  BY <1>0, <1>4, <1>6, <1>8, <1>9 DEF Children
<1>11. Children(p)' = Children(p) \ {a}
  BY <1>0, <1>4, <1>6, <1>8, <1>9 DEF Children
<1>12. x # NULL => Children(x)' = Children(x) \cup {d}
  BY <1>0, <1>4, <1>6, <1>8, <1>9 DEF Children
<1>13. \A t \in InUse \ {a, p, x} : Children(t)' = Children(t)
  BY <1>0, <1>4, <1>6, <1>8, <1>9 DEF Children
<1>14. HeadsOK'
  <2>1. x \notin Heads /\ p \notin Heads /\ d \notin conts
    BY <1>0, <1>4, Fields DEF HeadsOK, Heads, InUse
  <2>2. \A h \in conts : h \in InUse /\ h # a /\ Children(h) = {}
    BY <1>0 DEF HeadsOK, Heads
  <2>3. \A h \in conts : Children(h)' = {}
    BY <1>8, <1>13, <2>1, <2>2
  <2> QED BY <1>3, <1>4, <1>5, <1>8, <1>10, <2>1, <2>2, <2>3 DEF HeadsOK
<1>15. LinksOK'
  <2> SUFFICES ASSUME NEW t \in InUse', stk'.prev[t] # NULL
               PROVE  /\ stk'.prev[t] \in InUse'
                      /\ Len(stk'.elems[stk'.prev[t]]) >= 2
    BY DEF LinksOK
  <2>1. CASE t = d
    BY <1>0, <1>4, <1>6, <1>8, <2>1
  <2>2. CASE t # d
    BY <1>6, <1>8, <1>9, <2>2 DEF LinksOK
  <2> QED BY <2>1, <2>2
<1>16. CountsOK'
  <2> SUFFICES ASSUME NEW t \in InUse'
               PROVE  /\ stk'.refcnt[t] >= References(t)'
                      /\ lost = {} => stk'.refcnt[t] = References(t)'
    BY <1>3 DEF CountsOK
  <2>1. /\ t \in Seg \ {a} /\ t # NULL
        /\ References(t)' = Cardinality(Children(t)')
        /\ References(t) = Cardinality(Children(t))
        /\ Cardinality(Children(t)) \in Nat
    BY <1>0, <1>3, <1>8, Fields, ReferencesAre
  <2>2. t \in InUse => /\ stk.refcnt[t] \in Int
                       /\ stk.refcnt[t] >= Cardinality(Children(t))
                       /\ lost = {} => stk.refcnt[t] = Cardinality(Children(t))
    BY <2>1, Fields DEF CountsOK
  <2>3. CASE t = d
    <3>1. Cardinality(Children(t)') = 0
      BY <1>10, <2>3, FS_EmptySet
    <3> QED BY <1>7, <2>1, <2>3, <3>1
  <2>4. CASE t = p
    <3>1. Cardinality(Children(t)') = Cardinality(Children(t)) - 1
      BY <1>0, <1>11, <2>4, OneLess
    <3> QED BY <1>0, <1>4, <1>7, <2>1, <2>2, <2>4, <3>1
  <2>5. CASE t = x
    <3>0. d \notin Children(x)
      BY <1>4 DEF Children
    <3>1. Cardinality(Children(t)') = Cardinality(Children(t)) + 1
      BY <1>12, <2>1, <2>5, <3>0, OneMore
    <3>2. stk'.refcnt[t] = stk.refcnt[t] + 1 /\ t \in InUse
      BY <1>0, <1>4, <1>7, <2>1, <2>5
    <3> QED BY <2>1, <2>2, <3>1, <3>2
  <2>6. CASE t # d /\ t # p /\ t # x
    BY <1>7, <1>8, <1>13, <2>1, <2>2, <2>6
  <2> QED BY <2>3, <2>4, <2>5, <2>6
<1>17. FreeOK'
  BY <1>0, <1>3 DEF FreeOK
<1>18. LeakOK'
  <2> SUFFICES ASSUME lost = {}, NEW t \in InUse'
               PROVE  t \in Heads' \/ Children(t)' # {}
    BY <1>3, <1>8 DEF LeakOK
  <2>1. t \in InUse => t \in Heads \/ Children(t) # {}
    <3>1. t # NULL
      BY <1>4, <1>8, Fields
    <3> QED BY <1>0, <1>8, <3>1 DEF LeakOK
  <2>2. CASE t = d
    BY <1>8, <2>2
  <2>3. CASE t = p
    <3>1. stk.refcnt[p] = Cardinality(Children(p))
      BY <1>0, Fields, ReferencesAre DEF CountsOK
    <3>2. Children(p) # {a}
      BY <1>1, <3>1, FS_Singleton
    <3> QED BY <1>0, <1>11, <2>3, <3>2
  <2>4. CASE t = x /\ t # d
    BY <1>4, <1>8, <1>12, <2>4, Fields
  <2>5. CASE t # d /\ t # p /\ t # x
    BY <1>8, <1>13, <2>1, <2>5
  <2> QED BY <2>2, <2>3, <2>4, <2>5
<1>19. ChainsOK'
  <2> SUFFICES ASSUME NEW t \in InUse' PROVE Chained(t)'
    BY DEF ChainsOK
  <2>1. CASE t = d
    <3>1. WithSecond(content[p], v) =
            BelowContent(p) \o WithSecond(stk.elems[p], v)
      BY <1>0, SecondBelow
    <3>2. BelowContent(d)' = BelowContent(p)
      BY <1>0, <1>4, <1>6 DEF BelowContent
    <3> QED BY <1>4, <1>6, <2>1, <3>1, <3>2 DEF Chained
  <2>2. CASE t # d
    <3>1. BelowContent(t)' = BelowContent(t)
      BY <1>6, <1>8, <1>9, <2>2 DEF BelowContent
    <3> QED BY <1>4, <1>6, <1>8, <2>2, <3>1 DEF Chained, ChainsOK
  <2> QED BY <2>1, <2>2
<1> QED BY <1>8, <1>14, <1>15, <1>16, <1>17, <1>18, <1>19

(* The stack the runtime starts with is sound.                             *)
LEMMA SegmentsInit ==
  ASSUME TypeOK, Init
  PROVE  SegmentsOK
<1>1. PICK s \in Seg : stk = NewStack(Seg, s)
  BY DEF Init
<1>2. /\ stk.live = {s} /\ stk.active = s /\ stk.prev[s] = NULL
      /\ stk.elems[s] = <<>> /\ stk.refcnt[s] = 0 /\ content[s] = <<>>
      /\ conts = {} /\ lost = {} /\ uncount = NULL /\ freeing = <<>>
  BY <1>1 DEF Init, NewStack
<1>3. InUse = {s} /\ Heads = {s} /\ s # NULL
  BY <1>2, SegAssumption DEF InUse, Heads
<1>4. Children(s) = {}
  BY <1>2, <1>3 DEF Children
<1>5. HeadsOK /\ LinksOK /\ LeakOK /\ FreeOK
  BY <1>2, <1>3, <1>4 DEF HeadsOK, LinksOK, LeakOK, FreeOK
<1>6. CountsOK
  <2>1. Cardinality(Children(s)) = 0
    BY <1>4, FS_EmptySet
  <2>2. References(s) = 0
    BY <1>2, <1>3, <2>1 DEF References
  <2> QED BY <1>2, <1>3, <2>2 DEF CountsOK
<1>7. ChainsOK
  <2>1. <<>> \o <<>> = <<>>
    BY EmptyIsSeq, ConcatEmptySeq
  <2>2. BelowContent(s) = <<>>
    BY <1>2 DEF BelowContent
  <2> QED BY <1>2, <1>3, <2>1, <2>2 DEF ChainsOK, Chained
<1> QED BY <1>2, <1>5, <1>6, <1>7 DEF SegmentsOK

(* As long as the segments are sound, no operation touches a freed one or  *)
(* reads below the bottom of one.                                          *)
LEMMA NeverWild ==
  ASSUME TypeOK, SegmentsOK
  PROVE  /\ ~PopWild /\ ~XchWild /\ ~FreeWild /\ ~ActiveWild
         /\ \A c \in conts : ~ResumeWild(c)
<1> USE DEF SegmentsOK
<1>1. stk.active \in stk.live /\ conts \subseteq stk.live
  BY DEF HeadsOK, InUse
<1>2. ASSUME Below(stk) # NULL
      PROVE  Below(stk) \in stk.live /\ Len(stk.elems[Below(stk)]) >= 2
  BY <1>2 DEF HeadsOK, LinksOK, InUse, Below
<1>3. ~PopWild
  BY <1>2 DEF PopWild
<1>4. ~XchWild
  <2>1. ActiveElems(stk) \in Seq(Value)
    BY Fields DEF ActiveElems
  <2>2. Len(ActiveElems(stk)) \in Nat
    BY <2>1
  <2>3. SUFFICES ASSUME XchWild PROVE FALSE
    OBVIOUS
  <2>4. /\ Below(stk) # NULL
        /\ \/ Below(stk) \notin stk.live
           \/ Len(stk.elems[Below(stk)]) + Len(ActiveElems(stk)) < 2
    BY <2>3 DEF XchWild
  <2>5. stk.elems[Below(stk)] \in Seq(Value)
    BY <1>2, <2>4, Fields
  <2>6. Len(stk.elems[Below(stk)]) \in Nat
    BY <2>5
  <2> HIDE DEF XchWild
  <2> QED BY <1>2, <2>2, <2>4, <2>6
<1>5. ~FreeWild
  <2>1. freeing \in Seq(Seg)
    BY DEF TypeOK
  <2>2. freeing # <<>> => Len(freeing) \in DOMAIN freeing
    BY <2>1
  <2> QED BY <2>2 DEF FreeWild, FreeOK, InUse
<1>6. ~ActiveWild /\ \A c \in conts : ~ResumeWild(c)
  BY <1>1 DEF ActiveWild, ResumeWild
<1> QED BY <1>3, <1>4, <1>5, <1>6

(* Steps that touch nothing the invariant reads.                           *)
LEMMA FailKeeps ==
  ASSUME SegmentsOK,
         UNCHANGED <<stk, conts, uncount, freeing, content, lost>>
  PROVE  SegmentsOK'
<1>1. InUse' = InUse /\ Heads' = Heads /\ FreeCalls' = FreeCalls
  BY DEF InUse, Heads, FreeCalls
<1>2. \A s : /\ Children(s)' = Children(s)
             /\ Chained(s)' = Chained(s)
  BY <1>1 DEF Children, Chained, BelowContent
<1>3. \A s : References(s)' = References(s)
  BY <1>2 DEF References
<1>4. HeadsOK' /\ LinksOK' /\ FreeOK'
  BY <1>1, <1>2 DEF SegmentsOK, HeadsOK, LinksOK, FreeOK
<1>5. CountsOK' /\ LeakOK' /\ ChainsOK'
  BY <1>1, <1>2, <1>3 DEF SegmentsOK, CountsOK, LeakOK, ChainsOK
<1> QED BY <1>4, <1>5 DEF SegmentsOK

(* One step of the interpreter, up to the two defects.                     *)
LEMMA StackStep == TypeOK /\ TypeOK' /\ StackInv /\ [Next]_vars => StackInv'
<1> SUFFICES ASSUME TypeOK, TypeOK', StackInv, [Next]_vars, broken' = {}
             PROVE  status' # "wild" /\ SegmentsOK'
  BY DEF StackInv
<1> DEFINE Goal == status' # "wild" /\ SegmentsOK'
<1>1. broken = {}
  BY DEF Next, vars, Fail, Push, PushNew, PushNewFails, Pop, PopBelow,
         PopUnderflow, PopWild, Xch, XchAcross, XchEmpty, XchFails, XchWild,
         Save, SaveFails, Discard, ResumeMove, ResumeCopy, ResumeWild,
         DropStale, FreeUncount, FreeSegment, FreeWild, ActiveWild
<1>2. status # "wild" /\ SegmentsOK
  BY <1>1 DEF StackInv
<1>3. ASSUME NEW o \in {"error"}, Fail(o) PROVE Goal
  BY <1>2, <1>3, FailKeeps DEF Fail
<1>4. ASSUME NEW vs \in Pushes,
             Push(vs) \/ PushNew(vs) \/ PushNewFails(vs)
      PROVE  Goal
  <2>1. CASE Push(vs)
    BY <1>2, <2>1, PushInv DEF Push
  <2>2. CASE PushNew(vs)
    BY <1>2, <2>2, PushNewInv DEF PushNew
  <2>3. CASE PushNewFails(vs)
    BY <1>3, <2>3 DEF PushNewFails
  <2> QED BY <1>4, <2>1, <2>2, <2>3
<1>5. CASE Pop
  BY <1>2, <1>5, PopInv DEF Pop
<1>6. CASE PopBelow
  BY <1>2, <1>6, PopBelowInv DEF PopBelow
<1>7. CASE PopUnderflow \/ XchFails \/ SaveFails
  BY <1>3, <1>7 DEF PopUnderflow, XchFails, SaveFails
<1>8. ASSUME NEW v \in Value, Xch(v) \/ XchAcross(v) \/ XchEmpty(v)
      PROVE  Goal
  <2>1. CASE Xch(v)
    BY <1>2, <2>1, XchInv DEF Xch
  <2>2. CASE XchAcross(v)
    BY <1>2, <2>2, XchAcrossSame, XchAcrossCopy DEF XchAcross
  <2>3. CASE XchEmpty(v)
    BY <1>2, <2>3, XchEmptySame, XchEmptyCopy DEF XchEmpty
  <2> QED BY <1>8, <2>1, <2>2, <2>3
<1>9. CASE Save
  BY <1>2, <1>9, SaveInv DEF Save
<1>10. ASSUME NEW c \in conts, Discard(c) \/ ResumeMove(c) \/ ResumeCopy(c)
       PROVE  Goal
  <2>1. CASE Discard(c)
    BY <1>2, <2>1, DiscardInv DEF Discard
  <2>2. CASE ResumeMove(c)
    BY <1>2, <2>2, ResumeMoveInv DEF ResumeMove
  <2>3. CASE ResumeCopy(c)
    BY <1>2, <2>3, ResumeCopyInv DEF ResumeCopy
  <2> QED BY <1>10, <2>1, <2>2, <2>3
<1>11. ~DropStale
  BY DEF DropStale
<1>12. CASE FreeUncount
  BY <1>2, <1>12, FreeUncountInv DEF FreeUncount
<1>13. CASE FreeSegment
  BY <1>2, <1>13, FreeSegmentInv DEF FreeSegment
<1>14. CASE UNCHANGED vars
  BY <1>2, <1>14, FailKeeps DEF vars
<1>15. CASE Next
  BY <1>2, <1>4, <1>5, <1>6, <1>7, <1>8, <1>9, <1>10, <1>11, <1>12, <1>13,
     <1>15, NeverWild DEF Next
<1> QED BY <1>14, <1>15

(* In every reachable state, until top() has walked into a shared segment  *)
(* or a stale cell has destroyed its stack, the segments are sound:        *)
(* vm_stack.c keeps counts, links and contents through any sequence of     *)
(* pushes, pops, exchanges, saves, reinstatements and frees.               *)
THEOREM StackSound == Spec => []StackInv
<1>1. TypeOK /\ Init => StackInv
  BY SegmentsInit DEF StackInv, Init
<1> QED BY <1>1, TypeInit, TypeCorrect, StackStep, PTL DEF Spec

(* The values below a segment are what was pushed: the active stack and    *)
(* every saved one read back as they were written.                         *)
THEOREM RepresentsHolds == Spec => []Represents
<1>1. StackInv => Represents
  BY DEF StackInv, Represents, Sound, SegmentsOK, ChainsOK
<1> QED BY <1>1, StackSound, PTL

(* refcnt counts the segments that lie on a segment.                       *)
THEOREM CountsHold == Spec => []CountsExact
<1>1. StackInv => CountsExact
  BY DEF StackInv, CountsExact, Sound, SegmentsOK, CountsOK
<1> QED BY <1>1, StackSound, PTL

(* No segment is forgotten before top() has walked away from one.          *)
THEOREM NoLeakHolds == Spec => []NoLeak
<1>1. StackInv => NoLeak
  BY DEF StackInv, NoLeak, Sound, SegmentsOK, LeakOK, InUse
<1> QED BY <1>1, StackSound, PTL

(* A use of freed memory, or a read below the bottom of a segment, has one *)
(* of the two defects as its cause.                                        *)
THEOREM WildHasCause == Spec => []WildOnlyIfBroken
<1>1. StackInv => WildOnlyIfBroken
  BY DEF StackInv, WildOnlyIfBroken
<1> QED BY <1>1, StackSound, PTL

-----------------------------------------------------------------------------
(* The references the stack holds.                                         *)

(* A segment that is free holds no value; so the places of a value in the  *)
(* segments that are not free are its places in all of them.               *)
FreedEmpty == \A s \in Seg \ stk.live : stk.elems[s] = <<>>
Held(v)    == Cardinality(Places(v, Seg, stk.elems))
OwnedOK    == FreedEmpty /\ \A v \in Value : owned[v] = Held(v)

(* What a step adds to the references of v.                                *)
Gain(v, old, new) == Copies(v, new) - Copies(v, old)

(* The exchange takes a reference to v and drops one to w, which may be    *)
(* the same.                                                               *)
LEMMA SwapValue ==
  ASSUME NEW o \in [Value -> Int], NEW v \in Value, NEW w \in Value, NEW u \in Value
  PROVE  /\ Swap(o, v, w)[u] = o[u] + (IF v = u THEN 1 ELSE 0)
                                    - (IF w = u THEN 1 ELSE 0)
         /\ Drop(o, w)[u] = o[u] - (IF w = u THEN 1 ELSE 0)
<1>0. PICK n \in Int : n = o[v] + 1
  OBVIOUS
<1>1. PICK p : p = [o EXCEPT ![v] = n]
  OBVIOUS
<1>2. p \in [Value -> Int] /\ p[u] = o[u] + (IF v = u THEN 1 ELSE 0)
  <2>1. p \in [Value -> Int] /\ p[u] = IF v = u THEN n ELSE o[u]
    BY <1>1
  <2> QED BY <1>0, <2>1
<1>3. Swap(o, v, w) = Drop(p, w)
  BY <1>0, <1>1 DEF Swap
<1>4. \A r \in [Value -> Int] : Drop(r, w)[u] = r[u] - (IF w = u THEN 1 ELSE 0)
  BY DEF Drop
<1> QED BY <1>2, <1>3, <1>4

(* Copying and dropping values moves their references by their copies.     *)
LEMMA OwnedValue ==
  ASSUME NEW q, NEW v \in Value
  PROVE  /\ OwnedPlus(q)[v] = owned[v] + Copies(v, q)
         /\ OwnedMinus(q)[v] = owned[v] - Copies(v, q)
BY DEF OwnedPlus, OwnedMinus

(* A step that writes one segment d has to account for what d held and     *)
(* what it holds now, and to leave nothing in a segment it frees.          *)
LEMMA OneWritten ==
  ASSUME TypeOK, TypeOK', OwnedOK, NEW d \in Seg,
         \A s \in Seg \ {d} : stk'.elems[s] = stk.elems[s],
         \A s \in Seg \ stk'.live : stk'.elems[s] = <<>>,
         \A v \in Value :
           owned'[v] = owned[v] + Gain(v, stk.elems[d], stk'.elems[d])
  PROVE  OwnedOK'
<1>1. AllFinite(Seg, stk.elems) /\ AllFinite(Seg, stk'.elems)
  <2>1. IsFiniteSet(Seg)
    BY SegAssumption
  <2>2. \A s \in Seg : stk.elems[s] \in Seq(Value) /\ stk'.elems[s] \in Seq(Value)
    BY DEF TypeOK
  <2> QED BY <2>1, <2>2, SeqsAreFinite
<1>2. ASSUME NEW v \in Value PROVE owned'[v] = Held(v)'
  <2>1. Cardinality(Places(v, Seg, stk'.elems)) =
          Cardinality(Places(v, Seg, stk.elems))
            - Copies(v, stk.elems[d]) + Copies(v, stk'.elems[d])
    BY <1>1, PlacesChange
  <2>2. /\ Cardinality(Places(v, Seg, stk.elems)) \in Nat
        /\ Copies(v, stk.elems[d]) \in Nat /\ Copies(v, stk'.elems[d]) \in Nat
    BY <1>1, PlacesType
  <2>3. owned[v] = Cardinality(Places(v, Seg, stk.elems))
    BY DEF OwnedOK, Held
  <2>4. owned'[v] = owned[v] + (Copies(v, stk'.elems[d]) - Copies(v, stk.elems[d]))
    BY DEF Gain
  <2> QED BY <2>1, <2>2, <2>3, <2>4 DEF Held
<1>3. FreedEmpty'
  BY DEF FreedEmpty
<1> QED BY <1>2, <1>3 DEF OwnedOK

(* A step that changes no segment's values.                                *)
LEMMA NoneWritten ==
  ASSUME OwnedOK, stk'.live = stk.live, stk'.elems = stk.elems, owned' = owned
  PROVE  OwnedOK'
BY DEF OwnedOK, FreedEmpty, Held

(* What the segments hold, as sequences whose copies can be counted.       *)
LEMMA HoldsValues ==
  ASSUME TypeOK, NEW s \in Seg, NEW v \in Value
  PROVE  /\ stk.elems[s] \in Seq(Value)
         /\ Copies(v, stk.elems[s]) \in Nat
         /\ Copies(v, <<>>) = 0
         /\ owned[v] \in Int
<1>1. stk.elems[s] \in Seq(Value) /\ owned[v] \in Int
  BY DEF TypeOK
<1> QED BY <1>1, CopiesType, CopiesEmpty

(* Pushes take the references of the values they push.                     *)
LEMMA PushOwned ==
  ASSUME TypeOK, TypeOK', OwnedOK, NEW vs \in Pushes, Push(vs) \/ PushNew(vs)
  PROVE  OwnedOK'
<1>0. vs \in Seq(Value) /\ \A v \in Value : Copies(v, vs) \in Nat
  BY PushesAssumption, CopiesType
<1>1. \A v \in Value : owned'[v] = owned[v] + Copies(v, vs)
  BY OwnedValue DEF Push, PushNew
<1>2. PICK a \in Seg : a = stk.active /\ a \in stk.live
  BY Fields DEF Push, PushNew, Ready
<1>3. CASE Push(vs)
  <2>1. /\ stk'.live = stk.live
        /\ stk'.elems = [stk.elems EXCEPT ![a] = stk.elems[a] \o vs]
    BY <1>2, <1>3, Fields DEF Push, PushIn, StackRec
  <2>2. /\ stk'.elems[a] = stk.elems[a] \o vs
        /\ \A s \in Seg \ {a} : stk'.elems[s] = stk.elems[s]
    BY <2>1, Fields
  <2>3. \A v \in Value : owned'[v] = owned[v] + Gain(v, stk.elems[a], stk'.elems[a])
    <3> TAKE v \in Value
    <3>1. Copies(v, stk.elems[a] \o vs) = Copies(v, stk.elems[a]) + Copies(v, vs)
      BY <1>0, HoldsValues, CopiesConcat
    <3> QED BY <1>0, <1>1, <2>2, <3>1, HoldsValues DEF Gain
  <2> QED BY <1>2, <2>1, <2>2, <2>3, OneWritten DEF OwnedOK, FreedEmpty
<1>4. CASE PushNew(vs)
  <2>1. PICK s \in Seg \ stk.live : stk' = PushSplit(stk, s, vs)
    BY <1>4 DEF PushNew
  <2>2. /\ stk'.live = stk.live \cup {s} /\ stk'.elems[s] = vs
        /\ \A t \in Seg \ {s} : stk'.elems[t] = stk.elems[t]
        /\ stk.elems[s] = <<>>
    BY <2>1, Fields DEF PushSplit, OwnedOK, FreedEmpty
  <2>3. \A v \in Value : owned'[v] = owned[v] + Gain(v, stk.elems[s], stk'.elems[s])
    BY <1>0, <1>1, <2>2, HoldsValues DEF Gain
  <2> QED BY <2>2, <2>3, OneWritten DEF OwnedOK, FreedEmpty
<1> QED BY <1>3, <1>4

(* Pops give the reference of the value they return to their caller.       *)
LEMMA PopOwned ==
  ASSUME TypeOK, TypeOK', OwnedOK, Pop \/ PopBelow
  PROVE  OwnedOK'
<1>1. PICK d \in Seg :
        /\ d \in stk.live /\ stk.elems[d] # <<>> /\ stk'.live = stk.live
        /\ stk'.elems = [stk.elems EXCEPT ![d] = Popped(stk.elems[d])]
        /\ owned' = Drop(owned, stk.elems[d][Len(stk.elems[d])])
  <2>1. CASE Pop
    BY <2>1, Fields
       DEF Pop, ReadyToPop, Ready, PopIn, ActiveElems, StackRec
  <2>2. CASE PopBelow
    <3>1. PICK p \in Seg : p = Below(stk) /\ p \in stk.live /\ stk.elems[p] # <<>>
      BY <2>2, Fields DEF PopBelow
    <3>2. /\ stk' = PopIn(SetActive(stk, p))
          /\ owned' = Drop(owned, stk.elems[p][Len(stk.elems[p])])
      BY <2>2, <3>1 DEF PopBelow, PopCross
    <3>3. /\ stk'.live = stk.live
          /\ stk'.elems = [stk.elems EXCEPT ![p] = Popped(stk.elems[p])]
      BY <3>2, Fields DEF PopIn, SetActive, StackRec
    <3> QED BY <3>1, <3>2, <3>3
  <2> QED BY <2>1, <2>2
<1>2. /\ stk'.elems[d] = Popped(stk.elems[d])
      /\ \A s \in Seg \ {d} : stk'.elems[s] = stk.elems[s]
  BY <1>1, Fields
<1>3. PICK q \in Seq(Value) : q = stk.elems[d] /\ q # <<>>
  BY <1>1, Fields
<1>4. PICK top \in Value : top = q[Len(q)]
  BY <1>3
<1>5. \A v \in Value : owned'[v] = owned[v] + Gain(v, stk.elems[d], stk'.elems[d])
  <2> TAKE v \in Value
  <2>1. owned'[v] = owned[v] - (IF q[Len(q)] = v THEN 1 ELSE 0)
    <3>1. PICK o \in [Value -> Int] : o = owned
      BY DEF TypeOK
    <3>2. owned' = Drop(o, top)
      BY <1>1, <1>3, <1>4, <3>1
    <3>3. Drop(o, top)[v] = o[v] - (IF top = v THEN 1 ELSE 0)
      BY SwapValue
    <3> QED BY <1>4, <3>1, <3>2, <3>3
  <2>2. /\ Copies(v, q) = Copies(v, Popped(q)) + (IF q[Len(q)] = v THEN 1 ELSE 0)
        /\ Popped(q) \in Seq(Value)
    BY <1>3, CopiesFront DEF Popped
  <2>3. Copies(v, Popped(q)) \in Nat
    BY <2>2, CopiesType
  <2> QED BY <1>2, <1>3, <2>1, <2>2, <2>3, HoldsValues DEF Gain
<1> QED BY <1>1, <1>2, <1>5, OneWritten DEF OwnedOK, FreedEmpty

(* A segment d that was free, or p itself, gets the values of p with one   *)
(* exchanged for v: the references of the copies are taken first.          *)
LEMMA ExchangeOwned ==
  ASSUME TypeOK, TypeOK', OwnedOK, NEW v \in Value, NEW p \in Seg, NEW d \in Seg,
         NEW copied \in BOOLEAN, copied => d \notin stk.live, ~copied => d = p,
         NEW i \in 1..Len(stk.elems[p]),
         stk'.elems[d] = [stk.elems[p] EXCEPT ![i] = v],
         \A s \in Seg \ {d} : stk'.elems[s] = stk.elems[s],
         \A s \in Seg \ stk'.live : stk'.elems[s] = <<>>,
         owned' = Swap(IF copied THEN OwnedPlus(stk.elems[p]) ELSE owned,
                       v, stk.elems[p][i])
  PROVE  OwnedOK'
<1>0. PICK q \in Seq(Value) : q = stk.elems[p] /\ i \in 1..Len(q)
  BY Fields
<1>1. PICK w \in Value : w = q[i]
  BY <1>0
<1>2. \A u \in Value : owned'[u] = owned[u] + Gain(u, stk.elems[d], stk'.elems[d])
  <2> TAKE u \in Value
  <2>1. Copies(u, stk'.elems[d]) = Copies(u, q) - (IF w = u THEN 1 ELSE 0)
                                                + (IF v = u THEN 1 ELSE 0)
    BY <1>0, <1>1, CopiesExcept
  <2>2. /\ Copies(u, q) \in Nat /\ Copies(u, stk.elems[d]) \in Nat
        /\ owned[u] \in Int /\ Copies(u, <<>>) = 0
    BY <1>0, HoldsValues
  <2>3. CASE copied
    <3>1. stk.elems[d] = <<>>
      BY <2>3 DEF OwnedOK, FreedEmpty
    <3>2. OwnedPlus(q) \in [Value -> Int] /\ OwnedPlus(q)[u] = owned[u] + Copies(u, q)
      BY <1>0, OwnedTypes, OwnedValue DEF TypeOK
    <3>3. owned'[u] = OwnedPlus(q)[u] + (IF v = u THEN 1 ELSE 0)
                                      - (IF w = u THEN 1 ELSE 0)
      <4>1. PICK o \in [Value -> Int] : o = OwnedPlus(q)
        BY <3>2
      <4>2. owned' = Swap(o, v, w)
        BY <1>0, <1>1, <2>3, <4>1
      <4>3. Swap(o, v, w)[u] = o[u] + (IF v = u THEN 1 ELSE 0)
                                    - (IF w = u THEN 1 ELSE 0)
        BY SwapValue
      <4> QED BY <4>1, <4>2, <4>3
    <3> QED BY <2>1, <2>2, <3>1, <3>2, <3>3 DEF Gain
  <2>4. CASE ~copied
    <3>1. stk.elems[d] = q
      BY <1>0, <2>4
    <3>2. owned'[u] = owned[u] + (IF v = u THEN 1 ELSE 0)
                               - (IF w = u THEN 1 ELSE 0)
      <4>1. PICK o \in [Value -> Int] : o = owned
        BY DEF TypeOK
      <4>2. owned' = Swap(o, v, w)
        BY <1>0, <1>1, <2>4, <4>1
      <4>3. Swap(o, v, w)[u] = o[u] + (IF v = u THEN 1 ELSE 0)
                                    - (IF w = u THEN 1 ELSE 0)
        BY SwapValue
      <4> QED BY <4>1, <4>2, <4>3
    <3> QED BY <2>1, <2>2, <3>1, <3>2 DEF Gain
  <2> QED BY <2>3, <2>4
<1> QED BY <1>2, OneWritten

(* Exchanges, wherever the value is, swap its reference for the new one's. *)
LEMMA XchOwned ==
  ASSUME TypeOK, TypeOK', OwnedOK, NEW v \in Value,
         Xch(v) \/ XchAcross(v) \/ XchEmpty(v)
  PROVE  OwnedOK'
<1>0. PICK a \in Seg : a = stk.active /\ a \in stk.live
  BY Fields DEF Xch, XchAcross, XchEmpty, Ready
<1>1. CASE Xch(v)
  <2>1. PICK q \in Seq(Value) : q = stk.elems[a] /\ Len(q) >= 2
    BY <1>0, <1>1, Fields DEF Xch, ActiveElems
  <2>2. PICK i \in 1..Len(q) : i = Len(q) - 1
    <3>1. Len(q) - 1 \in 1..Len(q)
      BY <2>1
    <3> QED BY <3>1
  <2>3. /\ stk'.live = stk.live
        /\ stk'.elems = [stk.elems EXCEPT ![a] = [q EXCEPT ![i] = v]]
    BY <1>0, <1>1, <2>1, <2>2, Fields DEF Xch, XchIn, WithSecond, StackRec
  <2>4. owned' = Swap(owned, v, q[i])
    BY <1>0, <1>1, <2>1, <2>2 DEF Xch, ActiveElems
  <2>5. /\ stk'.elems[a] = [q EXCEPT ![i] = v]
        /\ \A s \in Seg \ {a} : stk'.elems[s] = stk.elems[s]
    BY <2>3, Fields
  <2>6. \A s \in Seg \ stk'.live : stk'.elems[s] = <<>>
    BY <1>0, <2>3, <2>5 DEF OwnedOK, FreedEmpty
  <2> QED BY <2>1, <2>4, <2>5, <2>6, ExchangeOwned
<1>2. ASSUME XchAcross(v) \/ XchEmpty(v)
      PROVE  \E p \in Seg : p = Below(stk) /\ p \in stk.live
  BY <1>2, Fields DEF XchAcross, XchEmpty
<1>3. CASE XchAcross(v)
  <2>1. PICK p \in Seg : p = Below(stk) /\ p \in stk.live
    BY <1>2, <1>3
  <2>2. PICK q \in Seq(Value) : q = stk.elems[p] /\ q # <<>>
    BY <1>3, <2>1, Fields DEF XchAcross
  <2>3. PICK copied \in BOOLEAN : copied = MustCopyBelow(stk)
    BY DEF MustCopyBelow
  <2>4. PICK d \in Seg : /\ IF copied THEN d \notin stk.live ELSE d = p
                         /\ stk' = XchBelow(stk, v, d)
    BY <1>3, <2>1, <2>3 DEF XchAcross
  <2>5. PICK i \in 1..Len(q) : i = Len(q)
    BY <2>2
  <2>6. stk'.live = IF copied THEN stk.live \cup {d} ELSE stk.live
    BY <2>1, <2>3, <2>4 DEF XchBelow, SetRefcnt, Dup
  <2>7. /\ stk'.elems[d] = [q EXCEPT ![i] = v]
        /\ \A s \in Seg \ {d} : stk'.elems[s] = stk.elems[s]
    <3>1. stk'.elems = IF copied THEN [[stk.elems EXCEPT ![d] = q] EXCEPT ![d] = WithTop(@, v)]
                                 ELSE [stk.elems EXCEPT ![p] = WithTop(q, v)]
      BY <2>1, <2>2, <2>3, <2>4, Fields DEF XchBelow, SetRefcnt, Dup, StackRec
    <3>2. CASE copied
      BY <2>5, <3>1, <3>2, Fields DEF WithTop
    <3>3. CASE ~copied
      BY <2>4, <2>5, <3>1, <3>3, Fields DEF WithTop
    <3> QED BY <3>2, <3>3
  <2>8. owned' = Swap(IF copied THEN OwnedPlus(q) ELSE owned, v, q[i])
    BY <1>3, <2>1, <2>2, <2>3, <2>5 DEF XchAcross
  <2>9. \A s \in Seg \ stk'.live : stk'.elems[s] = <<>>
    BY <2>1, <2>4, <2>6, <2>7 DEF OwnedOK, FreedEmpty
  <2> QED BY <2>2, <2>4, <2>7, <2>8, <2>9, ExchangeOwned
<1>4. CASE XchEmpty(v)
  <2>1. PICK p \in Seg : p = Below(stk) /\ p \in stk.live
    BY <1>2, <1>4
  <2>2. PICK q \in Seq(Value) : q = stk.elems[p] /\ Len(q) >= 2
    BY <1>4, <2>1, Fields DEF XchEmpty
  <2>3. PICK copied \in BOOLEAN : copied = MustCopyBelow(stk)
    BY DEF MustCopyBelow
  <2>4. PICK d \in Seg : /\ IF copied THEN d \notin stk.live ELSE d = p
                         /\ stk' = XchDrop(stk, v, d)
    BY <1>4, <2>1, <2>3 DEF XchEmpty
  <2>5. PICK i \in 1..Len(q) : i = Len(q) - 1
    <3>1. Len(q) - 1 \in 1..Len(q)
      BY <2>2
    <3> QED BY <3>1
  <2>a. stk.elems[a] = <<>> /\ p # a /\ d # a
    BY <1>0, <1>4, <2>2, <2>4 DEF XchEmpty, ActiveElems
  <2>6. stk'.live = (IF copied THEN stk.live \cup {d} ELSE stk.live) \ {a}
    BY <1>0, <2>1, <2>3, <2>4 DEF XchDrop, SetRefcnt, Dup, Release
  <2>7. /\ stk'.elems[d] = [q EXCEPT ![i] = v]
        /\ \A s \in Seg \ {d} : stk'.elems[s] = stk.elems[s]
    <3>1. stk'.elems =
            IF copied THEN [[[stk.elems EXCEPT ![d] = q] EXCEPT ![a] = <<>>]
                              EXCEPT ![d] = WithSecond(@, v)]
                      ELSE [[stk.elems EXCEPT ![a] = <<>>]
                              EXCEPT ![p] = WithSecond(@, v)]
      BY <1>0, <2>1, <2>2, <2>3, <2>4, Fields
         DEF XchDrop, SetRefcnt, Dup, Release, StackRec
    <3>2. CASE copied
      BY <2>5, <2>a, <3>1, <3>2, Fields DEF WithSecond
    <3>3. CASE ~copied
      BY <2>2, <2>4, <2>5, <2>a, <3>1, <3>3, Fields DEF WithSecond
    <3> QED BY <3>2, <3>3
  <2>8. owned' = Swap(IF copied THEN OwnedPlus(q) ELSE owned, v, q[i])
    BY <1>4, <2>1, <2>2, <2>3, <2>5 DEF XchEmpty
  <2>9. \A s \in Seg \ stk'.live : stk'.elems[s] = <<>>
    BY <2>1, <2>4, <2>6, <2>7, <2>a DEF OwnedOK, FreedEmpty
  <2> QED BY <2>2, <2>4, <2>7, <2>8, <2>9, ExchangeOwned
<1> QED BY <1>1, <1>3, <1>4

(* A copy of a segment takes the references of its values.                 *)
LEMMA CopyOwned ==
  ASSUME TypeOK, TypeOK', OwnedOK,
         NEW t \in Seg, NEW s \in Seg \ stk.live,
         stk'.live = stk.live \cup {s},
         stk'.elems = [stk.elems EXCEPT ![s] = stk.elems[t]],
         owned' = OwnedPlus(stk.elems[t])
  PROVE  OwnedOK'
<1>1. /\ stk'.elems[s] = stk.elems[t] /\ stk.elems[s] = <<>>
      /\ \A u \in Seg \ {s} : stk'.elems[u] = stk.elems[u]
  BY Fields DEF OwnedOK, FreedEmpty
<1>2. \A v \in Value : owned'[v] = owned[v] + Gain(v, stk.elems[s], stk'.elems[s])
  BY <1>1, OwnedValue, HoldsValues DEF Gain
<1>3. \A u \in Seg \ stk'.live : stk'.elems[u] = <<>>
  BY <1>1 DEF OwnedOK, FreedEmpty
<1> QED BY <1>1, <1>2, <1>3, OneWritten

(* Saves and reinstated copies take references, the frees drop those of    *)
(* the segments they give back, and the other steps move none.             *)
LEMMA ContOwned ==
  ASSUME TypeOK, TypeOK', OwnedOK,
         \/ Save \/ DropStale \/ FreeUncount \/ FreeSegment
         \/ \E c \in conts : Discard(c) \/ ResumeMove(c) \/ ResumeCopy(c)
  PROVE  OwnedOK'
<1>1. CASE Save
  <2>1. PICK s \in Seg \ stk.live : stk' = Dup(stk, stk.active, s)
    BY <1>1 DEF Save
  <2>2. owned' = OwnedPlus(stk.elems[stk.active])
    BY <1>1 DEF Save, ActiveElems
  <2> QED BY <2>1, <2>2, CopyOwned, Fields DEF Dup
<1>2. ASSUME NEW c \in conts, ResumeCopy(c) PROVE OwnedOK'
  <2>1. PICK s \in Seg \ stk.live :
          stk' = SetRefcnt(SetActive(Dup(stk, c, s), s), stk.active, 1)
    BY <1>2 DEF ResumeCopy, StartFree
  <2>2. /\ stk'.live = stk.live \cup {s} /\ c \in Seg
        /\ stk'.elems = [stk.elems EXCEPT ![s] = stk.elems[c]]
    BY <2>1, Fields DEF Dup, SetRefcnt, SetActive, TypeOK
  <2> QED BY <1>2, <2>2, CopyOwned DEF ResumeCopy
<1>3. CASE FreeUncount \/ DropStale \/ \E c \in conts : Discard(c) \/ ResumeMove(c)
  <2>1. /\ stk'.live = stk.live /\ stk'.elems = stk.elems /\ owned' = owned
    BY <1>3, Fields DEF FreeUncount, DropStale, Discard, ResumeMove, StartFree,
                        SetRefcnt, SetActive, StackRec
  <2> QED BY <2>1, NoneWritten
<1>4. CASE FreeSegment
  <2>1. PICK s \in Seg : s = freeing[Len(freeing)]
    BY <1>4 DEF FreeSegment, TypeOK
  <2>2. stk' = Release(stk, s) /\ owned' = OwnedMinus(stk.elems[s])
    BY <1>4, <2>1 DEF FreeSegment
  <2>3. /\ stk'.live = stk.live \ {s} /\ stk'.elems[s] = <<>>
        /\ \A u \in Seg \ {s} : stk'.elems[u] = stk.elems[u]
    BY <2>2, Fields DEF Release
  <2>4. \A v \in Value : owned'[v] = owned[v] + Gain(v, stk.elems[s], stk'.elems[s])
    BY <2>2, <2>3, OwnedValue, HoldsValues DEF Gain
  <2>5. \A u \in Seg \ stk'.live : stk'.elems[u] = <<>>
    BY <2>3 DEF OwnedOK, FreedEmpty
  <2> QED BY <2>3, <2>4, <2>5, OneWritten
<1> QED BY <1>1, <1>2, <1>3, <1>4

(* A new stack holds nothing.                                              *)
LEMMA OwnedInit == Init => OwnedOK
<1> SUFFICES ASSUME Init PROVE OwnedOK
  OBVIOUS
<1>1. \A s \in Seg : stk.elems[s] = <<>>
  BY DEF Init, NewStack
<1>2. ASSUME NEW v \in Value PROVE owned[v] = Held(v)
  <2>1. \A s \in Seg : Where(v, stk.elems[s]) = {}
    BY <1>1 DEF Where
  <2>2. Places(v, Seg, stk.elems) = {}
    BY <2>1 DEF Places
  <2> QED BY <2>2, FS_EmptySet DEF Held, Init
<1> QED BY <1>1, <1>2 DEF OwnedOK, FreedEmpty

(* Every step keeps the references and the slots together.                 *)
LEMMA OwnedStep == TypeOK /\ TypeOK' /\ OwnedOK /\ [Next]_vars => OwnedOK'
<1> SUFFICES ASSUME TypeOK, TypeOK', OwnedOK, [Next]_vars PROVE OwnedOK'
  OBVIOUS
<1>1. ASSUME NEW o, Fail(o) PROVE OwnedOK'
  BY <1>1, NoneWritten DEF Fail
<1>2. CASE UNCHANGED vars
  BY <1>2, NoneWritten DEF vars
<1>3. ASSUME NEW vs \in Pushes, Push(vs) \/ PushNew(vs) \/ PushNewFails(vs)
      PROVE  OwnedOK'
  BY <1>1, <1>3, PushOwned DEF PushNewFails
<1>4. CASE Pop \/ PopBelow \/ PopUnderflow \/ PopWild
  BY <1>1, <1>4, PopOwned DEF PopUnderflow, PopWild
<1>5. ASSUME NEW v \in Value, Xch(v) \/ XchAcross(v) \/ XchEmpty(v)
      PROVE  OwnedOK'
  BY <1>5, XchOwned
<1>6. ASSUME NEW c \in conts,
             Discard(c) \/ ResumeMove(c) \/ ResumeCopy(c) \/ ResumeWild(c)
      PROVE  OwnedOK'
  BY <1>1, <1>6, ContOwned DEF ResumeWild
<1>7. CASE Save \/ DropStale \/ FreeUncount \/ FreeSegment
  BY <1>7, ContOwned
<1>8. CASE XchFails \/ XchWild \/ SaveFails \/ FreeWild \/ ActiveWild
  BY <1>1, <1>8 DEF XchFails, XchWild, SaveFails, FreeWild, ActiveWild
<1> QED BY <1>2, <1>3, <1>4, <1>5, <1>6, <1>7, <1>8 DEF Next

(* The references to pool cells that the stack took and did not give back  *)
(* are exactly the slots of its segments.                                  *)
THEOREM OwnedHolds == Spec => []OwnedExact
<1>1. TypeOK /\ OwnedOK => OwnedExact
  <2> SUFFICES ASSUME TypeOK, OwnedOK, NEW v \in Value
               PROVE  owned[v] = Cardinality(Places(v, stk.live, stk.elems))
    BY DEF OwnedExact
  <2>1. \A s \in Seg \ stk.live : Where(v, stk.elems[s]) = {}
    BY DEF OwnedOK, FreedEmpty, Where
  <2>2. stk.live \subseteq Seg
    BY Fields
  <2>3. Places(v, Seg, stk.elems) = Places(v, stk.live, stk.elems)
    BY <2>1, <2>2 DEF Places
  <2> QED BY <2>3 DEF OwnedOK, Held
<1> QED BY <1>1, TypeCorrect, OwnedInit, OwnedStep, PTL DEF Spec

-----------------------------------------------------------------------------
(* The segmented stack implements the plain one.                           *)

(* The stack and the saved stacks as the interpreter sees them.            *)
Seen    == <<content[stk.active], [c \in conts |-> content[c]]>>
AbsStep == Abs!Next \/ UNCHANGED Seen

(* A step that writes no head but the active one leaves the saved stacks   *)
(* what they were.                                                         *)
LEMMA SavedStay ==
  ASSUME conts' = conts, \A c \in conts : content'[c] = content[c]
  PROVE  [c \in conts |-> content[c]]' = [c \in conts |-> content[c]]
OBVIOUS

(* The contents of a segment hold at least what the segment holds.         *)
LEMMA ContentLong ==
  ASSUME TypeOK, SegmentsOK, NEW s \in InUse
  PROVE  /\ content[s] \in Seq(Value) /\ stk.elems[s] \in Seq(Value)
         /\ Len(content[s]) >= Len(stk.elems[s])
         /\ Len(stk.elems[s]) \in Nat /\ Len(content[s]) \in Nat
<1>1. s \in Seg
  BY Fields DEF InUse
<1>2. /\ content[s] = BelowContent(s) \o stk.elems[s]
      /\ BelowContent(s) \in Seq(Value) /\ stk.elems[s] \in Seq(Value)
  BY <1>1, Fields, BelowType DEF SegmentsOK, ChainsOK, Chained
<1>3. PICK b \in Seq(Value), e \in Seq(Value) :
        b = BelowContent(s) /\ e = stk.elems[s]
  BY <1>2
<1>4. /\ b \o e \in Seq(Value) /\ Len(b \o e) = Len(b) + Len(e)
      /\ Len(b) \in Nat /\ Len(e) \in Nat
  BY ConcatProperties
<1>5. content[s] = b \o e
  BY <1>2, <1>3, Zenon
<1> QED BY <1>3, <1>4, <1>5

(* What a segment holds comes on top of what the one below it stands for.  *)
LEMMA OnBelow ==
  ASSUME TypeOK, SegmentsOK, NEW s \in InUse, NEW p \in Seg, p = stk.prev[s]
  PROVE  /\ content[s] = content[p] \o stk.elems[s]
         /\ stk.elems[s] = <<>> => content[s] = content[p]
<1>1. content[s] = content[p] \o stk.elems[s]
  BY Fields DEF SegmentsOK, ChainsOK, Chained, BelowContent
<1>2. PICK c \in Seq(Value) : c = content[p]
  BY Fields
<1>3. c \o <<>> = c
  OBVIOUS
<1> QED BY <1>1, <1>2, <1>3

(* Pushing, in place or to a new segment, pushes.                          *)
LEMMA PushAbs ==
  ASSUME TypeOK, SegmentsOK, NEW vs \in Pushes, Push(vs) \/ PushNew(vs)
  PROVE  Abs!Push
<1>1. /\ stk.active \in Seg /\ stk.active \in stk.live /\ stk.active \notin conts
      /\ conts \subseteq stk.live /\ conts' = conts
  BY Fields DEF SegmentsOK, HeadsOK, InUse, Push, PushNew
<1>2. CASE Push(vs)
  <2>1. stk'.active = stk.active
    BY <1>2, Fields DEF Push, PushIn, StackRec
  <2>2. content'[stk.active] = content[stk.active] \o vs
    BY <1>1, <1>2, Fields DEF Push
  <2>3. \A c \in conts : content'[c] = content[c]
    BY <1>1, <1>2, Fields DEF Push
  <2> QED BY <1>1, <2>1, <2>2, <2>3, SavedStay DEF Abs!Push
<1>3. CASE PushNew(vs)
  <2>1. PICK s \in Seg \ stk.live :
          /\ stk' = PushSplit(stk, s, vs)
          /\ content' = [content EXCEPT ![s] = content[stk.active] \o vs]
    BY <1>3 DEF PushNew
  <2>2. stk'.active = s
    BY <2>1 DEF PushSplit
  <2>3. content'[s] = content[stk.active] \o vs
    BY <2>1, Fields
  <2>4. \A c \in conts : content'[c] = content[c]
    BY <1>1, <2>1, Fields
  <2> QED BY <1>1, <2>2, <2>3, <2>4, SavedStay DEF Abs!Push
<1> QED BY <1>2, <1>3

(* Popping, also where top() crosses to a segment nobody else lies on,     *)
(* pops.                                                                   *)
LEMMA PopAbs ==
  ASSUME TypeOK, SegmentsOK, Pop \/ PopBelow, broken' = {}
  PROVE  Abs!Pop
<1>0. PICK a \in Seg : a = stk.active
  BY Fields
<1>1. /\ a \in InUse /\ a \notin conts /\ conts' = conts /\ conts \subseteq Seg
      /\ \A h \in Heads : Children(h) = {}
  BY <1>0, Fields DEF SegmentsOK, HeadsOK, InUse, Pop, PopBelow
<1>2. CASE Pop
  <2>1. stk'.active = a
    BY <1>0, <1>2, Fields DEF Pop, PopIn, StackRec
  <2>2. content'[a] = Popped(content[a])
    BY <1>0, <1>2, Fields DEF Pop
  <2>3. content[a] # <<>>
    <3>1. stk.elems[a] # <<>>
      BY <1>0, <1>2 DEF Pop, ActiveElems
    <3> QED BY <1>1, <3>1, ContentLong
  <2>4. \A c \in conts : content'[c] = content[c]
    BY <1>0, <1>1, <1>2, Fields DEF Pop
  <2> QED BY <1>0, <1>1, <2>1, <2>2, <2>3, <2>4, SavedStay
          DEF Abs!Pop, Popped
<1>3. CASE PopBelow
  <2>1. PICK p \in Seg : p = stk.prev[a] /\ stk.elems[p] # <<>>
    BY <1>0, <1>3, Fields DEF PopBelow, Below
  <2>2. /\ content' = [content EXCEPT ![p] = Popped(@), ![a] = <<>>]
        /\ stk' = PopIn(SetActive(stk, p)) /\ stk.elems[a] = <<>>
        /\ Children(p) = {a}
    BY <1>0, <1>3, <2>1 DEF PopBelow, PopCross, Below, ActiveElems
  <2>3. p # a /\ p \notin conts /\ p \in InUse
    BY <1>0, <1>1, <2>1, <2>2, Fields DEF Heads, SegmentsOK, LinksOK
  <2>4. stk'.active = p /\ content'[p] = Popped(content[p])
    BY <2>2, <2>3, Fields DEF PopIn, SetActive, StackRec
  <2>5. content[a] = content[p]
    BY <1>1, <2>1, <2>2, OnBelow
  <2>6. content[p] # <<>>
    BY <2>1, <2>3, ContentLong
  <2>7. \A c \in conts : content'[c] = content[c]
    BY <1>1, <2>2, <2>3, Fields
  <2> QED BY <1>0, <1>1, <2>4, <2>5, <2>6, <2>7, SavedStay
          DEF Abs!Pop, Popped
<1> QED BY <1>2, <1>3

(* Exchanging, wherever the two values are and whether or not the segment  *)
(* below is copied first, exchanges and writes no saved stack.             *)
LEMMA XchAbs ==
  ASSUME TypeOK, TypeOK', SegmentsOK, NEW v \in Value,
         Xch(v) \/ XchAcross(v) \/ XchEmpty(v)
  PROVE  Abs!Xch
<1>0. PICK a \in Seg : a = stk.active
  BY Fields
<1>1. /\ a \in InUse /\ a \notin conts /\ conts' = conts /\ conts \subseteq Seg
      /\ conts \subseteq stk.live
  BY <1>0, Fields DEF SegmentsOK, HeadsOK, InUse, Xch, XchAcross, XchEmpty
<1>2. CASE Xch(v)
  <2>1. stk'.active = a
    BY <1>0, <1>2, Fields DEF Xch, XchIn, StackRec
  <2>2. content'[a] = WithSecond(content[a], v)
    BY <1>0, <1>2, Fields DEF Xch
  <2>3. Len(content[a]) >= 2
    <3>1. Len(stk.elems[a]) >= 2
      BY <1>0, <1>2 DEF Xch, ActiveElems
    <3> QED BY <1>1, <3>1, ContentLong
  <2>4. \A c \in conts : content'[c] = content[c]
    BY <1>0, <1>1, <1>2, Fields DEF Xch
  <2> QED BY <1>0, <1>1, <2>1, <2>2, <2>3, <2>4, SavedStay
          DEF Abs!Xch, WithSecond
<1>3. ASSUME XchAcross(v) \/ XchEmpty(v)
      PROVE  \E p \in InUse \cap Seg :
               /\ p = stk.prev[a] /\ p # a /\ Len(stk.elems[p]) >= 2
               /\ \A d \in Seg :
                    (IF MustCopyBelow(stk) THEN d \notin stk.live ELSE d = p)
                    => d # a /\ d \notin conts
  <2>1. PICK b \in Seg, p \in Seg, x \in Seg \cup {NULL} : XchFinds(b, p, x)
    BY <1>3, XchBase DEF XchAcross, XchEmpty
  <2>2. /\ b = a /\ p = stk.prev[a] /\ p \in InUse /\ p # a /\ p \notin conts
        /\ Len(stk.elems[p]) >= 2
    BY <1>0, <2>1 DEF XchFinds
  <2> QED BY <1>1, <2>2 DEF InUse
<1>4. CASE XchAcross(v)
  <2>1. PICK p \in InUse \cap Seg :
          /\ p = stk.prev[a] /\ p # a /\ Len(stk.elems[p]) >= 2
          /\ \A d \in Seg :
               (IF MustCopyBelow(stk) THEN d \notin stk.live ELSE d = p)
               => d # a /\ d \notin conts
    BY <1>3, <1>4
  <2>2. PICK d \in Seg :
          /\ IF MustCopyBelow(stk) THEN d \notin stk.live ELSE d = p
          /\ stk' = XchBelow(stk, v, d)
          /\ content' = [content EXCEPT ![a] = WithSecond(@, v), ![d] = WithTop(content[p], v)]
    BY <1>0, <1>4, <2>1 DEF XchAcross, Below
  <2>3. stk'.active = a
    BY <1>0, <2>2 DEF XchBelow
  <2>4. content'[a] = WithSecond(content[a], v)
    BY <2>1, <2>2, Fields
  <2>5. \A c \in conts : content'[c] = content[c]
    BY <1>1, <2>1, <2>2, Fields
  <2>6. Len(content[a]) >= 2
    <3>0. Len(stk.elems[a]) = 1 /\ p \in Seg
      BY <1>0, <1>4, Fields DEF InUse, XchAcross, ActiveElems
    <3>1. content[a] = content[p] \o stk.elems[a]
      BY <1>1, <2>1, <3>0, OnBelow
    <3>2. Len(content[p]) >= 2 /\ content[p] \in Seq(Value) /\ stk.elems[a] \in Seq(Value)
      BY <1>1, <2>1, ContentLong
    <3>3. Len(content[p] \o stk.elems[a]) = Len(content[p]) + Len(stk.elems[a])
      BY <3>2, ConcatProperties
    <3>4. Len(content[p]) \in Nat
      BY <3>2
    <3> QED BY <3>0, <3>1, <3>2, <3>3, <3>4
  <2> QED BY <1>0, <1>1, <2>3, <2>4, <2>5, <2>6, SavedStay
          DEF Abs!Xch, WithSecond
<1>5. CASE XchEmpty(v)
  <2>1. PICK p \in InUse \cap Seg :
          /\ p = stk.prev[a] /\ p # a /\ Len(stk.elems[p]) >= 2
          /\ \A d \in Seg :
               (IF MustCopyBelow(stk) THEN d \notin stk.live ELSE d = p)
               => d # a /\ d \notin conts
    BY <1>3, <1>5
  <2>2. PICK d \in Seg :
          /\ IF MustCopyBelow(stk) THEN d \notin stk.live ELSE d = p
          /\ stk' = XchDrop(stk, v, d)
          /\ content' = [content EXCEPT ![a] = <<>>, ![d] = WithSecond(content[p], v)]
    BY <1>0, <1>5, <2>1 DEF XchEmpty, Below
  <2>3. stk'.active = d
    BY <1>0, <2>1, <2>2 DEF XchDrop, Below
  <2>4. content'[d] = WithSecond(content[p], v)
    BY <2>1, <2>2, Fields
  <2>5. \A c \in conts : content'[c] = content[c]
    BY <1>1, <2>1, <2>2, Fields
  <2>6. content[a] = content[p]
    <3>1. stk.elems[a] = <<>> /\ p \in Seg
      BY <1>0, <1>5, Fields DEF InUse, XchEmpty, ActiveElems
    <3> QED BY <1>1, <2>1, <3>1, OnBelow
  <2>7. Len(content[p]) >= 2
    BY <2>1, ContentLong
  <2> QED BY <1>0, <1>1, <2>3, <2>4, <2>5, <2>6, <2>7, SavedStay
          DEF Abs!Xch, WithSecond
<1> QED BY <1>2, <1>4, <1>5

(* u6a_vm_stack_save takes a snapshot under a handle that was free.        *)
LEMMA SaveAbs ==
  ASSUME TypeOK, SegmentsOK, Save
  PROVE  \E s \in Seg : Abs!Save(s)
<1>1. PICK s \in Seg \ stk.live :
        /\ stk' = Dup(stk, stk.active, s)
        /\ conts' = conts \cup {s}
        /\ content' = [content EXCEPT ![s] = content[stk.active]]
  BY DEF Save
<1>2. /\ stk.active \in Seg /\ stk.active # s /\ s \notin conts
      /\ conts \subseteq Seg
  BY <1>1, Fields DEF SegmentsOK, HeadsOK, InUse
<1>3. stk'.active = stk.active /\ content'[stk.active] = content[stk.active]
  BY <1>1, <1>2, Fields DEF Dup
<1>4. \A g \in conts \cup {s} : content'[g] = IF g = s THEN content[stk.active]
                                                      ELSE content[g]
  BY <1>1, <1>2, Fields
<1> QED BY <1>1, <1>2, <1>3, <1>4 DEF Abs!Save

(* u6a_vm_stack_discard forgets one snapshot; reinstating one, moved or    *)
(* copied, makes it the stack.                                             *)
LEMMA ContAbs ==
  ASSUME TypeOK, SegmentsOK, NEW c \in conts,
         Discard(c) \/ ResumeMove(c) \/ ResumeCopy(c)
  PROVE  Abs!Discard(c) \/ Abs!Resume(c)
<1>1. c \in Seg /\ stk.active \in Seg /\ conts \subseteq stk.live
  BY Fields DEF SegmentsOK, HeadsOK, InUse
<1>2. CASE Discard(c)
  <2>1. stk'.active = stk.active /\ content' = content /\ conts' = conts \ {c}
    BY <1>2, Fields DEF Discard, StartFree, SetRefcnt, StackRec
  <2> QED BY <2>1 DEF Abs!Discard
<1>3. CASE ResumeMove(c)
  <2>1. stk'.active = c /\ content' = content /\ conts' = conts \ {c}
    BY <1>1, <1>3, Fields DEF ResumeMove, StartFree, SetRefcnt, SetActive, StackRec
  <2> QED BY <2>1 DEF Abs!Resume
<1>4. CASE ResumeCopy(c)
  <2>1. PICK s \in Seg \ stk.live :
          /\ stk' = SetRefcnt(SetActive(Dup(stk, c, s), s), stk.active, 1)
          /\ content' = [content EXCEPT ![s] = content[c]]
    BY <1>4 DEF ResumeCopy, StartFree
  <2>2. stk'.active = s
    BY <2>1, Fields DEF Dup, SetRefcnt, SetActive
  <2>3. conts' = conts /\ \A g \in conts : content'[g] = content[g]
    BY <1>1, <1>4, <2>1, Fields DEF ResumeCopy
  <2>4. content'[s] = content[c]
    BY <2>1, Fields
  <2> QED BY <2>2, <2>3, <2>4, SavedStay DEF Abs!Resume
<1> QED BY <1>2, <1>3, <1>4

(* vm_stack_free works below and beside the stacks that can still be seen. *)
LEMMA FreeAbs ==
  ASSUME TypeOK, SegmentsOK, FreeUncount \/ FreeSegment
  PROVE  UNCHANGED Seen
<1>1. stk.active \in Seg /\ conts \subseteq Seg
  BY Fields DEF TypeOK
<1>2. CASE FreeUncount
  <2>1. stk'.active = stk.active /\ content' = content /\ conts' = conts
    BY <1>2, Fields DEF FreeUncount, SetRefcnt, StackRec
  <2> QED BY <2>1 DEF Seen
<1>3. CASE FreeSegment
  <2>1. PICK s : s = freeing[Len(freeing)]
    OBVIOUS
  <2>2. stk'.active = stk.active /\ conts' = conts
        /\ content' = [content EXCEPT ![s] = <<>>]
    BY <1>3, <2>1 DEF FreeSegment, Release
  <2>3. Len(freeing) \in DOMAIN freeing
    BY <1>3 DEF FreeSegment, TypeOK
  <2>4. s \notin Heads
    BY <2>1, <2>3 DEF SegmentsOK, FreeOK
  <2>5. \A h \in Heads : content'[h] = content[h]
    BY <1>1, <2>2, <2>4, Fields DEF Heads
  <2>6. content'[stk.active] = content[stk.active]
    BY <2>5 DEF Heads
  <2>7. \A c \in conts : content'[c] = content[c]
    BY <2>5 DEF Heads
  <2> QED BY <2>2, <2>6, <2>7, SavedStay DEF Seen
<1> QED BY <1>2, <1>3

(* Until one of the defects happens, every operation of vm_stack.c is the  *)
(* operation of the plain stack or is not seen.                            *)
LEMMA AbsSteps ==
  ASSUME TypeOK, TypeOK', StackInv, [Next]_vars, Sound, Sound'
  PROVE  AbsStep
<1>1. SegmentsOK /\ broken' = {} /\ status' = "ok"
  BY DEF Sound, StackInv
<1>2. ASSUME NEW o \in {"error", "wild"} PROVE ~Fail(o)
  BY <1>1 DEF Fail
<1>3. ASSUME NEW vs \in Pushes, Push(vs) \/ PushNew(vs) \/ PushNewFails(vs)
      PROVE  AbsStep
  BY <1>1, <1>2, <1>3, PushAbs DEF PushNewFails, AbsStep, Abs!Next
<1>4. CASE Pop \/ PopBelow \/ PopUnderflow \/ PopWild
  BY <1>1, <1>2, <1>4, PopAbs DEF PopUnderflow, PopWild, AbsStep, Abs!Next
<1>5. ASSUME NEW v \in Value, Xch(v) \/ XchAcross(v) \/ XchEmpty(v)
      PROVE  AbsStep
  BY <1>1, <1>5, XchAbs DEF AbsStep, Abs!Next
<1>6. CASE Save
  BY <1>1, <1>6, SaveAbs DEF AbsStep, Abs!Next
<1>7. ASSUME NEW c \in conts,
             Discard(c) \/ ResumeMove(c) \/ ResumeCopy(c) \/ ResumeWild(c)
      PROVE  AbsStep
  <2>1. c \in Seg
    BY DEF TypeOK
  <2> QED BY <1>1, <1>2, <1>7, <2>1, ContAbs DEF ResumeWild, AbsStep, Abs!Next
<1>8. CASE FreeUncount \/ FreeSegment
  BY <1>1, <1>8, FreeAbs DEF AbsStep
<1>9. ~DropStale
  BY <1>1 DEF DropStale
<1>10. CASE XchFails \/ XchWild \/ SaveFails \/ FreeWild \/ ActiveWild
  BY <1>2, <1>10 DEF XchFails, XchWild, SaveFails, FreeWild, ActiveWild
<1>11. CASE UNCHANGED vars
  BY <1>11 DEF vars, AbsStep, Seen
<1> QED BY <1>3, <1>4, <1>5, <1>6, <1>7, <1>8, <1>9, <1>10, <1>11 DEF Next

(* The stack begins empty, with nothing saved.                             *)
LEMMA AbsInit == Init => Abs!Init
<1> SUFFICES ASSUME Init PROVE Abs!Init
  OBVIOUS
<1>1. PICK s \in Seg : stk = NewStack(Seg, s)
  BY DEF Init
<1>2. stk.active = s /\ content[s] = <<>> /\ conts = {}
  BY <1>1 DEF NewStack, Init
<1>3. [c \in conts |-> content[c]] = <<>>
  BY <1>2
<1> QED BY <1>2, <1>3 DEF Abs!Init

(* The interpreter sees one stack and saved stacks that never change:      *)
(* ImplementsAbs, from the start of every run until a defect happens.      *)
THEOREM ImplementsPlainStack == Spec => Abs!Init /\ ImplementsAbs
<1>1. TypeOK /\ TypeOK' /\ StackInv /\ [Next]_vars
        => [Sound /\ Sound' => Abs!Next]_<<content[stk.active],
                                           [c \in conts |-> content[c]]>>
  BY AbsSteps DEF AbsStep, Seen
<1> QED BY <1>1, AbsInit, TypeCorrect, StackSound, PTL DEF Spec, ImplementsAbs

=============================================================================
