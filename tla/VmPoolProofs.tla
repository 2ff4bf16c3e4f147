---------------------------- MODULE VmPoolProofs ----------------------------
(***************************************************************************)
(* Proofs that the object pool keeps its counts, holes and worklist right, *)
(* for every size of the pool and in the middle of nested frees.           *)
(*                                                                         *)
(* References are counted as places: the places where a cell occurs in the *)
(* contents of the live cells, in the worklist and in the segments being   *)
(* freed.  Each action moves a few places from one of these to another,    *)
(* and the lemmas of CountingFacts say by how much each count changes.     *)
(***************************************************************************)
EXTENDS VmPool, CountingFacts

-----------------------------------------------------------------------------
(* What the definitions say when the state is well typed.                  *)

(* What the record is made of.                                             *)
LEMMA PoolFields ==
  ASSUME TypeOK
  PROVE  /\ pool.pos \in 0..PoolLen /\ pool.holes \in Seq(Cell)
         /\ pool.v1 \in [Cell -> Var] /\ pool.v2 \in [Cell -> Var]
         /\ pool.saved \in [Cell -> Seq(Cell) \cup {NoSaved}]
         /\ pool.refcnt \in [Cell -> Nat] /\ pool.fstack \in Seq(Cell)
         /\ held \in [Cell -> Nat] /\ lost \in [Cell -> Nat]
         /\ calls \in Seq(Seq(Cell)) /\ elem \in Cell \cup {0}
         /\ pc \in {"idle", "elem", "next", "values", "oom"}
BY DEF TypeOK, PoolType

(* The contents of the cells are finite sequences.                         *)
LEMMA ContentsType ==
  ASSUME TypeOK
  PROVE  /\ Contents \in [Cell -> Seq(0..PoolLen)]
         /\ AllFinite(Cell, Contents)
         /\ Live \subseteq Cell /\ AllFinite(Live, Contents)
         /\ AllFinite(DOMAIN calls, calls)
<1>1. /\ pool.v1 \in [Cell -> Var] /\ pool.v2 \in [Cell -> Var]
      /\ pool.saved \in [Cell -> Seq(Cell) \cup {NoSaved}]
      /\ calls \in Seq(Seq(Cell))
  BY DEF TypeOK, PoolType
<1>2. \A v \in Var : v.ref \in 0..PoolLen
  BY PoolLenAssumption DEF Var, NoRef, Ref, Cell
<1>3. ASSUME NEW d \in Cell PROVE Contents[d] \in Seq(0..PoolLen)
  <2>1. CASE pool.saved[d] # NoSaved
    <3>1. Contents[d] = pool.saved[d] /\ pool.saved[d] \in Seq(Cell)
      BY <1>1, <2>1 DEF Contents
    <3>2. \A q \in Seq(Cell) : q \in Seq(0..PoolLen)
      BY PoolLenAssumption DEF Cell
    <3> QED BY <3>1, <3>2
  <2>2. CASE pool.saved[d] = NoSaved
    <3>1. Contents[d] = <<pool.v1[d].ref, pool.v2[d].ref>>
      BY <2>2 DEF Contents
    <3> QED BY <3>1, <1>1, <1>2
  <2> QED BY <2>1, <2>2
<1>4. Contents \in [Cell -> Seq(0..PoolLen)]
  BY <1>3 DEF Contents
<1>5. IsFiniteSet(Cell)
  BY PoolLenAssumption, FS_Interval DEF Cell
<1>6. AllFinite(Cell, Contents)
  BY <1>4, <1>5, SeqsAreFinite
<1>7. Live \subseteq Cell
  BY DEF Live
<1>8. AllFinite(Live, Contents)
  BY <1>5, <1>6, <1>7, FS_Subset DEF AllFinite
<1>9. IsFiniteSet(DOMAIN calls) /\ \A i \in DOMAIN calls : calls[i] \in Seq(Cell)
  <2>1. DOMAIN calls = 1..Len(calls) /\ Len(calls) \in Nat
    BY <1>1
  <2> QED BY <1>1, <2>1, FS_Interval
<1>10. AllFinite(DOMAIN calls, calls)
  BY <1>9, SeqsAreFinite
<1> QED BY <1>4, <1>6, <1>7, <1>8, <1>10

(* A pair refers to what its two values refer to.                          *)
LEMMA CopiesPair ==
  ASSUME NEW a, NEW b, NEW c
  PROVE  Copies(c, <<a, b>>) =
           (IF a = c THEN 1 ELSE 0) + (IF b = c THEN 1 ELSE 0)
<1> DEFINE W == Where(c, <<a, b>>)
<1>1. DOMAIN <<a, b>> = {1, 2} /\ <<a, b>>[1] = a /\ <<a, b>>[2] = b
  OBVIOUS
<1>2. W = {i \in {1, 2} : IF i = 1 THEN a = c ELSE b = c}
  BY <1>1 DEF Where
<1>3. /\ Cardinality({}) = 0
      /\ Cardinality({1}) = 1 /\ Cardinality({2}) = 1 /\ Cardinality({1, 2}) = 2
  <2>1. IsFiniteSet({1}) /\ Cardinality({1}) = 1 /\ Cardinality({2}) = 1
    BY FS_Singleton
  <2>2. Cardinality({1} \cup {2}) = Cardinality({1}) + 1
    BY <2>1, FS_AddElement
  <2>3. {1} \cup {2} = {1, 2}
    OBVIOUS
  <2> QED BY <2>1, <2>2, <2>3, FS_EmptySet
<1>4. Copies(c, <<a, b>>) = Cardinality(W)
  BY DEF Copies
<1>5. CASE a = c /\ b = c
  <2>1. W = {1, 2}
    BY <1>2, <1>5
  <2> QED BY <2>1, <1>3, <1>4, <1>5
<1>6. CASE a = c /\ b # c
  <2>1. W = {1}
    BY <1>2, <1>6
  <2> QED BY <2>1, <1>3, <1>4, <1>6
<1>7. CASE a # c /\ b = c
  <2>1. W = {2}
    BY <1>2, <1>7
  <2> QED BY <2>1, <1>3, <1>4, <1>7
<1>8. CASE a # c /\ b # c
  <2>1. W = {}
    BY <1>2, <1>8
  <2> QED BY <2>1, <1>3, <1>4, <1>8
<1> QED BY <1>5, <1>6, <1>7, <1>8

(* Each part of the sum of references is a number, and a live cell that    *)
(* refers to c counts.                                                     *)
LEMMA ReferencesType ==
  ASSUME TypeOK, NEW c \in Cell
  PROVE  /\ held[c] \in Nat /\ lost[c] \in Nat /\ pool.refcnt[c] \in Nat
         /\ FromCells(c) \in Nat /\ FromCalls(c) \in Nat
         /\ Copies(c, pool.fstack) \in Nat
         /\ \A d \in Cell : Copies(c, Contents[d]) \in Nat
         /\ \A d \in Live : RefersTo(d, c) => FromCells(c) > 0
         /\ FromCells(c) > 0 => \E d \in Live : RefersTo(d, c)
<1>1. held[c] \in Nat /\ lost[c] \in Nat /\ pool.refcnt[c] \in Nat /\ pool.fstack \in Seq(Cell)
  BY DEF TypeOK, PoolType
<1>2. AllFinite(Cell, Contents) /\ AllFinite(Live, Contents) /\ AllFinite(DOMAIN calls, calls)
  BY ContentsType
<1>3. Cardinality(Places(c, Live, Contents)) \in Nat
  BY <1>2, PlacesType
<1>4. PlacesIn(c, calls) \in Nat
  BY PoolFields, PlacesInType
<1>5. Copies(c, pool.fstack) \in Nat
  BY <1>1, CopiesType
<1>6. \A d \in Cell : Copies(c, Contents[d]) \in Nat
  BY <1>2, PlacesType
<1>7. Cardinality(Places(c, Live, Contents)) > 0 <=> \E d \in Live : Copies(c, Contents[d]) > 0
  BY <1>2, PlacesSome
<1> QED BY <1>1, <1>3, <1>4, <1>5, <1>6, <1>7 DEF FromCells, FromCalls, RefersTo

(* What refers to a cell keeps it live.                                    *)
LEMMA ReferredIsLive ==
  ASSUME TypeOK, CountsExact, NEW c \in Cell
  PROVE  /\ held[c] > 0 => c \in Live
         /\ elem = c => c \in Live
         /\ \A d \in Live : RefersTo(d, c) => c \in Live
         /\ c \notin Live => /\ pool.refcnt[c] = 0 /\ held[c] = 0 /\ FromCells(c) = 0
                             /\ Copies(c, pool.fstack) = 0 /\ FromCalls(c) = 0
                             /\ lost[c] = 0 /\ elem # c
<1>1. pool.refcnt[c] = held[c] + FromCells(c) + Copies(c, pool.fstack)
                         + (IF elem = c THEN 1 ELSE 0) + FromCalls(c) + lost[c]
  BY DEF CountsExact, References
<1>2. c \in Live <=> pool.refcnt[c] > 0
  BY DEF Live
<1>3. /\ held[c] \in Nat /\ lost[c] \in Nat /\ pool.refcnt[c] \in Nat
      /\ FromCells(c) \in Nat /\ FromCalls(c) \in Nat /\ Copies(c, pool.fstack) \in Nat
  BY ReferencesType
<1>4. \A d \in Live : RefersTo(d, c) => FromCells(c) > 0
  BY ReferencesType
<1>5. held[c] > 0 \/ elem = c \/ FromCells(c) > 0 => pool.refcnt[c] > 0
  BY <1>1, <1>3
<1>6. pool.refcnt[c] = 0 =>
        /\ held[c] = 0 /\ FromCells(c) = 0 /\ Copies(c, pool.fstack) = 0
        /\ FromCalls(c) = 0 /\ lost[c] = 0 /\ elem # c
  <2>1. PICK i \in Nat, j \in Nat, k \in Nat, l \in Nat, m \in Nat, n \in Nat :
          /\ i = held[c] /\ j = FromCells(c) /\ k = Copies(c, pool.fstack)
          /\ l = (IF elem = c THEN 1 ELSE 0) /\ m = FromCalls(c) /\ n = lost[c]
    BY <1>3
  <2> SUFFICES ASSUME i + j + k + l + m + n = 0
               PROVE  i = 0 /\ j = 0 /\ k = 0 /\ l = 0 /\ m = 0 /\ n = 0
    BY <1>1, <2>1
  <2> QED OBVIOUS
<1>7. c \notin Live => pool.refcnt[c] = 0
  BY <1>2, <1>3
<1>8. \A d \in Live : RefersTo(d, c) => c \in Live
  BY <1>2, <1>4, <1>5
<1> QED BY <1>2, <1>5, <1>6, <1>7, <1>8

(* Nothing changes in what the cells refer to as long as their contents    *)
(* stay and the same cells are live.                                       *)
LEMMA SameCells ==
  ASSUME Live' = Live, Contents' = Contents
  PROVE  /\ \A c : FromCells(c)' = FromCells(c)
         /\ Acyclic => Acyclic'
<1>1. ASSUME NEW c PROVE FromCells(c)' = FromCells(c)
  BY Zenon DEF FromCells
<1>2. \A d, c : RefersTo(d, c)' <=> RefersTo(d, c)
  BY DEF RefersTo
<1>3. Acyclic => Acyclic'
  BY <1>2 DEF Acyclic
<1> QED BY <1>1, <1>3

-----------------------------------------------------------------------------
(* The pool is sound at the start, and every action keeps it so.           *)

LEMMA InitSound == Init => PoolInv
<1> SUFFICES ASSUME Init PROVE PoolInv
  OBVIOUS
<1> USE DEF Init
<1>1. /\ pool.pos = 0 /\ pool.holes = <<>> /\ pool.fstack = <<>>
      /\ pool.refcnt = [c \in Cell |-> 0] /\ pool.saved = [c \in Cell |-> NoSaved]
      /\ pool.v1 = [c \in Cell |-> NoRef] /\ pool.v2 = [c \in Cell |-> NoRef]
  BY DEF NewPool
<1>2. TypeOK
  BY PoolLenAssumption DEF TypeOK, PoolType, NewPool, Var
<1>3. Live = {}
  BY <1>1 DEF Live
<1>4. Cells
  BY <1>1, <1>3 DEF Cells
<1>5. Control /\ WorklistBounded
  BY <1>1 DEF Control, WorklistBounded
<1>6. HolesExact
  BY <1>1, <1>3 DEF HolesExact
<1>7. Acyclic
  BY <1>3 DEF Acyclic
<1>8. ASSUME NEW c \in Cell PROVE pool.refcnt[c] = References(c)
  <2>1. FromCells(c) = 0 /\ FromCalls(c) = 0
    <3>1. Places(c, Live, Contents) = {} /\ Places(c, DOMAIN calls, calls) = {}
      BY <1>3 DEF Places
    <3> QED BY <3>1, FS_EmptySet DEF FromCells, FromCalls, PlacesIn
  <2>2. Copies(c, pool.fstack) = 0
    BY <1>1, CopiesEmpty
  <2>3. c # elem /\ held[c] = 0 /\ lost[c] = 0 /\ pool.refcnt[c] = 0
    BY <1>1, PoolLenAssumption DEF Cell
  <2> QED BY <2>1, <2>2, <2>3 DEF References
<1>9. CountsExact
  BY <1>8 DEF CountsExact
<1> QED BY <1>2, <1>4, <1>5, <1>6, <1>7, <1>9 DEF PoolInv

LEMMA OutOfMemorySound == PoolInv /\ OutOfMemory => PoolInv'
<1> SUFFICES ASSUME PoolInv, OutOfMemory PROVE PoolInv'
  OBVIOUS
<1>1. /\ UNCHANGED <<pool, held, elem, calls, lost>>
      /\ pc = "idle" /\ pc' = "oom"
  BY DEF OutOfMemory, Idle
<1>2. Live' = Live /\ Contents' = Contents
  BY <1>1 DEF Live, Contents
<1>3. TypeOK' /\ Cells' /\ Control' /\ HolesExact' /\ Acyclic' /\ WorklistBounded'
  <2>1. TypeOK'
    BY <1>1 DEF PoolInv, TypeOK, PoolType
  <2>2. Cells' /\ HolesExact' /\ WorklistBounded'
    BY <1>1, <1>2 DEF PoolInv, Cells, HolesExact, WorklistBounded
  <2>3. Control'
    BY <1>1 DEF PoolInv, Control
  <2> QED BY <2>1, <2>2, <2>3, <1>2, SameCells DEF PoolInv
<1>4. CountsExact'
  <2>1. \A c \in Cell : References(c)' = References(c)
    BY <1>1, <1>2, SameCells DEF References, FromCalls
  <2> QED BY <1>1, <2>1 DEF PoolInv, CountsExact
<1> QED BY <1>3, <1>4 DEF PoolInv

(* A further reference to a cell that is referred to.                      *)
LEMMA TakeSound == ASSUME PoolInv, NEW c \in Cell, Take(c) PROVE PoolInv'
<1>1. /\ pool' = [pool EXCEPT !.refcnt = [pool.refcnt EXCEPT ![c] = pool.refcnt[c] + 1]]
      /\ held' = [held EXCEPT ![c] = held[c] + 1]
      /\ UNCHANGED <<pc, elem, calls, lost>>
  <2>1. Ref(c).ref = c /\ c # 0
    BY PoolLenAssumption DEF Ref, Cell
  <2>2. /\ pool' = Addref(pool, Ref(c)) /\ held' = [held EXCEPT ![c] = held[c] + 1]
        /\ UNCHANGED <<pc, elem, calls, lost>>
    BY DEF Take
  <2> QED BY <2>1, <2>2 DEF Addref
<1>2. TypeOK /\ Cells /\ Control /\ CountsExact /\ HolesExact /\ Acyclic /\ WorklistBounded
  BY DEF PoolInv
<1>3. /\ pool'.refcnt = [pool.refcnt EXCEPT ![c] = pool.refcnt[c] + 1]
      /\ pool'.pos = pool.pos /\ pool'.holes = pool.holes /\ pool'.fstack = pool.fstack
      /\ pool'.v1 = pool.v1 /\ pool'.v2 = pool.v2 /\ pool'.saved = pool.saved
  BY <1>1, <1>2 DEF TypeOK, PoolType
<1>4. TypeOK'
  <2>1. pool.refcnt[c] \in Nat /\ held[c] \in Nat
    BY <1>2, PoolFields
  <2>2. /\ [pool.refcnt EXCEPT ![c] = pool.refcnt[c] + 1] \in [Cell -> Nat]
        /\ held' \in [Cell -> Nat]
    BY <1>1, <1>2, <2>1, PoolFields, SMTT(30)
  <2> QED BY <1>1, <1>2, <2>2 DEF TypeOK, PoolType
<1>5. c \in Live
  <2>1. CASE held[c] > 0
    BY <1>2, <2>1, ReferredIsLive
  <2>2. CASE \E d \in Cell : held[d] > 0 /\ Ref(c) \in {pool.v1[d], pool.v2[d]}
    <3>1. PICK d \in Cell : held[d] > 0 /\ Ref(c) \in {pool.v1[d], pool.v2[d]}
      BY <2>2
    <3>2. d \in Live
      BY <1>2, <3>1, ReferredIsLive
    <3>3. Ref(c).ref = c /\ Ref(c) # NoRef
      BY PoolLenAssumption DEF Ref, NoRef, Cell
    <3>4. pool.saved[d] = NoSaved
      BY <1>2, <3>1, <3>3 DEF Cells
    <3>5. Contents[d] = <<pool.v1[d].ref, pool.v2[d].ref>>
      BY <3>4 DEF Contents
    <3>6. c \in {pool.v1[d].ref, pool.v2[d].ref}
      BY <3>1, <3>3
    <3>7. Copies(c, Contents[d]) > 0
      BY <3>5, <3>6, CopiesPair
    <3> QED BY <1>2, <3>2, <3>7, ReferredIsLive DEF RefersTo
  <2> QED BY <2>1, <2>2 DEF Take
<1>6. Live' = Live
  BY <1>2, <1>3, <1>5, PoolFields DEF Live
<1>7. Contents' = Contents
  BY <1>3 DEF Contents
<1>8. Cells' /\ Control' /\ HolesExact' /\ WorklistBounded'
  BY <1>1, <1>2, <1>3, <1>6 DEF Cells, Control, HolesExact, WorklistBounded
<1>9. Acyclic'
  BY <1>2, <1>6, <1>7, SameCells
<1>10. ASSUME NEW d \in Cell PROVE pool'.refcnt[d] = References(d)'
  <2>1. FromCells(d)' = FromCells(d) /\ FromCalls(d)' = FromCalls(d)
    BY <1>1, <1>6, <1>7, SameCells DEF FromCalls
  <2>2. held'[d] = held[d] + (IF d = c THEN 1 ELSE 0)
    BY <1>1, <1>2, PoolFields
  <2>3. pool'.refcnt[d] = pool.refcnt[d] + (IF d = c THEN 1 ELSE 0)
    BY <1>2, <1>3, PoolFields
  <2>4. pool.refcnt[d] = References(d)
    BY <1>2 DEF CountsExact
  <2> QED BY <1>1, <1>2, <1>3, <2>1, <2>2, <2>3, <2>4, ReferencesType DEF References
<1> QED BY <1>2, <1>4, <1>8, <1>9, <1>10 DEF PoolInv, CountsExact

(* The last of a sequence without repetitions, and another one at its end. *)
Distinct(q) == \A i, j \in DOMAIN q : q[i] = q[j] => i = j
Members(q) == {q[i] : i \in DOMAIN q}

LEMMA DistinctFront ==
  ASSUME NEW S, NEW q \in Seq(S), q # <<>>, Distinct(q)
  PROVE  /\ SubSeq(q, 1, Len(q) - 1) \in Seq(S) /\ Distinct(SubSeq(q, 1, Len(q) - 1))
         /\ q[Len(q)] \in Members(q) /\ q[Len(q)] \in S
         /\ Members(SubSeq(q, 1, Len(q) - 1)) = Members(q) \ {q[Len(q)]}
<1> DEFINE h == SubSeq(q, 1, Len(q) - 1)
           N == q[Len(q)]
<1>0. PICK n \in Nat : n = Len(q) /\ n >= 1
  OBVIOUS
<1>1. DOMAIN q = 1..n /\ N \in S /\ N = q[n] /\ n \in 1..n
  BY <1>0
<1>2. h \in Seq(S) /\ DOMAIN h = 1..(n - 1) /\ \A i \in 1..(n - 1) : h[i] = q[i]
  BY <1>0, <1>1
<1> HIDE DEF h, N
<1>3. Distinct(h)
  BY <1>1, <1>2 DEF Distinct
<1>4. ASSUME NEW x \in Members(h) PROVE x \in Members(q) \ {N}
  <2>1. PICK i \in 1..(n - 1) : x = q[i]
    BY <1>2 DEF Members
  <2>2. i \in 1..n /\ i # n
    OBVIOUS
  <2> QED BY <1>1, <2>1, <2>2 DEF Members, Distinct
<1>5. ASSUME NEW x \in Members(q) \ {N} PROVE x \in Members(h)
  <2>1. PICK i \in 1..n : x = q[i]
    BY <1>1 DEF Members
  <2>2. i \in 1..(n - 1)
    BY <1>1, <2>1
  <2> QED BY <1>2, <2>1, <2>2 DEF Members
<1>6. N \in Members(q)
  BY <1>1 DEF Members
<1>7. Members(h) = Members(q) \ {N}
  BY <1>4, <1>5
<1> QED BY <1>1, <1>2, <1>3, <1>6, <1>7 DEF h, N

LEMMA DistinctAppend ==
  ASSUME NEW S, NEW q \in Seq(S), NEW y \in S, y \notin Members(q), Distinct(q)
  PROVE  /\ Distinct(Append(q, y))
         /\ Members(Append(q, y)) = Members(q) \cup {y}
<1> DEFINE h == Append(q, y)
<1>1. DOMAIN q = 1..Len(q) /\ Len(q) \in Nat
  OBVIOUS
<1>2. DOMAIN h = 1..(Len(q) + 1) /\ h[Len(q) + 1] = y /\ \A i \in 1..Len(q) : h[i] = q[i]
  BY <1>1, AppendProperties
<1> HIDE DEF h
<1>3. Members(h) = Members(q) \cup {y}
  <2>1. ASSUME NEW x \in Members(h) PROVE x \in Members(q) \cup {y}
    BY <1>1, <1>2 DEF Members
  <2>2. Members(q) \subseteq Members(h)
    BY <1>1, <1>2 DEF Members
  <2>3. y \in Members(h)
    BY <1>1, <1>2 DEF Members
  <2> QED BY <2>1, <2>2, <2>3
<1>4. Distinct(h)
  <2> SUFFICES ASSUME NEW i \in 1..(Len(q) + 1), NEW j \in 1..(Len(q) + 1), h[i] = h[j]
               PROVE  i = j
    BY <1>2 DEF Distinct
  <2>1. \A k \in 1..Len(q) : h[k] # y
    BY <1>1, <1>2 DEF Members
  <2>2. CASE i \in 1..Len(q) /\ j \in 1..Len(q)
    BY <1>1, <1>2, <2>2 DEF Distinct
  <2>3. CASE i = Len(q) + 1 \/ j = Len(q) + 1
    BY <1>1, <1>2, <2>1, <2>3
  <2> QED BY <1>1, <2>2, <2>3
<1> QED BY <1>3, <1>4 DEF h

(* The end of the line, or the last hole: a cell that is not live, and the *)
(* holes that are left.                                                    *)
LEMMA NewCellIsFree ==
  ASSUME TypeOK, Cells, HolesExact, HasRoom(pool),
         NEW N, N = NewCell(pool),
         NEW p, p = (IF pool.holes = <<>> THEN pool.pos + 1 ELSE pool.pos),
         NEW h, h = (IF pool.holes = <<>> THEN <<>> ELSE Shorter(pool.holes))
  PROVE  /\ N \in Cell /\ N \notin Live /\ p \in 0..PoolLen /\ h \in Seq(Cell)
         /\ Live \cup {N} \subseteq 1..p
         /\ Members(h) = (1..p) \ (Live \cup {N}) /\ Distinct(h)
<1>1. pool.pos \in 0..PoolLen /\ pool.holes \in Seq(Cell)
  BY PoolFields
<1>2. /\ Live \subseteq 1..pool.pos /\ Members(pool.holes) = (1..pool.pos) \ Live
      /\ Distinct(pool.holes)
  BY DEF Cells, HolesExact, Members, Distinct
<1>3. CASE pool.holes = <<>>
  <2>1. N = pool.pos + 1 /\ pool.pos < PoolLen /\ p = pool.pos + 1 /\ h = <<>>
    BY <1>3 DEF NewCell, HasRoom
  <2>2. Members(<<>>) = {} /\ Distinct(<<>>)
    BY DEF Members, Distinct
  <2>3. (1..pool.pos) \ Live = {}
    BY <1>2, <1>3, <2>2
  <2>4. N \in Cell /\ N \notin 1..pool.pos /\ 1..p = (1..pool.pos) \cup {N} /\ p \in 0..PoolLen
    BY <1>1, <2>1, PoolLenAssumption DEF Cell
  <2>5. (1..p) \ (Live \cup {N}) = {} /\ Live \cup {N} \subseteq 1..p /\ N \notin Live
    BY <1>2, <2>3, <2>4
  <2>6. Members(h) = {} /\ Distinct(h) /\ h \in Seq(Cell)
    <3>1. h = <<>> /\ <<>> \in Seq(Cell)
      BY <2>1
    <3> QED BY <2>2, <3>1, Zenon
  <2> QED BY <2>4, <2>5, <2>6
<1>4. CASE pool.holes # <<>>
  <2>1. N = pool.holes[Len(pool.holes)] /\ p = pool.pos
        /\ h = SubSeq(pool.holes, 1, Len(pool.holes) - 1)
    BY <1>4 DEF NewCell, Last1, Shorter
  <2>2. /\ h \in Seq(Cell) /\ Distinct(h) /\ N \in Members(pool.holes)
        /\ N \in Cell /\ Members(h) = Members(pool.holes) \ {N}
    <3> DEFINE q == pool.holes
               g == SubSeq(q, 1, Len(q) - 1)
    <3> HIDE DEF q
    <3>1. q \in Seq(Cell) /\ q # <<>> /\ Distinct(q)
      BY <1>1, <1>2, <1>4 DEF q
    <3>2. /\ g \in Seq(Cell) /\ Distinct(g) /\ q[Len(q)] \in Members(q)
          /\ q[Len(q)] \in Cell /\ Members(g) = Members(q) \ {q[Len(q)]}
      BY <3>1, DistinctFront
    <3>3. h = g /\ N = q[Len(q)]
      BY <2>1 DEF q
    <3> QED BY <3>2, <3>3, Zenon DEF q
  <2> QED BY <1>1, <1>2, <2>1, <2>2
<1> QED BY <1>3, <1>4

(* A new cell with the contents q, whose references have been added.       *)
LEMMA AllocSound ==
  ASSUME PoolInv, Idle, HasRoom(pool),
         NEW a \in Var, NEW b \in Var, NEW s \in Seq(Cell) \cup {NoSaved},
         s # NoSaved => a = NoRef /\ b = NoRef /\ Len(s) <= MaxSaved,
         NEW q, q = (IF s # NoSaved THEN s ELSE <<a.ref, b.ref>>),
         \A c \in Cell : Copies(c, q) > 0 => held[c] > 0,
         NEW R \in [Cell -> Nat], \A c \in Cell : R[c] = pool.refcnt[c] + Copies(c, q),
         pool' = Alloc([pool EXCEPT !.refcnt = R], a, b, s),
         held' = [held EXCEPT ![NewCell(pool)] = 1],
         UNCHANGED <<pc, elem, calls, lost>>
  PROVE  PoolInv'
<1>0. PICK N, p, h : /\ N = NewCell(pool)
                     /\ p = (IF pool.holes = <<>> THEN pool.pos + 1 ELSE pool.pos)
                     /\ h = (IF pool.holes = <<>> THEN <<>> ELSE Shorter(pool.holes))
  OBVIOUS
<1>1. TypeOK /\ Cells /\ Control /\ CountsExact /\ HolesExact /\ Acyclic /\ WorklistBounded
  BY DEF PoolInv
<1>2. /\ N \in Cell /\ N \notin Live /\ p \in 0..PoolLen /\ h \in Seq(Cell)
      /\ Live \cup {N} \subseteq 1..p
      /\ Members(h) = (1..p) \ (Live \cup {N}) /\ Distinct(h)
  BY <1>0, <1>1, NewCellIsFree
<1>3. LET P == [pool EXCEPT !.refcnt = R]
      IN  /\ P.pos = pool.pos /\ P.holes = pool.holes /\ P.v1 = pool.v1 /\ P.v2 = pool.v2
          /\ P.saved = pool.saved /\ P.refcnt = R /\ P.fstack = pool.fstack
          /\ NewCell(P) = N
          /\ P \in PoolType
  BY <1>0, <1>1 DEF TypeOK, PoolType, NewCell
<1>4. /\ pool'.pos = p /\ pool'.holes = h /\ pool'.v1 = [pool.v1 EXCEPT ![N] = a]
      /\ pool'.v2 = [pool.v2 EXCEPT ![N] = b] /\ pool'.saved = [pool.saved EXCEPT ![N] = s]
      /\ pool'.refcnt = [R EXCEPT ![N] = 1] /\ pool'.fstack = pool.fstack
      /\ pool' \in PoolType
  <2> DEFINE P == [pool EXCEPT !.refcnt = R]
  <2>1. /\ P.pos = pool.pos /\ P.holes = pool.holes /\ P.v1 = pool.v1 /\ P.v2 = pool.v2
        /\ P.saved = pool.saved /\ P.refcnt = R /\ P.fstack = pool.fstack
        /\ NewCell(P) = N /\ P \in PoolType
    BY <1>3
  <2>2. pool' = Alloc(P, a, b, s)
    OBVIOUS
  <2> HIDE DEF P
  <2>3. /\ N \in Cell /\ N = NewCell(P)
        /\ p = (IF P.holes = <<>> THEN P.pos + 1 ELSE P.pos)
        /\ h = (IF P.holes = <<>> THEN <<>> ELSE Shorter(P.holes))
    BY <1>0, <1>2, <2>1
  <2> DEFINE Q == [P EXCEPT !.pos = p, !.holes = h, !.v1 = [P.v1 EXCEPT ![N] = a],
                            !.v2 = [P.v2 EXCEPT ![N] = b],
                            !.saved = [P.saved EXCEPT ![N] = s],
                            !.refcnt = [P.refcnt EXCEPT ![N] = 1]]
  <2>4. pool' = Q
    BY <2>1, <2>2, <2>3 DEF Alloc, PoolType
  <2>5. /\ [P.v1 EXCEPT ![N] = a] \in [Cell -> Var] /\ [P.v2 EXCEPT ![N] = b] \in [Cell -> Var]
        /\ [P.saved EXCEPT ![N] = s] \in [Cell -> Seq(Cell) \cup {NoSaved}]
        /\ [P.refcnt EXCEPT ![N] = 1] \in [Cell -> Nat]
    BY <2>1 DEF PoolType
  <2>6. Q \in PoolType
    BY <1>2, <2>1, <2>5 DEF PoolType
  <2>7. /\ Q.pos = p /\ Q.holes = h /\ Q.v1 = [P.v1 EXCEPT ![N] = a]
        /\ Q.v2 = [P.v2 EXCEPT ![N] = b] /\ Q.saved = [P.saved EXCEPT ![N] = s]
        /\ Q.refcnt = [P.refcnt EXCEPT ![N] = 1] /\ Q.fstack = P.fstack
    BY <2>1 DEF PoolType
  <2> HIDE DEF Q
  <2> QED BY <2>1, <2>4, <2>6, <2>7
<1>5. TypeOK'
  <2>1. held' \in [Cell -> Nat]
    BY <1>0, <1>1, PoolFields
  <2> QED BY <1>1, <1>4, <2>1 DEF TypeOK, PoolType
<1>6. /\ IsFiniteSet(DOMAIN q)
      /\ \A c \in Cell : Copies(c, q) \in Nat /\ (Copies(c, q) > 0 => c \in Live)
  <2>1. \A v \in Var : v.ref \in 0..PoolLen
    BY PoolLenAssumption DEF Var, NoRef, Ref, Cell
  <2>2. q \in Seq(Cell) \/ q \in Seq(0..PoolLen)
    <3>1. CASE s # NoSaved
      BY <3>1
    <3>2. CASE s = NoSaved
      <4>1. <<a.ref, b.ref>> \in Seq(0..PoolLen)
        BY <2>1
      <4> QED BY <3>2, <4>1
    <3> QED BY <3>1, <3>2
  <2>3. \A c \in Cell : Copies(c, q) \in Nat
    BY <2>2, CopiesType
  <2>4. IsFiniteSet(DOMAIN q)
    BY <2>2, SeqDomain
  <2> QED BY <1>1, <2>3, <2>4, ReferredIsLive
<1>7. Live' = Live \cup {N}
  <2>1. ASSUME NEW c \in Cell PROVE R[c] > 0 <=> pool.refcnt[c] > 0
    <3>1. /\ R[c] = pool.refcnt[c] + Copies(c, q) /\ pool.refcnt[c] \in Nat
          /\ Copies(c, q) \in Nat /\ (Copies(c, q) > 0 => pool.refcnt[c] > 0)
      BY <1>1, <1>6, PoolFields DEF Live
    <3> QED BY <3>1
  <2>2. \A c \in Cell : pool'.refcnt[c] = IF c = N THEN 1 ELSE R[c]
    BY <1>4
  <2>3. \A c \in Cell : pool'.refcnt[c] > 0 <=> c \in Live \/ c = N
    BY <2>1, <2>2 DEF Live
  <2>4. Live' = {c \in Cell : pool'.refcnt[c] > 0} /\ Live \subseteq Cell
    BY DEF Live
  <2> QED BY <1>2, <2>3, <2>4
<1>8. Contents' = [Contents EXCEPT ![N] = q]
  <2>1. \A d \in Cell : /\ pool'.saved[d] = IF d = N THEN s ELSE pool.saved[d]
                        /\ pool'.v1[d] = IF d = N THEN a ELSE pool.v1[d]
                        /\ pool'.v2[d] = IF d = N THEN b ELSE pool.v2[d]
    BY <1>1, <1>4, PoolFields
  <2>2. \A d \in Cell : Contents'[d] = IF d = N THEN q ELSE Contents[d]
    BY <2>1 DEF Contents
  <2> QED BY <2>2 DEF Contents
<1>9. ASSUME NEW c \in Cell PROVE FromCells(c)' = FromCells(c) + Copies(c, q)
  <2>1. Contents \in [Cell -> Seq(0..PoolLen)] /\ Live \subseteq Cell /\ AllFinite(Live, Contents)
    BY <1>1, ContentsType
  <2>2. Contents'[N] = q /\ \A d \in Live : Contents[d] = Contents'[d]
    BY <1>2, <1>8, <2>1
  <2>3. AllFinite(Live \cup {N}, Contents')
    <3>1. IsFiniteSet(DOMAIN q)
      BY <1>6
    <3>2. IsFiniteSet(Live \cup {N})
      BY <2>1, FS_AddElement DEF AllFinite
    <3>3. \A d \in Live : IsFiniteSet(DOMAIN Contents'[d])
      BY <2>1, <2>2 DEF AllFinite
    <3> QED BY <2>2, <3>1, <3>2, <3>3 DEF AllFinite
  <2>4. Cardinality(Places(c, Live \cup {N}, Contents')) =
          Cardinality(Places(c, Live, Contents')) + Copies(c, Contents'[N])
    <3> DEFINE f == Contents'
    <3>1. AllFinite(Live \cup {N}, f) /\ N \notin Live
      BY <1>2, <2>3
    <3> HIDE DEF f
    <3>2. Cardinality(Places(c, Live \cup {N}, f)) =
            Cardinality(Places(c, Live, f)) + Copies(c, f[N])
      BY <3>1, PlacesAdd
    <3> QED BY <3>2 DEF f
  <2>5. Places(c, Live, Contents) = Places(c, Live, Contents')
    BY <2>2, PlacesSame
  <2>6. FromCells(c)' = Cardinality(Places(c, Live \cup {N}, Contents'))
    BY <1>7, Zenon DEF FromCells
  <2>7. FromCells(c) = Cardinality(Places(c, Live, Contents'))
    BY <2>5, Zenon DEF FromCells
  <2>8. Copies(c, Contents'[N]) = Copies(c, q)
    BY <2>2, Zenon
  <2> QED BY <2>4, <2>6, <2>7, <2>8
<1>10. /\ pool.refcnt[N] = 0 /\ held[N] = 0 /\ FromCells(N) = 0 /\ Copies(N, pool.fstack) = 0
       /\ FromCalls(N) = 0 /\ lost[N] = 0 /\ elem # N /\ Copies(N, q) = 0
  <2>1. Copies(N, q) = 0
    <3>1. Copies(N, q) \in Nat /\ ~(Copies(N, q) > 0)
      BY <1>2, <1>6
    <3> QED BY <3>1
  <2> QED BY <1>1, <1>2, <2>1, ReferredIsLive
<1>11. ASSUME NEW c \in Cell PROVE pool'.refcnt[c] = References(c)'
  <2>1. FromCells(c)' = FromCells(c) + Copies(c, q) /\ FromCalls(c)' = FromCalls(c)
    BY <1>9 DEF FromCalls
  <2>2. held'[c] = IF c = N THEN 1 ELSE held[c]
    BY <1>0, <1>1, PoolFields
  <2>3. pool'.refcnt[c] = IF c = N THEN 1 ELSE pool.refcnt[c] + Copies(c, q)
    BY <1>4
  <2>4. pool.refcnt[c] = held[c] + FromCells(c) + Copies(c, pool.fstack)
                           + (IF elem = c THEN 1 ELSE 0) + FromCalls(c) + lost[c]
    BY <1>1 DEF CountsExact, References
  <2>5. References(c)' = held'[c] + FromCells(c)' + Copies(c, pool.fstack)
                           + (IF elem = c THEN 1 ELSE 0) + FromCalls(c)' + lost[c]
    BY <1>4 DEF References
  <2>6. /\ held[c] \in Nat /\ lost[c] \in Nat /\ FromCells(c) \in Nat /\ FromCalls(c) \in Nat
        /\ Copies(c, pool.fstack) \in Nat /\ Copies(c, q) \in Nat
    BY <1>1, <1>6, ReferencesType
  <2>7. CASE c = N
    BY <1>10, <2>1, <2>2, <2>3, <2>5, <2>7
  <2>8. CASE c # N
    <3>1. held'[c] = held[c] /\ pool'.refcnt[c] = pool.refcnt[c] + Copies(c, q)
      BY <2>2, <2>3, <2>8
    <3> QED BY <2>1, <2>4, <2>5, <2>6, <3>1, SMTT(20)
  <2> QED BY <2>7, <2>8
<1>12. Cells'
  <2>1. \A d \in Cell : /\ pool'.saved[d] = IF d = N THEN s ELSE pool.saved[d]
                        /\ pool'.v1[d] = IF d = N THEN a ELSE pool.v1[d]
                        /\ pool'.v2[d] = IF d = N THEN b ELSE pool.v2[d]
    BY <1>1, <1>4, PoolFields
  <2>2. Live' \subseteq 1..pool'.pos
    BY <1>2, <1>4, <1>7
  <2> QED BY <1>1, <2>1, <2>2 DEF Cells
<1>13. Control' /\ WorklistBounded'
  <2>1. pc = "idle" /\ pool.fstack = <<>> /\ calls = <<>> /\ elem = 0
    BY <1>1 DEF Idle, Control
  <2>2. Len(h) \in Nat
    BY <1>2
  <2> QED BY <1>4, <2>1, <2>2 DEF Control, WorklistBounded
<1>14. HolesExact'
  <2>1. HolesExact' <=> Members(pool'.holes) = (1..pool'.pos) \ Live' /\ Distinct(pool'.holes)
    BY DEF HolesExact, Members, Distinct
  <2> QED BY <1>2, <1>4, <1>7, <2>1
<1>15. Acyclic'
  <2> SUFFICES ASSUME NEW S \in SUBSET (Live \cup {N}), S # {}
               PROVE  \E c \in S : \A d \in S : ~RefersTo(d, c)'
    BY <1>7 DEF Acyclic
  <2>1. Contents \in [Cell -> Seq(0..PoolLen)] /\ Live \subseteq Cell
    BY <1>1, ContentsType
  <2>2. \A d \in Live : Contents'[d] = Contents[d]
    BY <1>2, <1>8, <2>1
  <2>3. \A d \in Live, c \in Cell : RefersTo(d, c)' <=> RefersTo(d, c)
    BY <2>2 DEF RefersTo
  <2>4. Contents'[N] = q
    BY <1>2, <1>8, <2>1
  <2>5. ~RefersTo(N, N)'
    <3>1. Copies(N, Contents'[N]) = Copies(N, q)
      BY <2>4, Zenon
    <3> SUFFICES ~(Copies(N, Contents'[N]) > 0)
      BY DEF RefersTo
    <3> QED BY <3>1, <1>10
  <2>6. \A d \in Live : ~RefersTo(d, N)
    BY <1>1, <1>2, <1>10, ReferencesType
  <2>7. CASE N \in S
    <3>1. \A d \in Live \cup {N} : ~RefersTo(d, N)'
      BY <1>2, <2>3, <2>5, <2>6
    <3> QED BY <2>7, <3>1
  <2>8. CASE N \notin S
    <3>1. S \in SUBSET Live
      BY <2>8
    <3>2. PICK c \in S : \A d \in S : ~RefersTo(d, c)
      BY <1>1, <3>1 DEF Acyclic
    <3> QED BY <2>1, <2>3, <3>1, <3>2
  <2> QED BY <2>7, <2>8
<1> QED BY <1>5, <1>11, <1>12, <1>13, <1>14, <1>15 DEF PoolInv, CountsExact

(* u6a_vm_pool_addref counts one reference, to the cell there is.          *)
Counted(P, v) == [c \in Cell |-> P.refcnt[c] + (IF v.ref = c THEN 1 ELSE 0)]

LEMMA AddrefCounts ==
  ASSUME NEW P \in PoolType, NEW v \in Var
  PROVE  /\ Counted(P, v) \in [Cell -> Nat]
         /\ Addref(P, v) = [P EXCEPT !.refcnt = Counted(P, v)]
<1> DEFINE R == Counted(P, v)
<1>1. P.refcnt \in [Cell -> Nat] /\ v.ref \in Cell \cup {0} /\ 0 \notin Cell
  BY PoolLenAssumption DEF PoolType, Var, NoRef, Ref, Cell
<1>2. R \in [Cell -> Nat]
  BY <1>1 DEF Counted
<1>3. CASE v.ref = 0
  <2>1. R = P.refcnt
    BY <1>1, <1>2, <1>3 DEF Counted
  <2>2. [P EXCEPT !.refcnt = P.refcnt] = P
    BY DEF PoolType
  <2> QED BY <1>2, <1>3, <2>1, <2>2 DEF Addref
<1>4. CASE v.ref \in Cell
  <2>1. R = [P.refcnt EXCEPT ![v.ref] = P.refcnt[v.ref] + 1]
    BY <1>1, <1>4 DEF Counted
  <2>2. [P EXCEPT !.refcnt[v.ref] = P.refcnt[v.ref] + 1]
          = [P EXCEPT !.refcnt = [P.refcnt EXCEPT ![v.ref] = P.refcnt[v.ref] + 1]]
    BY DEF PoolType
  <2> QED BY <1>1, <1>2, <1>4, <2>1, <2>2 DEF Addref
<1> QED BY <1>1, <1>3, <1>4

LEMMA AllocPairSound ==
  ASSUME PoolInv, NEW a \in Var, NEW b \in Var, AllocPair(a, b)
  PROVE  PoolInv'
<1> DEFINE q == <<a.ref, b.ref>>
           R1 == Counted(pool, a)
           P1 == [pool EXCEPT !.refcnt = R1]
           R2 == Counted(P1, b)
<1>1. TypeOK /\ pool \in PoolType /\ pool.refcnt \in [Cell -> Nat]
  BY DEF PoolInv, TypeOK, PoolType
<1>2. R1 \in [Cell -> Nat] /\ Addref(pool, a) = P1
  BY <1>1, AddrefCounts
<1>3. P1 \in PoolType /\ P1.refcnt = R1 /\ \A R : [P1 EXCEPT !.refcnt = R] = [pool EXCEPT !.refcnt = R]
  BY <1>1, <1>2 DEF PoolType
<1>4. R2 \in [Cell -> Nat] /\ Addref(P1, b) = [P1 EXCEPT !.refcnt = R2]
  <2> HIDE DEF P1
  <2> QED BY <1>3, AddrefCounts
<1>5. \A c \in Cell : Copies(c, q) = (IF a.ref = c THEN 1 ELSE 0) + (IF b.ref = c THEN 1 ELSE 0)
  BY CopiesPair
<1>6. \A c \in Cell : R2[c] = pool.refcnt[c] + Copies(c, q)
  <2> SUFFICES ASSUME NEW c \in Cell PROVE R2[c] = pool.refcnt[c] + Copies(c, q)
    OBVIOUS
  <2>1. R2[c] = P1.refcnt[c] + (IF b.ref = c THEN 1 ELSE 0)
    BY DEF Counted
  <2>2. P1.refcnt[c] = pool.refcnt[c] + (IF a.ref = c THEN 1 ELSE 0)
    BY <1>3 DEF Counted
  <2>3. Copies(c, q) = (IF a.ref = c THEN 1 ELSE 0) + (IF b.ref = c THEN 1 ELSE 0)
    BY <1>5
  <2> HIDE DEF q, R2, P1
  <2> QED BY <1>1, <2>1, <2>2, <2>3
<1>7. \A c \in Cell : Copies(c, q) > 0 => held[c] > 0
  <2>1. \A v \in Var, c \in Cell : v.ref = c => v.ref # 0
    BY PoolLenAssumption DEF Cell
  <2>2. Has(a) /\ Has(b)
    BY DEF AllocPair
  <2> QED BY <1>5, <2>1, <2>2 DEF Has
<1>8. /\ Idle /\ HasRoom(pool) /\ pool' = Alloc(Addref(Addref(pool, a), b), a, b, NoSaved)
      /\ held' = [held EXCEPT ![NewCell(pool)] = 1] /\ UNCHANGED <<pc, elem, calls, lost>>
  BY DEF AllocPair
<1>9. Addref(Addref(pool, a), b) = [pool EXCEPT !.refcnt = R2]
  <2>1. Addref(Addref(pool, a), b) = Addref(P1, b)
    BY <1>2, Zenon
  <2> QED BY <2>1, <1>3, <1>4, Zenon
<1>10. pool' = Alloc([pool EXCEPT !.refcnt = R2], a, b, NoSaved)
  BY <1>8, <1>9, Zenon
<1> HIDE DEF q, R2
<1>11. q = IF NoSaved # NoSaved THEN NoSaved ELSE <<a.ref, b.ref>>
  BY DEF q
<1> QED BY <1>4, <1>6, <1>7, <1>8, <1>10, <1>11, AllocSound

(* The contents of a saved stack.                                          *)
LEMMA AllocSavedSound ==
  ASSUME PoolInv, NEW n \in 0..MaxSaved, NEW q \in [1..n -> Cell], AllocSaved(q)
  PROVE  PoolInv'
<1> DEFINE R == [c \in Cell |-> pool.refcnt[c] + Copies(c, q)]
<1>1. n \in Nat /\ n <= MaxSaved
  BY BoundsAssumption
<1>2. q \in Seq(Cell) /\ Len(q) = n /\ q # NoSaved
  BY <1>1, NoSavedAssumption
<1>3. \A c \in Cell : Copies(c, q) \in Nat
  BY <1>2, CopiesType
<1>4. R \in [Cell -> Nat] /\ \A c \in Cell : R[c] = pool.refcnt[c] + Copies(c, q)
  BY <1>3, PoolFields, SMTT(30) DEF PoolInv
<1>5. /\ Idle /\ HasRoom(pool) /\ pool' = Alloc([pool EXCEPT !.refcnt = R], NoRef, NoRef, q)
      /\ \A c \in Cell : Copies(c, q) > 0 => held[c] > 0
      /\ held' = [held EXCEPT ![NewCell(pool)] = 1] /\ UNCHANGED <<pc, elem, calls, lost>>
  BY DEF AllocSaved
<1>6. NoRef \in Var
  BY DEF Var
<1> HIDE DEF R
<1>7. /\ q \in Seq(Cell) \cup {NoSaved} /\ Len(q) <= MaxSaved
      /\ q = IF q # NoSaved THEN q ELSE <<NoRef.ref, NoRef.ref>>
  BY <1>1, <1>2
<1> QED BY <1>4, <1>5, <1>6, <1>7, AllocSound

(* A reference that the interpreter drops is the local elem at first.      *)
LEMMA DropSound == ASSUME PoolInv, NEW c \in Cell, Drop(c) PROVE PoolInv'
<1>1. TypeOK /\ Cells /\ Control /\ CountsExact /\ HolesExact /\ Acyclic /\ WorklistBounded
  BY DEF PoolInv
<1>2. /\ pc = "idle" /\ elem = 0 /\ pool.fstack = <<>> /\ calls = <<>> /\ held[c] > 0
      /\ held' = [held EXCEPT ![c] = held[c] - 1] /\ pool' = [pool EXCEPT !.fstack = <<>>]
      /\ elem' = c /\ pc' = "elem" /\ UNCHANGED <<calls, lost>>
  BY <1>1 DEF Drop, Idle, Control
<1>3. pool' = pool
  BY <1>1, <1>2 DEF TypeOK, PoolType
<1>4. held' \in [Cell -> Nat] /\ \A d \in Cell : held'[d] = held[d] - (IF d = c THEN 1 ELSE 0)
  <2>1. held \in [Cell -> Nat] /\ held[c] \in Nat /\ held[c] - 1 \in Nat
    BY <1>1, <1>2, PoolFields
  <2> QED BY <1>2, <2>1
<1>5. TypeOK'
  BY <1>1, <1>2, <1>3, <1>4 DEF TypeOK, PoolType
<1>6. Live' = Live /\ Contents' = Contents
  BY <1>3 DEF Live, Contents
<1>7. Cells' /\ HolesExact' /\ WorklistBounded'
  BY <1>1, <1>3, <1>6 DEF Cells, HolesExact, WorklistBounded
<1>8. Control'
  <2>1. c # 0 /\ Len(pool.holes) \in Nat
    BY <1>1, PoolFields, PoolLenAssumption DEF Cell
  <2> QED BY <1>2, <1>3, <2>1 DEF Control
<1>9. Acyclic'
  BY <1>1, <1>6, SameCells
<1>10. ASSUME NEW d \in Cell PROVE pool'.refcnt[d] = References(d)'
  <2>1. FromCells(d)' = FromCells(d) /\ FromCalls(d)' = FromCalls(d)
    BY <1>2, <1>6, SameCells DEF FromCalls
  <2>2. pool.refcnt[d] = held[d] + FromCells(d) + Copies(d, pool.fstack)
                           + (IF elem = d THEN 1 ELSE 0) + FromCalls(d) + lost[d]
    BY <1>1 DEF CountsExact, References
  <2>3. References(d)' = held'[d] + FromCells(d)' + Copies(d, pool.fstack)
                           + (IF c = d THEN 1 ELSE 0) + FromCalls(d)' + lost[d]
    BY <1>2, <1>3 DEF References
  <2>4. elem # d
    BY <1>2, PoolLenAssumption DEF Cell
  <2>5. /\ held[d] \in Nat /\ lost[d] \in Nat /\ FromCells(d) \in Nat /\ FromCalls(d) \in Nat
        /\ Copies(d, pool.fstack) \in Nat
    BY <1>1, ReferencesType
  <2> QED BY <1>3, <1>4, <2>1, <2>2, <2>3, <2>4, <2>5
<1> QED BY <1>5, <1>7, <1>8, <1>9, <1>10 DEF PoolInv, CountsExact

(* A saved stack comes to own what the segment it lies on refers to.       *)
LEMMA InheritSound ==
  ASSUME PoolInv, NEW s \in Cell, NEW c \in Cell, Inherit(s, c)
  PROVE  PoolInv'
<1>1. TypeOK /\ Cells /\ Control /\ CountsExact /\ HolesExact /\ Acyclic /\ WorklistBounded
  BY DEF PoolInv
<1>2. PICK q : q = pool.saved[s]
  OBVIOUS
<1>3. /\ s \in Live /\ q # NoSaved /\ held[c] > 0 /\ Len(q) < MaxSaved
      /\ s \notin ReachableFrom({c}) /\ pc = "idle"
      /\ pool' = [pool EXCEPT !.saved = [pool.saved EXCEPT ![s] = Append(q, c)]]
      /\ held' = [held EXCEPT ![c] = held[c] - 1] /\ UNCHANGED <<pc, elem, calls, lost>>
  BY <1>2 DEF Inherit, Idle
<1>4. q \in Seq(Cell)
  BY <1>1, <1>2, <1>3, PoolFields
<1>5. Append(q, c) \in Seq(Cell) /\ Append(q, c) # NoSaved /\ Len(Append(q, c)) <= MaxSaved
  <2>1. PICK n \in Nat : n = Len(q)
    BY <1>4, SeqDomain
  <2>2. Append(q, c) \in Seq(Cell) /\ Append(q, c) \in [1..(n + 1) -> Cell] /\ Len(Append(q, c)) = n + 1
    <3>1. PICK g : g = Append(q, c)
      OBVIOUS
    <3>2. g \in Seq(Cell) /\ Len(g) = n + 1
      BY <1>4, <2>1, <3>1, AppendProperties
    <3>3. g \in [1..Len(g) -> Cell]
      BY <3>2
    <3> QED BY <3>1, <3>2, <3>3
  <2>3. n + 1 \in 0..MaxSaved
    BY <1>3, <2>1, BoundsAssumption
  <2> QED BY <2>2, <2>3, NoSavedAssumption, BoundsAssumption
<1>6. /\ pool'.pos = pool.pos /\ pool'.holes = pool.holes /\ pool'.fstack = pool.fstack
      /\ pool'.v1 = pool.v1 /\ pool'.v2 = pool.v2 /\ pool'.refcnt = pool.refcnt
      /\ pool'.saved = [pool.saved EXCEPT ![s] = Append(q, c)]
  BY <1>1, <1>3 DEF TypeOK, PoolType
<1>7. TypeOK'
  <2>1. [pool.saved EXCEPT ![s] = Append(q, c)] \in [Cell -> Seq(Cell) \cup {NoSaved}]
    BY <1>1, <1>5, PoolFields
  <2>2. held' \in [Cell -> Nat]
    <3>0. held \in [Cell -> Nat] /\ held[c] > 0
      BY <1>1, <1>3, PoolFields
    <3>1. held \in [Cell -> Nat] /\ held[c] - 1 \in Nat
      BY <3>0
    <3> QED BY <1>3, <3>1
  <2>3. pool' \in PoolType
    BY <1>1, <1>3, <2>1 DEF TypeOK, PoolType
  <2> QED BY <1>1, <1>3, <2>2, <2>3 DEF TypeOK, PoolType
<1>8. Live' = Live
  BY <1>6 DEF Live
<1>9. /\ Contents \in [Cell -> Seq(0..PoolLen)] /\ Contents[s] = q
      /\ Contents'[s] = Append(q, c)
      /\ \A d \in Cell : d # s => Contents'[d] = Contents[d]
      /\ Live \subseteq Cell /\ AllFinite(Live, Contents)
  <2>1. \A d \in Cell : pool'.saved[d] = IF d = s THEN Append(q, c) ELSE pool.saved[d]
    BY <1>1, <1>6, PoolFields
  <2>2. Contents'[s] = Append(q, c) /\ Contents[s] = q
    BY <1>2, <1>3, <1>5, <2>1 DEF Contents
  <2>3. \A d \in Cell : d # s => Contents'[d] = Contents[d]
    BY <1>6, <2>1 DEF Contents
  <2> QED BY <1>1, <2>2, <2>3, ContentsType
<1>10. ASSUME NEW d \in Cell
       PROVE  Copies(d, Append(q, c)) = Copies(d, q) + (IF c = d THEN 1 ELSE 0)
  BY <1>4, CopiesAppend
<1>11. ASSUME NEW d \in Cell PROVE FromCells(d)' = FromCells(d) + (IF c = d THEN 1 ELSE 0)
  <2> DEFINE h == Contents'
  <2>1. AllFinite(Live, h)
    <3>1. IsFiniteSet(DOMAIN h[s])
      <4>1. IsFiniteSet(DOMAIN Append(q, c))
        BY <1>5, SeqDomain
      <4> QED BY <1>9, <4>1, Zenon
    <3>2. \A e \in Live : e # s => IsFiniteSet(DOMAIN h[e])
      <4>1. \A e \in Live : IsFiniteSet(DOMAIN Contents[e])
        BY <1>9 DEF AllFinite
      <4>2. \A e \in Live : e # s => h[e] = Contents[e]
        BY <1>9
      <4> HIDE DEF h
      <4> QED BY <4>1, <4>2, Zenon
    <3> HIDE DEF h
    <3> QED BY <1>9, <3>1, <3>2 DEF AllFinite
  <2>2. \A e \in Live \ {s} : Contents[e] = h[e]
    BY <1>9
  <2> HIDE DEF h
  <2>3. Cardinality(Places(d, Live, h)) =
          Cardinality(Places(d, Live, Contents)) - Copies(d, Contents[s]) + Copies(d, h[s])
    BY <1>3, <1>9, <2>1, <2>2, PlacesChange, SMTT(30)
  <2>4. FromCells(d)' = Cardinality(Places(d, Live, h))
    BY <1>8, Zenon DEF FromCells, h
  <2>5. Copies(d, h[s]) = Copies(d, Append(q, c)) /\ Copies(d, Contents[s]) = Copies(d, q)
    BY <1>9, Zenon DEF h
  <2>6. Copies(d, q) \in Nat /\ Cardinality(Places(d, Live, Contents)) \in Nat
    BY <1>4, <1>9, CopiesType, PlacesType
  <2> QED BY <1>10, <2>3, <2>4, <2>5, <2>6 DEF FromCells
<1>12. ASSUME NEW d \in Cell PROVE pool'.refcnt[d] = References(d)'
  <2>1. FromCells(d)' = FromCells(d) + (IF c = d THEN 1 ELSE 0) /\ FromCalls(d)' = FromCalls(d)
    BY <1>3, <1>11 DEF FromCalls
  <2>2. held'[d] = held[d] - (IF c = d THEN 1 ELSE 0)
    <3>1. held \in [Cell -> Nat] /\ held' = [held EXCEPT ![c] = held[c] - 1]
      BY <1>1, <1>3, PoolFields
    <3> QED BY <3>1
  <2>3. pool.refcnt[d] = held[d] + FromCells(d) + Copies(d, pool.fstack)
                           + (IF elem = d THEN 1 ELSE 0) + FromCalls(d) + lost[d]
    BY <1>1 DEF CountsExact, References
  <2>4. References(d)' = held'[d] + FromCells(d)' + Copies(d, pool.fstack)
                           + (IF elem = d THEN 1 ELSE 0) + FromCalls(d)' + lost[d]
    BY <1>3, <1>6 DEF References
  <2>5. /\ held[d] \in Nat /\ lost[d] \in Nat /\ FromCells(d) \in Nat /\ FromCalls(d) \in Nat
        /\ Copies(d, pool.fstack) \in Nat
    BY <1>1, ReferencesType
  <2> QED BY <1>6, <2>1, <2>2, <2>3, <2>4, <2>5
<1>13. Cells'
  <2>1. \A d \in Cell : pool'.saved[d] = IF d = s THEN Append(q, c) ELSE pool.saved[d]
    BY <1>1, <1>6, PoolFields
  <2>2. pool.v1[s] = NoRef /\ pool.v2[s] = NoRef
    BY <1>1, <1>2, <1>3 DEF Cells
  <2> QED BY <1>1, <1>5, <1>6, <1>8, <2>1, <2>2 DEF Cells
<1>14. Control' /\ HolesExact' /\ WorklistBounded'
  BY <1>1, <1>3, <1>6, <1>8 DEF Control, HolesExact, WorklistBounded
<1>15. Acyclic'
  <2>1. PICK T \in SUBSET Cell : c \in T /\ Closed(T) /\ s \notin T
    BY <1>3 DEF ReachableFrom
  <2>2. ASSUME NEW d \in Cell, NEW e \in Cell, RefersTo(d, e)'
        PROVE  RefersTo(d, e) \/ (d = s /\ e = c)
    <3>1. CASE d # s
      <4>1. Contents'[d] = Contents[d]
        BY <1>9, <3>1
      <4> QED BY <2>2, <4>1 DEF RefersTo
    <3>2. CASE d = s
      <4>1. Copies(e, Append(q, c)) > 0
        BY <1>9, <2>2, <3>2 DEF RefersTo
      <4>2. Copies(e, q) \in Nat
        BY <1>4, CopiesType
      <4>3. Copies(e, q) > 0 \/ e = c
        BY <1>10, <4>1, <4>2
      <4> QED BY <1>9, <3>2, <4>3 DEF RefersTo
    <3> QED BY <3>1, <3>2
  <2> SUFFICES ASSUME NEW S \in SUBSET Live, S # {}
               PROVE  \E e \in S : \A d \in S : ~RefersTo(d, e)'
    BY <1>8 DEF Acyclic
  <2>3. CASE S \subseteq T
    <3>1. PICK e \in S : \A d \in S : ~RefersTo(d, e)
      BY <1>1 DEF Acyclic
    <3> QED BY <1>9, <2>1, <2>2, <2>3, <3>1
  <2>4. CASE ~(S \subseteq T)
    <3>1. S \ T \in SUBSET Live /\ S \ T # {}
      BY <2>4
    <3>2. PICK e \in S \ T : \A d \in S \ T : ~RefersTo(d, e)
      BY <1>1, <3>1 DEF Acyclic
    <3>3. \A d \in T : ~RefersTo(d, e)
      BY <1>9, <2>1, <3>2 DEF Closed
    <3> QED BY <1>9, <2>1, <2>2, <3>2, <3>3
  <2> QED BY <2>3, <2>4
<1> QED BY <1>7, <1>12, <1>13, <1>14, <1>15 DEF PoolInv, CountsExact

-----------------------------------------------------------------------------
(* u6a_vm_pool_free and vm_stack_free, step by step.                       *)

(* u6a_free_stack_push_ puts a reference on the worklist, if it is one.    *)
LEMMA FreePushCounts ==
  ASSUME NEW fs \in Seq(Cell), NEW v \in Var, NEW d \in Cell
  PROVE  /\ FreePush(fs, v) \in Seq(Cell) /\ Len(FreePush(fs, v)) <= Len(fs) + 1
         /\ Copies(d, FreePush(fs, v)) = Copies(d, fs) + (IF v.ref = d THEN 1 ELSE 0)
<1>1. v.ref \in Cell \cup {0} /\ d # 0 /\ Len(fs) \in Nat /\ Copies(d, fs) \in Nat
  BY PoolLenAssumption, CopiesType DEF Var, NoRef, Ref, Cell
<1>2. CASE v.ref = 0
  <2>1. FreePush(fs, v) = fs
    BY <1>2 DEF FreePush
  <2> QED BY <1>1, <1>2, <2>1
<1>3. CASE v.ref \in Cell
  <2>1. PICK c \in Cell : c = v.ref
    BY <1>3
  <2>2. FreePush(fs, v) = Append(fs, c)
    BY <2>1, PoolLenAssumption DEF FreePush, Cell
  <2>3. Append(fs, c) \in Seq(Cell) /\ Len(Append(fs, c)) = Len(fs) + 1
    BY AppendProperties
  <2>4. Copies(d, Append(fs, c)) = Copies(d, fs) + (IF c = d THEN 1 ELSE 0)
    BY CopiesAppend
  <2> QED BY <1>1, <2>1, <2>2, <2>3, <2>4
<1> QED BY <1>1, <1>2, <1>3

(* A cell that something else still refers to.                             *)
LEMMA FreeElemCountedSound ==
  ASSUME PoolInv, FreeElem, ~DropsToZero(pool, elem)
  PROVE  PoolInv'
<1>1. TypeOK /\ Cells /\ Control /\ CountsExact /\ HolesExact /\ Acyclic /\ WorklistBounded
  BY DEF PoolInv
<1>2. PICK c \in Cell : elem = c
  BY <1>1, PoolFields DEF FreeElem, Control
<1>3. pool.refcnt[c] \in Nat /\ pool.refcnt[c] > 0 /\ pool.refcnt[c] # 1
  <2>1. c \in Live
    BY <1>1, <1>2, ReferredIsLive
  <2> QED BY <1>1, <1>2, <2>1, PoolFields DEF Live, DropsToZero
<1>4. PICK R : R = [pool.refcnt EXCEPT ![c] = pool.refcnt[c] - 1]
  OBVIOUS
<1>5. /\ pc = "elem" /\ pc' = "next" /\ elem' = 0 /\ UNCHANGED <<held, lost, calls>>
      /\ pool' = [pool EXCEPT !.refcnt = R]
  <2>1. FreeCell(pool, c) = [pool EXCEPT !.refcnt[c] = pool.refcnt[c] - 1]
    BY <1>3 DEF FreeCell
  <2>2. [pool EXCEPT !.refcnt[c] = pool.refcnt[c] - 1] = [pool EXCEPT !.refcnt = R]
    BY <1>1, <1>4 DEF TypeOK, PoolType
  <2> QED BY <1>2, <2>1, <2>2 DEF FreeElem
<1>6. R \in [Cell -> Nat] /\ \A d \in Cell : R[d] = pool.refcnt[d] - (IF c = d THEN 1 ELSE 0)
  <2>1. pool.refcnt \in [Cell -> Nat] /\ pool.refcnt[c] - 1 \in Nat
    BY <1>1, <1>3, PoolFields
  <2> QED BY <1>4, <2>1
<1>7. /\ pool'.pos = pool.pos /\ pool'.holes = pool.holes /\ pool'.fstack = pool.fstack
      /\ pool'.v1 = pool.v1 /\ pool'.v2 = pool.v2 /\ pool'.saved = pool.saved
      /\ pool'.refcnt = R
  BY <1>1, <1>5 DEF TypeOK, PoolType
<1>8. TypeOK'
  BY <1>1, <1>5, <1>6 DEF TypeOK, PoolType
<1>9. Live' = Live
  <2>1. ASSUME NEW d \in Cell PROVE R[d] > 0 <=> pool.refcnt[d] > 0
    <3>1. pool.refcnt[d] \in Nat /\ R[d] = pool.refcnt[d] - (IF c = d THEN 1 ELSE 0)
      BY <1>1, <1>6, PoolFields
    <3>2. CASE c = d
      BY <1>3, <3>1, <3>2
    <3>3. CASE c # d
      BY <3>1, <3>3
    <3> QED BY <3>2, <3>3
  <2> QED BY <1>7, <2>1 DEF Live
<1>10. Contents' = Contents
  BY <1>7 DEF Contents
<1>11. Cells' /\ HolesExact'
  BY <1>1, <1>7, <1>9 DEF Cells, HolesExact
<1>12. Control' /\ WorklistBounded'
  <2>1. Len(pool.fstack) <= Len(pool.holes) /\ Len(pool.fstack) \in Nat /\ Len(pool.holes) \in Nat
    BY <1>1, <1>5, PoolFields DEF Control
  <2> QED BY <1>5, <1>7, <2>1 DEF Control, WorklistBounded
<1>13. Acyclic'
  BY <1>1, <1>9, <1>10, SameCells
<1>14. ASSUME NEW d \in Cell PROVE pool'.refcnt[d] = References(d)'
  <2>1. FromCells(d)' = FromCells(d) /\ FromCalls(d)' = FromCalls(d)
    BY <1>5, <1>9, <1>10, SameCells DEF FromCalls
  <2>2. pool.refcnt[d] = held[d] + FromCells(d) + Copies(d, pool.fstack)
                           + (IF c = d THEN 1 ELSE 0) + FromCalls(d) + lost[d]
    BY <1>1, <1>2 DEF CountsExact, References
  <2>3. References(d)' = held[d] + FromCells(d)' + Copies(d, pool.fstack)
                           + (IF 0 = d THEN 1 ELSE 0) + FromCalls(d)' + lost[d]
    BY <1>5, <1>7 DEF References
  <2>4. d # 0
    BY PoolLenAssumption DEF Cell
  <2>5. /\ held[d] \in Nat /\ lost[d] \in Nat /\ FromCells(d) \in Nat /\ FromCalls(d) \in Nat
        /\ Copies(d, pool.fstack) \in Nat
    BY <1>1, ReferencesType
  <2> QED BY <1>6, <1>7, <2>1, <2>2, <2>3, <2>4, <2>5
<1> QED BY <1>8, <1>11, <1>12, <1>13, <1>14 DEF PoolInv, CountsExact

(* A cell that nothing refers to any more becomes a hole; what it refers   *)
(* to goes to the worklist or, for a saved stack, to vm_stack_free.        *)
LEMMA FreeElemZeroSound ==
  ASSUME PoolInv, FreeElem, DropsToZero(pool, elem)
  PROVE  PoolInv'
<1>1. TypeOK /\ Cells /\ Control /\ CountsExact /\ HolesExact /\ Acyclic /\ WorklistBounded
  BY DEF PoolInv
<1>2. PICK c \in Cell : elem = c
  BY <1>1, PoolFields DEF FreeElem, Control
<1>3. pool.refcnt[c] = 1 /\ c \in Live
  <2>1. c \in Live
    BY <1>1, <1>2, ReferredIsLive
  <2> QED BY <1>2, <2>1 DEF DropsToZero
<1>4. PICK R, h, fs : /\ R = [pool.refcnt EXCEPT ![c] = 0] /\ h = Append(pool.holes, c)
                      /\ fs = IF pool.saved[c] # NoSaved THEN pool.fstack
                              ELSE FreePush(FreePush(pool.fstack, pool.v2[c]), pool.v1[c])
  OBVIOUS
<1>5. /\ pc = "elem" /\ elem' = 0 /\ UNCHANGED <<held, lost>>
      /\ pool' = [pool EXCEPT !.refcnt = R, !.holes = h, !.fstack = fs]
      /\ pool.saved[c] # NoSaved => calls' = Append(calls, pool.saved[c]) /\ pc' = "values"
      /\ pool.saved[c] = NoSaved => calls' = calls /\ pc' = "next"
  <2>1. FreeCell(pool, c) = [pool EXCEPT !.refcnt[c] = 0, !.holes = h, !.fstack = fs]
    BY <1>3, <1>4 DEF FreeCell
  <2>2. [pool EXCEPT !.refcnt[c] = 0, !.holes = h, !.fstack = fs]
          = [pool EXCEPT !.refcnt = R, !.holes = h, !.fstack = fs]
    BY <1>1, <1>4 DEF TypeOK, PoolType
  <2> QED BY <1>2, <2>1, <2>2 DEF FreeElem
<1>6. R \in [Cell -> Nat] /\ \A d \in Cell : R[d] = IF c = d THEN 0 ELSE pool.refcnt[d]
  BY <1>1, <1>4, PoolFields
<1>7. h \in Seq(Cell) /\ Len(h) = Len(pool.holes) + 1 /\ Len(pool.holes) \in Nat
  BY <1>1, <1>4, PoolFields, AppendProperties
<1>8. /\ fs \in Seq(Cell) /\ Len(fs) <= Len(h) + 1
      /\ \A d \in Cell : pool.saved[c] = NoSaved =>
           Copies(d, fs) = Copies(d, pool.fstack) + Copies(d, Contents[c])
      /\ pool.saved[c] # NoSaved => fs = pool.fstack
  <2>1. /\ pool.fstack \in Seq(Cell) /\ Len(pool.fstack) \in Nat
        /\ Len(pool.fstack) <= Len(pool.holes) /\ pool.v1[c] \in Var /\ pool.v2[c] \in Var
    BY <1>1, <1>5, PoolFields DEF Control
  <2>2. CASE pool.saved[c] # NoSaved
    BY <1>4, <1>7, <2>1, <2>2
  <2>3. CASE pool.saved[c] = NoSaved
    <3>1. PICK g : g = FreePush(pool.fstack, pool.v2[c])
      OBVIOUS
    <3>2. /\ g \in Seq(Cell) /\ Len(g) <= Len(pool.fstack) + 1
          /\ \A d \in Cell : Copies(d, g) = Copies(d, pool.fstack)
                                              + (IF pool.v2[c].ref = d THEN 1 ELSE 0)
      BY <2>1, <3>1, FreePushCounts
    <3>3. fs = FreePush(g, pool.v1[c])
      BY <1>4, <2>3, <3>1
    <3>4. /\ fs \in Seq(Cell) /\ Len(fs) <= Len(g) + 1
          /\ \A d \in Cell : Copies(d, fs) = Copies(d, g) + (IF pool.v1[c].ref = d THEN 1 ELSE 0)
      BY <2>1, <3>2, <3>3, FreePushCounts
    <3>5. Contents[c] = <<pool.v1[c].ref, pool.v2[c].ref>>
      BY <2>3 DEF Contents
    <3>6. ASSUME NEW d \in Cell
          PROVE  Copies(d, fs) = Copies(d, pool.fstack) + Copies(d, Contents[c])
      <4>1. Copies(d, Contents[c]) = (IF pool.v1[c].ref = d THEN 1 ELSE 0)
                                       + (IF pool.v2[c].ref = d THEN 1 ELSE 0)
        BY <3>5, CopiesPair
      <4>2. Copies(d, pool.fstack) \in Nat
        BY <1>1, ReferencesType
      <4> QED BY <3>2, <3>4, <4>1, <4>2
    <3>7. Len(g) \in Nat /\ Len(fs) \in Nat
      BY <3>2, <3>4
    <3> QED BY <1>7, <2>1, <2>3, <3>2, <3>4, <3>6, <3>7
  <2> QED BY <2>2, <2>3
<1>9. /\ pool'.pos = pool.pos /\ pool'.holes = h /\ pool'.fstack = fs
      /\ pool'.v1 = pool.v1 /\ pool'.v2 = pool.v2 /\ pool'.saved = pool.saved
      /\ pool'.refcnt = R
  BY <1>1, <1>5 DEF TypeOK, PoolType
<1>10. pool.saved[c] # NoSaved => pool.saved[c] \in Seq(Cell) /\ Contents[c] = pool.saved[c]
  BY <1>1, PoolFields DEF Contents
<1>11. calls' \in Seq(Seq(Cell)) /\ (pool.saved[c] # NoSaved => calls' # <<>>)
  <2>1. calls \in Seq(Seq(Cell))
    BY <1>1, PoolFields
  <2>2. CASE pool.saved[c] # NoSaved
    <3>1. PICK q \in Seq(Cell) : q = pool.saved[c]
      BY <1>10, <2>2
    <3>2. Append(calls, q) \in Seq(Seq(Cell)) /\ Append(calls, q) # <<>>
      BY <2>1, AppendProperties
    <3> QED BY <1>5, <2>2, <3>1, <3>2
  <2>3. CASE pool.saved[c] = NoSaved
    BY <1>5, <2>1, <2>3
  <2> QED BY <2>2, <2>3
<1>12. TypeOK'
  <2>1. pool' \in PoolType
    BY <1>1, <1>5, <1>6, <1>7, <1>8 DEF TypeOK, PoolType
  <2> QED BY <1>1, <1>5, <1>11, <2>1 DEF TypeOK, PoolType
<1>13. Live' = Live \ {c}
  <2>1. \A d \in Cell : R[d] > 0 <=> d \in Live /\ d # c
    BY <1>6 DEF Live
  <2> QED BY <1>9, <2>1 DEF Live
<1>14. Contents' = Contents
  BY <1>9 DEF Contents
<1>15. Cells'
  BY <1>1, <1>9, <1>13 DEF Cells
<1>16. HolesExact'
  <2>1. Members(pool.holes) = (1..pool.pos) \ Live /\ Distinct(pool.holes)
    BY <1>1 DEF HolesExact, Members, Distinct
  <2>2. c \in 1..pool.pos /\ pool.holes \in Seq(Cell)
    BY <1>1, <1>3, PoolFields DEF Cells
  <2>3. Distinct(h) /\ Members(h) = Members(pool.holes) \cup {c}
    BY <1>3, <1>4, <2>1, <2>2, DistinctAppend
  <2>4. Members(h) = (1..pool.pos) \ (Live \ {c})
    BY <2>1, <2>2, <2>3
  <2>5. HolesExact' <=> Members(pool'.holes) = (1..pool'.pos) \ Live' /\ Distinct(pool'.holes)
    BY DEF HolesExact, Members, Distinct
  <2> QED BY <1>9, <1>13, <2>3, <2>4, <2>5
<1>17. Control' /\ WorklistBounded'
  BY <1>5, <1>8, <1>9, <1>11 DEF Control, WorklistBounded
<1>18. Acyclic'
  <2>1. \A d, e : RefersTo(d, e)' <=> RefersTo(d, e)
    BY <1>14 DEF RefersTo
  <2>2. Live' \subseteq Live
    BY <1>13
  <2> QED BY <1>1, <2>1, <2>2 DEF Acyclic
<1>19. ASSUME NEW d \in Cell PROVE pool'.refcnt[d] = References(d)'
  <2>1. /\ held[d] \in Nat /\ lost[d] \in Nat /\ FromCells(d) \in Nat /\ FromCalls(d) \in Nat
        /\ Copies(d, pool.fstack) \in Nat /\ Copies(d, Contents[c]) \in Nat
        /\ pool.refcnt[d] \in Nat
    BY <1>1, ReferencesType
  <2>2. FromCells(d)' = FromCells(d) - Copies(d, Contents[c])
    <3>1. FromCells(d)' = Cardinality(Places(d, Live \ {c}, Contents))
      BY <1>13, <1>14, Zenon DEF FromCells
    <3>2. AllFinite(Live, Contents)
      BY <1>1, ContentsType
    <3>3. Cardinality(Places(d, Live \ {c}, Contents)) =
            Cardinality(Places(d, Live, Contents)) - Copies(d, Contents[c])
      BY <1>3, <3>2, PlacesRemove
    <3> QED BY <3>1, <3>3 DEF FromCells
  <2>3. pool.refcnt[d] = held[d] + FromCells(d) + Copies(d, pool.fstack)
                           + (IF c = d THEN 1 ELSE 0) + FromCalls(d) + lost[d]
    BY <1>1, <1>2 DEF CountsExact, References
  <2>4. References(d)' = held[d] + FromCells(d)' + Copies(d, fs)
                           + (IF 0 = d THEN 1 ELSE 0) + FromCalls(d)' + lost[d]
    BY <1>5, <1>9 DEF References
  <2>5. d # 0
    BY PoolLenAssumption DEF Cell
  <2>6. Copies(d, fs) + FromCalls(d)' =
          Copies(d, pool.fstack) + FromCalls(d) + Copies(d, Contents[c])
    <3>1. CASE pool.saved[c] = NoSaved
      <4>1. FromCalls(d)' = FromCalls(d)
        BY <1>5, <3>1 DEF FromCalls
      <4> QED BY <1>8, <2>1, <3>1, <4>1
    <3>2. CASE pool.saved[c] # NoSaved
      <4>1. PICK q \in Seq(Cell) : q = pool.saved[c]
        BY <1>10, <3>2
      <4>2. PlacesIn(d, Append(calls, q)) = PlacesIn(d, calls) + Copies(d, q)
        BY <1>1, PoolFields, PlacesInAppend
      <4>3. FromCalls(d)' = PlacesIn(d, Append(calls, q)) /\ Copies(d, q) = Copies(d, Contents[c])
        BY <1>5, <1>10, <3>2, <4>1, Zenon DEF FromCalls
      <4>4. Copies(d, fs) = Copies(d, pool.fstack)
        BY <1>8, <3>2, Zenon
      <4> QED BY <2>1, <4>2, <4>3, <4>4 DEF FromCalls
    <3> QED BY <3>1, <3>2
  <2>7. References(d)' = pool.refcnt[d] - (IF c = d THEN 1 ELSE 0)
    <3>1. Copies(d, fs) \in Nat /\ FromCalls(d)' \in Nat
      <4>1. PlacesIn(d, calls') \in Nat
        BY <1>11, PlacesInType
      <4> QED BY <1>8, <4>1, CopiesType DEF FromCalls
    <3> QED BY <2>1, <2>2, <2>3, <2>4, <2>5, <2>6, <3>1
  <2> QED BY <1>3, <1>6, <1>9, <2>1, <2>7
<1> QED BY <1>12, <1>15, <1>16, <1>17, <1>18, <1>19 DEF PoolInv, CountsExact

(* The next cell of the worklist becomes elem; or the call returns.        *)
LEMMA FreeNextSound == ASSUME PoolInv, FreeNext PROVE PoolInv'
<1>1. TypeOK /\ Cells /\ Control /\ CountsExact /\ HolesExact /\ Acyclic /\ WorklistBounded
  BY DEF PoolInv
<1>2. /\ pc = "next" /\ elem = 0 /\ UNCHANGED <<held, calls, lost>>
      /\ pool.fstack \in Seq(Cell) /\ Len(pool.fstack) \in Nat /\ Len(pool.holes) \in Nat
      /\ Len(pool.fstack) <= Len(pool.holes) + 1
  BY <1>1, PoolFields DEF FreeNext, Control, WorklistBounded
<1>3. CASE pool.fstack = <<>>
  <2>1. elem' = elem /\ pool' = pool /\ pc' = IF calls = <<>> THEN "idle" ELSE "values"
    BY <1>3 DEF FreeNext
  <2>2. Live' = Live /\ Contents' = Contents
    BY <2>1 DEF Live, Contents
  <2>3. TypeOK'
    BY <1>1, <1>2, <2>1 DEF TypeOK, PoolType
  <2>4. Cells' /\ HolesExact' /\ WorklistBounded'
    BY <1>1, <2>1, <2>2 DEF Cells, HolesExact, WorklistBounded
  <2>5. Control'
    BY <1>2, <1>3, <2>1 DEF Control
  <2>6. Acyclic'
    BY <1>1, <2>2, SameCells
  <2>7. CountsExact'
    <3>1. \A c \in Cell : References(c)' = References(c)
      BY <1>2, <2>1, <2>2, SameCells DEF References, FromCalls
    <3> QED BY <1>1, <2>1, <3>1 DEF CountsExact
  <2> QED BY <2>3, <2>4, <2>5, <2>6, <2>7 DEF PoolInv
<1>4. CASE pool.fstack # <<>>
  <2>1. PICK c, fs : c = pool.fstack[Len(pool.fstack)] /\ fs = SubSeq(pool.fstack, 1, Len(pool.fstack) - 1)
    OBVIOUS
  <2>2. elem' = c /\ pool' = [pool EXCEPT !.fstack = fs] /\ pc' = "elem"
    BY <1>4, <2>1 DEF FreeNext, Last1, Shorter
  <2>3. /\ fs \in Seq(Cell) /\ c \in Cell /\ Len(fs) = Len(pool.fstack) - 1
        /\ \A d \in Cell : Copies(d, pool.fstack) = Copies(d, fs) + (IF c = d THEN 1 ELSE 0)
    <3>1. PICK g \in Seq(Cell) : g = pool.fstack
      BY <1>2
    <3>2. g # <<>> /\ c = g[Len(g)] /\ fs = SubSeq(g, 1, Len(g) - 1)
      BY <1>4, <2>1, <3>1
    <3>3. c \in Cell /\ Len(SubSeq(g, 1, Len(g) - 1)) = Len(g) - 1
      <4>1. PICK n \in Nat : n = Len(g) /\ n >= 1
        BY <3>2
      <4>2. g[n] \in Cell /\ Len(SubSeq(g, 1, n - 1)) = n - 1
        BY <4>1
      <4> QED BY <3>2, <4>1, <4>2
    <3>4. ASSUME NEW d \in Cell
          PROVE  /\ SubSeq(g, 1, Len(g) - 1) \in Seq(Cell)
                 /\ Copies(d, g) = Copies(d, SubSeq(g, 1, Len(g) - 1))
                                     + (IF g[Len(g)] = d THEN 1 ELSE 0)
      BY <3>2, CopiesFront
    <3> QED BY <3>1, <3>2, <3>3, <3>4, Zenon
  <2>4. /\ pool'.pos = pool.pos /\ pool'.holes = pool.holes /\ pool'.fstack = fs
        /\ pool'.v1 = pool.v1 /\ pool'.v2 = pool.v2 /\ pool'.saved = pool.saved
        /\ pool'.refcnt = pool.refcnt
    BY <1>1, <2>2 DEF TypeOK, PoolType
  <2>5. Live' = Live /\ Contents' = Contents
    BY <2>4 DEF Live, Contents
  <2>6. TypeOK'
    BY <1>1, <1>2, <2>2, <2>3 DEF TypeOK, PoolType
  <2>7. Cells' /\ HolesExact'
    BY <1>1, <2>4, <2>5 DEF Cells, HolesExact
  <2>8. Control' /\ WorklistBounded'
    <3>1. c # 0
      BY <2>3, PoolLenAssumption DEF Cell
    <3> QED BY <1>2, <2>2, <2>3, <2>4, <3>1 DEF Control, WorklistBounded
  <2>9. Acyclic'
    BY <1>1, <2>5, SameCells
  <2>10. ASSUME NEW d \in Cell PROVE pool'.refcnt[d] = References(d)'
    <3>1. FromCells(d)' = FromCells(d) /\ FromCalls(d)' = FromCalls(d)
      BY <1>2, <2>5, SameCells DEF FromCalls
    <3>2. pool.refcnt[d] = held[d] + FromCells(d) + Copies(d, pool.fstack)
                             + (IF 0 = d THEN 1 ELSE 0) + FromCalls(d) + lost[d]
      BY <1>1, <1>2 DEF CountsExact, References
    <3>3. References(d)' = held[d] + FromCells(d)' + Copies(d, fs)
                             + (IF c = d THEN 1 ELSE 0) + FromCalls(d)' + lost[d]
      BY <1>2, <2>2, <2>4 DEF References
    <3>4. d # 0
      BY PoolLenAssumption DEF Cell
    <3>5. /\ held[d] \in Nat /\ lost[d] \in Nat /\ FromCells(d) \in Nat /\ FromCalls(d) \in Nat
          /\ Copies(d, pool.fstack) \in Nat /\ Copies(d, fs) \in Nat
      BY <1>1, <2>3, ReferencesType, CopiesType
    <3> QED BY <2>3, <2>4, <3>1, <3>2, <3>3, <3>4, <3>5
  <2> QED BY <2>6, <2>7, <2>8, <2>9, <2>10 DEF PoolInv, CountsExact
<1> QED BY <1>3, <1>4

(* The next value of a segment: the nested call empties the worklist, and  *)
(* what was on it is lost.                                                 *)
LEMMA FreeValueSound == ASSUME PoolInv, FreeValue PROVE PoolInv'
<1>1. TypeOK /\ Cells /\ Control /\ CountsExact /\ HolesExact /\ Acyclic /\ WorklistBounded
  BY DEF PoolInv
<1>2. /\ pc = "values" /\ elem = 0 /\ calls \in Seq(Seq(Cell)) /\ calls # <<>>
      /\ Len(pool.holes) \in Nat /\ UNCHANGED held
  BY <1>1, PoolFields DEF FreeValue, Control
<1>3. PICK q, rest : q = calls[Len(calls)] /\ rest = SubSeq(calls, 1, Len(calls) - 1)
  OBVIOUS
<1>4. /\ q \in Seq(Cell) /\ rest \in Seq(Seq(Cell))
      /\ \A d \in Cell : FromCalls(d) = PlacesIn(d, rest) + Copies(d, q)
  <2>1. PICK f \in Seq(Seq(Cell)) : f = calls
    BY <1>2
  <2>2. ASSUME NEW d
        PROVE  /\ f[Len(f)] \in Seq(Cell) /\ SubSeq(f, 1, Len(f) - 1) \in Seq(Seq(Cell))
               /\ PlacesIn(d, f) = PlacesIn(d, SubSeq(f, 1, Len(f) - 1)) + Copies(d, f[Len(f)])
    BY <1>2, <2>1, PlacesInFront
  <2> QED BY <1>3, <2>1, <2>2, Zenon DEF FromCalls
<1>5. CASE q = <<>>
  <2>1. /\ calls' = rest /\ pc' = "next" /\ elem' = elem /\ lost' = lost /\ pool' = pool
    BY <1>3, <1>5 DEF FreeValue, Last1, Shorter
  <2>2. Live' = Live /\ Contents' = Contents
    BY <2>1 DEF Live, Contents
  <2>3. TypeOK'
    BY <1>1, <1>2, <1>4, <2>1 DEF TypeOK, PoolType
  <2>4. Cells' /\ HolesExact' /\ WorklistBounded'
    BY <1>1, <2>1, <2>2 DEF Cells, HolesExact, WorklistBounded
  <2>5. Control'
    BY <1>2, <2>1 DEF Control
  <2>6. Acyclic'
    BY <1>1, <2>2, SameCells
  <2>7. ASSUME NEW d \in Cell PROVE pool'.refcnt[d] = References(d)'
    <3>1. Copies(d, q) = 0
      BY <1>5, CopiesEmpty
    <3>2. FromCalls(d)' = FromCalls(d)
      <4>1. PlacesIn(d, rest) \in Nat
        BY <1>4, PlacesInType
      <4>2. FromCalls(d)' = PlacesIn(d, rest)
        BY <2>1, Zenon DEF FromCalls
      <4> QED BY <1>4, <3>1, <4>1, <4>2
    <3>3. References(d)' = References(d)
      BY <1>2, <2>1, <2>2, <3>2, SameCells DEF References
    <3> QED BY <1>1, <2>1, <3>3 DEF CountsExact
  <2> QED BY <2>3, <2>4, <2>5, <2>6, <2>7 DEF PoolInv, CountsExact
<1>6. CASE q # <<>>
  <2>1. PICK c, t, L : /\ c = Head(q) /\ t = Tail(q)
                       /\ L = [d \in Cell |-> lost[d] + Copies(d, pool.fstack)]
    OBVIOUS
  <2>2. /\ elem' = c /\ calls' = Append(rest, t) /\ lost' = L
        /\ pool' = [pool EXCEPT !.fstack = <<>>] /\ pc' = "elem"
    BY <1>3, <1>6, <2>1 DEF FreeValue, Last1, Shorter
  <2>3. /\ c \in Cell /\ t \in Seq(Cell)
        /\ \A d \in Cell : Copies(d, q) = Copies(d, t) + (IF c = d THEN 1 ELSE 0)
    BY <1>4, <1>6, <2>1, CopiesTail
  <2>4. L \in [Cell -> Nat] /\ \A d \in Cell : L[d] = lost[d] + Copies(d, pool.fstack)
    <3>1. \A d \in Cell : lost[d] \in Nat /\ Copies(d, pool.fstack) \in Nat
      BY <1>1, ReferencesType
    <3> QED BY <2>1, <3>1
  <2>5. /\ pool'.pos = pool.pos /\ pool'.holes = pool.holes /\ pool'.fstack = <<>>
        /\ pool'.v1 = pool.v1 /\ pool'.v2 = pool.v2 /\ pool'.saved = pool.saved
        /\ pool'.refcnt = pool.refcnt
    BY <1>1, <2>2 DEF TypeOK, PoolType
  <2>6. Live' = Live /\ Contents' = Contents
    BY <2>5 DEF Live, Contents
  <2>7. calls' \in Seq(Seq(Cell))
    BY <1>4, <2>2, <2>3, AppendProperties
  <2>8. TypeOK'
    <3>1. PICK e \in Seq(Cell) : e = <<>>
      <4>1. <<>> \in Seq(Cell)
        OBVIOUS
      <4> QED BY <4>1, Zenon
    <3>2. pool' = [pool EXCEPT !.fstack = e]
      BY <2>2, <3>1
    <3>3. pool' \in PoolType
      BY <1>1, <3>1, <3>2 DEF TypeOK, PoolType
    <3> QED BY <1>1, <1>2, <2>2, <2>3, <2>4, <2>7, <3>3 DEF TypeOK, PoolType
  <2>9. Cells' /\ HolesExact'
    BY <1>1, <2>5, <2>6 DEF Cells, HolesExact
  <2>10. Control' /\ WorklistBounded'
    <3>1. c # 0
      BY <2>3, PoolLenAssumption DEF Cell
    <3> QED BY <1>2, <2>2, <2>5, <3>1 DEF Control, WorklistBounded
  <2>11. Acyclic'
    BY <1>1, <2>6, SameCells
  <2>12. ASSUME NEW d \in Cell PROVE pool'.refcnt[d] = References(d)'
    <3>1. FromCells(d)' = FromCells(d)
      BY <2>6, SameCells
    <3>2. FromCalls(d)' = PlacesIn(d, rest) + Copies(d, t)
      <4>1. PlacesIn(d, Append(rest, t)) = PlacesIn(d, rest) + Copies(d, t)
        BY <1>4, <2>3, PlacesInAppend
      <4>2. FromCalls(d)' = PlacesIn(d, Append(rest, t))
        BY <2>2, Zenon DEF FromCalls
      <4> QED BY <4>1, <4>2
    <3>3. pool.refcnt[d] = held[d] + FromCells(d) + Copies(d, pool.fstack)
                             + (IF 0 = d THEN 1 ELSE 0) + FromCalls(d) + lost[d]
      BY <1>1, <1>2 DEF CountsExact, References
    <3>4. References(d)' = held[d] + FromCells(d)' + Copies(d, <<>>)
                             + (IF c = d THEN 1 ELSE 0) + FromCalls(d)' + L[d]
      BY <1>2, <2>2, <2>5 DEF References
    <3>5. d # 0 /\ Copies(d, <<>>) = 0
      BY PoolLenAssumption, CopiesEmpty DEF Cell
    <3>6. /\ held[d] \in Nat /\ lost[d] \in Nat /\ FromCells(d) \in Nat
          /\ Copies(d, pool.fstack) \in Nat /\ Copies(d, t) \in Nat /\ PlacesIn(d, rest) \in Nat
      BY <1>1, <1>4, <2>3, ReferencesType, CopiesType, PlacesInType
    <3>7. FromCalls(d) = PlacesIn(d, rest) + Copies(d, t) + (IF c = d THEN 1 ELSE 0)
      BY <1>4, <2>3, <3>6
    <3>8. L[d] = lost[d] + Copies(d, pool.fstack)
      BY <2>4
    <3>9. References(d)' = pool.refcnt[d]
      BY <3>1, <3>2, <3>3, <3>4, <3>5, <3>6, <3>7, <3>8
    <3> QED BY <2>5, <3>9
  <2> QED BY <2>8, <2>9, <2>10, <2>11, <2>12 DEF PoolInv, CountsExact
<1> QED BY <1>5, <1>6

-----------------------------------------------------------------------------
(* Every step keeps the pool sound.                                        *)
LEMMA NextSound == PoolInv /\ [Next]_vars => PoolInv'
<1> SUFFICES ASSUME PoolInv, [Next]_vars PROVE PoolInv'
  OBVIOUS
<1>1. ASSUME NEW a \in Var, NEW b \in Var, AllocPair(a, b) PROVE PoolInv'
  BY <1>1, AllocPairSound
<1>2. ASSUME NEW n \in 0..MaxSaved, NEW q \in [1..n -> Cell], AllocSaved(q) PROVE PoolInv'
  BY <1>2, AllocSavedSound
<1>3. ASSUME NEW s \in Cell, NEW c \in Cell, Inherit(s, c) PROVE PoolInv'
  BY <1>3, InheritSound
<1>4. CASE OutOfMemory
  BY <1>4, OutOfMemorySound
<1>5. ASSUME NEW c \in Cell, Take(c) PROVE PoolInv'
  BY <1>5, TakeSound
<1>6. ASSUME NEW c \in Cell, Drop(c) PROVE PoolInv'
  BY <1>6, DropSound
<1>7. CASE FreeElem
  BY <1>7, FreeElemCountedSound, FreeElemZeroSound
<1>8. CASE FreeNext
  BY <1>8, FreeNextSound
<1>9. CASE FreeValue
  BY <1>9, FreeValueSound
<1>10. CASE UNCHANGED vars
  <2>1. Live' = Live /\ Contents' = Contents
    BY <1>10 DEF vars, Live, Contents
  <2>2. TypeOK' /\ Control'
    BY <1>10 DEF PoolInv, vars, TypeOK, PoolType, Control
  <2>6. Cells' /\ HolesExact' /\ WorklistBounded'
    BY <1>10, <2>1 DEF PoolInv, vars, Cells, HolesExact, WorklistBounded
  <2>3. Acyclic'
    BY <2>1, SameCells DEF PoolInv
  <2>4. \A c \in Cell : References(c)' = References(c)
    BY <1>10, <2>1, SameCells DEF vars, References, FromCalls
  <2>5. CountsExact'
    BY <1>10, <2>4 DEF PoolInv, vars, CountsExact
  <2> QED BY <2>2, <2>3, <2>5, <2>6 DEF PoolInv
<1> QED BY <1>1, <1>2, <1>3, <1>4, <1>5, <1>6, <1>7, <1>8, <1>9, <1>10 DEF Next, Free

(* PoolInv holds in every reachable state: see its parts in VmPool.        *)
THEOREM PoolSound == Spec => []PoolInv
BY InitSound, NextSound, PTL DEF Spec

(* The pool's indices, the hole list and the recursion stack of vm_pool.c  *)
(* keep their ranges, for every size of the pool.                          *)
THEOREM TypeCorrect == Spec => []TypeOK
<1>1. PoolInv => TypeOK
  BY DEF PoolInv
<1> QED BY <1>1, PoolSound, PTL

(* A cell's refcnt is the number of references to it, in the middle of     *)
(* nested frees too: u6a_vm_pool_free never frees a cell that somebody     *)
(* refers to, and counts none below zero.                                  *)
THEOREM CountsHold == Spec => []CountsExact
<1>1. PoolInv => CountsExact
  BY DEF PoolInv
<1> QED BY <1>1, PoolSound, PTL

(* The holes are the cells handed out and free, each once: no two          *)
(* allocations of u6a_vm_pool_elem_alloc_ get the same cell.               *)
THEOREM HolesHold == Spec => []HolesExact
<1>1. PoolInv => HolesExact
  BY DEF PoolInv
<1> QED BY <1>1, PoolSound, PTL

(* The worklist of u6a_vm_pool_free has one entry per free cell at most,   *)
(* and one more.                                                           *)
THEOREM WorklistHolds == Spec => []WorklistBounded
<1>1. PoolInv => WorklistBounded
  BY DEF PoolInv
<1> QED BY <1>1, PoolSound, PTL

(* Counting collects everything: when no free runs and no worklist was     *)
(* forgotten, a cell that is not free can be reached from the interpreter. *)
(* Of the live cells that cannot be, one would be referred to by none of   *)
(* the others, since references lead to older cells, nor by those that can *)
(* be reached: its count could not be above zero.                          *)
THEOREM NoGarbageHolds == Spec => []NoGarbage
<1>1. PoolInv => NoGarbage
  <2> SUFFICES ASSUME PoolInv, pc = "idle", \A c \in Cell : lost[c] = 0,
                      NEW T \in SUBSET Cell, {c \in Cell : held[c] > 0} \subseteq T, Closed(T)
               PROVE  Live \subseteq T
    BY DEF NoGarbage, ReachableFrom, Live
  <2>1. TypeOK /\ Control /\ CountsExact /\ Acyclic
    BY DEF PoolInv
  <2> SUFFICES ASSUME Live \ T # {} PROVE FALSE
    OBVIOUS
  <2>2. PICK c \in Live \ T : \A d \in Live \ T : ~RefersTo(d, c)
    BY <2>1 DEF Acyclic
  <2>3. c \in Cell /\ pool.refcnt[c] > 0
    BY <2>2 DEF Live
  <2>4. \A d \in T : ~RefersTo(d, c)
    BY <2>2, <2>3 DEF Closed
  <2>5. \A d \in Live : ~RefersTo(d, c)
    BY <2>2, <2>4
  <2>6. held[c] = 0
    <3>1. held[c] \in Nat /\ ~(held[c] > 0)
      BY <2>1, <2>2, <2>3, PoolFields
    <3> QED BY <3>1
  <2>7. FromCells(c) = 0
    <3>1. FromCells(c) \in Nat /\ ~(FromCells(c) > 0)
      BY <2>1, <2>3, <2>5, ReferencesType
    <3> QED BY <3>1
  <2>8. Copies(c, pool.fstack) = 0 /\ elem # c
    BY <2>1, <2>3, CopiesEmpty, PoolLenAssumption DEF Control, Cell
  <2>9. FromCalls(c) = 0
    <3>1. calls = <<>>
      BY <2>1 DEF Control
    <3>2. Places(c, DOMAIN calls, calls) = {}
      BY <3>1 DEF Places
    <3> QED BY <3>2, FS_EmptySet DEF FromCalls, PlacesIn
  <2>10. lost[c] = 0
    BY <2>3
  <2>11. pool.refcnt[c] = 0
    BY <2>1, <2>3, <2>6, <2>7, <2>8, <2>9, <2>10 DEF CountsExact, References
  <2> QED BY <2>3, <2>11
<1> QED BY <1>1, PoolSound, PTL

=============================================================================
