---------------------------- MODULE CountingFacts ----------------------------
(***************************************************************************)
(* Facts about sequences and counting, and induction and recursion in a    *)
(* form without a predicate as a parameter: a set of natural numbers has a *)
(* least element.                                                          *)
(***************************************************************************)
EXTENDS Counting, FiniteSetTheorems, SequenceTheorems, TLAPS

(* A set of natural numbers has a least element, because the intervals     *)
(* from 1 to its elements are finite sets.                                 *)
LEMMA LeastNatural ==
  ASSUME NEW S \in SUBSET Nat, S # {}
  PROVE  \E m \in S : \A k \in S : m <= k
<1> DEFINE T == {1..n : n \in S}
<1>1. IsWellFoundedOn(StrictSubsetOrdering(Nat), FiniteSubsetsOf(Nat))
  BY FS_StrictSubsetOrderingWellFounded
<1>2. T \subseteq FiniteSubsetsOf(Nat) /\ T # {}
  <2>1. \A n \in S : (1..n) \in SUBSET Nat /\ IsFiniteSet(1..n)
    BY FS_Interval
  <2> QED BY <2>1 DEF FiniteSubsetsOf
<1> HIDE DEF T
<1>3. PICK x \in T : \A y \in T : ~ (<<y, x>> \in StrictSubsetOrdering(Nat))
  BY <1>1, <1>2, WFMin
<1>4. PICK m \in S : x = 1..m
  BY DEF T
<1>5. ASSUME NEW k \in S, k < m PROVE FALSE
  <2>1. (1..k) \in T
    BY DEF T
  <2>2. (1..k) \subseteq (1..m) /\ (1..k) # (1..m)
    BY <1>5, <1>4
  <2>3. <<1..k, 1..m>> \in StrictSubsetOrdering(Nat)
    BY <2>2 DEF StrictSubsetOrdering
  <2> QED BY <2>1, <2>3, <1>3, <1>4
<1> QED BY <1>5

(* Induction from a number down: what holds of a number when it holds of   *)
(* all greater ones.                                                       *)
LEMMA DownInduction ==
  ASSUME NEW N \in Nat, NEW S,
         \A p \in 1..N : (\A q \in (p + 1)..N : q \in S) => p \in S
  PROVE  \A p \in 1..N : p \in S
<1> DEFINE T == {k \in 0..N : N - k > 0 /\ N - k \notin S}
<1>1. SUFFICES ASSUME NEW p \in 1..N, p \notin S PROVE FALSE
  OBVIOUS
<1>2. PICK k \in Nat : k = N - p
  BY <1>1
<1>3. k \in T /\ T \in SUBSET Nat
  BY <1>1, <1>2
<1>4. PICK m \in T : \A j \in T : m <= j
  <2> HIDE DEF T
  <2> QED BY <1>3, LeastNatural
<1>5. PICK r \in 1..N : r = N - m /\ r \notin S
  BY <1>4
<1>6. PICK q \in (r + 1)..N : q \notin S
  BY <1>5
<1>7. PICK j \in 0..N : j = N - q
  BY <1>5, <1>6
<1>8. j \in T /\ j < m
  BY <1>4, <1>5, <1>6, <1>7
<1> QED BY <1>4, <1>8

(* Induction up to a number.                                               *)
LEMMA UpInduction ==
  ASSUME NEW N \in Nat, NEW S,
         \A p \in 0..N : (\A q \in 0..(p - 1) : q \in S) => p \in S
  PROVE  \A p \in 0..N : p \in S
<1> DEFINE T == {k \in 0..N : k \notin S}
<1>1. SUFFICES ASSUME NEW p \in 0..N, p \notin S PROVE FALSE
  OBVIOUS
<1>3. p \in T /\ T \in SUBSET Nat
  BY <1>1
<1>4. PICK m \in T : \A j \in T : m <= j
  <2> HIDE DEF T
  <2> QED BY <1>3, LeastNatural
<1>6. PICK q \in 0..(m - 1) : q \notin S
  BY <1>4
<1> QED BY <1>4, <1>6

(* Recursion from a number down: a function that solves an equation from N *)
(* down to 1 exists when every solution down to p + 1 leads to one down to *)
(* p.                                                                      *)
LEMMA DownRecursion ==
  ASSUME NEW N \in Nat, NEW V, NEW Sol,
         \A g \in [(N + 1)..N -> V] : g \in Sol,
         \A p \in 1..N : \A g \in [(p + 1)..N -> V] :
           g \in Sol => \E h \in [p..N -> V] : h \in Sol
  PROVE  \E h \in [1..N -> V] : h \in Sol
<1> DEFINE S == {p \in 1..N : \E h \in [p..N -> V] : h \in Sol}
<1>1. \E g \in [(N + 1)..N -> V] : g \in Sol
  <2>1. (N + 1)..N = {}
    OBVIOUS
  <2>2. <<>> \in [{} -> V]
    OBVIOUS
  <2> QED BY <2>1, <2>2
<1>2. ASSUME NEW p \in 1..N, \A q \in (p + 1)..N : q \in S PROVE p \in S
  <2>1. \E g \in [(p + 1)..N -> V] : g \in Sol
    <3>1. CASE p = N
      BY <1>1, <3>1
    <3>2. CASE p < N
      <4>1. p + 1 \in (p + 1)..N
        BY <3>2
      <4> QED BY <1>2, <4>1
    <3> QED BY <3>1, <3>2
  <2> QED BY <2>1
<1> HIDE DEF S
<1>3. \A p \in 1..N : p \in S
  BY <1>2, DownInduction
<1>4. CASE N = 0
  <2>1. (N + 1)..N = 1..N
    BY <1>4
  <2> QED BY <1>1, <2>1
<1>5. CASE N > 0
  <2>1. 1 \in S
    BY <1>3, <1>5
  <2> QED BY <2>1 DEF S
<1> QED BY <1>4, <1>5

(* A value at the end of a sequence.                                       *)
LEMMA AppendIs ==
  ASSUME NEW S, NEW q \in Seq(S), NEW x \in S, NEW u, u = Append(q, x)
  PROVE  /\ u \in Seq(S) /\ Len(u) = Len(q) + 1 /\ DOMAIN u = 1..(Len(q) + 1)
         /\ u[Len(q) + 1] = x /\ \A i \in 1..Len(q) : u[i] = q[i]
         /\ u = q \o <<x>>
OBVIOUS

(* A value between two sequences belongs to the one or to the other.       *)
LEMMA AppendConcat ==
  ASSUME NEW S, NEW q \in Seq(S), NEW x \in S, NEW r \in Seq(S)
  PROVE  Append(q, x) \o r = q \o (<<x>> \o r)
<1>1. <<x>> \in Seq(S) /\ Append(q, x) = q \o <<x>>
  OBVIOUS
<1> QED BY <1>1, ConcatAssociative

(* The first values of a sequence.                                         *)
LEMMA Beginning ==
  ASSUME NEW S, NEW s \in Seq(S), NEW n \in Nat, n <= Len(s), NEW q, q = SubSeq(s, 1, n)
  PROVE  q \in Seq(S) /\ Len(q) = n /\ \A i \in 1..n : q[i] = s[i]
<1>1. \A i \in 1..n : s[i] \in S
  OBVIOUS
<1>2. 1 \in Int /\ n \in Int /\ n - 1 + 1 = n /\ (1 <= n \/ n = 0)
  OBVIOUS
<1>3. \A i \in 1..n : 1 + i - 1 = i
  OBVIOUS
<1>4. /\ q \in Seq(S) /\ Len(q) = IF 1 <= n THEN n - 1 + 1 ELSE 0
      /\ \A i \in 1..(n - 1 + 1) : q[i] = s[1 + i - 1]
  BY <1>1, <1>2, SubSeqProperties
<1> QED BY <1>2, <1>3, <1>4

(* A sequence begins with what is put before another one.                  *)
LEMMA ConcatBegins ==
  ASSUME NEW S, NEW q \in Seq(S), NEW r \in Seq(S), NEW w, w = q \o r
  PROVE  w \in Seq(S) /\ Len(w) = Len(q) + Len(r) /\ \A i \in 1..Len(q) : w[i] = q[i]
BY ConcatProperties

-----------------------------------------------------------------------------
(* The copies of a value in a sequence.                                    *)

(* There are finitely many of them.                                        *)
LEMMA CopiesType ==
  ASSUME NEW S, NEW q \in Seq(S), NEW x
  PROVE  /\ IsFiniteSet(Where(x, q))
         /\ Where(x, q) \subseteq 1..Len(q)
         /\ Copies(x, q) \in Nat
         /\ Copies(x, q) > 0 <=> \E i \in 1..Len(q) : q[i] = x
<1>1. DOMAIN q = 1..Len(q) /\ Len(q) \in Nat
  OBVIOUS
<1>2. Where(x, q) \subseteq 1..Len(q)
  BY <1>1 DEF Where
<1>3. IsFiniteSet(Where(x, q))
  <2>1. IsFiniteSet(1..Len(q))
    BY <1>1, FS_Interval
  <2> QED BY <1>2, <2>1, FS_Subset
<1>4. Copies(x, q) \in Nat
  BY <1>3, FS_CardinalityType DEF Copies
<1>5. Copies(x, q) = 0 <=> Where(x, q) = {}
  BY <1>3, FS_EmptySet DEF Copies
<1>6. Where(x, q) # {} <=> \E i \in 1..Len(q) : q[i] = x
  BY <1>1 DEF Where
<1> QED BY <1>2, <1>3, <1>4, <1>5, <1>6

(* The empty sequence has none.                                            *)
LEMMA CopiesEmpty ==
  \A x : Copies(x, <<>>) = 0
BY FS_EmptySet DEF Copies, Where

(* A value at the end is one more.                                         *)
LEMMA CopiesAppend ==
  ASSUME NEW S, NEW q \in Seq(S), NEW y \in S, NEW x
  PROVE  Copies(x, Append(q, y)) = Copies(x, q) + (IF y = x THEN 1 ELSE 0)
<1>1. /\ DOMAIN q = 1..Len(q) /\ Len(q) \in Nat
      /\ DOMAIN Append(q, y) = 1..(Len(q) + 1)
  BY AppendProperties
<1>2. \A i \in 1..(Len(q) + 1) :
        Append(q, y)[i] = IF i = Len(q) + 1 THEN y ELSE q[i]
  BY <1>1, AppendProperties
<1>3. Len(q) + 1 \notin Where(x, q)
  BY <1>1, CopiesType
<1>4. CASE y = x
  <2>1. Where(x, Append(q, y)) = Where(x, q) \cup {Len(q) + 1}
    BY <1>1, <1>2, <1>4 DEF Where
  <2> QED BY <2>1, <1>3, <1>4, CopiesType, FS_AddElement DEF Copies
<1>5. CASE y # x
  <2>1. Where(x, Append(q, y)) = Where(x, q)
    BY <1>1, <1>2, <1>5 DEF Where
  <2> QED BY <2>1, <1>5, CopiesType DEF Copies
<1> QED BY <1>4, <1>5

(* Without its last value a sequence has one copy of that value less.      *)
LEMMA CopiesFront ==
  ASSUME NEW S, NEW q \in Seq(S), q # <<>>, NEW x
  PROVE  /\ SubSeq(q, 1, Len(q) - 1) \in Seq(S)
         /\ Copies(x, q) = Copies(x, SubSeq(q, 1, Len(q) - 1))
                             + (IF q[Len(q)] = x THEN 1 ELSE 0)
<1> DEFINE p == SubSeq(q, 1, Len(q) - 1)
<1>1. Len(q) \in Nat \ {0} /\ q[Len(q)] \in S
  BY EmptySeq
<1>2. p \in Seq(S) /\ Len(p) = Len(q) - 1
  <2>1. \A i \in 1..(Len(q) - 1) : q[i] \in S
    BY <1>1
  <2>2. 1 \in Int /\ Len(q) - 1 \in Int
    BY <1>1
  <2>3. p \in Seq(S)
    BY <2>1, <2>2, SubSeqProperties
  <2>4. Len(q) \in Nat /\ Len(q) >= 1
    BY <1>1
  <2>5. Len(p) = Len(q) - 1
    BY <2>4
  <2> QED BY <2>3, <2>5
<1>3. q = Append(p, q[Len(q)])
  BY <1>1, <1>2
<1> HIDE DEF p
<1>4. Copies(x, Append(p, q[Len(q)])) =
        Copies(x, p) + (IF q[Len(q)] = x THEN 1 ELSE 0)
  BY <1>1, <1>2, CopiesAppend
<1> QED BY <1>2, <1>3, <1>4 DEF p

(* Replacing a value by another one.                                       *)
LEMMA CopiesExcept ==
  ASSUME NEW S, NEW q \in Seq(S), NEW i \in 1..Len(q), NEW y \in S, NEW x
  PROVE  Copies(x, [q EXCEPT ![i] = y]) =
           Copies(x, q) - (IF q[i] = x THEN 1 ELSE 0) + (IF y = x THEN 1 ELSE 0)
<1> DEFINE p == [q EXCEPT ![i] = y]
           rest == {j \in 1..Len(q) : j # i /\ q[j] = x}
<1>1. /\ DOMAIN q = 1..Len(q) /\ Len(q) \in Nat
      /\ p \in Seq(S) /\ Len(p) = Len(q) /\ DOMAIN p = 1..Len(q)
      /\ \A j \in 1..Len(q) : p[j] = IF j = i THEN y ELSE q[j]
  BY ExceptSeq
<1> HIDE DEF p
<1>2. IsFiniteSet(rest) /\ i \notin rest
  <2>1. IsFiniteSet(1..Len(q)) /\ rest \subseteq 1..Len(q)
    BY <1>1, FS_Interval
  <2> HIDE DEF rest
  <2>2. IsFiniteSet(rest)
    BY <2>1, FS_Subset
  <2> QED BY <2>2 DEF rest
<1>3. Cardinality(rest \cup {i}) = Cardinality(rest) + 1 /\ Cardinality(rest) \in Nat
  BY <1>2, FS_AddElement, FS_CardinalityType
<1>4. Where(x, q) = IF q[i] = x THEN rest \cup {i} ELSE rest
  BY <1>1 DEF Where
<1>5. Where(x, p) = IF y = x THEN rest \cup {i} ELSE rest
  BY <1>1 DEF Where
<1> HIDE DEF rest
<1>6. Copies(x, q) = Cardinality(rest) + (IF q[i] = x THEN 1 ELSE 0)
  BY <1>3, <1>4 DEF Copies
<1>7. Copies(x, p) = Cardinality(rest) + (IF y = x THEN 1 ELSE 0)
  BY <1>3, <1>5 DEF Copies
<1> QED BY <1>3, <1>6, <1>7 DEF p

(* The copies in two sequences, one after the other.                       *)
LEMMA CopiesConcat ==
  ASSUME NEW S, NEW p \in Seq(S), NEW q \in Seq(S), NEW x
  PROVE  Copies(x, p \o q) = Copies(x, p) + Copies(x, q)
<1> DEFINE n == Len(p)
           W == {i \in (n + 1)..(n + Len(q)) : q[i - n] = x}
           f == [i \in Where(x, q) |-> i + n]
<1>1. /\ DOMAIN p = 1..n /\ n \in Nat
      /\ DOMAIN q = 1..Len(q) /\ Len(q) \in Nat
      /\ DOMAIN (p \o q) = 1..(n + Len(q))
      /\ \A i \in 1..(n + Len(q)) :
           (p \o q)[i] = IF i <= n THEN p[i] ELSE q[i - n]
  BY ConcatProperties
<1>2. Where(x, p \o q) = Where(x, p) \cup W
  BY <1>1 DEF Where
<1>3. IsFiniteSet(Where(x, p)) /\ IsFiniteSet(Where(x, q))
  BY CopiesType
<1>4. IsFiniteSet(W) /\ Cardinality(W) = Copies(x, q)
  <2>1. f \in [Where(x, q) -> W]
    BY <1>1 DEF Where
  <2>2. \A a, b \in Where(x, q) : f[a] = f[b] => a = b
    BY <1>1 DEF Where
  <2>3. \A t \in W : \E s \in Where(x, q) : f[s] = t
    <3>1. SUFFICES ASSUME NEW t \in W
                   PROVE  t - n \in Where(x, q) /\ f[t - n] = t
      BY <3>1
    <3>2. t - n \in Where(x, q)
      BY <1>1 DEF Where
    <3> QED BY <3>2, <1>1
  <2> HIDE DEF f, W
  <2>4. f \in Bijection(Where(x, q), W)
    <3>1. DOMAIN f = Where(x, q)
      BY <2>1
    <3> QED BY <2>1, <2>2, <2>3, <3>1 DEF Bijection, Injection, Surjection, IsInjective
  <2>5. ExistsBijection(Where(x, q), W)
    BY <2>4 DEF ExistsBijection
  <2> QED BY <2>5, <1>3, FS_Bijection DEF Copies
<1>5. Where(x, p) \cap W = {}
  BY <1>1, CopiesType
<1> HIDE DEF W
<1>6. Cardinality(Where(x, p) \cup W) = Cardinality(Where(x, p)) + Cardinality(W)
  <2>1. /\ Cardinality(Where(x, p) \cap W) = 0
        /\ Cardinality(Where(x, p)) \in Nat /\ Cardinality(W) \in Nat
    BY <1>3, <1>4, <1>5, FS_EmptySet, FS_CardinalityType
  <2>2. Cardinality(Where(x, p) \cup W) =
          Cardinality(Where(x, p)) + Cardinality(W) - Cardinality(Where(x, p) \cap W)
    BY <1>3, <1>4, FS_Union
  <2> QED BY <2>1, <2>2
<1> QED BY <1>2, <1>4, <1>6 DEF Copies

(* The first value of a sequence and the others.                           *)
LEMMA CopiesTail ==
  ASSUME NEW S, NEW q \in Seq(S), q # <<>>, NEW x
  PROVE  /\ Head(q) \in S /\ Tail(q) \in Seq(S)
         /\ Copies(x, q) = Copies(x, Tail(q)) + (IF Head(q) = x THEN 1 ELSE 0)
<1>1. Head(q) \in S /\ Tail(q) \in Seq(S) /\ <<>> \in Seq(S) /\ <<Head(q)>> \in Seq(S)
  BY HeadTailProperties
<1>2. q = <<Head(q)>> \o Tail(q)
  OBVIOUS
<1>3. Copies(x, <<Head(q)>>) = IF Head(q) = x THEN 1 ELSE 0
  <2>1. Where(x, <<Head(q)>>) = IF Head(q) = x THEN {1} ELSE {}
    BY DEF Where
  <2> QED BY <2>1, FS_Singleton, FS_EmptySet DEF Copies
<1>4. Copies(x, <<Head(q)>> \o Tail(q)) = Copies(x, <<Head(q)>>) + Copies(x, Tail(q))
  BY <1>1, CopiesConcat
<1>5. Copies(x, q) = Copies(x, <<Head(q)>> \o Tail(q))
  BY <1>2, Zenon
<1>6. Copies(x, Tail(q)) \in Nat
  BY <1>1, CopiesType
<1> QED BY <1>1, <1>3, <1>4, <1>5, <1>6

-----------------------------------------------------------------------------
(* The places of a value in a family of sequences.                         *)

(* One sequence more.                                                      *)
LEMMA PlacesUnion ==
  ASSUME NEW D, NEW d, NEW f, NEW x
  PROVE  /\ Places(x, D \cup {d}, f) = Places(x, D, f) \cup ({d} \X Where(x, f[d]))
         /\ d \notin D => Places(x, D, f) \cap ({d} \X Where(x, f[d])) = {}
BY DEF Places

(* The places of a sequence.                                               *)
LEMMA SeqDomain ==
  ASSUME NEW S, NEW q \in Seq(S)
  PROVE  DOMAIN q = 1..Len(q) /\ Len(q) \in Nat /\ IsFiniteSet(DOMAIN q)
<1>1. DOMAIN q = 1..Len(q) /\ Len(q) \in Nat
  OBVIOUS
<1> QED BY <1>1, FS_Interval

(* What the facts below ask of the family.                                 *)
AllFinite(D, f) == IsFiniteSet(D) /\ \A d \in D : IsFiniteSet(DOMAIN f[d])

LEMMA SeqsAreFinite ==
  ASSUME NEW S, NEW D, IsFiniteSet(D), NEW f, \A d \in D : f[d] \in Seq(S)
  PROVE  AllFinite(D, f)
<1>1. ASSUME NEW d \in D PROVE IsFiniteSet(DOMAIN f[d])
  <2>1. DOMAIN f[d] = 1..Len(f[d]) /\ Len(f[d]) \in Nat
    OBVIOUS
  <2> QED BY <2>1, FS_Interval
<1> QED BY <1>1 DEF AllFinite

(* The family without one of its members.                                  *)
LEMMA FiniteWithout ==
  ASSUME NEW D, NEW f, AllFinite(D, f), NEW d
  PROVE  AllFinite(D \ {d}, f)
BY FS_RemoveElement DEF AllFinite

(* The places in finitely many sequences are finitely many.                *)
LEMMA PlacesType ==
  ASSUME NEW D, NEW f, AllFinite(D, f), NEW x
  PROVE  /\ IsFiniteSet(Places(x, D, f))
         /\ Cardinality(Places(x, D, f)) \in Nat
         /\ \A d \in D : IsFiniteSet(Where(x, f[d])) /\ Copies(x, f[d]) \in Nat
<1> DEFINE F == [d \in D |-> {d} \X Where(x, f[d])]
           T == {{d} \X Where(x, f[d]) : d \in D}
<1>0. ASSUME NEW d \in D PROVE IsFiniteSet(Where(x, f[d])) /\ Copies(x, f[d]) \in Nat
  <2>1. IsFiniteSet(DOMAIN f[d]) /\ Where(x, f[d]) \subseteq DOMAIN f[d]
    BY DEF AllFinite, Where
  <2>2. IsFiniteSet(Where(x, f[d]))
    BY <2>1, FS_Subset
  <2> QED BY <2>2, FS_CardinalityType DEF Copies
<1>1. \A d \in D : IsFiniteSet({d} \X Where(x, f[d]))
  BY <1>0, FS_Singleton, FS_Product
<1>2. F \in Surjection(D, T)
  BY DEF Surjection
<1>3. IsFiniteSet(T)
  <2> HIDE DEF F, T
  <2>1. IsFiniteSet(D)
    BY DEF AllFinite
  <2> QED BY <1>2, <2>1, FS_Surjection
<1>4. \A t \in T : IsFiniteSet(t)
  BY <1>1
<1>5. IsFiniteSet(UNION T)
  <2> HIDE DEF T
  <2> QED BY <1>3, <1>4, FS_UNION
<1>6. IsFiniteSet(Places(x, D, f))
  BY <1>5 DEF Places
<1> QED BY <1>0, <1>6, FS_CardinalityType

(* One sequence less takes its copies away.                                *)
LEMMA PlacesRemove ==
  ASSUME NEW D, NEW f, AllFinite(D, f), NEW d \in D, NEW x
  PROVE  Cardinality(Places(x, D \ {d}, f)) =
           Cardinality(Places(x, D, f)) - Copies(x, f[d])
<1> DEFINE P == Places(x, D \ {d}, f)
           Q == {d} \X Where(x, f[d])
<1>1. Places(x, D, f) = P \cup Q /\ P \cap Q = {}
  <2>1. (D \ {d}) \cup {d} = D /\ d \notin D \ {d}
    OBVIOUS
  <2>2. /\ Places(x, (D \ {d}) \cup {d}, f) = P \cup Q
        /\ d \notin D \ {d} => P \cap Q = {}
    BY PlacesUnion
  <2> QED BY <2>1, <2>2, Zenon
<1>2. IsFiniteSet(P) /\ Cardinality(P) \in Nat
  BY FiniteWithout, PlacesType
<1>3. IsFiniteSet(Where(x, f[d])) /\ Copies(x, f[d]) \in Nat
  BY PlacesType
<1>4. IsFiniteSet(Q) /\ Cardinality(Q) = Copies(x, f[d])
  <2>1. IsFiniteSet({d}) /\ Cardinality({d}) = 1
    BY FS_Singleton
  <2>2. IsFiniteSet(Q) /\ Cardinality(Q) = Cardinality({d}) * Cardinality(Where(x, f[d]))
    BY <2>1, <1>3, FS_Product
  <2> HIDE DEF Q
  <2> QED BY <2>1, <2>2, <1>3 DEF Copies
<1> HIDE DEF P, Q
<1>5. Cardinality(P \cup Q) = Cardinality(P) + Cardinality(Q) - Cardinality(P \cap Q)
  BY <1>2, <1>4, FS_Union
<1>6. Cardinality(P \cap Q) = 0
  BY <1>1, FS_EmptySet
<1>7. Cardinality(Places(x, D, f)) = Cardinality(P \cup Q)
  BY <1>1, Zenon
<1>8. Cardinality(P) = Cardinality(Places(x, D, f)) - Copies(x, f[d])
  BY <1>2, <1>3, <1>4, <1>5, <1>6, <1>7
<1> QED BY <1>8 DEF P

(* One sequence more adds its copies.                                      *)
LEMMA PlacesAdd ==
  ASSUME NEW D, NEW f, NEW d, d \notin D, AllFinite(D \cup {d}, f), NEW x
  PROVE  Cardinality(Places(x, D \cup {d}, f)) =
           Cardinality(Places(x, D, f)) + Copies(x, f[d])
<1> DEFINE N == D \cup {d}
<1>1. N \ {d} = D /\ d \in N /\ AllFinite(N, f)
  OBVIOUS
<1> HIDE DEF N
<1>2. Cardinality(Places(x, N \ {d}, f)) = Cardinality(Places(x, N, f)) - Copies(x, f[d])
  BY <1>1, PlacesRemove
<1>3. Cardinality(Places(x, N \ {d}, f)) = Cardinality(Places(x, D, f))
  BY <1>1, Zenon
<1>4. Cardinality(Places(x, N, f)) \in Nat /\ Copies(x, f[d]) \in Nat
  BY <1>1, PlacesType
<1> QED BY <1>2, <1>3, <1>4 DEF N

(* Sequences that are the same have the value at the same places.          *)
LEMMA PlacesSame ==
  ASSUME NEW D, NEW f, NEW h, \A d \in D : f[d] = h[d], NEW x
  PROVE  Places(x, D, f) = Places(x, D, h)
<1>1. \A d \in D : Where(x, f[d]) = Where(x, h[d])
  OBVIOUS
<1> QED BY <1>1 DEF Places

(* One sequence is exchanged for another.                                  *)
LEMMA PlacesChange ==
  ASSUME NEW D, NEW d \in D, NEW f, AllFinite(D, f), NEW h, AllFinite(D, h),
         \A e \in D \ {d} : f[e] = h[e], NEW x
  PROVE  Cardinality(Places(x, D, h)) =
           Cardinality(Places(x, D, f)) - Copies(x, f[d]) + Copies(x, h[d])
<1>1. Cardinality(Places(x, D \ {d}, f)) = Cardinality(Places(x, D, f)) - Copies(x, f[d])
  BY PlacesRemove
<1>2. Cardinality(Places(x, D \ {d}, h)) = Cardinality(Places(x, D, h)) - Copies(x, h[d])
  BY PlacesRemove
<1>3. Places(x, D \ {d}, f) = Places(x, D \ {d}, h)
  BY PlacesSame
<1>4. /\ Cardinality(Places(x, D, f)) \in Nat /\ Cardinality(Places(x, D, h)) \in Nat
      /\ Copies(x, f[d]) \in Nat /\ Copies(x, h[d]) \in Nat
  BY PlacesType
<1> QED BY <1>1, <1>2, <1>3, <1>4

(* There is a place exactly when one of the sequences has the value.       *)
LEMMA PlacesSome ==
  ASSUME NEW D, NEW f, AllFinite(D, f), NEW x
  PROVE  Cardinality(Places(x, D, f)) > 0 <=> \E d \in D : Copies(x, f[d]) > 0
<1>1. ASSUME NEW d \in D, Copies(x, f[d]) > 0
      PROVE  Cardinality(Places(x, D, f)) > 0
  <2>1. /\ Cardinality(Places(x, D \ {d}, f)) = Cardinality(Places(x, D, f)) - Copies(x, f[d])
        /\ Cardinality(Places(x, D \ {d}, f)) \in Nat
        /\ Cardinality(Places(x, D, f)) \in Nat /\ Copies(x, f[d]) \in Nat
    BY PlacesRemove, PlacesType, FiniteWithout
  <2> QED BY <2>1, <1>1
<1>2. ASSUME Cardinality(Places(x, D, f)) > 0
      PROVE  \E d \in D : Copies(x, f[d]) > 0
  <2>1. Places(x, D, f) # {}
    BY <1>2, FS_EmptySet
  <2>2. PICK d \in D : Where(x, f[d]) # {}
    BY <2>1 DEF Places
  <2>3. IsFiniteSet(Where(x, f[d])) /\ Copies(x, f[d]) \in Nat
    BY PlacesType
  <2>4. Copies(x, f[d]) # 0
    BY <2>2, <2>3, FS_EmptySet DEF Copies
  <2> QED BY <2>3, <2>4
<1> QED BY <1>1, <1>2

(* The places in a sequence of sequences: one more at its end, and without *)
(* its last.                                                               *)
LEMMA PlacesInType ==
  ASSUME NEW S, NEW f \in Seq(Seq(S)), NEW x
  PROVE  AllFinite(DOMAIN f, f) /\ PlacesIn(x, f) \in Nat
<1>1. IsFiniteSet(DOMAIN f)
  BY SeqDomain
<1>2. \A i \in DOMAIN f : f[i] \in Seq(S)
  OBVIOUS
<1>3. AllFinite(DOMAIN f, f)
  BY <1>1, <1>2, SeqsAreFinite
<1> QED BY <1>3, PlacesType DEF PlacesIn

LEMMA PlacesInAppend ==
  ASSUME NEW S, NEW f \in Seq(Seq(S)), NEW q \in Seq(S), NEW x
  PROVE  PlacesIn(x, Append(f, q)) = PlacesIn(x, f) + Copies(x, q)
<1> DEFINE g == Append(f, q)
<1>0. PICK n \in Nat : n = Len(f)
  OBVIOUS
<1>1. /\ g \in Seq(Seq(S)) /\ DOMAIN f = 1..n /\ DOMAIN g = 1..(n + 1)
      /\ g[n + 1] = q /\ \A i \in 1..n : g[i] = f[i]
  BY <1>0, AppendProperties
<1> HIDE DEF g
<1>2. AllFinite(DOMAIN g, g)
  BY <1>1, PlacesInType
<1>3. DOMAIN g = (1..n) \cup {n + 1} /\ n + 1 \notin 1..n
  BY <1>1
<1>4. AllFinite((1..n) \cup {n + 1}, g)
  BY <1>2, <1>3, Zenon
<1>5. Cardinality(Places(x, (1..n) \cup {n + 1}, g)) =
        Cardinality(Places(x, 1..n, g)) + Copies(x, g[n + 1])
  <2>1. PICK D, m : D = 1..n /\ m = n + 1
    OBVIOUS
  <2>2. m \notin D /\ AllFinite(D \cup {m}, g)
    BY <1>3, <1>4, <2>1, Zenon
  <2>3. Cardinality(Places(x, D \cup {m}, g)) = Cardinality(Places(x, D, g)) + Copies(x, g[m])
    BY <2>2, PlacesAdd
  <2> QED BY <2>1, <2>3, Zenon
<1>6. Places(x, 1..n, g) = Places(x, 1..n, f)
  BY <1>1, PlacesSame
<1>7. PlacesIn(x, g) = Cardinality(Places(x, (1..n) \cup {n + 1}, g))
  BY <1>3, Zenon DEF PlacesIn
<1>8. PlacesIn(x, f) = Cardinality(Places(x, 1..n, g))
  BY <1>1, <1>6, Zenon DEF PlacesIn
<1>9. Copies(x, g[n + 1]) = Copies(x, q)
  BY <1>1, Zenon
<1> QED BY <1>5, <1>7, <1>8, <1>9 DEF g

LEMMA PlacesInFront ==
  ASSUME NEW S, NEW f \in Seq(Seq(S)), f # <<>>, NEW x
  PROVE  /\ f[Len(f)] \in Seq(S) /\ SubSeq(f, 1, Len(f) - 1) \in Seq(Seq(S))
         /\ PlacesIn(x, f) = PlacesIn(x, SubSeq(f, 1, Len(f) - 1)) + Copies(x, f[Len(f)])
<1> DEFINE g == SubSeq(f, 1, Len(f) - 1)
           q == f[Len(f)]
<1>1. PICK n \in Nat : n = Len(f) /\ n >= 1
  OBVIOUS
<1>2. q \in Seq(S) /\ g \in Seq(Seq(S))
  BY <1>1
<1>3. f = Append(g, q)
  BY <1>1, <1>2
<1> HIDE DEF g, q
<1>4. PlacesIn(x, Append(g, q)) = PlacesIn(x, g) + Copies(x, q)
  BY <1>2, PlacesInAppend
<1>5. PlacesIn(x, f) = PlacesIn(x, Append(g, q))
  BY <1>3, Zenon
<1> QED BY <1>2, <1>4, <1>5 DEF g, q

=============================================================================
