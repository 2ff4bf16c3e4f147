---------------------------- MODULE CodegenProofs ----------------------------
(***************************************************************************)
(* Proofs about u6a_codegen, for trees of every size: its buffers are      *)
(* large enough, every jump it leaves open it sets, a dump tells the whole *)
(* program, and the program is the tree's.                                 *)
(***************************************************************************)
EXTENDS Codegen, CountingFacts

Waiting == [ins : Ins, at : Nat]

(* Sequences given by their elements, ends of sequences, sequences joined. *)
LEMMA SeqIs ==
  ASSUME NEW S, NEW n \in Nat, NEW f, DOMAIN f = 1..n, f = [i \in DOMAIN f |-> f[i]],
         \A i \in 1..n : f[i] \in S
  PROVE  f \in Seq(S) /\ Len(f) = n
<1>1. f \in [1..n -> S]
  OBVIOUS
<1> QED BY <1>1

(* The end of a sequence.                                                  *)
LEMMA SuffixOf ==
  ASSUME NEW S, NEW s \in Seq(S), NEW k \in 0..Len(s), NEW p, p = SubSeq(s, k + 1, Len(s))
  PROVE  /\ p \in Seq(S) /\ Len(p) = Len(s) - k
         /\ \A i \in 1..(Len(s) - k) : p[i] = s[k + i]
<1>1. PICK l \in Nat : l = Len(s) /\ k \in 0..l
  OBVIOUS
<1>2. \A i \in (k + 1)..l : s[i] \in S
  <2>1. \A i \in (k + 1)..l : i \in 1..Len(s)
    BY <1>1
  <2> QED BY <2>1, ElementOfSeq
<1>3. /\ p \in Seq(S)
      /\ Len(p) = IF k + 1 <= l THEN l - (k + 1) + 1 ELSE 0
      /\ \A i \in 1..(l - (k + 1) + 1) : p[i] = s[(k + 1) + i - 1]
  <2>1. p = SubSeq(s, k + 1, l) /\ k + 1 \in Int /\ l \in Int
    BY <1>1
  <2> HIDE <1>1
  <2> QED BY <1>2, <2>1, SubSeqProperties
<1>4. \A i \in 1..(l - k) : i \in 1..(l - (k + 1) + 1) /\ (k + 1) + i - 1 = k + i
  BY <1>1
<1> QED BY <1>1, <1>3, <1>4

(* Two sequences joined, value by value.                                   *)
LEMMA Joined ==
  ASSUME NEW S, NEW s \in Seq(S), NEW t \in Seq(S), NEW u, u = s \o t
  PROVE  /\ u \in Seq(S) /\ Len(u) = Len(s) + Len(t) /\ DOMAIN u = 1..(Len(s) + Len(t))
         /\ \A i \in 1..Len(s) : u[i] = s[i]
         /\ \A i \in 1..Len(t) : u[Len(s) + i] = t[i]
<1>1. PICK k \in Nat, n \in Nat : k = Len(s) /\ n = Len(t)
  BY LenProperties
<1>3. u \in Seq(S) /\ Len(u) = k + n /\ \A i \in 1..(k + n) : u[i] = IF i <= k THEN s[i] ELSE t[i - k]
  BY <1>1, ConcatProperties
<1>4. \A i \in 1..k : i \in 1..(k + n) /\ i <= k
  BY <1>1
<1>5. \A i \in 1..n : k + i \in 1..(k + n) /\ ~(k + i <= k) /\ (k + i) - k = i
  BY <1>1
<1>6. DOMAIN u = 1..(k + n)
  BY <1>3, LenProperties
<1>7. \A i \in 1..n : u[k + i] = t[i]
  BY <1>3, <1>5
<1> QED BY <1>1, <1>3, <1>4, <1>6, <1>7

(* Swapped bytes are a number.                                             *)
LEMMA SwapType == ASSUME NEW n \in Nat PROVE Swap32(n) \in Nat
<1>1. PICK b0 \in Nat, b1 \in Nat, b2 \in Nat, b3 \in Nat :
        /\ b0 = n % 256 /\ b1 = (n \div 256) % 256
        /\ b2 = (n \div 65536) % 256 /\ b3 = n \div 16777216
  OBVIOUS
<1>2. Swap32(n) = b0 * 16777216 + b1 * 65536 + b2 * 256 + b3
  BY <1>1 DEF Swap32
<1> QED BY <1>2

(* A set of numbers up to a bound has a greatest one.                      *)
LEMMA GreatestUpTo ==
  ASSUME NEW k \in Nat, NEW S \in SUBSET (0..k), S # {}
  PROVE  \E m \in S : \A j \in S : j <= m
<1> DEFINE R == {k - j : j \in S}
<1>1. R \in SUBSET Nat /\ R # {}
  <2>1. \A j \in S : k - j \in Nat
    OBVIOUS
  <2>2. PICK j \in S : TRUE
    OBVIOUS
  <2>3. k - j \in R
    OBVIOUS
  <2> QED BY <2>1, <2>3
<1>2. PICK r \in R : \A x \in R : r <= x
  BY <1>1, LeastNatural
<1>3. PICK m \in S : r = k - m
  OBVIOUS
<1>4. ASSUME NEW j \in S PROVE j <= m
  <2>1. k - j \in R
    OBVIOUS
  <2>2. k - m <= k - j
    BY <1>2, <1>3, <2>1
  <2> QED BY <2>2
<1> QED BY <1>4

(* The last sa of the stack.                                               *)
LEMMA LastSaIs ==
  ASSUME NEW b \in Buffers
  PROVE  /\ Len(b.stack) \in Nat
         /\ LastSa(b.stack) \in 0..Len(b.stack)
         /\ LastSa(b.stack) > 0 => LastSa(b.stack) \in Sas(b)
         /\ \A i \in Sas(b) : i <= LastSa(b.stack)
<1>1. PICK l \in Nat, s \in Seq(Waiting) : l = Len(s) /\ s = b.stack /\ DOMAIN s = 1..l
  BY DEF Buffers, Waiting
<1>2. PICK S : S = {0} \cup {i \in DOMAIN s : s[i].ins.op = "sa"}
  OBVIOUS
<1>3. S \in SUBSET (0..l) /\ S # {}
  BY <1>1, <1>2
<1>4. \E m \in S : \A j \in S : j <= m
  BY <1>3, GreatestUpTo
<1>5. LastSa(s) = CHOOSE m \in S : \A j \in S : j <= m
  BY <1>2 DEF LastSa
<1>6. LastSa(s) \in S /\ \A j \in S : j <= LastSa(s)
  BY <1>4, <1>5
<1>7. Sas(b) = S \ {0}
  BY <1>1, <1>2 DEF Sas
<1>8. PICK m : m = LastSa(s)
  OBVIOUS
<1>9. m \in 0..l /\ (m > 0 => m \in Sas(b)) /\ \A i \in Sas(b) : i <= m
  <2>1. m \in S /\ \A j \in S : j <= m
    BY <1>6, <1>8
  <2>2. m \in 0..l
    BY <1>3, <2>1
  <2>3. m > 0 => m \in Sas(b)
    BY <1>7, <2>1, <2>2
  <2>4. \A i \in Sas(b) : i <= m
    BY <1>7, <2>1
  <2> QED BY <2>2, <2>3, <2>4
<1> QED BY <1>1, <1>8, <1>9

(* The run of prints on top of the stack.                                  *)
LEMMA PrintRunIs ==
  ASSUME NEW b \in Buffers
  PROVE  /\ PrintRun(b.stack) \in 0..Len(b.stack)
         /\ \A i \in (Len(b.stack) - PrintRun(b.stack) + 1)..Len(b.stack) :
              b.stack[i].ins.op = "app" 
<1>1. PICK l \in Nat, s \in Seq(Waiting) : l = Len(s) /\ s = b.stack
  BY DEF Buffers, Waiting
<1>2. PICK S : S = {n \in 0..Len(s) : \A i \in (Len(s) - n + 1)..Len(s) : IsPrint(s[i])}
  OBVIOUS
<1>3. 0 \in S /\ S \in SUBSET (0..l)
  BY <1>1, <1>2
<1>4. \E m \in S : \A j \in S : j <= m
  BY <1>3, GreatestUpTo
<1>5. PrintRun(s) = CHOOSE m \in S : \A j \in S : j <= m
  BY <1>2 DEF PrintRun
<1>6. PrintRun(s) \in S
  BY <1>4, <1>5
<1> QED BY <1>1, <1>2, <1>6 DEF IsPrint

-----------------------------------------------------------------------------
(* What the operations on the buffers preserve.                            *)

Sound(b) == b \in Buffers /\ Jumps(b) /\ Strings(b)

(* The types of the buffers' parts, and their lengths.                     *)
LEMMA Sizes ==
  ASSUME NEW b \in Buffers
  PROVE  /\ b.text \in Seq(Ins) /\ b.rodata \in Seq(0..255) /\ b.stack \in Seq(Waiting)
         /\ Len(b.text) \in Nat /\ Len(b.rodata) \in Nat /\ Len(b.stack) \in Nat
         /\ DOMAIN b.text = 1..Len(b.text) /\ DOMAIN b.stack = 1..Len(b.stack)
         /\ IsFiniteSet(Sas(b)) /\ Sas(b) \subseteq 1..Len(b.stack)
         /\ Cardinality(Sas(b)) \in Nat
<1>1. /\ b.text \in Seq(Ins) /\ b.rodata \in Seq(0..255) /\ b.stack \in Seq(Waiting)
  BY DEF Buffers, Waiting
<1>2. /\ Len(b.text) \in Nat /\ Len(b.rodata) \in Nat /\ Len(b.stack) \in Nat
      /\ DOMAIN b.text = 1..Len(b.text) /\ DOMAIN b.stack = 1..Len(b.stack)
  BY <1>1
<1>3. Sas(b) \subseteq 1..Len(b.stack)
  BY <1>2 DEF Sas
<1>4. IsFiniteSet(1..Len(b.stack))
  BY <1>2, FS_Interval
<1>5. IsFiniteSet(Sas(b))
  BY <1>3, <1>4, FS_Subset
<1> QED BY <1>1, <1>2, <1>3, <1>5, FS_CardinalityType

(* The instructions the generator makes, and what it lets wait, have their *)
(* types.                                                                  *)
LEMMA InsType ==
  /\ NoTok \in Leaves \cup {NoTok}
  /\ \A t \in Leaves \cup {NoTok}, u \in Leaves \cup {NoTok} :
       AppIns(t, u) \in Ins /\ AppIns(t, u).op = "app"
  /\ \A op \in {"la", "sa", "del", "lc"}, n \in Nat :
       OpIns(op, n) \in Ins /\ OpIns(op, n).op = op /\ OpIns(op, n).offset = n
  /\ \A ins \in Ins, n \in Nat : Pending(ins, n) \in Waiting
  /\ \A ins, n : Pending(ins, n).ins = ins /\ Pending(ins, n).at = n
<1> QED BY DEF AppIns, OpIns, Ins, Pending, Waiting, NoTok, Tok, NUL

(* One more entry on the stack.                                            *)
LEMMA SasAppend ==
  ASSUME NEW b \in Buffers, NEW c \in Buffers, NEW w \in Waiting,
         c.stack = Append(b.stack, w)
  PROVE  Cardinality(Sas(c)) = Cardinality(Sas(b)) + (IF w.ins.op = "sa" THEN 1 ELSE 0)
<1>1. PICK l \in Nat, s \in Seq(Waiting) : l = Len(s) /\ s = b.stack /\ DOMAIN s = 1..l
  BY Sizes
<1>2. PICK q : q = c.stack /\ q = Append(s, w)
  BY <1>1
<1>3. /\ DOMAIN q = 1..(l + 1) /\ q[l + 1] = w
      /\ \A i \in 1..l : q[i] = s[i]
  BY <1>1, <1>2
<1>4. /\ Sas(b) = {i \in 1..l : s[i].ins.op = "sa"}
      /\ Sas(c) = {i \in 1..(l + 1) : q[i].ins.op = "sa"}
  BY <1>1, <1>2, <1>3 DEF Sas
<1>5. CASE w.ins.op = "sa"
  <2>1. Sas(c) = Sas(b) \cup {l + 1} /\ l + 1 \notin Sas(b)
    BY <1>3, <1>4, <1>5
  <2>2. Cardinality(Sas(b) \cup {l + 1}) = Cardinality(Sas(b)) + 1
    BY <2>1, Sizes, FS_AddElement
  <2> QED BY <1>5, <2>1, <2>2
<1>6. CASE w.ins.op # "sa"
  <2>1. Sas(c) = Sas(b)
    BY <1>3, <1>4, <1>6
  <2>2. Cardinality(Sas(b)) \in Nat
    BY Sizes
  <2> QED BY <1>6, <2>1, <2>2
<1> QED BY <1>5, <1>6

(* Jumps stay set when the text gets longer.                               *)
LEMMA JumpStays ==
  ASSUME NEW b \in Buffers, NEW c \in Buffers, Len(b.text) <= Len(c.text),
         \A n \in 1..Len(b.text) : c.text[n] = b.text[n],
         NEW n \in 1..Len(b.text), JumpSet(b, n)
  PROVE  JumpSet(c, n)
<1>1. PICK m \in (n + 1)..Len(b.text) : b.text[n].offset = Swap32(m) /\ b.text[m].op = "la"
  BY DEF JumpSet
<1>2. Len(b.text) \in Nat /\ Len(c.text) \in Nat
  BY Sizes
<1>3. m \in (n + 1)..Len(c.text) /\ m \in 1..Len(b.text)
  BY <1>1, <1>2
<1> QED BY <1>1, <1>3 DEF JumpSet

(* Letting an instruction wait changes the stack alone.                    *)
LEMMA PushDoes ==
  ASSUME NEW b, Sound(b), NEW ins \in Ins, ins.op \in {"app", "sa"},
         NEW c, c = PushIns(b, ins)
  PROVE  /\ Sound(c) /\ c.text = b.text /\ c.rodata = b.rodata
         /\ Len(c.stack) = Len(b.stack) + 1
         /\ Cardinality(Sas(c)) = Cardinality(Sas(b)) + (IF ins.op = "sa" THEN 1 ELSE 0)
<1>1. PICK w \in Waiting : w = Pending(ins, 0) /\ w.ins = ins /\ w.at = 0
  BY InsType
<1>2. PICK l \in Nat, s \in Seq(Waiting) : l = Len(s) /\ s = b.stack /\ DOMAIN s = 1..l
  BY Sizes DEF Sound
<1>3. PICK q \in Seq(Waiting) : q = Append(s, w)
  <2>1. Append(s, w) \in Seq(Waiting)
    OBVIOUS
  <2> QED BY <2>1
<1>4. /\ DOMAIN q = 1..(l + 1) /\ Len(q) = l + 1 /\ q[l + 1] = w
      /\ \A i \in 1..l : q[i] = s[i]
  BY <1>2, <1>3
<1>5. c = [b EXCEPT !.stack = q]
  BY <1>1, <1>2, <1>3 DEF PushIns
<1>6. c \in Buffers /\ c.text = b.text /\ c.rodata = b.rodata /\ c.stack = q
  BY <1>5 DEF Sound, Buffers, Waiting
<1>7. Strings(c)
  BY <1>6 DEF Sound, Strings
<1>8. Jumps(c)
  <2>1. ASSUME NEW i \in DOMAIN q
        PROVE  /\ q[i].ins.op \in {"app", "sa", "la"} /\ q[i].at \in 0..Len(b.text)
               /\ q[i].ins.op = "la" => q[i].at > 0 /\ b.text[q[i].at].op \in {"sa", "del"}
    <3>1. CASE i = l + 1
      <4>1. Len(b.text) \in Nat
        BY Sizes DEF Sound
      <4> QED BY <1>1, <1>4, <3>1, <4>1
    <3>2. CASE i \in 1..l
      BY <1>2, <1>4, <3>2 DEF Sound, Jumps
    <3> QED BY <1>4, <3>1, <3>2
  <2>2. ASSUME NEW n \in DOMAIN b.text, b.text[n].op \in {"sa", "del"}
        PROVE  JumpSet(c, n) \/ JumpWaits(c, n)
    <3>1. CASE JumpSet(b, n)
      BY <1>6, <3>1 DEF JumpSet
    <3>2. CASE JumpWaits(b, n)
      <4>1. PICK i \in 1..l : s[i].ins.op = "la" /\ s[i].at = n
        BY <1>2, <3>2 DEF JumpWaits
      <4>2. i \in DOMAIN q /\ q[i] = s[i]
        BY <1>4, <4>1
      <4> QED BY <1>6, <4>1, <4>2 DEF JumpWaits
    <3> QED BY <2>2, <3>1, <3>2 DEF Sound, Jumps
  <2> QED BY <1>6, <2>1, <2>2 DEF Jumps
<1>9. Cardinality(Sas(c)) = Cardinality(Sas(b)) + (IF ins.op = "sa" THEN 1 ELSE 0)
  <2>1. c.stack = Append(b.stack, w) /\ b \in Buffers
    BY <1>2, <1>3, <1>6 DEF Sound
  <2> QED BY <1>1, <1>6, <2>1, SasAppend
<1> QED BY <1>2, <1>4, <1>6, <1>7, <1>8, <1>9 DEF Sound

(* An sa or a del and the la that waits for its operand.                   *)
LEMMA EmitDoes ==
  ASSUME NEW b, Sound(b), NEW op \in {"sa", "del"},
         NEW c, c = EmitAndPush(b, OpIns(op, 0), OpIns("la", 0))
  PROVE  /\ Sound(c) /\ c.rodata = b.rodata
         /\ Len(c.text) = Len(b.text) + 1 /\ Len(c.stack) = Len(b.stack) + 1
         /\ Cardinality(Sas(c)) = Cardinality(Sas(b))
<1>1. PICK ins \in Ins : ins = OpIns(op, 0) /\ ins.op = op
  BY InsType
<1>2. PICK t \in Seq(Ins), k \in Nat : t = b.text /\ k = Len(t) /\ DOMAIN t = 1..k
  BY Sizes DEF Sound
<1>3. PICK w \in Waiting : w = Pending(OpIns("la", 0), k + 1) /\ w.ins.op = "la" /\ w.at = k + 1
  <2>1. OpIns("la", 0) \in Ins /\ OpIns("la", 0).op = "la" /\ k + 1 \in Nat
    BY InsType
  <2> QED BY <2>1, InsType
<1>4. PICK l \in Nat, s \in Seq(Waiting) : l = Len(s) /\ s = b.stack /\ DOMAIN s = 1..l
  BY Sizes DEF Sound
<1>5. PICK q \in Seq(Waiting) : q = Append(s, w)
  <2>1. Append(s, w) \in Seq(Waiting)
    OBVIOUS
  <2> QED BY <2>1
<1>6. PICK u \in Seq(Ins) : u = Append(t, ins)
  <2>1. Append(t, ins) \in Seq(Ins)
    OBVIOUS
  <2> QED BY <2>1
<1>7. /\ DOMAIN q = 1..(l + 1) /\ Len(q) = l + 1 /\ q[l + 1] = w
      /\ \A i \in 1..l : q[i] = s[i]
      /\ DOMAIN u = 1..(k + 1) /\ Len(u) = k + 1 /\ u[k + 1] = ins
      /\ \A i \in 1..k : u[i] = t[i]
  BY <1>2, <1>4, <1>5, <1>6
<1>8. c = [b EXCEPT !.text = u, !.stack = q]
  BY <1>1, <1>2, <1>3, <1>4, <1>5, <1>6 DEF EmitAndPush
<1>9. c \in Buffers /\ c.text = u /\ c.rodata = b.rodata /\ c.stack = q
  BY <1>8 DEF Sound, Buffers, Waiting
<1>10. Strings(c)
  <2>1. ASSUME NEW n \in DOMAIN u, u[n].op = "lc"
        PROVE  n \in DOMAIN t /\ u[n] = t[n]
    BY <1>1, <1>2, <1>7, <2>1
  <2>2. ASSUME NEW n \in DOMAIN u, u[n].op = "lc"
        PROVE  \E o \in 0..(Len(c.rodata) - 1) :
                 c.text[n].offset = Swap32(o) /\ (o = 0 \/ c.rodata[o] = NUL)
    <3>1. n \in DOMAIN b.text /\ b.text[n] = c.text[n] /\ b.text[n].op = "lc"
      BY <1>2, <1>9, <2>1, <2>2
    <3> QED BY <1>9, <3>1 DEF Sound, Strings
  <2> QED BY <1>9, <2>2 DEF Sound, Strings
<1>11. Jumps(c)
  <2>1. ASSUME NEW i \in DOMAIN q
        PROVE  /\ q[i].ins.op \in {"app", "sa", "la"} /\ q[i].at \in 0..(k + 1)
               /\ q[i].ins.op = "la" => q[i].at > 0 /\ u[q[i].at].op \in {"sa", "del"}
    <3>1. CASE i = l + 1
      BY <1>1, <1>3, <1>7, <3>1
    <3>2. CASE i \in 1..l
      <4>1. /\ s[i].ins.op \in {"app", "sa", "la"} /\ s[i].at \in 0..k
            /\ s[i].ins.op = "la" => s[i].at > 0 /\ t[s[i].at].op \in {"sa", "del"}
        BY <1>2, <1>4, <3>2 DEF Sound, Jumps
      <4> QED BY <1>7, <3>2, <4>1
    <3> QED BY <1>7, <3>1, <3>2
  <2>2. ASSUME NEW n \in DOMAIN u, u[n].op \in {"sa", "del"}
        PROVE  JumpSet(c, n) \/ JumpWaits(c, n)
    <3>1. CASE n = k + 1
      <4>1. l + 1 \in DOMAIN c.stack /\ c.stack[l + 1] = w
        BY <1>4, <1>7, <1>9
      <4> QED BY <1>3, <3>1, <4>1 DEF JumpWaits
    <3>2. CASE n \in 1..k
      <4>1. JumpSet(b, n) \/ JumpWaits(b, n)
        BY <1>2, <1>7, <2>2, <3>2 DEF Sound, Jumps
      <4>2. CASE JumpSet(b, n)
        <5>1. Len(b.text) <= Len(c.text) /\ \A i \in 1..Len(b.text) : c.text[i] = b.text[i]
          BY <1>2, <1>7, <1>9
        <5> QED BY <1>2, <1>9, <3>2, <4>2, <5>1, JumpStays DEF Sound
      <4>3. CASE JumpWaits(b, n)
        <5>1. PICK i \in 1..l : s[i].ins.op = "la" /\ s[i].at = n
          BY <1>4, <4>3 DEF JumpWaits
        <5>2. i \in DOMAIN q /\ q[i] = s[i]
          BY <1>7, <5>1
        <5> QED BY <1>9, <5>1, <5>2 DEF JumpWaits
      <4> QED BY <4>1, <4>2, <4>3
    <3> QED BY <1>7, <3>1, <3>2
  <2> QED BY <1>7, <1>9, <2>1, <2>2, ZenonT(40) DEF Jumps
<1>12. Cardinality(Sas(c)) = Cardinality(Sas(b))
  <2>1. c.stack = Append(b.stack, w) /\ b \in Buffers /\ w.ins.op # "sa"
    BY <1>3, <1>4, <1>5, <1>9 DEF Sound
  <2>2. Cardinality(Sas(c)) = Cardinality(Sas(b)) + 0 /\ Cardinality(Sas(b)) \in Nat
    BY <1>9, <2>1, SasAppend, Sizes
  <2> QED BY <2>2
<1> QED BY <1>2, <1>4, <1>7, <1>9, <1>10, <1>11, <1>12 DEF Sound

(* The stack down to a height.                                             *)
LEMMA SasFront ==
  ASSUME NEW b \in Buffers, NEW c \in Buffers, NEW k \in 0..Len(b.stack),
         c.stack = SubSeq(b.stack, 1, k)
  PROVE  /\ Len(c.stack) = k /\ \A i \in 1..k : c.stack[i] = b.stack[i]
         /\ Sas(c) = {i \in Sas(b) : i <= k}
<1>1. PICK l \in Nat, s \in Seq(Waiting) : l = Len(s) /\ s = b.stack /\ DOMAIN s = 1..l
  BY Sizes
<1>2. PICK q : q = c.stack /\ q = SubSeq(s, 1, k)
  BY <1>1
<1>3. Len(q) = k /\ DOMAIN q = 1..k /\ \A i \in 1..k : q[i] = s[i]
  BY <1>1, <1>2
<1>4. Sas(c) = {i \in Sas(b) : i <= k}
  BY <1>1, <1>2, <1>3 DEF Sas
<1> QED BY <1>1, <1>2, <1>3, <1>4

(* The instructions that follow a leaf application, in their order, and    *)
(* what their la's set.                                                    *)
Outs(stack, k)  == Reverse(SubSeq(stack, k + 1, Len(stack)))
All(text, outs) == text \o [i \in DOMAIN outs |-> outs[i].ins]
Sets(outs, n)   == {i \in DOMAIN outs : outs[i].ins.op = "la" /\ outs[i].at = n}
Done(text, outs) ==
  [n \in DOMAIN All(text, outs) |->
     IF Sets(outs, n) # {}
     THEN [All(text, outs)[n] EXCEPT !.offset =
             Swap32(Len(text) + (CHOOSE i \in Sets(outs, n) : TRUE))]
     ELSE All(text, outs)[n]]

(* What follows are the entries above entry k, the last one first.         *)
LEMMA OutsAre ==
  ASSUME NEW s \in Seq(Waiting), NEW k \in 0..Len(s)
  PROVE  /\ Outs(s, k) \in Seq(Waiting) /\ Len(Outs(s, k)) = Len(s) - k
         /\ DOMAIN Outs(s, k) = 1..(Len(s) - k)
         /\ \A i \in 1..(Len(s) - k) : Outs(s, k)[i] = s[Len(s) - i + 1]
<1>1. PICK l \in Nat, m \in Nat : l = Len(s) /\ m = l - k
  OBVIOUS
<1>2. PICK p : p = SubSeq(s, k + 1, Len(s))
  OBVIOUS
<1>3. p \in Seq(Waiting) /\ Len(p) = m /\ \A i \in 1..m : p[i] = s[k + i]
  BY <1>1, <1>2, SuffixOf
<1>4. PICK outs : outs = Outs(s, k)
  OBVIOUS
<1>5. outs = [i \in 1..m |-> p[m - i + 1]]
  BY <1>2, <1>3, <1>4 DEF Reverse, Outs
<1>6. ASSUME NEW i \in 1..m PROVE outs[i] = s[l - i + 1] /\ outs[i] \in Waiting
  <2>1. PICK j \in 1..m : j = m - i + 1 /\ k + j = l - i + 1
    <3>1. k \in Nat /\ i \in Nat /\ m - i + 1 \in 1..m /\ k + (m - i + 1) = l - i + 1
      BY <1>1
    <3> QED BY <3>1
  <2>2. outs[i] = p[j] /\ p[j] = s[k + j]
    BY <1>3, <1>5, <2>1
  <2>3. p[j] \in Waiting
    BY <1>3, ElementOfSeq
  <2> QED BY <2>1, <2>2, <2>3
<1>7. outs \in Seq(Waiting) /\ Len(outs) = m /\ DOMAIN outs = 1..m
  <2>1. DOMAIN outs = 1..m /\ outs = [i \in DOMAIN outs |-> outs[i]]
    BY <1>5
  <2> QED BY <1>1, <1>6, <2>1, SeqIs
<1> QED BY <1>1, <1>4, <1>6, <1>7

(* The text with the instructions that follow behind it.                   *)
LEMMA AllAre ==
  ASSUME NEW t \in Seq(Ins), NEW outs \in Seq(Waiting)
  PROVE  /\ All(t, outs) \in Seq(Ins) /\ Len(All(t, outs)) = Len(t) + Len(outs)
         /\ DOMAIN All(t, outs) = 1..(Len(t) + Len(outs))
         /\ \A n \in 1..Len(t) : All(t, outs)[n] = t[n]
         /\ \A i \in 1..Len(outs) : All(t, outs)[Len(t) + i] = outs[i].ins
<1>0. PICK k \in Nat, m \in Nat : k = Len(t) /\ m = Len(outs)
  BY LenProperties
<1>1. m \in Nat /\ k \in Nat /\ DOMAIN outs = 1..m /\ \A i \in 1..m : outs[i] \in Waiting
  BY <1>0, ElementOfSeq, LenProperties
<1>2. PICK f : f = [i \in DOMAIN outs |-> outs[i].ins]
  OBVIOUS
<1>3. f \in Seq(Ins) /\ Len(f) = m /\ \A i \in 1..m : f[i] = outs[i].ins
  <2>1. \A i \in 1..m : outs[i].ins \in Ins
    BY <1>1 DEF Waiting
  <2>2. DOMAIN f = 1..m /\ f = [i \in DOMAIN f |-> f[i]] /\ \A i \in 1..m : f[i] = outs[i].ins
    BY <1>1, <1>2
  <2>3. \A i \in 1..m : f[i] \in Ins
    BY <2>1, <2>2
  <2> QED BY <1>1, <2>2, <2>3, SeqIs
<1>4. PICK u : u = t \o f
  OBVIOUS
<1>5. /\ u \in Seq(Ins) /\ Len(u) = Len(t) + Len(f) /\ DOMAIN u = 1..(Len(t) + Len(f))
      /\ \A n \in 1..Len(t) : u[n] = t[n]
      /\ \A i \in 1..Len(f) : u[Len(t) + i] = f[i]
  <2>1. u \in Seq(Ins)
    BY <1>3, <1>4, Joined
  <2>2. Len(u) = Len(t) + Len(f)
    <3>1. u \in Seq(Ins) /\ Len(t \o f) = Len(t) + Len(f)
      BY <1>3, <2>1, ConcatProperties
    <3> QED BY <1>4, <3>1
  <2>3. DOMAIN u = 1..(Len(t) + Len(f))
    BY <2>1, <2>2, LenProperties
  <2>4. \A n \in 1..Len(t) : u[n] = t[n]
    BY <1>3, <1>4, Joined
  <2>5. \A i \in 1..Len(f) : u[Len(t) + i] = f[i]
    BY <1>3, <1>4, Joined
  <2> QED BY <2>1, <2>2, <2>3, <2>4, <2>5
<1>6. All(t, outs) = u
  BY <1>2, <1>4 DEF All
<1> QED BY <1>0, <1>3, <1>5, <1>6

IsDone(t, kt, outs, m, done) ==
  /\ done \in Seq(Ins) /\ Len(done) = kt + m /\ DOMAIN done = 1..(kt + m)
  /\ \A n \in 1..kt : done[n].op = t[n].op
  /\ \A i \in 1..m : done[kt + i].op = outs[i].ins.op
  /\ \A n \in 1..kt :
       (\A i \in 1..m : ~(outs[i].ins.op = "la" /\ outs[i].at = n)) => done[n] = t[n]
  /\ \A n \in 1..kt, j \in 1..m :
       outs[j].ins.op = "la" /\ outs[j].at = n =>
         \E i \in 1..m : /\ outs[i].ins.op = "la" /\ outs[i].at = n
                        /\ done[n].offset = Swap32(kt + i)
  /\ \A n \in 1..m :
       (\A i \in 1..m : ~(outs[i].ins.op = "la" /\ outs[i].at = kt + n)) =>
         done[kt + n] = outs[n].ins

(* Every la among them sets the offset of the jump it waited for, and      *)
(* nothing else changes.                                                   *)
LEMMA DoneIs ==
  ASSUME NEW t \in Seq(Ins), NEW outs \in Seq(Waiting), NEW done, done = Done(t, outs)
  PROVE  IsDone(t, Len(t), outs, Len(outs), done)
<1>0. PICK kt \in Nat, m \in Nat : kt = Len(t) /\ m = Len(outs)
  BY LenProperties
<1>1. m \in Nat /\ kt \in Nat /\ DOMAIN outs = 1..m
  BY <1>0, LenProperties
<1>2. PICK all : all = All(t, outs)
  OBVIOUS
<1>3. /\ all \in Seq(Ins) /\ Len(all) = kt + m /\ DOMAIN all = 1..(kt + m)
      /\ \A n \in 1..kt : all[n] = t[n]
      /\ \A i \in 1..m : all[kt + i] = outs[i].ins
  <2>1. /\ all \in Seq(Ins) /\ Len(all) = Len(t) + Len(outs)
        /\ DOMAIN all = 1..(Len(t) + Len(outs))
        /\ \A n \in 1..Len(t) : all[n] = t[n]
        /\ \A i \in 1..Len(outs) : all[Len(t) + i] = outs[i].ins
    BY <1>2, AllAre
  <2> QED BY <1>0, <2>1
<1>4. PICK D : D = [n \in 1..(kt + m) |-> Sets(outs, n)]
  OBVIOUS
<1>5. \A n \in 1..(kt + m) : D[n] = Sets(outs, n) /\ D[n] \subseteq 1..m
  BY <1>1, <1>4 DEF Sets
<1>6. done = [n \in 1..(kt + m) |->
                IF Sets(outs, n) # {}
                THEN [all[n] EXCEPT !.offset = Swap32(kt + (CHOOSE i \in Sets(outs, n) : TRUE))]
                ELSE all[n]]
  BY <1>0, <1>2, <1>3 DEF Done
<1>7. DOMAIN done = 1..(kt + m) /\ done = [n \in DOMAIN done |-> done[n]]
  BY <1>6
<1>8. ASSUME NEW n \in 1..(kt + m)
      PROVE  done[n] = IF D[n] # {} THEN [all[n] EXCEPT !.offset = Swap32(kt + (CHOOSE i \in D[n] : TRUE))]
                       ELSE all[n]
  <2>1. D[n] = Sets(outs, n)
    BY <1>5
  <2>2. done[n] = IF Sets(outs, n) # {}
                  THEN [all[n] EXCEPT !.offset = Swap32(kt + (CHOOSE i \in Sets(outs, n) : TRUE))]
                  ELSE all[n]
    BY <1>6, Zenon
  <2> QED BY <2>1, <2>2
<1>9. ASSUME NEW n \in 1..(kt + m)
      PROVE  /\ done[n] \in Ins /\ done[n].op = all[n].op
             /\ D[n] = {} => done[n] = all[n]
             /\ D[n] # {} => \E i \in D[n] : done[n].offset = Swap32(kt + i)
  <2>1. all[n] \in Ins
    BY <1>3, ElementOfSeq
  <2>2. CASE D[n] # {}
    <3>1. PICK i \in D[n] : i = CHOOSE j \in D[n] : TRUE
      BY <2>2
    <3>2. i \in 1..m
      BY <1>5, <3>1
    <3>3. kt + i \in Nat
      BY <1>1, <3>2
    <3>4. Swap32(kt + i) \in Nat
      BY <3>3, SwapType
    <3>5. PICK o \in Nat : o = Swap32(kt + i)
      BY <3>4
    <3>6. done[n] = [all[n] EXCEPT !.offset = o]
      BY <1>8, <2>2, <3>1, <3>5
    <3>7. done[n] \in Ins /\ done[n].op = all[n].op /\ done[n].offset = o
      BY <2>1, <3>6 DEF Ins
    <3> QED BY <2>2, <3>1, <3>5, <3>7
  <2>3. CASE D[n] = {}
    BY <1>8, <2>1, <2>3
  <2> QED BY <2>2, <2>3
<1>10. done \in Seq(Ins) /\ Len(done) = kt + m
  <2>1. PICK n \in Nat : n = kt + m
    BY <1>1
  <2>2. \A i \in 1..n : done[i] \in Ins
    BY <1>9, <2>1
  <2>3. DOMAIN done = 1..n
    BY <1>7, <2>1
  <2>4. done \in Seq(Ins) /\ Len(done) = n
    BY <1>7, <2>2, <2>3, SeqIs
  <2> QED BY <2>1, <2>4
<1>11. \A n \in 1..kt : n \in 1..(kt + m)
  BY <1>1
<1>12. \A i \in 1..m : kt + i \in 1..(kt + m)
  BY <1>1
<1>13. \A n \in 1..kt : done[n].op = t[n].op
  BY <1>3, <1>9, <1>11
<1>14. \A i \in 1..m : done[kt + i].op = outs[i].ins.op
  BY <1>3, <1>9, <1>12
<1>15. ASSUME NEW n \in 1..kt, \A i \in 1..m : ~(outs[i].ins.op = "la" /\ outs[i].at = n)
       PROVE  done[n] = t[n]
  <2>1. D[n] = Sets(outs, n)
    BY <1>5, <1>11
  <2>2. D[n] = {}
    BY <1>1, <1>15, <2>1 DEF Sets
  <2> QED BY <1>3, <1>9, <1>11, <2>2
<1>16. ASSUME NEW n \in 1..kt, NEW j \in 1..m, outs[j].ins.op = "la", outs[j].at = n
       PROVE  \E i \in 1..m : /\ outs[i].ins.op = "la" /\ outs[i].at = n
                              /\ done[n].offset = Swap32(kt + i)
  <2>1. D[n] = Sets(outs, n)
    BY <1>5, <1>11
  <2>2. j \in D[n]
    BY <1>1, <1>16, <2>1 DEF Sets
  <2>3. PICK i \in D[n] : done[n].offset = Swap32(kt + i)
    BY <1>9, <1>11, <2>2
  <2>4. i \in 1..m /\ outs[i].ins.op = "la" /\ outs[i].at = n
    BY <1>1, <2>1, <2>3 DEF Sets
  <2> QED BY <2>3, <2>4
<1>18. ASSUME NEW n \in 1..m, \A i \in 1..m : ~(outs[i].ins.op = "la" /\ outs[i].at = kt + n)
       PROVE  done[kt + n] = outs[n].ins
  <2>1. PICK k \in 1..(kt + m) : k = kt + n
    BY <1>12
  <2>2. D[k] = Sets(outs, k)
    BY <1>5
  <2>3. D[k] = {}
    BY <1>1, <1>18, <2>1, <2>2 DEF Sets
  <2>4. done[k] = all[k]
    BY <1>9, <2>3
  <2> QED BY <1>3, <2>1, <2>4
<1>17. IsDone(t, kt, outs, m, done)
  BY <1>7, <1>10, <1>13, <1>14, <1>15, <1>16, <1>18 DEF IsDone
<1> QED BY <1>0, <1>17

(* The stack is emptied down to the last sa, which goes too.               *)
IsRest(b, k, c) ==
  /\ Sound(c) /\ c.rodata = b.rodata
  /\ k \in 0..Len(b.stack) /\ Len(c.text) = Len(b.text) + (Len(b.stack) - k)
  /\ IF k = 0 THEN c.stack = <<>> /\ Cardinality(Sas(b)) = 0
     ELSE Len(c.stack) = k - 1 /\ Cardinality(Sas(b)) = Cardinality(Sas(c)) + 1

(* Draining leaves no jump of the drained entries open.                    *)
LEMMA RestDoes ==
  ASSUME NEW b, Sound(b), NEW k \in Nat, k = LastSa(b.stack),
         NEW c, c = [b EXCEPT !.text = Done(b.text, Outs(b.stack, k)),
                              !.stack = SubSeq(b.stack, 1, k - 1)]
  PROVE  IsRest(b, k, c)
<1>1. PICK l \in Nat, s \in Seq(Waiting) : l = Len(s) /\ s = b.stack /\ DOMAIN s = 1..l
  BY Sizes DEF Sound
<1>2. PICK t \in Seq(Ins), kt \in Nat : t = b.text /\ kt = Len(t) /\ DOMAIN t = 1..kt
  BY Sizes DEF Sound
<1>3. /\ k \in 0..l
      /\ k > 0 => k \in Sas(b)
      /\ \A i \in Sas(b) : i <= k
  BY <1>1, LastSaIs DEF Sound
<1>4. /\ \A i \in 1..l : s[i].ins.op = "sa" <=> i \in Sas(b)
      /\ Sas(b) \subseteq 1..l
  BY <1>1 DEF Sas
<1>5. PICK m \in Nat : m = l - k
  BY <1>3
<1>6. PICK outs : outs = Outs(s, k)
  OBVIOUS
<1>7. /\ outs \in Seq(Waiting) /\ Len(outs) = m
      /\ \A i \in 1..m : outs[i] = s[l - i + 1]
  <2>1. k \in 0..Len(s)
    BY <1>1, <1>3
  <2>2. /\ outs \in Seq(Waiting) /\ Len(outs) = Len(s) - k
        /\ \A i \in 1..(Len(s) - k) : outs[i] = s[Len(s) - i + 1]
    BY <1>6, <2>1, OutsAre
  <2> QED BY <1>1, <1>5, <2>2
<1>8. PICK done : done = Done(t, outs)
  OBVIOUS
<1>9. /\ done \in Seq(Ins) /\ Len(done) = kt + m /\ DOMAIN done = 1..(kt + m)
      /\ \A n \in 1..kt : done[n].op = t[n].op
      /\ \A i \in 1..m : done[kt + i].op = outs[i].ins.op
      /\ \A n \in 1..kt :
           (\A i \in 1..m : ~(outs[i].ins.op = "la" /\ outs[i].at = n)) => done[n] = t[n]
      /\ \A n \in 1..kt, j \in 1..m :
           outs[j].ins.op = "la" /\ outs[j].at = n =>
             \E i \in 1..m : outs[i].ins.op = "la" /\ done[n].offset = Swap32(kt + i)
  <2>1. IsDone(t, Len(t), outs, Len(outs), done)
    BY <1>7, <1>8, DoneIs
  <2>2. IsDone(t, kt, outs, m, done)
    BY <1>2, <1>7, <2>1
  <2> QED BY <2>2 DEF IsDone
<1>10. PICK q : q = SubSeq(s, 1, k - 1)
  OBVIOUS
<1>11. /\ q \in Seq(Waiting)
       /\ IF k = 0 THEN q = <<>>
          ELSE Len(q) = k - 1 /\ \A i \in 1..(k - 1) : i \in 1..l /\ q[i] = s[i]
  <2>1. CASE k = 0
    BY <1>10, <2>1
  <2>2. CASE k > 0
    BY <1>1, <1>3, <1>10, <2>2
  <2> QED BY <2>1, <2>2
<1>12. c = [b EXCEPT !.text = done, !.stack = q]
  BY <1>1, <1>2, <1>6, <1>8, <1>10
<1>13. c \in Buffers /\ c.text = done /\ c.rodata = b.rodata /\ c.stack = q
  <2>1. b \in Buffers
    BY DEF Sound
  <2>2. done \in Seq(Ins) /\ q \in Seq([ins : Ins, at : Nat])
    BY <1>9, <1>11 DEF Waiting
  <2> QED BY <1>12, <2>1, <2>2 DEF Buffers
<1>14. \A i \in DOMAIN q : i \in 1..l /\ i < k /\ q[i] = s[i]
  BY <1>11
<1>15. /\ \A i \in 1..l : /\ s[i].ins.op \in {"app", "sa", "la"} /\ s[i].at \in 0..kt
                          /\ s[i].ins.op = "la" => s[i].at \in 1..kt /\ t[s[i].at].op \in {"sa", "del"}
       /\ \A n \in 1..kt : t[n].op \in {"sa", "del"} => JumpSet(b, n) \/ JumpWaits(b, n)
  BY <1>1, <1>2 DEF Sound, Jumps
<1>16. ASSUME NEW i \in 1..m
       PROVE  outs[i].ins.op \in {"app", "la"} /\ l - i + 1 \in 1..l
  <2>1. l - i + 1 \in 1..l /\ l - i + 1 > k
    BY <1>3, <1>5
  <2>2. l - i + 1 \notin Sas(b)
    BY <1>3, <2>1
  <2> QED BY <1>4, <1>7, <1>15, <2>1, <2>2
<1>17. Jumps(c)
  <2>1. ASSUME NEW i \in DOMAIN q
        PROVE  /\ q[i].ins.op \in {"app", "sa", "la"} /\ q[i].at \in 0..(kt + m)
               /\ q[i].ins.op = "la" => q[i].at > 0 /\ done[q[i].at].op \in {"sa", "del"}
    <3>1. q[i] = s[i] /\ i \in 1..l
      BY <1>14
    <3>2. PICK a : a = s[i].at
      OBVIOUS
    <3>3. /\ s[i].ins.op \in {"app", "sa", "la"} /\ a \in 0..kt
          /\ s[i].ins.op = "la" => a \in 1..kt /\ t[a].op \in {"sa", "del"}
      BY <1>15, <3>1, <3>2
    <3>4. a \in 1..kt => done[a].op = t[a].op
      BY <1>9
    <3>5. a \in 0..(kt + m)
      BY <3>3
    <3> QED BY <3>1, <3>2, <3>3, <3>4, <3>5
  <2>2. ASSUME NEW n \in 1..(kt + m), done[n].op \in {"sa", "del"}
        PROVE  JumpSet(c, n) \/ JumpWaits(c, n)
    <3>1. n \in 1..kt
      <4>1. SUFFICES ASSUME n > kt PROVE FALSE
        BY <1>2
      <4>2. PICK i \in 1..m : n = kt + i
        <5>1. n - kt \in 1..m /\ n = kt + (n - kt)
          BY <4>1
        <5> QED BY <5>1
      <4> QED BY <1>9, <1>16, <2>2, <4>2
    <3>2. CASE \E j \in 1..m : outs[j].ins.op = "la" /\ outs[j].at = n
      <4>1. PICK i \in 1..m : outs[i].ins.op = "la" /\ done[n].offset = Swap32(kt + i)
        BY <1>9, <3>1, <3>2
      <4>2. kt + i \in (n + 1)..(kt + m) /\ done[kt + i].op = "la"
        BY <1>9, <3>1, <4>1
      <4> QED BY <1>9, <1>13, <4>1, <4>2 DEF JumpSet
    <3>3. CASE \A j \in 1..m : ~(outs[j].ins.op = "la" /\ outs[j].at = n)
      <4>1. done[n] = t[n] /\ (JumpSet(b, n) \/ JumpWaits(b, n))
        BY <1>9, <1>15, <2>2, <3>1, <3>3
      <4>2. CASE JumpSet(b, n)
        <5>1. PICK p \in (n + 1)..kt : t[n].offset = Swap32(p) /\ t[p].op = "la"
          BY <1>2, <4>2 DEF JumpSet
        <5>2. p \in (n + 1)..(kt + m) /\ done[p].op = "la"
          BY <1>9, <3>1, <5>1
        <5> QED BY <1>9, <1>13, <4>1, <5>1, <5>2 DEF JumpSet
      <4>3. CASE JumpWaits(b, n)
        <5>1. PICK i \in 1..l : s[i].ins.op = "la" /\ s[i].at = n
          BY <1>1, <4>3 DEF JumpWaits
        <5>2. i # k
          BY <1>3, <1>4, <5>1
        <5>3. ~(i > k)
          <6>1. SUFFICES ASSUME i > k PROVE FALSE
            OBVIOUS
          <6>2. l - i + 1 \in 1..m /\ l - (l - i + 1) + 1 = i
            BY <1>3, <1>5, <6>1, SMTT(30)
          <6>3. outs[l - i + 1] = s[i]
            BY <1>7, <6>2
          <6> QED BY <3>3, <5>1, <6>2, <6>3
        <5>4. k # 0 /\ i \in 1..(k - 1)
          BY <1>3, <5>1, <5>2, <5>3
        <5>5. i \in DOMAIN q /\ q[i] = s[i]
          BY <1>11, <5>4
        <5> QED BY <1>13, <5>1, <5>5 DEF JumpWaits
      <4> QED BY <4>1, <4>2, <4>3
    <3> QED BY <3>2, <3>3
  <2> QED BY <1>9, <1>13, <2>1, <2>2, ZenonT(40) DEF Jumps
<1>18. Strings(c)
  <2>1. ASSUME NEW n \in 1..(kt + m), done[n].op = "lc"
        PROVE  n \in DOMAIN t /\ done[n] = t[n]
    <3>1. n \in 1..kt
      <4>1. SUFFICES ASSUME n > kt PROVE FALSE
        BY <1>2
      <4>2. PICK i \in 1..m : n = kt + i
        <5>1. n - kt \in 1..m /\ n = kt + (n - kt)
          BY <4>1
        <5> QED BY <5>1
      <4> QED BY <1>9, <1>16, <2>1, <4>2
    <3>2. \A j \in 1..m : ~(outs[j].ins.op = "la" /\ outs[j].at = n)
      <4>1. SUFFICES ASSUME NEW j \in 1..m, outs[j].ins.op = "la", outs[j].at = n PROVE FALSE
        OBVIOUS
      <4>2. t[n].op \in {"sa", "del"}
        BY <1>7, <1>15, <1>16, <4>1
      <4> QED BY <1>9, <2>1, <3>1, <4>2
    <3> QED BY <1>2, <1>9, <3>1, <3>2
  <2>2. ASSUME NEW n \in DOMAIN c.text, c.text[n].op = "lc"
        PROVE  \E o \in 0..(Len(c.rodata) - 1) :
                 c.text[n].offset = Swap32(o) /\ (o = 0 \/ c.rodata[o] = NUL)
    <3>0. n \in 1..(kt + m) /\ done[n].op = "lc" /\ c.text[n] = done[n]
      BY <1>9, <1>13, <2>2
    <3>1. n \in DOMAIN t /\ done[n] = t[n]
      BY <2>1, <3>0
    <3>2. n \in DOMAIN b.text /\ b.text[n] = c.text[n] /\ b.text[n].op = "lc"
      BY <1>2, <3>0, <3>1
    <3> QED BY <1>13, <3>2 DEF Sound, Strings
  <2> QED BY <1>13, <2>2 DEF Sound, Strings
<1>19. CASE k = 0
  <2>1. Sas(b) = {}
    BY <1>3, <1>4, <1>19
  <2>2. Cardinality(Sas(b)) = 0
    BY <2>1, FS_EmptySet
  <2> QED BY <1>1, <1>2, <1>3, <1>5, <1>9, <1>11, <1>13, <1>17, <1>18, <1>19, <2>2 DEF Sound, IsRest
<1>20. CASE k > 0
  <2>1. \A i \in 1..Len(q) : i \in 1..l /\ q[i] = s[i]
    BY <1>11, <1>20
  <2>2. Len(q) = k - 1 /\ DOMAIN q = 1..(k - 1) /\ k \in Sas(b)
    BY <1>3, <1>11, <1>20
  <2>3. Sas(c) = {i \in 1..(k - 1) : s[i].ins.op = "sa"}
    BY <1>13, <2>1, <2>2 DEF Sas
  <2>4. Sas(b) = Sas(c) \cup {k} /\ k \notin Sas(c)
    BY <1>3, <1>4, <1>20, <2>2, <2>3
  <2>5. IsFiniteSet(Sas(c)) /\ Cardinality(Sas(c)) \in Nat
    BY <1>13, Sizes
  <2>6. Cardinality(Sas(c) \cup {k}) = Cardinality(Sas(c)) + 1
    BY <2>4, <2>5, FS_AddElement
  <2>7. Cardinality(Sas(b)) = Cardinality(Sas(c)) + 1
    BY <2>4, <2>6, Zenon
  <2> QED BY <1>1, <1>2, <1>3, <1>5, <1>9, <1>11, <1>13, <1>17, <1>18, <1>20, <2>7 DEF Sound, IsRest
<1> QED BY <1>19, <1>20

(* What follows a leaf application, and the sa that waits behind it.       *)
LEMMA DrainDoes ==
  ASSUME NEW b, Sound(b), NEW c, c = Drain(b)
  PROVE  /\ Sound(c) /\ c.rodata = b.rodata
         /\ Len(c.text) + Len(c.stack) + Cardinality(Sas(c)) =
              Len(b.text) + Len(b.stack) + Cardinality(Sas(b))
         /\ Len(c.stack) <= Len(b.stack)
         /\ \/ c.stack = <<>> /\ Cardinality(Sas(b)) = 0
            \/ Cardinality(Sas(b)) = Cardinality(Sas(c)) + 1
<1>1. PICK k \in Nat : k = LastSa(b.stack)
  BY LastSaIs DEF Sound
<1>2. PICK r : r = [b EXCEPT !.text = Done(b.text, Outs(b.stack, k)),
                             !.stack = SubSeq(b.stack, 1, k - 1)]
  OBVIOUS
<1>3. c = IF k = 0 THEN r ELSE EmitAndPush(r, OpIns("sa", 0), OpIns("la", 0))
  BY <1>1, <1>2 DEF Drain, Done, All, Outs, Sets
<1>4. /\ Sound(r) /\ r.rodata = b.rodata
      /\ k \in 0..Len(b.stack) /\ Len(r.text) = Len(b.text) + (Len(b.stack) - k)
      /\ IF k = 0 THEN r.stack = <<>> /\ Cardinality(Sas(b)) = 0
         ELSE Len(r.stack) = k - 1 /\ Cardinality(Sas(b)) = Cardinality(Sas(r)) + 1
  <2>1. IsRest(b, k, r)
    BY <1>1, <1>2, RestDoes
  <2> QED BY <2>1 DEF IsRest
<1>5. PICK l \in Nat, t \in Nat, n \in Nat, rl \in Nat, rt \in Nat, rn \in Nat :
        /\ l = Len(b.stack) /\ t = Len(b.text) /\ n = Cardinality(Sas(b))
        /\ rl = Len(r.stack) /\ rt = Len(r.text) /\ rn = Cardinality(Sas(r))
  BY <1>4, Sizes DEF Sound
<1>6. CASE k = 0
  <2>1. c = r /\ Len(c.stack) = 0
    BY <1>3, <1>4, <1>6
  <2>2. Sas(c) = {}
    BY <1>4, <1>6, <2>1 DEF Sas
  <2>3. Cardinality(Sas(c)) = 0
    BY <2>2, FS_EmptySet
  <2>4. rt = t + l /\ n = 0
    BY <1>4, <1>5, <1>6
  <2>5. Len(c.text) + Len(c.stack) + Cardinality(Sas(c)) = t + l + n /\ Len(c.stack) <= l
    BY <1>5, <2>1, <2>3, <2>4
  <2> QED BY <1>4, <1>5, <1>6, <2>1, <2>5
<1>7. CASE k # 0
  <2>1. /\ Sound(c) /\ c.rodata = r.rodata
        /\ Len(c.text) = Len(r.text) + 1 /\ Len(c.stack) = Len(r.stack) + 1
        /\ Cardinality(Sas(c)) = Cardinality(Sas(r))
    BY <1>3, <1>4, <1>7, EmitDoes
  <2>2. rl = k - 1 /\ n = rn + 1 /\ rt = t + (l - k) /\ k <= l
    BY <1>4, <1>5, <1>7
  <2>3. Len(c.text) = rt + 1 /\ Len(c.stack) = rl + 1 /\ Cardinality(Sas(c)) = rn
    BY <1>5, <2>1
  <2>4. Len(c.text) + Len(c.stack) + Cardinality(Sas(c)) = t + l + n /\ Len(c.stack) <= l
    BY <2>2, <2>3
  <2> QED BY <1>4, <1>5, <2>1, <2>2, <2>3, <2>4
<1> QED BY <1>6, <1>7

(* Other instructions at the end of the text, and fewer entries on the     *)
(* stack, leave the jumps alone.                                           *)
LEMMA JumpsKept ==
  ASSUME NEW b, Sound(b), NEW c \in Buffers,
         DOMAIN b.text \subseteq DOMAIN c.text, \A n \in DOMAIN b.text : c.text[n] = b.text[n],
         \A n \in DOMAIN c.text \ DOMAIN b.text : c.text[n].op \notin {"sa", "del"},
         DOMAIN c.stack \subseteq DOMAIN b.stack, \A i \in DOMAIN c.stack : c.stack[i] = b.stack[i],
         \A i \in DOMAIN b.stack \ DOMAIN c.stack : b.stack[i].ins.op # "la"
  PROVE  Jumps(c)
<1>1. PICK l \in Nat, s \in Seq(Waiting) : l = Len(b.stack) /\ s = b.stack /\ DOMAIN s = 1..l
  BY Sizes DEF Sound
<1>2. PICK t \in Seq(Ins), kt \in Nat : t = b.text /\ kt = Len(t) /\ DOMAIN t = 1..kt
  BY Sizes DEF Sound
<1>3. PICK u \in Seq(Ins), ku \in Nat : u = c.text /\ ku = Len(u) /\ DOMAIN u = 1..ku
  BY Sizes
<1>4. PICK q : q = c.stack
  OBVIOUS
<1>5. kt <= ku
  <2>1. CASE kt = 0
    BY <2>1
  <2>2. CASE kt > 0
    <3>1. kt \in 1..ku
      BY <1>2, <1>3, <2>2
    <3> QED BY <3>1
  <2> QED BY <2>1, <2>2
<1>6. /\ \A i \in DOMAIN s : /\ s[i].ins.op \in {"app", "sa", "la"} /\ s[i].at \in 0..kt
                             /\ s[i].ins.op = "la" => s[i].at \in 1..kt /\ t[s[i].at].op \in {"sa", "del"}
      /\ \A n \in 1..kt : t[n].op \in {"sa", "del"} => JumpSet(b, n) \/ JumpWaits(b, n)
  BY <1>1, <1>2 DEF Sound, Jumps
<1>7. ASSUME NEW i \in DOMAIN q
      PROVE  /\ q[i].ins.op \in {"app", "sa", "la"} /\ q[i].at \in 0..ku
             /\ q[i].ins.op = "la" => q[i].at > 0 /\ u[q[i].at].op \in {"sa", "del"}
  <2>1. q[i] = s[i] /\ i \in DOMAIN s
    BY <1>1, <1>4
  <2>2. PICK a : a = s[i].at
    OBVIOUS
  <2>3. /\ s[i].ins.op \in {"app", "sa", "la"} /\ a \in 0..kt
        /\ s[i].ins.op = "la" => a \in 1..kt /\ t[a].op \in {"sa", "del"}
    BY <1>6, <2>1, <2>2
  <2>4. a \in 1..kt => u[a] = t[a]
    BY <1>2, <1>3
  <2>5. a \in 0..ku
    BY <1>5, <2>3
  <2> QED BY <2>1, <2>2, <2>3, <2>4, <2>5
<1>8. ASSUME NEW n \in DOMAIN u, u[n].op \in {"sa", "del"}
      PROVE  JumpSet(c, n) \/ JumpWaits(c, n)
  <2>1. n \in 1..kt /\ u[n] = t[n]
    BY <1>2, <1>3, <1>8
  <2>2. JumpSet(b, n) \/ JumpWaits(b, n)
    BY <1>6, <1>8, <2>1
  <2>3. CASE JumpSet(b, n)
    <3>1. Len(b.text) <= Len(c.text) /\ n \in 1..Len(b.text)
          /\ \A i \in 1..Len(b.text) : c.text[i] = b.text[i]
      BY <1>2, <1>3, <1>5, <2>1
    <3> QED BY <2>3, <3>1, JumpStays DEF Sound
  <2>4. CASE JumpWaits(b, n)
    <3>1. PICK i \in DOMAIN s : s[i].ins.op = "la" /\ s[i].at = n
      BY <1>1, <2>4 DEF JumpWaits
    <3>2. i \in DOMAIN q /\ q[i] = s[i]
      BY <1>1, <1>4, <3>1
    <3> QED BY <1>4, <3>1, <3>2 DEF JumpWaits
  <2> QED BY <2>2, <2>3, <2>4
<1> QED BY <1>3, <1>4, <1>7, <1>8 DEF Jumps

(* One application of two leaves.                                          *)
LEMMA PlainDoes ==
  ASSUME NEW b, Sound(b), NEW ins \in Ins, ins.op = "app",
         NEW c, c = [b EXCEPT !.text = Append(b.text, ins)]
  PROVE  /\ Sound(c) /\ c.rodata = b.rodata /\ c.stack = b.stack
         /\ Len(c.text) = Len(b.text) + 1
         /\ Cardinality(Sas(c)) = Cardinality(Sas(b))
<1>1. PICK t \in Seq(Ins), kt \in Nat : t = b.text /\ kt = Len(t) /\ DOMAIN t = 1..kt
  BY Sizes DEF Sound
<1>2. PICK u \in Seq(Ins) : u = Append(t, ins)
  <2>1. Append(t, ins) \in Seq(Ins)
    OBVIOUS
  <2> QED BY <2>1
<1>3. /\ DOMAIN u = 1..(kt + 1) /\ Len(u) = kt + 1 /\ u[kt + 1] = ins
      /\ \A n \in 1..kt : u[n] = t[n]
  BY <1>1, <1>2
<1>4. c = [b EXCEPT !.text = u]
  BY <1>1, <1>2
<1>5. c \in Buffers /\ c.text = u /\ c.rodata = b.rodata /\ c.stack = b.stack
  BY <1>4 DEF Sound, Buffers, Waiting
<1>6. \A n \in DOMAIN u : (n \in DOMAIN t /\ u[n] = t[n]) \/ u[n].op = "app"
  BY <1>1, <1>3
<1>7. DOMAIN t \subseteq DOMAIN u
  BY <1>1, <1>3
<1>8. Jumps(c)
  <2>1. /\ DOMAIN b.text \subseteq DOMAIN c.text /\ \A n \in DOMAIN b.text : c.text[n] = b.text[n]
        /\ \A n \in DOMAIN c.text \ DOMAIN b.text : c.text[n].op \notin {"sa", "del"}
    BY <1>1, <1>3, <1>5, <1>6, <1>7
  <2> QED BY <1>5, <2>1, JumpsKept
<1>9. Strings(c)
  <2>1. ASSUME NEW n \in DOMAIN c.text, c.text[n].op = "lc"
        PROVE  \E o \in 0..(Len(c.rodata) - 1) :
                 c.text[n].offset = Swap32(o) /\ (o = 0 \/ c.rodata[o] = NUL)
    <3>1. n \in DOMAIN b.text /\ b.text[n] = c.text[n] /\ b.text[n].op = "lc"
      BY <1>1, <1>5, <1>6, <2>1
    <3> QED BY <1>5, <3>1 DEF Sound, Strings
  <2> QED BY <1>5, <2>1 DEF Sound, Strings
<1>10. Sas(c) = Sas(b)
  BY <1>5 DEF Sas
<1> QED BY <1>1, <1>3, <1>5, <1>8, <1>9, <1>10 DEF Sound

(* A string: n prints go from the stack, with one character each and the   *)
(* one of the leaf before them.                                            *)
TextWith(t, x, y) == t \o <<x, y>>
DataWith(d, str)  == Append(d \o str, NUL)
StackTo(s, h)     == SubSeq(s, 1, h)

IsTextWith(t, kt, x, y, u) ==
  /\ u \in Seq(Ins) /\ Len(u) = kt + 2 /\ DOMAIN u = 1..(kt + 2)
  /\ \A i \in 1..kt : u[i] = t[i]
  /\ u[kt + 1] = x /\ u[kt + 2] = y

(* The text with a load and its application behind it.                     *)
LEMMA TextWithIs ==
  ASSUME NEW t \in Seq(Ins), NEW x \in Ins, NEW y \in Ins
  PROVE  IsTextWith(t, Len(t), x, y, TextWith(t, x, y))
<1>1. PICK kt \in Nat : kt = Len(t)
  BY LenProperties
<1>2. <<x, y>> \in Seq(Ins) /\ Len(<<x, y>>) = 2 /\ <<x, y>>[1] = x /\ <<x, y>>[2] = y
  OBVIOUS
<1>3. PICK z \in Seq(Ins) : z = <<x, y>> /\ Len(z) = 2 /\ z[1] = x /\ z[2] = y
  BY <1>2
<1>4. PICK u : u = t \o z
  OBVIOUS
<1>5. /\ u \in Seq(Ins) /\ Len(u) = kt + 2
      /\ \A i \in 1..(kt + 2) : u[i] = IF i <= kt THEN t[i] ELSE z[i - kt]
  BY <1>1, <1>3, <1>4, ConcatProperties
<1>6. DOMAIN u = 1..(kt + 2)
  BY <1>5, LenProperties
<1>7. u[kt + 1] = z[1] /\ u[kt + 2] = z[2]
  <2>1. /\ kt + 1 \in 1..(kt + 2) /\ ~(kt + 1 <= kt) /\ (kt + 1) - kt = 1
        /\ kt + 2 \in 1..(kt + 2) /\ ~(kt + 2 <= kt) /\ (kt + 2) - kt = 2
    OBVIOUS
  <2> QED BY <1>5, <2>1
<1>8. IsTextWith(t, kt, x, y, u)
  BY <1>3, <1>5, <1>6, <1>7 DEF IsTextWith
<1>9. TextWith(t, x, y) = u
  BY <1>3, <1>4 DEF TextWith
<1> QED BY <1>1, <1>8, <1>9

IsDataWith(d, str, kd, n, e) ==
  /\ e \in Seq(0..255) /\ Len(e) = kd + n + 1 /\ e[kd + n + 1] = NUL
  /\ \A i \in 1..kd : e[i] = d[i]
  /\ \A i \in 1..n : e[kd + i] = str[i]

(* The data with a string and its NUL behind it.                           *)
LEMMA DataWithIs ==
  ASSUME NEW d \in Seq(0..255), NEW str \in Seq(0..255)
  PROVE  IsDataWith(d, str, Len(d), Len(str), DataWith(d, str))
<1>1. PICK kd \in Nat, n \in Nat : kd = Len(d) /\ n = Len(str)
  BY LenProperties
<1>2. PICK f : f = d \o str
  OBVIOUS
<1>3. /\ f \in Seq(0..255) /\ Len(f) = kd + n
      /\ \A i \in 1..(kd + n) : f[i] = IF i <= kd THEN d[i] ELSE str[i - kd]
  BY <1>1, <1>2, ConcatProperties
<1>4. PICK m \in Nat : m = kd + n
  BY <1>1
<1>5. \A i \in 1..kd : i \in 1..m /\ i <= kd
  BY <1>4
<1>6. PICK e : e = Append(f, NUL)
  OBVIOUS
<1>7. /\ e \in Seq(0..255) /\ Len(e) = m + 1 /\ e[m + 1] = NUL
      /\ \A i \in 1..m : e[i] = f[i]
  <2>1. NUL \in 0..255
    BY DEF NUL
  <2>2. Len(f) = m
    BY <1>3, <1>4
  <2> QED BY <1>3, <1>6, <2>1, <2>2
<1>8. \A i \in 1..kd : e[i] = d[i]
  BY <1>3, <1>4, <1>5, <1>7
<1>11. \A i \in 1..n : e[kd + i] = str[i]
  <2>1. SUFFICES ASSUME NEW i \in 1..n PROVE e[kd + i] = str[i]
    OBVIOUS
  <2>2. PICK j \in 1..(kd + n) : j = kd + i /\ ~(j <= kd) /\ j - kd = i /\ j \in 1..m
    <3>1. kd + i \in 1..(kd + n) /\ ~(kd + i <= kd) /\ (kd + i) - kd = i /\ kd + i \in 1..m
      BY <1>4
    <3> QED BY <3>1
  <2> QED BY <1>3, <1>7, <2>2
<1>9. IsDataWith(d, str, kd, n, e)
  BY <1>4, <1>7, <1>8, <1>11 DEF IsDataWith
<1>10. DataWith(d, str) = e
  BY <1>2, <1>6 DEF DataWith
<1> QED BY <1>1, <1>9, <1>10

(* The lower part of the stack.                                            *)
LEMMA StackToIs ==
  ASSUME NEW s \in Seq(Waiting), NEW h \in Nat, h <= Len(s)
  PROVE  /\ StackTo(s, h) \in Seq(Waiting) /\ Len(StackTo(s, h)) = h
         /\ DOMAIN StackTo(s, h) = 1..h /\ \A i \in 1..h : StackTo(s, h)[i] = s[i]
<1>1. PICK l \in Nat : l = Len(s)
  BY LenProperties
<1>2. \A i \in 1..h : s[i] \in Waiting
  <2>1. \A i \in 1..h : i \in 1..Len(s)
    BY <1>1
  <2> QED BY <2>1, ElementOfSeq
<1>3. PICK q : q = SubSeq(s, 1, h)
  OBVIOUS
<1>4. /\ q \in Seq(Waiting) /\ Len(q) = IF 1 <= h THEN h - 1 + 1 ELSE 0
      /\ \A i \in 1..(h - 1 + 1) : q[i] = s[1 + i - 1]
  BY <1>2, <1>3, SubSeqProperties
<1>5. Len(q) = h /\ h - 1 + 1 = h /\ \A i \in 1..h : 1 + i - 1 = i
  BY <1>4
<1>6. DOMAIN q = 1..h
  BY <1>4, <1>5, LenProperties
<1> QED BY <1>3, <1>4, <1>5, <1>6 DEF StackTo

(* A print of a string keeps the buffers sound; it sets no jump and takes  *)
(* none away.                                                              *)
LEMMA StringDoes ==
  ASSUME NEW b, Sound(b), NEW x \in Ins, NEW y \in Ins, x.op = "lc", y.op = "app",
         x.offset = Swap32(Len(b.rodata)),
         NEW h \in Nat, h <= Len(b.stack),
         \A i \in DOMAIN b.stack : i <= h \/ b.stack[i].ins.op = "app",
         NEW str \in Seq(0..255), NEW c,
         c = [text   |-> TextWith(b.text, x, y), rodata |-> DataWith(b.rodata, str),
              stack  |-> StackTo(b.stack, h)]
  PROVE  /\ Sound(c) /\ Len(c.text) = Len(b.text) + 2
         /\ Len(c.rodata) = Len(b.rodata) + Len(str) + 1
         /\ Len(c.stack) = h
         /\ Cardinality(Sas(c)) = Cardinality(Sas(b))
<1>1. PICK l \in Nat, s \in Seq(Waiting) : l = Len(s) /\ s = b.stack /\ DOMAIN s = 1..l
  BY Sizes DEF Sound
<1>2. PICK t \in Seq(Ins), kt \in Nat : t = b.text /\ kt = Len(t) /\ DOMAIN t = 1..kt
  BY Sizes DEF Sound
<1>3. PICK d \in Seq(0..255), kd \in Nat, n \in Nat : d = b.rodata /\ kd = Len(d) /\ n = Len(str)
  BY Sizes, LenProperties DEF Sound
<1>4. PICK u : u = TextWith(t, x, y)
  OBVIOUS
<1>5. /\ u \in Seq(Ins) /\ Len(u) = kt + 2 /\ DOMAIN u = 1..(kt + 2)
      /\ \A i \in 1..kt : u[i] = t[i]
      /\ u[kt + 1] = x /\ u[kt + 2] = y
  <2>1. IsTextWith(t, kt, x, y, u)
    BY <1>2, <1>4, TextWithIs
  <2> QED BY <2>1 DEF IsTextWith
<1>6. PICK e : e = DataWith(d, str)
  OBVIOUS
<1>7. /\ e \in Seq(0..255) /\ Len(e) = kd + n + 1 /\ e[kd + n + 1] = NUL
      /\ \A i \in 1..kd : e[i] = d[i]
  <2>1. IsDataWith(d, str, kd, n, e)
    BY <1>3, <1>6, DataWithIs
  <2> QED BY <2>1 DEF IsDataWith
<1>9. PICK q : q = StackTo(s, h)
  OBVIOUS
<1>10. /\ q \in Seq(Waiting) /\ Len(q) = h /\ DOMAIN q = 1..h /\ \A i \in 1..h : q[i] = s[i]
       /\ h <= l
  BY <1>1, <1>9, StackToIs
<1>11. c = [text |-> u, rodata |-> e, stack |-> q]
  BY <1>1, <1>2, <1>3, <1>4, <1>6, <1>9
<1>12. c \in Buffers /\ c.text = u /\ c.rodata = e /\ c.stack = q
  BY <1>5, <1>7, <1>10, <1>11 DEF Buffers, Waiting
<1>13. \A i \in 1..l : i \in 1..h \/ s[i].ins.op = "app"
  BY <1>1
<1>14. Jumps(c)
  <2>1. /\ DOMAIN t \subseteq DOMAIN u
        /\ \A i \in DOMAIN u \ DOMAIN t : u[i].op \notin {"sa", "del"}
        /\ \A i \in DOMAIN t : u[i] = t[i]
    <3>1. \A i \in 1..(kt + 2) : i \in 1..kt \/ i = kt + 1 \/ i = kt + 2
      OBVIOUS
    <3>2. 1..kt \subseteq 1..(kt + 2)
      OBVIOUS
    <3> QED BY <1>2, <1>5, <3>1, <3>2
  <2>2. /\ DOMAIN q \subseteq DOMAIN s /\ \A i \in DOMAIN q : q[i] = s[i]
        /\ \A i \in DOMAIN s \ DOMAIN q : s[i].ins.op # "la"
    <3>1. 1..h \subseteq 1..l
      BY <1>10
    <3> QED BY <1>1, <1>10, <1>13, <3>1
  <2>3. /\ DOMAIN b.text \subseteq DOMAIN c.text /\ \A i \in DOMAIN b.text : c.text[i] = b.text[i]
        /\ \A i \in DOMAIN c.text \ DOMAIN b.text : c.text[i].op \notin {"sa", "del"}
    BY <1>2, <1>12, <2>1
  <2>4. /\ DOMAIN c.stack \subseteq DOMAIN b.stack /\ \A i \in DOMAIN c.stack : c.stack[i] = b.stack[i]
        /\ \A i \in DOMAIN b.stack \ DOMAIN c.stack : b.stack[i].ins.op # "la"
    BY <1>1, <1>12, <2>2
  <2> QED BY <1>12, <2>3, <2>4, JumpsKept
<1>15. Strings(c)
  <2>1. /\ kd > 0 => d[kd] = NUL
        /\ \A i \in 1..kt : t[i].op = "lc" =>
             \E o \in 0..(kd - 1) : t[i].offset = Swap32(o) /\ (o = 0 \/ d[o] = NUL)
    <3>1. d # <<>> => d[kd] = NUL
      BY <1>3 DEF Sound, Strings
    <3>2. kd > 0 => d # <<>>
      BY <1>3
    <3>3. \A i \in DOMAIN t : t[i].op = "lc" =>
             \E o \in 0..(kd - 1) : t[i].offset = Swap32(o) /\ (o = 0 \/ d[o] = NUL)
      BY <1>2, <1>3 DEF Sound, Strings
    <3> QED BY <1>2, <3>1, <3>2, <3>3
  <2>2. ASSUME NEW i \in 1..(kt + 2), u[i].op = "lc"
        PROVE  \E o \in 0..(kd + n) : u[i].offset = Swap32(o) /\ (o = 0 \/ e[o] = NUL)
    <3>1. CASE i \in 1..kt
      <4>1. PICK o \in 0..(kd - 1) : t[i].offset = Swap32(o) /\ (o = 0 \/ d[o] = NUL)
        BY <1>5, <2>1, <2>2, <3>1
      <4>2. o \in 0..(kd + n) /\ (o = 0 \/ o \in 1..kd)
        OBVIOUS
      <4>3. o = 0 \/ e[o] = NUL
        BY <1>7, <4>1, <4>2
      <4> QED BY <1>5, <3>1, <4>1, <4>2, <4>3
    <3>2. CASE i = kt + 1
      <4>1. kd \in 0..(kd + n) /\ (kd = 0 \/ (kd \in 1..kd /\ kd > 0))
        OBVIOUS
      <4>2. kd = 0 \/ e[kd] = NUL
        BY <1>7, <2>1, <4>1
      <4>3. u[i].offset = Swap32(kd)
        BY <1>3, <1>5, <3>2
      <4> QED BY <4>1, <4>2, <4>3
    <3>3. CASE i = kt + 2
      BY <1>5, <2>2, <3>3
    <3> QED BY <3>1, <3>2, <3>3
  <2>3. PICK m \in Nat : m = Len(e) /\ m - 1 = kd + n /\ e[m] = NUL
    <3>1. kd + n + 1 \in Nat /\ (kd + n + 1) - 1 = kd + n
      OBVIOUS
    <3> QED BY <1>7, <3>1
  <2>4. \A i \in DOMAIN u : u[i].op = "lc" =>
          \E o \in 0..(m - 1) : u[i].offset = Swap32(o) /\ (o = 0 \/ e[o] = NUL)
    <3>1. DOMAIN u = 1..(kt + 2) /\ 0..(m - 1) = 0..(kd + n)
      BY <1>5, <2>3
    <3> QED BY <2>2, <3>1
  <2> QED BY <1>12, <2>3, <2>4, SMTT(20) DEF Strings
<1>16. Sas(c) = Sas(b)
  <2>1. \A i \in 1..l : s[i].ins.op = "sa" => i \in 1..h
    BY <1>13
  <2>2. \A i \in 1..h : i \in 1..l /\ q[i] = s[i]
    BY <1>10
  <2> QED BY <1>1, <1>10, <1>12, <2>1, <2>2 DEF Sas
<1> QED BY <1>1, <1>2, <1>3, <1>5, <1>7, <1>10, <1>12, <1>14, <1>15, <1>16 DEF Sound

(* Both children are leaves: one instruction more, or a string.            *)
IsString(b, str, h, c) ==
  /\ Sound(c) /\ Len(c.text) = Len(b.text) + 2
  /\ Len(c.rodata) = Len(b.rodata) + Len(str) + 1
  /\ Len(c.stack) = h
  /\ Cardinality(Sas(c)) = Cardinality(Sas(b))

(* The same, told as one predicate.                                        *)
LEMMA StringIs ==
  ASSUME NEW b, Sound(b), NEW x \in Ins, NEW y \in Ins, x.op = "lc", y.op = "app",
         x.offset = Swap32(Len(b.rodata)),
         NEW h \in Nat, h <= Len(b.stack),
         \A i \in DOMAIN b.stack : i <= h \/ b.stack[i].ins.op = "app",
         NEW str \in Seq(0..255)
  PROVE  IsString(b, str, h, [text   |-> TextWith(b.text, x, y),
                              rodata |-> DataWith(b.rodata, str),
                              stack  |-> StackTo(b.stack, h)])
<1>1. PICK c : c = [text   |-> TextWith(b.text, x, y), rodata |-> DataWith(b.rodata, str),
                    stack  |-> StackTo(b.stack, h)]
  OBVIOUS
<1>2. /\ Sound(c) /\ Len(c.text) = Len(b.text) + 2
      /\ Len(c.rodata) = Len(b.rodata) + Len(str) + 1
      /\ Len(c.stack) = h
      /\ Cardinality(Sas(c)) = Cardinality(Sas(b))
  BY <1>1, StringDoes
<1>3. IsString(b, str, h, c)
  BY <1>2, Zenon DEF IsString
<1> QED BY <1>1, <1>3

(* The characters of n prints behind the one of a leaf.                    *)
Chars(l, s, top, n) == <<l.ch>> \o [i \in 1..n |-> s[top - i + 1].ins.first.ch]

(* The characters of a run of prints are one more than the run.            *)
LEMMA CharsAre ==
  ASSUME NEW l \in Token, NEW s \in Seq(Waiting), NEW n \in Nat, n <= Len(s)
  PROVE  Chars(l, s, Len(s), n) \in Seq(0..255) /\ Len(Chars(l, s, Len(s), n)) = n + 1
<1>1. PICK top \in Nat : top = Len(s) /\ DOMAIN s = 1..top
  BY LenProperties
<1>2. PICK z \in Seq(0..255) : z = <<l.ch>> /\ Len(z) = 1
  <2>1. l.ch \in 0..255
    BY DEF Token
  <2>2. <<l.ch>> \in Seq(0..255) /\ Len(<<l.ch>>) = 1
    BY <2>1
  <2> QED BY <2>2
<1>3. PICK f : f = [i \in 1..n |-> s[top - i + 1].ins.first.ch]
  OBVIOUS
<1>4. ASSUME NEW i \in 1..n PROVE f[i] \in 0..255
  <2>1. PICK j \in 1..top : j = top - i + 1
    <3>1. top - i + 1 \in 1..top
      BY <1>1
    <3> QED BY <3>1
  <2>2. s[j] \in Waiting
    BY <1>1, <2>1, ElementOfSeq
  <2>3. PICK t : t = s[j].ins.first
    OBVIOUS
  <2>4. t \in Token \/ t = NoTok
    BY <2>2, <2>3 DEF Waiting, Ins, Leaves
  <2>5. t.ch \in 0..255
    <3>1. CASE t \in Token
      BY <3>1 DEF Token
    <3>2. CASE t = NoTok
      <4>1. t = [fn |-> "", ch |-> 0]
        BY <3>2 DEF NoTok, Tok, NUL
      <4>2. t.ch = 0
        BY <4>1, Zenon
      <4> QED BY <4>2
    <3> QED BY <2>4, <3>1, <3>2
  <2> QED BY <1>3, <2>1, <2>3, <2>5
<1>5. f \in Seq(0..255) /\ Len(f) = n
  <2>1. DOMAIN f = 1..n /\ f = [i \in DOMAIN f |-> f[i]]
    BY <1>3
  <2>2. PICK B : B = 0..255
    OBVIOUS
  <2>3. \A i \in 1..n : f[i] \in B
    BY <1>4, <2>2
  <2>4. f \in Seq(B) /\ Len(f) = n
    BY <2>1, <2>3, SeqIs
  <2> QED BY <2>2, <2>4
<1>6. z \o f \in Seq(0..255) /\ Len(z \o f) = Len(z) + Len(f)
  BY <1>5, ConcatProperties, ZenonT(40)
<1>7. Len(z) + Len(f) = n + 1
  BY <1>2, <1>5
<1>8. Chars(l, s, top, n) = z \o f
  BY <1>2, <1>3 DEF Chars
<1> QED BY <1>1, <1>6, <1>7, <1>8

(* The buffers grow by no more than k entries, of text and stack with a    *)
(* place for every sa that waits, and of data and stack.                   *)
Grows(b, c, k) ==
  /\ Len(c.text) + Len(c.stack) + Cardinality(Sas(c))
       <= Len(b.text) + Len(b.stack) + Cardinality(Sas(b)) + k
  /\ Len(c.rodata) + Len(c.stack) <= Len(b.rodata) + Len(b.stack) + k

IsLeafApp(b, c) ==
  /\ Sound(c) /\ Cardinality(Sas(c)) = Cardinality(Sas(b))
  /\ Len(c.text) + Len(c.stack) <= Len(b.text) + Len(b.stack) + 1
  /\ Len(c.rodata) + Len(c.stack) <= Len(b.rodata) + Len(b.stack) + 2

(* An application of a leaf to a leaf keeps the buffers sound.             *)
LEMMA LeafAppDoes ==
  ASSUME NEW b, Sound(b), NEW l \in Leaves, NEW r \in Leaves, NEW o
  PROVE  IsLeafApp(b, LeafApp(b, l, r, o))
<1>0. PICK c : c = LeafApp(b, l, r, o)
  OBVIOUS
<1>1. PICK s \in Seq(Waiting), top \in Nat, kt \in Nat, kd \in Nat :
        s = b.stack /\ DOMAIN s = 1..top /\
        top = Len(b.stack) /\ kt = Len(b.text) /\ kd = Len(b.rodata)
  BY Sizes DEF Sound
<1>2. PICK n \in Nat : n = PrintRun(b.stack)
  BY PrintRunIs DEF Sound
<1>3. n <= top /\ \A i \in (top - n + 1)..top : s[i].ins.op = "app"
  BY <1>1, <1>2, PrintRunIs DEF Sound
<1>4. PICK y \in Ins : y = AppIns(NoTok, r) /\ y.op = "app"
  <2>1. AppIns(NoTok, r) \in Ins /\ AppIns(NoTok, r).op = "app"
    <3>1. PICK Z : Z = Leaves \cup {NoTok}
      OBVIOUS
    <3>2. r \in Z /\ NoTok \in Z
      BY <3>1
    <3>3. \A t \in Z, u \in Z : AppIns(t, u) \in Ins /\ AppIns(t, u).op = "app"
      BY <3>1, InsType
    <3> QED BY <3>2, <3>3, Zenon
  <2> QED BY <2>1
<1>5. CASE o /\ l.fn = "out" /\ n + 1 >= OptimizeStrMinLen
  <2>2. PICK x \in Ins : x = OpIns("lc", Swap32(kd)) /\ x.op = "lc" /\ x.offset = Swap32(kd)
    <3>1. Swap32(kd) \in Nat
      BY <1>1, SwapType
    <3>2. OpIns("lc", Swap32(kd)) \in Ins /\ OpIns("lc", Swap32(kd)).op = "lc"
            /\ OpIns("lc", Swap32(kd)).offset = Swap32(kd)
      BY <3>1, InsType
    <3> QED BY <3>2
  <2>4. PICK h \in Nat : h = top - n /\ h <= top
    <3>1. top - n \in Nat /\ top - n <= top
      BY <1>3
    <3> QED BY <3>1
  <2>5. PICK str \in Seq(0..255) : str = Chars(l, s, top, n) /\ Len(str) = n + 1
    <3>1. Chars(l, s, Len(s), n) \in Seq(0..255) /\ Len(Chars(l, s, Len(s), n)) = n + 1
      <4>1. l \in Token
        BY DEF Leaves
      <4> QED BY <1>1, <1>3, <4>1, CharsAre
    <3> QED BY <1>1, <3>1
  <2>6. c = [text   |-> TextWith(b.text, x, y), rodata |-> DataWith(b.rodata, str),
             stack  |-> StackTo(b.stack, h)]
    BY <1>0, <1>1, <1>2, <1>4, <1>5, <2>2, <2>4, <2>5
       DEF LeafApp, TextWith, DataWith, StackTo, Chars
  <2>7. \A i \in DOMAIN b.stack : i <= h \/ b.stack[i].ins.op = "app"
    <3>1. \A i \in 1..top : i <= h \/ i \in (top - n + 1)..top
      BY <2>4
    <3> QED BY <1>1, <1>3, <3>1
  <2>8. IsString(b, str, h, c)
    <3>1. h <= Len(b.stack) /\ x.offset = Swap32(Len(b.rodata))
      BY <1>1, <2>2, <2>4
    <3> QED BY <1>4, <2>2, <2>6, <2>7, <3>1, StringIs
  <2>9. /\ Sound(c) /\ Cardinality(Sas(c)) = Cardinality(Sas(b))
        /\ Len(c.text) = kt + 2 /\ Len(c.rodata) = kd + (n + 1) + 1 /\ Len(c.stack) = h
    BY <1>1, <2>5, <2>8 DEF IsString
  <2>10. n >= 3
    BY <1>5 DEF OptimizeStrMinLen
  <2>11. kt + 2 + h <= kt + top + 1 /\ kd + (n + 1) + 1 + h <= kd + top + 2
    BY <1>3, <2>4, <2>10
  <2>12. /\ Len(c.text) + Len(c.stack) = kt + 2 + h
         /\ Len(c.rodata) + Len(c.stack) = kd + (n + 1) + 1 + h
    BY <2>9, Zenon
  <2> QED BY <1>0, <1>1, <2>9, <2>11, <2>12 DEF IsLeafApp
<1>6. CASE ~(o /\ l.fn = "out" /\ n + 1 >= OptimizeStrMinLen)
  <2>1. PICK ins \in Ins : ins = AppIns(l, r) /\ ins.op = "app"
    <3>1. AppIns(l, r) \in Ins /\ AppIns(l, r).op = "app"
      BY InsType
    <3> QED BY <3>1
  <2>2. c = [b EXCEPT !.text = Append(b.text, ins)]
    BY <1>0, <1>2, <1>6, <2>1 DEF LeafApp
  <2>3. /\ Sound(c) /\ c.rodata = b.rodata /\ c.stack = b.stack
        /\ Len(c.text) = Len(b.text) + 1
        /\ Cardinality(Sas(c)) = Cardinality(Sas(b))
    BY <2>1, <2>2, PlainDoes
  <2>4. Len(c.text) = kt + 1 /\ Len(c.rodata) = kd /\ Len(c.stack) = top
    BY <1>1, <2>3
  <2>5. /\ Len(c.text) + Len(c.stack) <= Len(b.text) + Len(b.stack) + 1
        /\ Len(c.rodata) + Len(c.stack) <= Len(b.rodata) + Len(b.stack) + 2
    <3>1. kt + 1 + top <= kt + top + 1 /\ kd + top <= kd + top + 2
      OBVIOUS
    <3> QED BY <1>1, <2>4, <3>1, Zenon
  <2> QED BY <1>0, <2>3, <2>5 DEF IsLeafApp
<1> QED BY <1>5, <1>6

(* The buffers after a node, with k entries more: one sa more or fewer, or *)
(* nothing that waits any more.                                            *)
IsNext(b, c, k) == Sound(c) /\ Grows(b, c, k)
Deeper(b, c)    == Cardinality(Sas(c)) = Cardinality(Sas(b)) + 1
Even(b, c)      == Cardinality(Sas(c)) = Cardinality(Sas(b))
Back(b, c)      == \/ c.stack = <<>> /\ Cardinality(Sas(b)) = 0
                   \/ Cardinality(Sas(b)) = Cardinality(Sas(c)) + 1

(* What a node of each kind costs: a waiting instruction.                  *)
LEMMA PushIsNext ==
  ASSUME NEW b, Sound(b), NEW ins \in Ins, ins.op \in {"app", "sa"}
  PROVE  /\ IsNext(b, PushIns(b, ins), 2)
         /\ ins.op = "sa" => Deeper(b, PushIns(b, ins))
         /\ ins.op = "app" => Even(b, PushIns(b, ins))
<1>1. PICK d : d = PushIns(b, ins)
  OBVIOUS
<1>2. PICK top \in Nat, kt \in Nat, kd \in Nat, ks \in Nat :
        /\ top = Len(b.stack) /\ kt = Len(b.text) /\ kd = Len(b.rodata)
        /\ ks = Cardinality(Sas(b))
  BY Sizes DEF Sound
<1>3. PICK e \in {0, 1} : e = IF ins.op = "sa" THEN 1 ELSE 0
  OBVIOUS
<1>4. /\ Sound(d) /\ d.text = b.text /\ d.rodata = b.rodata
      /\ Len(d.stack) = Len(b.stack) + 1
      /\ Cardinality(Sas(d)) = Cardinality(Sas(b)) + (IF ins.op = "sa" THEN 1 ELSE 0)
  BY <1>1, PushDoes
<1>5. /\ Len(d.text) = kt /\ Len(d.rodata) = kd /\ Len(d.stack) = top + 1
      /\ Cardinality(Sas(d)) = ks + e
  BY <1>2, <1>3, <1>4
<1>6. Grows(b, d, 2)
  <2>1. kt + (top + 1) + (ks + e) <= kt + top + ks + 2 /\ kd + (top + 1) <= kd + top + 2
    BY <1>3
  <2> QED BY <1>2, <1>5, <2>1, Zenon DEF Grows
<1>7. (ins.op = "sa" => Deeper(b, d)) /\ (ins.op = "app" => Even(b, d))
  BY <1>2, <1>3, <1>5 DEF Deeper, Even
<1> QED BY <1>1, <1>4, <1>6, <1>7 DEF IsNext

(* A del, and the la that waits to set it.                                 *)
LEMMA EmitIsNext ==
  ASSUME NEW b, Sound(b)
  PROVE  /\ IsNext(b, EmitAndPush(b, OpIns("del", 0), OpIns("la", 0)), 2)
         /\ Even(b, EmitAndPush(b, OpIns("del", 0), OpIns("la", 0)))
<1>1. PICK d : d = EmitAndPush(b, OpIns("del", 0), OpIns("la", 0))
  OBVIOUS
<1>2. PICK top \in Nat, kt \in Nat, kd \in Nat, ks \in Nat :
        /\ top = Len(b.stack) /\ kt = Len(b.text) /\ kd = Len(b.rodata)
        /\ ks = Cardinality(Sas(b))
  BY Sizes DEF Sound
<1>3. /\ Sound(d) /\ d.rodata = b.rodata
      /\ Len(d.text) = Len(b.text) + 1 /\ Len(d.stack) = Len(b.stack) + 1
      /\ Cardinality(Sas(d)) = Cardinality(Sas(b))
  BY <1>1, EmitDoes
<1>4. /\ Len(d.text) = kt + 1 /\ Len(d.rodata) = kd /\ Len(d.stack) = top + 1
      /\ Cardinality(Sas(d)) = ks
  BY <1>2, <1>3
<1>5. Grows(b, d, 2) /\ Even(b, d)
  <2>1. kt + 1 + (top + 1) + ks <= kt + top + ks + 2 /\ kd + (top + 1) <= kd + top + 2
    OBVIOUS
  <2> QED BY <1>2, <1>4, <2>1, Zenon DEF Grows, Even
<1> QED BY <1>1, <1>3, <1>5 DEF IsNext

(* A leaf application, and what follows it up to the last sa.              *)
LEMMA LeafIsNext ==
  ASSUME NEW b, Sound(b), NEW l \in Leaves, NEW r \in Leaves, NEW o
  PROVE  /\ IsNext(b, Drain(LeafApp(b, l, r, o)), 2)
         /\ Back(b, Drain(LeafApp(b, l, r, o)))
<1>1. PICK d : d = LeafApp(b, l, r, o)
  OBVIOUS
<1>2. PICK c : c = Drain(d)
  OBVIOUS
<1>3. /\ Sound(d) /\ Cardinality(Sas(d)) = Cardinality(Sas(b))
      /\ Len(d.text) + Len(d.stack) <= Len(b.text) + Len(b.stack) + 1
      /\ Len(d.rodata) + Len(d.stack) <= Len(b.rodata) + Len(b.stack) + 2
  <2>1. IsLeafApp(b, d)
    BY <1>1, LeafAppDoes
  <2> QED BY <2>1 DEF IsLeafApp
<1>4. /\ Sound(c) /\ c.rodata = d.rodata
      /\ Len(c.text) + Len(c.stack) + Cardinality(Sas(c)) =
           Len(d.text) + Len(d.stack) + Cardinality(Sas(d))
      /\ Len(c.stack) <= Len(d.stack)
      /\ \/ c.stack = <<>> /\ Cardinality(Sas(d)) = 0
         \/ Cardinality(Sas(d)) = Cardinality(Sas(c)) + 1
  BY <1>2, <1>3, DrainDoes
<1>5. PICK top \in Nat, kt \in Nat, kd \in Nat, ks \in Nat :
        /\ top = Len(b.stack) /\ kt = Len(b.text) /\ kd = Len(b.rodata)
        /\ ks = Cardinality(Sas(b))
  BY Sizes DEF Sound
<1>6. PICK dt \in Nat, dd \in Nat, ds \in Nat :
        dt = Len(d.text) /\ dd = Len(d.rodata) /\ ds = Len(d.stack)
  BY <1>3, Sizes DEF Sound
<1>7. PICK ct \in Nat, cd \in Nat, cs \in Nat, cn \in Nat :
        /\ ct = Len(c.text) /\ cd = Len(c.rodata) /\ cs = Len(c.stack)
        /\ cn = Cardinality(Sas(c))
  BY <1>4, Sizes DEF Sound
<1>8. /\ dt + ds <= kt + top + 1 /\ dd + ds <= kd + top + 2
      /\ ct + cs + cn = dt + ds + ks /\ cs <= ds /\ cd = dd
  BY <1>3, <1>4, <1>5, <1>6, <1>7
<1>9. ct + cs + cn <= kt + top + ks + 2 /\ cd + cs <= kd + top + 2
  BY <1>8
<1>10. Grows(b, c, 2)
  BY <1>5, <1>7, <1>9 DEF Grows
<1>11. Back(b, c)
  BY <1>3, <1>4, Zenon DEF Back
<1> QED BY <1>1, <1>2, <1>4, <1>10, <1>11 DEF IsNext

(* An application costs two entries at most, and an sa more or less as its *)
(* children are applications or leaves.                                    *)
LEMMA GenNodeDoes ==
  ASSUME NEW b, Sound(b), NEW a, NEW n, NEW o, IsApp(a[n].tok),
         a[n + 1].tok \in Token, a[a[n + 1].sibling].tok \in Token
  PROVE  /\ IsNext(b, GenNode(b, a, n, o), 2)
         /\ IsApp(a[n + 1].tok) /\ IsApp(a[a[n + 1].sibling].tok) =>
              Deeper(b, GenNode(b, a, n, o))
         /\ IsApp(a[n + 1].tok) /\ ~IsApp(a[a[n + 1].sibling].tok) =>
              Even(b, GenNode(b, a, n, o))
         /\ ~IsApp(a[n + 1].tok) /\ IsApp(a[a[n + 1].sibling].tok) =>
              Even(b, GenNode(b, a, n, o))
         /\ ~IsApp(a[n + 1].tok) /\ ~IsApp(a[a[n + 1].sibling].tok) =>
              Back(b, GenNode(b, a, n, o))
<1>1. PICK l \in Token, r \in Token : l = a[n + 1].tok /\ r = a[a[n + 1].sibling].tok
  OBVIOUS
<1>2. PICK c : c = GenNode(b, a, n, o)
  OBVIOUS
<1>3. CASE IsApp(l) /\ IsApp(r)
  <2>1. c = PushIns(b, OpIns("sa", 0))
    BY <1>1, <1>2, <1>3 DEF GenNode
  <2>2. OpIns("sa", 0) \in Ins /\ OpIns("sa", 0).op = "sa"
    BY InsType
  <2>3. IsNext(b, c, 2) /\ Deeper(b, c)
    BY <2>1, <2>2, PushIsNext
  <2> QED BY <1>1, <1>2, <1>3, <2>3
<1>4. CASE IsApp(l) /\ ~IsApp(r)
  <2>1. c = PushIns(b, AppIns(NoTok, r))
    BY <1>1, <1>2, <1>4 DEF GenNode
  <2>2. AppIns(NoTok, r) \in Ins /\ AppIns(NoTok, r).op = "app"
    BY <1>4, InsType DEF Leaves
  <2>3. IsNext(b, c, 2) /\ Even(b, c)
    BY <2>1, <2>2, PushIsNext
  <2> QED BY <1>1, <1>2, <1>4, <2>3
<1>5. CASE ~IsApp(l) /\ IsApp(r)
  <2>1. c = LeafToApp(b, l)
    BY <1>1, <1>2, <1>5 DEF GenNode
  <2>2. AppIns(l, NoTok) \in Ins /\ AppIns(l, NoTok).op = "app"
    BY <1>5, InsType DEF Leaves
  <2>3. IsNext(b, c, 2) /\ Even(b, c)
    <3>1. CASE l.fn = "d"
      BY <2>1, <3>1, EmitIsNext DEF LeafToApp
    <3>2. CASE l.fn # "d"
      BY <2>1, <2>2, <3>2, PushIsNext DEF LeafToApp
    <3> QED BY <3>1, <3>2
  <2> QED BY <1>1, <1>2, <1>5, <2>3
<1>6. CASE ~IsApp(l) /\ ~IsApp(r)
  <2>1. c = Drain(LeafApp(b, l, r, o))
    BY <1>1, <1>2, <1>6 DEF GenNode
  <2>2. IsNext(b, c, 2) /\ Back(b, c)
    <3>1. l \in Leaves /\ r \in Leaves
      BY <1>6 DEF Leaves
    <3> QED BY <2>1, <3>1, LeafIsNext
  <2> QED BY <1>1, <1>2, <1>6, <2>2
<1> QED BY <1>3, <1>4, <1>5, <1>6

-----------------------------------------------------------------------------
(* The tree, node by node.                                                 *)

(* An application has two children, of no other application.               *)
LEMMA TreeNode ==
  ASSUME NEW a, IsTree(a), NEW n \in 1..Len(a), IsApp(a[n].tok)
  PROVE  /\ a[n + 1].sibling \in (n + 2)..Len(a) /\ n + 1 \in 1..Len(a)
         /\ a[n + 1].tok \in Token /\ a[a[n + 1].sibling].tok \in Token
<1>0. PICK sib : sib = a[n + 1].sibling
  OBVIOUS
<1>1. PICK l \in Nat : /\ l = Len(a) /\ DOMAIN a = 1..l
                       /\ \A i \in 1..l : a[i].tok \in Token
  <2>1. PICK N : N = [tok : Token, sibling : Nat]
    OBVIOUS
  <2>2. a \in Seq(N)
    BY <2>1 DEF IsTree
  <2>3. Len(a) \in Nat /\ DOMAIN a = 1..Len(a) /\ \A i \in 1..Len(a) : a[i] \in N
    BY <2>2, LenProperties, ElementOfSeq
  <2>4. \A i \in 1..Len(a) : a[i].tok \in Token
    BY <2>1, <2>3
  <2> QED BY <2>3, <2>4
<1>2. n + 1 \in DOMAIN a /\ a[n + 1].sibling \in (n + 2)..Len(a)
  BY <1>1 DEF IsTree
<1>3. sib \in 1..l /\ n + 1 \in 1..l
  BY <1>0, <1>1, <1>2
<1> QED BY <1>0, <1>1, <1>2, <1>3

(* The children so far are nodes of the tree, the first one is none.       *)
LEMMA KidsAre ==
  ASSUME NEW a, IsTree(a), NEW n \in 1..(Len(a) + 1)
  PROVE  /\ Kids(a, n) \subseteq 2..Len(a)
         /\ IsFiniteSet(Kids(a, n)) /\ Cardinality(Kids(a, n)) \in Nat
         /\ Cardinality(Kids(a, n)) <= Len(a) - 1
         /\ IsFiniteSet(Open(a, n)) /\ Cardinality(Open(a, n)) \in Nat
<1>1. PICK l \in Nat : l = Len(a) /\ l > 0
  <2>1. a \in Seq([tok : Token, sibling : Nat]) /\ a # <<>>
    BY DEF IsTree
  <2> QED BY <2>1
<1>2. ASSUME NEW m \in Kids(a, n) PROVE m \in 2..l
  <2>1. PICK i \in 1..(n - 1) : IsApp(a[i].tok) /\ m \in Children(a, i)
    BY DEF Kids
  <2>2. i \in 1..Len(a)
    BY <1>1
  <2>3. a[i + 1].sibling \in (i + 2)..Len(a) /\ i + 1 \in 1..Len(a)
    BY <2>1, <2>2, TreeNode
  <2> QED BY <1>1, <2>1, <2>3 DEF Children
<1>3. IsFiniteSet(2..l) /\ Cardinality(2..l) = l - 1
  <2>1. IsFiniteSet(2..l) /\ Cardinality(2..l) = IF 2 > l THEN 0 ELSE l - 2 + 1
    BY FS_Interval
  <2> QED BY <1>1, <2>1
<1>4. /\ IsFiniteSet(Kids(a, n)) /\ Cardinality(Kids(a, n)) \in Nat
      /\ Cardinality(Kids(a, n)) <= l - 1
  BY <1>2, <1>3, FS_Subset, FS_CardinalityType
<1>5. IsFiniteSet(1..l)
  BY FS_Interval
<1>6. Open(a, n) \subseteq 1..l
  BY <1>1 DEF Open
<1>7. IsFiniteSet(Open(a, n)) /\ Cardinality(Open(a, n)) \in Nat
  BY <1>5, <1>6, FS_Subset, FS_CardinalityType
<1> QED BY <1>1, <1>2, <1>4, <1>7

(* Before the first node.                                                  *)
LEMMA KidsFirst ==
  ASSUME NEW a, IsTree(a)
  PROVE  Kids(a, 1) = {} /\ Open(a, 1) = {1} /\ Cardinality(Open(a, 1)) = 1
<1>1. Kids(a, 1) = {}
  <2>1. 1..(1 - 1) = {}
    OBVIOUS
  <2> QED BY <2>1 DEF Kids
<1>2. PICK l \in Nat : l = Len(a) /\ l > 0
  <2>1. a \in Seq([tok : Token, sibling : Nat]) /\ a # <<>>
    BY DEF IsTree
  <2> QED BY <2>1
<1>3. Open(a, 1) = {1}
  BY <1>1, <1>2 DEF Open, IsTree
<1> QED BY <1>1, <1>3, FS_Singleton

(* Behind the last one nothing is to come.                                 *)
LEMMA OpenLast ==
  ASSUME NEW a, Len(a) \in Nat
  PROVE  Open(a, Len(a) + 1) = {}
BY DEF Open

(* A node that is no application adds nothing.                             *)
LEMMA KidsLeaf ==
  ASSUME NEW a, IsTree(a), NEW n \in 1..Len(a), ~IsApp(a[n].tok)
  PROVE  Kids(a, n + 1) = Kids(a, n) /\ Open(a, n + 1) = Open(a, n)
<1>1. PICK l \in Nat : l = Len(a)
  <2>1. a \in Seq([tok : Token, sibling : Nat])
    BY DEF IsTree
  <2> QED BY <2>1
<1>2. {i \in 1..((n + 1) - 1) : IsApp(a[i].tok)} = {i \in 1..(n - 1) : IsApp(a[i].tok)}
  OBVIOUS
<1>3. Kids(a, n + 1) = Kids(a, n)
  BY <1>2, Zenon DEF Kids
<1>4. \A m \in n..l : m = n \/ m \in (n + 1)..l
  OBVIOUS
<1>5. (n + 1)..l \subseteq n..l
  OBVIOUS
<1> QED BY <1>1, <1>3, <1>4, <1>5 DEF Open

(* An application adds two children, and takes the place among the         *)
(* applications to come of those among them that are applications.         *)
LEMMA KidsApp ==
  ASSUME NEW a, IsTree(a), NEW n \in 1..Len(a), IsApp(a[n].tok)
  PROVE  /\ Cardinality(Kids(a, n + 1)) = Cardinality(Kids(a, n)) + 2
         /\ n \in Open(a, n)
         /\ IsApp(a[n + 1].tok) /\ IsApp(a[a[n + 1].sibling].tok) =>
              Cardinality(Open(a, n + 1)) = Cardinality(Open(a, n)) + 1
         /\ IsApp(a[n + 1].tok) /\ ~IsApp(a[a[n + 1].sibling].tok) =>
              Cardinality(Open(a, n + 1)) = Cardinality(Open(a, n))
         /\ ~IsApp(a[n + 1].tok) /\ IsApp(a[a[n + 1].sibling].tok) =>
              Cardinality(Open(a, n + 1)) = Cardinality(Open(a, n))
         /\ ~IsApp(a[n + 1].tok) /\ ~IsApp(a[a[n + 1].sibling].tok) =>
              Cardinality(Open(a, n + 1)) = Cardinality(Open(a, n)) - 1
<1>1. PICK l \in Nat, sib \in Nat, k \in Nat : l = Len(a) /\ DOMAIN a = 1..l /\ k = n + 1 /\ sib = a[k].sibling
  <2>1. a \in Seq([tok : Token, sibling : Nat])
    BY DEF IsTree
  <2>2. Len(a) \in Nat /\ DOMAIN a = 1..Len(a)
    BY <2>1
  <2>3. a[n + 1].sibling \in Nat
    BY TreeNode
  <2>4. n \in Nat /\ n + 1 \in Nat
    BY <2>2
  <2> QED BY <2>2, <2>3, <2>4
<1>2. k = n + 1 /\ k \in 1..l /\ sib \in (n + 2)..l /\ Children(a, n) = {k, sib}
  BY <1>1, TreeNode DEF Children
<1>3. PICK K, O : K = Kids(a, n) /\ O = Open(a, n)
  OBVIOUS
<1>4. /\ K \subseteq 2..l /\ IsFiniteSet(K) /\ Cardinality(K) \in Nat
      /\ IsFiniteSet(O) /\ Cardinality(O) \in Nat
  BY <1>1, <1>3, KidsAre
<1>5. k \notin K /\ sib \notin K
  <2>1. ASSUME NEW m \in K PROVE m \notin Children(a, n)
    <3>1. PICK i \in 1..(n - 1) : IsApp(a[i].tok) /\ m \in Children(a, i)
      BY <1>3 DEF Kids
    <3>2. i \in DOMAIN a /\ n \in DOMAIN a /\ i # n
      BY <1>1
    <3>3. Children(a, i) \cap Children(a, n) = {}
      BY <3>1, <3>2 DEF IsTree
    <3> QED BY <3>1, <3>3
  <2> QED BY <1>2, <2>1
<1>6. Kids(a, n + 1) = (K \cup {k}) \cup {sib}
  <2>1. {i \in 1..((n + 1) - 1) : IsApp(a[i].tok)} = {i \in 1..(n - 1) : IsApp(a[i].tok)} \cup {n}
    OBVIOUS
  <2>2. Kids(a, n + 1) = K \cup Children(a, n)
    BY <1>3, <2>1, Zenon DEF Kids
  <2> QED BY <1>2, <2>2
<1>7. Cardinality(Kids(a, n + 1)) = Cardinality(Kids(a, n)) + 2
  <2>1. /\ IsFiniteSet(K \cup {k}) /\ Cardinality(K \cup {k}) = Cardinality(K) + 1
    BY <1>4, <1>5, FS_AddElement
  <2>2. sib \notin K \cup {k}
    BY <1>2, <1>5
  <2>3. Cardinality((K \cup {k}) \cup {sib}) = Cardinality(K \cup {k}) + 1
    BY <2>1, <2>2, FS_AddElement
  <2>4. Cardinality(Kids(a, n + 1)) = (Cardinality(K) + 1) + 1
    BY <1>6, <2>1, <2>3
  <2> QED BY <1>3, <1>4, <2>4
<1>8. n \in O
  <2>1. CASE n = 1
    BY <1>1, <1>3, <2>1 DEF Open
  <2>2. CASE n # 1
    <3>1. PICK i \in 1..(n - 1) : IsApp(a[i].tok) /\ n \in Children(a, i)
      BY <1>1, <2>2 DEF IsTree
    <3>2. n \in K
      BY <1>3, <3>1 DEF Kids
    <3> QED BY <1>1, <1>3, <3>2 DEF Open
  <2> QED BY <2>1, <2>2
<1>9. PICK P, R : P = O \ {n} /\ R = Open(a, n + 1)
  OBVIOUS
<1>10. IsFiniteSet(P) /\ Cardinality(P) = Cardinality(O) - 1 /\ k \notin P /\ sib \notin P
  <2>1. IsFiniteSet(P) /\ Cardinality(P) = Cardinality(O) - 1
    BY <1>4, <1>8, <1>9, FS_RemoveElement
  <2>2. k # 1 /\ sib # 1
    BY <1>2
  <2>3. k \notin O /\ sib \notin O
    BY <1>3, <1>5, <2>2 DEF Open
  <2> QED BY <1>9, <2>1, <2>3
<1>11. \A m : m \in R <=> m \in P \/ (m \in {k, sib} /\ IsApp(a[m].tok))
  <2>1. \A m : m \in R <=> m \in (n + 1)..l /\ IsApp(a[m].tok) /\ (m = 1 \/ m \in K \/ m = k \/ m = sib)
    BY <1>1, <1>6, <1>9 DEF Open
  <2>2. \A m : m \in O <=> m \in n..l /\ IsApp(a[m].tok) /\ (m = 1 \/ m \in K)
    BY <1>1, <1>3 DEF Open
  <2>3. \A m : m \in (n + 1)..l <=> m \in n..l /\ m # n
    OBVIOUS
  <2>4. k \in (n + 1)..l /\ sib \in (n + 1)..l
    BY <1>2
  <2> QED BY <1>9, <2>1, <2>2, <2>3, <2>4
<1>12. PICK p \in Nat : p = Cardinality(P) /\ Cardinality(O) = p + 1
  BY <1>4, <1>10, FS_CardinalityType
<1>13. CASE IsApp(a[k].tok) /\ IsApp(a[sib].tok)
  <2>1. R = (P \cup {k}) \cup {sib}
    BY <1>11, <1>13
  <2>2. IsFiniteSet(P \cup {k}) /\ Cardinality(P \cup {k}) = p + 1
    BY <1>10, <1>12, FS_AddElement
  <2>3. sib \notin P \cup {k}
    BY <1>2, <1>10
  <2>4. Cardinality(R) = (p + 1) + 1
    BY <2>1, <2>2, <2>3, FS_AddElement
  <2> QED BY <1>1, <1>3, <1>7, <1>8, <1>9, <1>12, <1>13, <2>4
<1>14. CASE IsApp(a[k].tok) /\ ~IsApp(a[sib].tok)
  <2>1. R = P \cup {k}
    BY <1>11, <1>14
  <2>2. Cardinality(R) = p + 1
    BY <1>10, <1>12, <2>1, FS_AddElement
  <2> QED BY <1>1, <1>3, <1>7, <1>8, <1>9, <1>12, <1>14, <2>2
<1>15. CASE ~IsApp(a[k].tok) /\ IsApp(a[sib].tok)
  <2>1. R = P \cup {sib}
    BY <1>11, <1>15
  <2>2. Cardinality(R) = p + 1
    BY <1>10, <1>12, <2>1, FS_AddElement
  <2> QED BY <1>1, <1>3, <1>7, <1>8, <1>9, <1>12, <1>15, <2>2
<1>16. CASE ~IsApp(a[k].tok) /\ ~IsApp(a[sib].tok)
  <2>1. R = P
    BY <1>11, <1>16
  <2>2. Cardinality(R) = Cardinality(O) - 1
    BY <1>12, <2>1
  <2> QED BY <1>1, <1>3, <1>7, <1>8, <1>9, <1>16, <2>2
<1> QED BY <1>13, <1>14, <1>15, <1>16

-----------------------------------------------------------------------------
(* The inductive invariant.                                                *)

(* The buffers and the applications to come, after the node before n.      *)
Good(b, a, n) == /\ Sound(b) /\ Fits(b, Cardinality(Kids(a, n)))
                 /\ Awaits(b, Open(a, n))

(* A node keeps the invariant.                                             *)
LEMMA GoodStep ==
  ASSUME NEW a, IsTree(a), NEW n \in 1..Len(a), NEW b, Good(b, a, n), NEW o
  PROVE  Good(GenNode(b, a, n, o), a, n + 1)
<1>1. PICK c : c = GenNode(b, a, n, o)
  OBVIOUS
<1>2. Sound(b)
  BY DEF Good
<1>3. CASE ~IsApp(a[n].tok)
  <2>1. c = b
    BY <1>1, <1>3 DEF GenNode
  <2> QED BY <1>1, <1>3, <2>1, KidsLeaf DEF Good
<1>4. CASE IsApp(a[n].tok)
  <2>1. PICK k \in Nat, w \in Nat, l \in Nat :
          k = Cardinality(Kids(a, n)) /\ w = Cardinality(Open(a, n)) /\ l = Len(a)
    <3>1. a \in Seq([tok : Token, sibling : Nat])
      BY DEF IsTree
    <3>2. Len(a) \in Nat /\ n \in 1..(Len(a) + 1)
      BY <3>1
    <3>3. Cardinality(Kids(a, n)) \in Nat /\ Cardinality(Open(a, n)) \in Nat
      BY <3>2, KidsAre
    <3> QED BY <3>2, <3>3
  <2>2. a[n + 1].tok \in Token /\ a[a[n + 1].sibling].tok \in Token
    BY <1>4, TreeNode
  <2>3. PICK k2, w2 : k2 = Cardinality(Kids(a, n + 1)) /\ w2 = Cardinality(Open(a, n + 1))
    OBVIOUS
  <2>4. k2 = k + 2 /\ n \in Open(a, n)
    BY <1>4, <2>1, <2>3, KidsApp
  <2>5. IsNext(b, c, 2)
    BY <1>1, <1>2, <1>4, <2>2, GenNodeDoes
  <2>6. Sound(c)
    BY <2>5 DEF IsNext
  <2>7. PICK bt \in Nat, bd \in Nat, bs \in Nat, bn \in Nat :
          /\ bt = Len(b.text) /\ bd = Len(b.rodata) /\ bs = Len(b.stack)
          /\ bn = Cardinality(Sas(b))
    BY <1>2, Sizes DEF Sound
  <2>8. PICK ct \in Nat, cd \in Nat, cs \in Nat, cn \in Nat :
          /\ ct = Len(c.text) /\ cd = Len(c.rodata) /\ cs = Len(c.stack)
          /\ cn = Cardinality(Sas(c))
    BY <2>6, Sizes DEF Sound
  <2>9. Fits(c, k2)
    <3>1. bt + bs + bn <= k /\ bd + bs <= k
      BY <2>1, <2>7 DEF Good, Fits
    <3>2. ct + cs + cn <= bt + bs + bn + 2 /\ cd + cs <= bd + bs + 2
      BY <2>5, <2>7, <2>8 DEF IsNext, Grows
    <3>3. ct + cs + cn <= k2 /\ cd + cs <= k2
      BY <2>4, <3>1, <3>2
    <3> QED BY <2>8, <3>3, Zenon DEF Fits
  <2>10. w = bn + 1
    BY <2>1, <2>4, <2>7 DEF Good, Awaits
  <2>11. Awaits(c, Open(a, n + 1))
    <3>1. SUFFICES w2 = cn + 1 \/ (c.stack = <<>> /\ Open(a, n + 1) = {})
      BY <2>3, <2>8 DEF Awaits
    <3>2. CASE IsApp(a[n + 1].tok) /\ IsApp(a[a[n + 1].sibling].tok)
      <4>1. cn = bn + 1
        <5>1. Deeper(b, c)
          BY <1>1, <1>2, <1>4, <2>2, <3>2, GenNodeDoes
        <5> QED BY <2>7, <2>8, <5>1 DEF Deeper
      <4>2. w2 = w + 1
        BY <1>4, <2>1, <2>3, <3>2, KidsApp
      <4> QED BY <2>10, <4>1, <4>2
    <3>3. CASE ~(IsApp(a[n + 1].tok) <=> IsApp(a[a[n + 1].sibling].tok))
      <4>1. cn = bn
        <5>1. Even(b, c)
          BY <1>1, <1>2, <1>4, <2>2, <3>3, GenNodeDoes
        <5> QED BY <2>7, <2>8, <5>1 DEF Even
      <4>2. w2 = w
        BY <1>4, <2>1, <2>3, <3>3, KidsApp
      <4> QED BY <2>10, <4>1, <4>2
    <3>4. CASE ~IsApp(a[n + 1].tok) /\ ~IsApp(a[a[n + 1].sibling].tok)
      <4>1. Back(b, c)
        BY <1>1, <1>2, <1>4, <2>2, <3>4, GenNodeDoes
      <4>2. (c.stack = <<>> /\ bn = 0) \/ bn = cn + 1
        BY <2>7, <2>8, <4>1 DEF Back
      <4>3. w2 = w - 1
        BY <1>4, <2>1, <2>3, <3>4, KidsApp
      <4>4. CASE c.stack = <<>> /\ bn = 0
        <5>1. w2 = 0
          BY <2>10, <4>3, <4>4
        <5>2. n + 1 \in 1..(Len(a) + 1)
          BY <2>1
        <5>3. IsFiniteSet(Open(a, n + 1))
          BY <5>2, KidsAre
        <5>4. Open(a, n + 1) = {}
          BY <2>3, <5>1, <5>3, FS_EmptySet
        <5> QED BY <4>4, <5>4
      <4>5. CASE bn = cn + 1
        BY <2>10, <4>3, <4>5
      <4> QED BY <4>2, <4>4, <4>5
    <3> QED BY <3>2, <3>3, <3>4
  <2> QED BY <1>1, <2>3, <2>6, <2>9, <2>11 DEF Good
<1> QED BY <1>3, <1>4

(* The invariant before the first node.                                    *)
LEMMA GoodFirst ==
  ASSUME NEW a, IsTree(a)
  PROVE  Good(NewBuffers, a, 1)
<1>1. PICK b : b = NewBuffers
  OBVIOUS
<1>2. /\ b \in Buffers /\ b.text = <<>> /\ b.rodata = <<>> /\ b.stack = <<>>
  BY <1>1 DEF NewBuffers, Buffers
<1>3. Sound(b)
  BY <1>2 DEF Sound, Jumps, Strings
<1>4. Cardinality(Sas(b)) = 0 /\ Len(b.text) = 0 /\ Len(b.rodata) = 0 /\ Len(b.stack) = 0
  <2>1. Sas(b) = {}
    BY <1>2 DEF Sas
  <2> QED BY <1>2, <2>1, FS_EmptySet
<1>5. Cardinality(Kids(a, 1)) = 0
  BY KidsFirst, FS_EmptySet
<1>6. Fits(b, Cardinality(Kids(a, 1)))
  BY <1>4, <1>5 DEF Fits
<1>7. Awaits(b, Open(a, 1))
  <2>1. Cardinality(Open(a, 1)) = 1
    BY KidsFirst
  <2> QED BY <1>4, <2>1 DEF Awaits
<1> QED BY <1>1, <1>3, <1>6, <1>7 DEF Good

(* When all nodes are done nothing waits.                                  *)
LEMMA GoodLast ==
  ASSUME NEW a, Len(a) \in Nat, NEW b, Good(b, a, Len(a) + 1)
  PROVE  b.stack = <<>>
<1>1. Cardinality(Sas(b)) \in Nat
  BY Sizes DEF Good, Sound
<1>2. Open(a, Len(a) + 1) = {}
  BY OpenLast
<1>3. Awaits(b, {})
  BY <1>2 DEF Good
<1>4. PICK n \in Nat, z \in Nat : n = Cardinality(Sas(b)) /\ z = Cardinality({}) /\ z = 0
  BY <1>1, FS_EmptySet
<1>5. b.stack = <<>> \/ z = n + 1
  BY <1>3, <1>4, Zenon DEF Awaits
<1> QED BY <1>4, <1>5

(* CodegenInv with its parts about the buffers in one.                     *)
LEMMA InvIs ==
  CodegenInv <=>
    /\ IF phase = "idle" THEN ast = <<>> ELSE ast \in Asts
    /\ options \in Options
    /\ node \in 1..(Len(ast) + 1)
    /\ NodesDone => node = Len(ast) + 1
    /\ phase \in {"idle", "prefix", "alloc", "nodes", "failed"} \/ NodesDone
    /\ Good(g, ast, node)
BY DEF CodegenInv, Good, Sound

(* Nothing is in the buffers before the call.                              *)
LEMMA GoodStart ==
  ASSUME CodegenInv, phase = "idle"
  PROVE  g = NewBuffers /\ node = 1 /\ ast = <<>>
<1>1. ast = <<>> /\ node = 1 /\ Sound(g)
  BY InvIs DEF Good
<1>2. Cardinality(Kids(<<>>, 1)) = 0
  <2>1. 1..(1 - 1) = {}
    OBVIOUS
  <2>2. Kids(<<>>, 1) = {}
    BY <2>1 DEF Kids
  <2> QED BY <2>2, FS_EmptySet
<1>3. Fits(g, 0)
  BY <1>1, <1>2, InvIs DEF Good
<1>4. PICK t \in Nat, d \in Nat, s \in Nat, n \in Nat :
        t = Len(g.text) /\ d = Len(g.rodata) /\ s = Len(g.stack) /\ n = Cardinality(Sas(g))
  BY <1>1, Sizes DEF Sound
<1>5. t + s + n <= 0 /\ d + s <= 0
  BY <1>3, <1>4 DEF Fits
<1>6. t = 0 /\ d = 0 /\ s = 0
  BY <1>5
<1>7. /\ g.text \in Seq(Ins) /\ g.rodata \in Seq(0..255) /\ g.stack \in Seq(Waiting)
  BY <1>1, Sizes DEF Sound
<1>8. g.text = <<>> /\ g.rodata = <<>> /\ g.stack = <<>>
  BY <1>4, <1>6, <1>7, EmptySeq
<1>9. g = [text |-> g.text, rodata |-> g.rodata, stack |-> g.stack]
  BY <1>1 DEF Sound, Buffers
<1> QED BY <1>1, <1>8, <1>9 DEF NewBuffers

(* The invariant at the beginning.                                         *)
LEMMA InvInit ==
  ASSUME Init
  PROVE  CodegenInv
<1>1. ast = <<>> /\ Len(ast) = 0 /\ node = 1 /\ g = NewBuffers /\ phase = "idle"
  BY DEF Init
<1>2. Kids(ast, 1) = {} /\ Open(ast, 1) = {}
  <2>1. 1..(1 - 1) = {}
    OBVIOUS
  <2>2. 1..0 = {}
    OBVIOUS
  <2> QED BY <1>1, <2>1, <2>2 DEF Kids, Open
<1>3. PICK b : b = NewBuffers
  OBVIOUS
<1>4. b \in Buffers /\ b.text = <<>> /\ b.rodata = <<>> /\ b.stack = <<>>
  BY <1>3 DEF NewBuffers, Buffers
<1>5. Sound(b)
  BY <1>4 DEF Sound, Jumps, Strings
<1>6. Cardinality(Sas(b)) = 0 /\ Len(b.text) = 0 /\ Len(b.rodata) = 0 /\ Len(b.stack) = 0
  <2>1. Sas(b) = {}
    BY <1>4 DEF Sas
  <2> QED BY <1>4, <2>1, FS_EmptySet
<1>7. Fits(b, Cardinality(Kids(ast, 1))) /\ Awaits(b, Open(ast, 1))
  <2>1. PICK k : k = Cardinality(Kids(ast, 1)) /\ k = 0
    BY <1>2, FS_EmptySet
  <2>2. Fits(b, k)
    BY <1>6, <2>1 DEF Fits
  <2> QED BY <1>2, <1>4, <2>1, <2>2 DEF Awaits
<1>8. Good(g, ast, node)
  BY <1>1, <1>3, <1>5, <1>7 DEF Good
<1>9. options \in Options
  BY DEF Init, Options
<1> QED BY <1>1, <1>8, <1>9, InvIs DEF NodesDone

(* The call of the generator keeps the invariant.                          *)
LEMMA InvStart ==
  ASSUME CodegenInv, NEW tree \in Asts, NEW opts \in Options, Start(tree, opts)
  PROVE  CodegenInv'
<1>1. phase = "idle" /\ ast' = tree /\ options' = opts /\ phase' = "prefix" /\ node' = node /\ g' = g
  BY DEF Start
<1>2. g = NewBuffers /\ node = 1
  BY <1>1, GoodStart
<1>3. IsTree(tree)
  BY AstsAssumption
<1>4. Good(g', ast', node')
  BY <1>1, <1>2, <1>3, GoodFirst
<1>5. node' \in 1..(Len(ast') + 1)
  <2>1. tree \in Seq([tok : Token, sibling : Nat])
    BY <1>3 DEF IsTree
  <2>2. Len(tree) \in Nat
    BY <2>1
  <2> QED BY <1>1, <1>2, <2>2
<1>6. ast' \in Asts /\ phase' # "idle" /\ ~NodesDone'
  BY <1>1 DEF NodesDone
<1> QED BY <1>1, <1>4, <1>5, <1>6 DEF NodesDone, CodegenInv, Good, Sound

(* The steps that change no buffer.                                        *)
LEMMA InvRest ==
  ASSUME CodegenInv, UNCHANGED <<ast, options, node, g>>, phase # "idle",
         phase' \in {"alloc", "nodes", "failed"} \/ (NodesDone' /\ node = Len(ast) + 1)
  PROVE  CodegenInv'
<1>1. Good(g', ast', node')
  BY InvIs
<1>2. phase' # "idle"
  BY DEF NodesDone
<1>3. NodesDone' => node' = Len(ast') + 1
  BY DEF NodesDone
<1> QED BY <1>1, <1>2, <1>3, InvIs DEF CodegenInv, Good, Sound

(* The step for a node keeps it.                                           *)
LEMMA InvNode ==
  ASSUME CodegenInv, GenerateNode
  PROVE  CodegenInv'
<1>1. /\ phase = "nodes" /\ node <= Len(ast) /\ node' = node + 1
      /\ g' = GenNode(g, ast, node, options.optimize_const)
      /\ ast' = ast /\ options' = options /\ phase' = phase
  BY DEF GenerateNode
<1>2. ast \in Asts /\ IsTree(ast) /\ Good(g, ast, node)
  BY <1>1, InvIs, AstsAssumption
<1>3. PICK l \in Nat : l = Len(ast) /\ node \in 1..l
  <2>1. ast \in Seq([tok : Token, sibling : Nat])
    BY <1>2 DEF IsTree
  <2>2. Len(ast) \in Nat /\ node \in 1..(Len(ast) + 1)
    BY <2>1, InvIs
  <2> QED BY <1>1, <2>2
<1>4. Good(g', ast', node')
  BY <1>1, <1>2, <1>3, GoodStep
<1>5. node' \in 1..(Len(ast') + 1) /\ ~NodesDone' /\ phase' # "idle"
  BY <1>1, <1>3 DEF NodesDone
<1> QED BY <1>1, <1>2, <1>4, <1>5, InvIs DEF CodegenInv, Good, Sound

(* The sections' names, which the phases take.                             *)
LEMMA SectionsAre ==
  ASSUME options \in Options
  PROVE  /\ Sections[1] \in {"header", "mnemonics"}
         /\ \A i \in DOMAIN Sections :
              /\ Sections[i] \in {"header", "text", "rodata", "mnemonics", "data"}
              /\ i < Len(Sections) =>
                   Sections[i + 1] \in {"header", "text", "rodata", "mnemonics", "data"}
<1>1. CASE options.dump_mnemonics
  BY <1>1 DEF Sections
<1>2. CASE ~options.dump_mnemonics
  BY <1>2 DEF Sections
<1> QED BY <1>1, <1>2

(* Every step keeps it.                                                    *)
LEMMA InvNext ==
  ASSUME CodegenInv, [Next]_vars
  PROVE  CodegenInv'
<1>1. options \in Options /\ node \in 1..(Len(ast) + 1) /\ (NodesDone => node = Len(ast) + 1)
  BY InvIs
<1>2. CASE \E tree \in Asts, opts \in Options : Start(tree, opts)
  BY <1>2, InvStart
<1>3. CASE WritePrefix
  BY <1>3, InvRest DEF WritePrefix
<1>4. CASE Allocate
  BY <1>4, InvRest DEF Allocate
<1>5. CASE GenerateNode
  BY <1>5, InvNode
<1>6. CASE EndNodes
  <2>1. phase = "nodes" /\ node > Len(ast) /\ phase' = Sections[1] /\ UNCHANGED <<ast, options, node, g>>
    BY <1>6 DEF EndNodes
  <2>2. NodesDone'
    BY <1>1, <2>1, SectionsAre DEF NodesDone
  <2>3. node = Len(ast) + 1
    <3>1. ast \in Asts
      BY <2>1, InvIs
    <3>2. ast \in Seq([tok : Token, sibling : Nat])
      BY <3>1, AstsAssumption DEF IsTree
    <3>3. Len(ast) \in Nat
      BY <3>2
    <3> QED BY <1>1, <2>1, <3>3
  <2> QED BY <2>1, <2>2, <2>3, InvRest
<1>7. CASE WriteSection
  <2>1. PICK i \in DOMAIN Sections :
          /\ phase = Sections[i]
          /\ phase' = IF i < Len(Sections) THEN Sections[i + 1] ELSE "ok"
          /\ UNCHANGED <<ast, options, node, g>>
    BY <1>7 DEF WriteSection
  <2>2. NodesDone /\ NodesDone' /\ phase # "idle"
    BY <1>1, <2>1, SectionsAre DEF NodesDone
  <2> QED BY <1>1, <2>1, <2>2, InvRest
<1>8. CASE Failed
  <2>1. phase' = "failed" /\ UNCHANGED <<ast, options, node, g>>
    BY <1>8 DEF Failed
  <2>2. phase # "idle"
    BY <1>1, <1>8, SectionsAre DEF Failed
  <2> QED BY <2>1, <2>2, InvRest
<1>9. CASE DumpNoMemory
  <2>1. NodesDone /\ NodesDone' /\ phase # "idle" /\ UNCHANGED <<ast, options, node, g>>
    BY <1>9 DEF DumpNoMemory, NodesDone
  <2> QED BY <1>1, <2>1, InvRest
<1>10. CASE UNCHANGED vars
  BY <1>10 DEF vars, CodegenInv, NodesDone
<1> QED BY <1>2, <1>3, <1>4, <1>5, <1>6, <1>7, <1>8, <1>9, <1>10 DEF Next, CodegenStep

(* After every node the buffers hold no more than two entries for each     *)
(* application so far, with a place for what the stack still asks for,     *)
(* there is one sa less than applications to come, and every sa and del    *)
(* that is out has its offset or an la that will set it.                   *)
THEOREM CodegenSound == Spec => []CodegenInv
<1>1. Init => CodegenInv
  BY InvInit
<1>2. CodegenInv /\ [Next]_vars => CodegenInv'
  BY InvNext
<1> QED BY <1>1, <1>2, PTL DEF Spec

(* The invariant implies the types.                                        *)
LEMMA TypeFollows ==
  ASSUME CodegenInv
  PROVE  TypeOK
<1>1. Sound(g) /\ node \in 1..(Len(ast) + 1)
  BY InvIs DEF Good
<1>2. DOMAIN g = {"text", "rodata", "stack"}
  BY <1>1 DEF Sound, Buffers
<1>3. \A n \in DOMAIN g.text : /\ g.text[n].op \in {"app", "la", "sa", "del", "lc"}
                               /\ g.text[n].offset \in Nat
  <2>1. g.text \in Seq(Ins)
    BY <1>1, Sizes DEF Sound
  <2>2. \A n \in DOMAIN g.text : g.text[n] \in Ins
    BY <2>1, ElementOfSeq, LenProperties
  <2> QED BY <2>2 DEF Ins
<1>4. g.rodata \in Seq(Nat)
  <2>1. PICK B : B = 0..255
    OBVIOUS
  <2>2. g.rodata \in Seq(B)
    BY <1>1, <2>1, Sizes DEF Sound
  <2>3. \A x \in B : x \in Nat
    BY <2>1
  <2>4. PICK d : d = g.rodata
    OBVIOUS
  <2>5. d \in Seq(B) /\ d \in [1..Len(d) -> B] /\ Len(d) \in Nat
    BY <2>2, <2>4, LenProperties
  <2>6. d \in [1..Len(d) -> Nat]
    BY <2>3, <2>5
  <2>7. d \in Seq(Nat)
    BY <2>5, <2>6
  <2> QED BY <2>4, <2>7
<1>5. \A i \in DOMAIN g.stack : g.stack[i].at \in 0..Len(g.text)
  BY <1>1 DEF Sound, Jumps
<1>6. phase \in {"idle", "prefix", "alloc", "nodes", "header", "text", "rodata",
                 "mnemonics", "data", "ok", "failed", "wild"}
  BY DEF CodegenInv, NodesDone
<1> QED BY <1>1, <1>2, <1>3, <1>4, <1>5, <1>6 DEF TypeOK

(* The buffers of codegen.c keep their ranges for every tree.              *)
THEOREM TypeHolds == Spec => []TypeOK
BY CodegenSound, TypeFollows, PTL

(* The invariant implies that the buffers suffice.                         *)
LEMMA FitFollows ==
  ASSUME CodegenInv
  PROVE  BuffersFit
<1>1. PICK t \in Nat, d \in Nat, s \in Nat, n \in Nat :
        t = Len(g.text) /\ d = Len(g.rodata) /\ s = Len(g.stack) /\ n = Cardinality(Sas(g))
  BY InvIs, Sizes DEF Good, Sound
<1>2. PICK l \in Nat, k \in Nat : l = Len(ast) /\ k = Cardinality(Kids(ast, node)) /\ k <= l
  <2>1. CASE phase = "idle"
    <3>1. ast = <<>> /\ node = 1
      BY <2>1, GoodStart
    <3>2. 1..(1 - 1) = {}
      OBVIOUS
    <3>3. Kids(<<>>, 1) = {}
      BY <3>2 DEF Kids
    <3>4. Cardinality(Kids(ast, node)) = 0 /\ Len(ast) = 0
      BY <3>1, <3>3, FS_EmptySet
    <3> QED BY <3>4
  <2>2. CASE phase # "idle"
    <3>1. IsTree(ast) /\ node \in 1..(Len(ast) + 1)
      BY <2>2, InvIs, AstsAssumption
    <3>2. ast \in Seq([tok : Token, sibling : Nat])
      BY <3>1 DEF IsTree
    <3>3. Len(ast) \in Nat
      BY <3>2
    <3>4. Cardinality(Kids(ast, node)) \in Nat /\ Cardinality(Kids(ast, node)) <= Len(ast) - 1
      BY <3>1, KidsAre
    <3>5. Cardinality(Kids(ast, node)) <= Len(ast)
      BY <3>3, <3>4
    <3> QED BY <3>3, <3>4, <3>5
  <2> QED BY <2>1, <2>2
<1>3. t + s + n <= k /\ d + s <= k
  BY <1>1, <1>2, InvIs DEF Good, Fits
<1>4. t <= l /\ d <= l /\ s <= l
  BY <1>2, <1>3
<1> QED BY <1>1, <1>2, <1>4 DEF BuffersFit

(* No buffer of codegen.c overflows, whatever the tree.                    *)
THEOREM BuffersHold == Spec => []BuffersFit
BY CodegenSound, FitFollows, PTL

(* The invariant implies that the jumps are set.                           *)
LEMMA LandFollows ==
  ASSUME CodegenInv
  PROVE  JumpsLand
<1>1. SUFFICES ASSUME NodesDone
               PROVE  /\ \A n \in DOMAIN g.text : g.text[n].op \in {"sa", "del"} => JumpSet(g, n)
                      /\ Strings(g)
  BY DEF JumpsLand
<1>2. Good(g, ast, node) /\ node = Len(ast) + 1
  BY <1>1, InvIs
<1>3. Len(ast) \in Nat
  <2>1. ast \in Asts
    BY <1>1, InvIs DEF NodesDone
  <2>2. ast \in Seq([tok : Token, sibling : Nat])
    BY <2>1, AstsAssumption DEF IsTree
  <2> QED BY <2>2
<1>4. g.stack = <<>>
  BY <1>2, <1>3, GoodLast
<1>5. DOMAIN g.stack = {}
  BY <1>4
<1>6. \A n : ~JumpWaits(g, n)
  BY <1>5 DEF JumpWaits
<1> QED BY <1>2, <1>6 DEF Good, Sound, Jumps

(* What is written has no jump left open: every sa and del leads behind an *)
(* la further on, every lc to the beginning of a string that ends.         *)
THEOREM JumpsHold == Spec => []JumpsLand
BY CodegenSound, LandFollows, PTL

-----------------------------------------------------------------------------
(* What a dump tells: the names of the mnemonics are different ones, an    *)
(* offset that is swapped twice is the number it was, and the pieces of a  *)
(* sequence that is cut in lines or in pairs are the sequence.             *)

(* The tables of names have one for everything the code generator makes,   *)
(* and no name twice.                                                      *)
LEMMA OpTold ==
  ASSUME NEW op \in {"app", "la", "sa", "del", "lc"}
  PROVE  /\ NamedBy(OpNames, Name(OpNames, op, "")) = {op}
         /\ Name(OpNames, op, "") = "LA" <=> op = "la"
<1>1. PICK T : T = OpNames
  OBVIOUS
<1>2. /\ DOMAIN T = {"app", "la", "sa", "del", "lc", "xch"}
      /\ T["app"] = "APP" /\ T["la"] = "LA" /\ T["sa"] = "SA" /\ T["del"] = "DEL"
      /\ T["lc"] = "LC" /\ T["xch"] = "XCH"
  BY <1>1 DEF OpNames
<1>3. NamedBy(T, Name(T, op, "")) = {op} /\ (Name(T, op, "") = "LA" <=> op = "la")
  BY <1>2 DEF NamedBy, Name
<1> QED BY <1>1, <1>3

(* The name of a function tells it from the others.                        *)
LEMMA FnTold ==
  ASSUME NEW fn \in {"k", "s", "i", "v", "c", "d", "e", "in", "pipe", "out", "cmp", ""}
  PROVE  NamedBy(FnNames, Name(FnNames, fn, "")) = {fn}
<1>1. PICK T : T = FnNames
  OBVIOUS
<1>2. /\ DOMAIN T = {"k", "s", "i", "v", "c", "d", "e", "in", "pipe", "out", "cmp", ""}
      /\ T["k"] = "k" /\ T["s"] = "s" /\ T["i"] = "i" /\ T["v"] = "v" /\ T["c"] = "c"
      /\ T["d"] = "d" /\ T["e"] = "e" /\ T["in"] = "@" /\ T["pipe"] = "|"
      /\ T["out"] = "." /\ T["cmp"] = "?" /\ T[""] = "acc"
  BY <1>1 DEF FnNames, TokenFns
<1>3. NamedBy(T, Name(T, fn, "")) = {fn}
  BY <1>2, ZenonT(40) DEF NamedBy, Name
<1> QED BY <1>1, <1>3

(* A printable character is told from the others.                          *)
LEMMA ChTold ==
  ASSUME NEW ch \in (32..126) \cup {10}
  PROVE  NamedBy(ChNames, Name(ChNames, ch, <<>>)) = {ch}
<1>1. PICK T : T = ChNames
  OBVIOUS
<1>2. /\ DOMAIN T = (32..126) \cup {10}
      /\ T[32] = <<60, 83, 80, 62>> /\ T[10] = <<60, 76, 70, 62>>
      /\ \A c \in 33..126 : T[c] = <<c>>
  BY <1>1 DEF ChNames
<1>3. NamedBy(T, T[ch]) = {ch}
  <2>1. SUFFICES ASSUME NEW x \in (32..126) \cup {10}, T[x] = T[ch] PROVE x = ch
    BY <1>2 DEF NamedBy
  <2>2. ASSUME NEW c \in 33..126 PROVE Len(T[c]) = 1 /\ T[c][1] = c
    <3>1. Len(<<c>>) = 1 /\ <<c>>[1] = c
      OBVIOUS
    <3>2. T[c] = <<c>>
      BY <1>2
    <3> QED BY <3>1, <3>2
  <2>3. Len(T[32]) = 4 /\ Len(T[10]) = 4 /\ T[32][2] = 83 /\ T[10][2] = 76
    BY <1>2
  <2>4. x \in 33..126 \/ x = 32 \/ x = 10
    OBVIOUS
  <2>5. ch \in 33..126 \/ ch = 32 \/ ch = 10
    OBVIOUS
  <2>6. CASE x \in 33..126 /\ ch \in 33..126
    <3>1. T[x][1] = x /\ T[ch][1] = ch
      BY <2>2, <2>6
    <3> QED BY <2>1, <3>1
  <2>7. CASE x \in 33..126 /\ ch \notin 33..126
    BY <2>1, <2>2, <2>3, <2>5, <2>7, SMTT(30)
  <2>8. CASE x \notin 33..126 /\ ch \in 33..126
    BY <2>1, <2>2, <2>3, <2>4, <2>8, SMTT(30)
  <2>9. CASE x \notin 33..126 /\ ch \notin 33..126
    BY <2>1, <2>3, <2>4, <2>5, <2>9
  <2> QED BY <2>6, <2>7, <2>8, <2>9
<1>4. Name(T, ch, <<>>) = T[ch]
  BY <1>2 DEF Name
<1> QED BY <1>1, <1>3, <1>4

(* An operand's name tells the operand.                                    *)
LEMMA TokTold ==
  ASSUME NEW t \in Leaves \cup {NoTok}
  PROVE  ReadsTok(Operand(t), t)
<1>1. /\ t.fn \in {"k", "s", "i", "v", "c", "d", "e", "in", "pipe", "out", "cmp", ""}
      /\ t.fn \in {"out", "cmp"} => t.ch \in (32..126) \cup {10}
  <2>1. CASE t \in Leaves
    BY <2>1 DEF Leaves, Token, TokenFns, IsApp
  <2>2. CASE t = NoTok
    <3>1. t.fn = ""
      BY <2>2 DEF NoTok, Tok
    <3> QED BY <3>1
  <2> QED BY <2>1, <2>2
<1>2. /\ Operand(t).fn = Name(FnNames, t.fn, "")
      /\ t.fn \in {"out", "cmp"} => Operand(t).ch = Name(ChNames, t.ch, <<>>)
  BY DEF Operand
<1>3. NamedBy(FnNames, Operand(t).fn) = {t.fn}
  BY <1>1, <1>2, FnTold
<1>4. t.fn \in {"out", "cmp"} => NamedBy(ChNames, Operand(t).ch) = {t.ch}
  BY <1>1, <1>2, ChTold
<1> QED BY <1>3, <1>4 DEF ReadsTok

(* A number is its four bytes, so swapping them twice gives it back.       *)
Byte == 0..255

Bytes(b3, b2, b1, b0) == b3 * 16777216 + b2 * 65536 + b1 * 256 + b0

(* Swapping the four bytes of a number.                                    *)
LEMMA BytesOf ==
  ASSUME NEW b0 \in Byte, NEW b1 \in Byte, NEW b2 \in Byte, NEW b3 \in Byte
  PROVE  Swap32(Bytes(b3, b2, b1, b0)) = Bytes(b0, b1, b2, b3)
<1>0. PICK n : n = Bytes(b3, b2, b1, b0) /\ n = b3 * 16777216 + b2 * 65536 + b1 * 256 + b0
  BY SMT DEF Bytes
<1>9. b0 \in 0..255 /\ b1 \in 0..255 /\ b2 \in 0..255 /\ b3 \in 0..255
  BY DEF Byte
<1>1. n \in Nat /\ n % 256 = b0
  BY <1>0, <1>9, SMT
<1>2. n \div 256 = b3 * 65536 + b2 * 256 + b1 /\ (n \div 256) % 256 = b1
  BY <1>0, <1>9, SMT
<1>3. n \div 65536 = b3 * 256 + b2 /\ (n \div 65536) % 256 = b2
  BY <1>0, <1>9, SMT
<1>4. n \div 16777216 = b3
  BY <1>0, <1>9, SMT
<1>5. Swap32(n) = Bytes(b0, b1, b2, b3)
  BY <1>1, <1>2, <1>3, <1>4, <1>9, SMT DEF Swap32, Bytes
<1> QED BY <1>0, <1>5

(* Swapping twice gives the number again, within the sizes the trees have. *)
LEMMA SwapSwap ==
  ASSUME NEW n \in Nat, n <= MaxNodes
  PROVE  Swap32(Swap32(n)) = n
<1>1. n < 16777216
  BY SMT DEF MaxNodes
<1>2. PICK q \in Nat, b0 \in 0..255 : n = q * 256 + b0
  <2>1. PICK r \in Nat, b \in 0..255 : r = n \div 256 /\ b = n % 256
    OBVIOUS
  <2>2. n = r * 256 + b
    BY <2>1
  <2> QED BY <2>2
<1>3. PICK b2 \in Nat, b1 \in 0..255 : q = b2 * 256 + b1
  <2>1. PICK r \in Nat, b \in 0..255 : r = q \div 256 /\ b = q % 256
    OBVIOUS
  <2>2. q = r * 256 + b
    BY <2>1
  <2> QED BY <2>2
<1>4. b0 \in Byte /\ b1 \in Byte /\ b2 \in Byte /\ 0 \in Byte
  BY <1>1, <1>2, <1>3, SMT DEF Byte
<1>5. n = Bytes(0, b2, b1, b0)
  BY <1>2, <1>3, <1>4, SMT DEF Bytes
<1>6. Swap32(Bytes(0, b2, b1, b0)) = Bytes(b0, b1, b2, 0)
  BY <1>4, BytesOf
<1>7. Swap32(Bytes(b0, b1, b2, 0)) = Bytes(0, b2, b1, b0)
  BY <1>4, BytesOf
<1> QED BY <1>5, <1>6, <1>7

(* The lines of complete buffers.                                          *)
LEMMA TextTold ==
  ASSUME NEW b, Sound(b), Len(b.text) <= MaxNodes, Len(b.rodata) <= MaxNodes,
         \A n \in DOMAIN b.text : b.text[n].op \in {"sa", "del"} => JumpSet(b, n)
  PROVE  TellsText(Mnemonics(b.text), b.text, b.rodata)
<1>1. PICK t \in Seq(Ins), k \in Nat, d \in Seq(0..255), kd \in Nat :
        /\ t = b.text /\ k = Len(t) /\ DOMAIN t = 1..k /\ k <= MaxNodes
        /\ d = b.rodata /\ kd = Len(d) /\ kd <= MaxNodes
  <2>1. b.text \in Seq(Ins) /\ b.rodata \in Seq(0..255)
    BY DEF Sound, Buffers
  <2>2. Len(b.text) \in Nat /\ DOMAIN b.text = 1..Len(b.text) /\ Len(b.rodata) \in Nat
    BY <2>1, LenProperties
  <2> QED BY <2>1, <2>2
<1>2. PICK m : m = Mnemonics(t)
  OBVIOUS
<1>3. /\ DOMAIN m = 1..k /\ m \in Seq({m[n] : n \in 1..k}) /\ Len(m) = k
      /\ \A n \in 1..k : m[n] = Mnemonic(n - 1, t[n])
  <2>1. m = [n \in 1..k |-> Mnemonic(n - 1, t[n])]
    BY <1>1, <1>2 DEF Mnemonics
  <2>2. DOMAIN m = 1..k /\ m = [n \in DOMAIN m |-> m[n]] /\ \A n \in 1..k : m[n] \in {m[i] : i \in 1..k}
    BY <2>1
  <2>3. m \in Seq({m[n] : n \in 1..k}) /\ Len(m) = k
    BY <2>2, SeqIs
  <2> QED BY <2>1, <2>2, <2>3
<1>4. ASSUME NEW n \in 1..k
      PROVE  /\ t[n] \in Ins /\ m[n].at = n - 1 /\ m[n].op = Name(OpNames, t[n].op, "")
             /\ HasOffset(t[n]) => m[n].args[1] = Swap32(t[n].offset)
             /\ t[n].op = "app" => m[n].args = <<Operand(t[n].first), Operand(t[n].second)>>
  <2>1. t[n] \in Ins
    BY <1>1, ElementOfSeq
  <2>2. PICK o, w, v :
          /\ o = Name(OpNames, t[n].op, "") /\ w = Swap32(t[n].offset)
          /\ v = <<Operand(t[n].first), Operand(t[n].second)>>
    OBVIOUS
  <2>3. PICK a : m[n] = Line(n - 1, o, a) /\
                 a = CASE HasOffset(t[n]) -> <<w>>
                       [] t[n].op = "app" -> v
                       [] OTHER           -> <<>>
    BY <1>3, <2>2 DEF Mnemonic
  <2>4. m[n].at = n - 1 /\ m[n].op = o /\ m[n].args = a
    BY <2>3 DEF Line
  <2>5. HasOffset(t[n]) => a[1] = w
    <3>1. <<w>>[1] = w
      OBVIOUS
    <3>2. HasOffset(t[n]) => a = <<w>>
      BY <2>3 DEF HasOffset
    <3> QED BY <3>1, <3>2
  <2>6. t[n].op = "app" => a = v
    BY <2>3 DEF HasOffset
  <2> QED BY <2>1, <2>2, <2>4, <2>5, <2>6
<1>5. ASSUME NEW n \in 1..k PROVE ReadsIns(m[n], t[n])
  <2>1. NamedBy(OpNames, m[n].op) = {t[n].op}
    <3>1. t[n].op \in {"app", "la", "sa", "del", "lc"}
      BY <1>4 DEF Ins
    <3> QED BY <1>4, <3>1, OpTold
  <2>2. ASSUME t[n].op = "app"
        PROVE  ReadsTok(m[n].args[1], t[n].first) /\ ReadsTok(m[n].args[2], t[n].second)
    <3>1. t[n].first \in Leaves \cup {NoTok} /\ t[n].second \in Leaves \cup {NoTok}
      BY <1>4 DEF Ins
    <3>2. PICK x, y : x = Operand(t[n].first) /\ y = Operand(t[n].second)
      OBVIOUS
    <3>3. m[n].args = <<x, y>>
      BY <1>4, <2>2, <3>2
    <3>4. m[n].args[1] = x /\ m[n].args[2] = y
      BY <3>3
    <3> QED BY <3>1, <3>2, <3>4, TokTold
  <2> QED BY <2>1, <2>2 DEF ReadsIns
<1>6. ASSUME NEW n \in 1..k, t[n].op \in {"sa", "del"}
      PROVE  m[n].args[1] \in (n + 1)..k /\ m[m[n].args[1]].op = "LA"
  <2>1. PICK j \in (n + 1)..k : t[n].offset = Swap32(j) /\ t[j].op = "la"
    BY <1>1, <1>6 DEF JumpSet
  <2>2. j \in 1..k /\ j \in Nat /\ j <= MaxNodes
    BY SMT, <1>1, <2>1 DEF MaxNodes
  <2>3. m[n].args[1] = j
    BY <1>4, <1>6, <2>1, <2>2, SwapSwap DEF HasOffset
  <2>4. m[j].op = "LA"
    BY <1>4, <2>1, <2>2, OpTold
  <2> QED BY <2>3, <2>4
<1>7. ASSUME NEW n \in 1..k, t[n].op = "lc"
      PROVE  m[n].args[1] < kd /\ (m[n].args[1] = 0 \/ d[m[n].args[1]] = NUL)
  <2>1. PICK o \in 0..(kd - 1) : t[n].offset = Swap32(o) /\ (o = 0 \/ d[o] = NUL)
    BY <1>1, <1>7 DEF Sound, Strings
  <2>2. o \in Nat /\ o <= MaxNodes /\ o < kd
    BY SMT, <1>1, <2>1 DEF MaxNodes
  <2>3. m[n].args[1] = o
    BY <1>4, <1>7, <2>1, <2>2, SwapSwap DEF HasOffset
  <2> QED BY <2>1, <2>2, <2>3
<1>8. TellsText(m, t, d)
  BY <1>1, <1>3, <1>4, <1>5, <1>6, <1>7 DEF TellsText
<1> QED BY <1>1, <1>2, <1>8

(* The sequences up to the i-th one, joined.                               *)
Joins(h, seqs, N) ==
  /\ N \in Nat \ {0} /\ Len(seqs) = N
  /\ h = [i \in 1..N |-> h[i]]
  /\ h[1] = seqs[1] /\ \A i \in 2..N : h[i] = h[i - 1] \o seqs[i]

(* FlattenSeq is the solution of its equation that there is.               *)
LEMMA FlattenBy ==
  ASSUME NEW N, NEW seqs, NEW h, Joins(h, seqs, N)
  PROVE  FlattenSeq(seqs) = h[N]
<1>0. /\ N \in Nat \ {0} /\ Len(seqs) = N /\ h = [i \in 1..N |-> h[i]]
      /\ h[1] = seqs[1] /\ \A i \in 2..N : h[i] = h[i - 1] \o seqs[i]
  BY DEF Joins
<1> DEFINE E(i, f) == IF i = 1 THEN seqs[i] ELSE f[i - 1] \o seqs[i]
<1>1. h = [i \in 1..N |-> E(i, h)]
  <2>1. ASSUME NEW i \in 1..N PROVE h[i] = E(i, h)
    <3>1. i = 1 \/ (i \in 2..N /\ i # 1)
      BY <1>0
    <3> QED BY <1>0, <3>1
  <2>2. h = [i \in 1..N |-> h[i]]
    BY <1>0
  <2> HIDE DEF E
  <2> QED BY <2>1, <2>2
<1>2. PICK f : f = [i \in 1..N |-> E(i, f)] /\ FlattenSeq(seqs) = f[N]
  <2>1. \E f : f = [i \in 1..N |-> E(i, f)]
    BY <1>1
  <2>2. PICK f : f = (CHOOSE e : e = [i \in 1..N |-> E(i, e)])
    OBVIOUS
  <2>3. FlattenSeq(seqs) = f[N]
    BY <1>0, <2>2 DEF FlattenSeq
  <2> HIDE DEF E
  <2>4. f = [i \in 1..N |-> E(i, f)]
    BY <2>1, <2>2
  <2> QED BY <2>3, <2>4
<1>3. \A i \in 1..N : f[i] = E(i, f) /\ h[i] = E(i, h)
  <2> HIDE DEF E
  <2> QED BY <1>1, <1>2
<1> DEFINE S == {i \in 0..N : i = 0 \/ f[i] = h[i]}
<1>4. ASSUME NEW i \in 0..N, \A j \in 0..(i - 1) : j \in S PROVE i \in S
  <2>0. N \in Nat \ {0}
    BY <1>0
  <2>1. CASE i = 0
    BY <2>1
  <2>2. CASE i = 1
    <3>1. i \in 1..N
      BY <2>0, <2>2
    <3>2. E(i, f) = seqs[i] /\ E(i, h) = seqs[i]
      BY <2>2
    <3>3. f[i] = E(i, f) /\ h[i] = E(i, h)
      BY <1>3, <3>1
    <3>4. f[i] = h[i]
      BY <3>2, <3>3, Zenon
    <3> QED BY <3>4
  <2>3. CASE i > 1
    <3>1. PICK j : j = i - 1
      OBVIOUS
    <3>2. j \in 0..(i - 1) /\ j # 0 /\ i \in 1..N /\ i # 1
      BY <2>0, <2>3, <3>1
    <3>3. f[j] = h[j]
      BY <1>4, <3>2
    <3>4. E(i, f) = f[j] \o seqs[i] /\ E(i, h) = h[j] \o seqs[i]
      BY <3>1, <3>2, Zenon
    <3>5. f[i] = E(i, f) /\ h[i] = E(i, h)
      BY <1>3, <3>2
    <3>6. f[i] = h[i]
      BY <3>3, <3>4, <3>5, Zenon
    <3> QED BY <3>6
  <2> QED BY <2>0, <2>1, <2>2, <2>3
<1>5. \A i \in 0..N : i \in S
  <2> HIDE DEF S
  <2> QED BY <1>0, <1>4, UpInduction
<1>6. N \in 0..N /\ N # 0
  BY <1>0
<1> QED BY <1>2, <1>5, <1>6

(* The piece of a sequence that is behind m and goes up to n.              *)
Piece(s, m, n) == SubSeq(s, m + 1, n)

(* Two pieces, one behind the other.                                       *)
LEMMA PiecesJoin ==
  ASSUME NEW S, NEW s \in Seq(S), NEW m \in Nat, NEW n \in Nat, m <= n, n <= Len(s)
  PROVE  /\ Piece(s, 0, n) = Piece(s, 0, m) \o Piece(s, m, n)
         /\ Piece(s, m, n) \in Seq(S) /\ Len(Piece(s, m, n)) = n - m
         /\ \A i \in 1..(n - m) : Piece(s, m, n)[i] = s[m + i]
<1>0. PICK p, q, r : /\ p = SubSeq(s, 1, m) /\ q = SubSeq(s, 1, n) /\ r = SubSeq(s, m + 1, n)
                     /\ p = Piece(s, 0, m) /\ q = Piece(s, 0, n) /\ r = Piece(s, m, n)
  <2>1. 0 + 1 = 1
    OBVIOUS
  <2> QED BY <2>1 DEF Piece
<1>10. p = SubSeq(s, 1, m) /\ m <= Len(s)
  BY <1>0, LenProperties
<1>11. p \in Seq(S) /\ Len(p) = m /\ \A i \in 1..m : p[i] = s[i]
  BY <1>10, Beginning
<1>12. q = SubSeq(s, 1, n) /\ n <= Len(s)
  BY <1>0
<1>13. q \in Seq(S) /\ Len(q) = n /\ \A i \in 1..n : q[i] = s[i]
  BY <1>12, Beginning
<1>1. /\ p \in Seq(S) /\ Len(p) = m /\ \A i \in 1..m : p[i] = s[i]
      /\ q \in Seq(S) /\ Len(q) = n /\ \A i \in 1..n : q[i] = s[i]
  BY <1>11, <1>13
<1>2. PICK k \in Nat : k = n - m /\ n = m + k
  <2>1. n - m \in Nat /\ n = m + (n - m)
    OBVIOUS
  <2> QED BY <2>1
<1>3. r \in Seq(S) /\ Len(r) = k /\ \A i \in 1..k : r[i] = s[m + i]
  <2>5. \A i \in (m + 1)..n : s[i] \in S
    <3>1. \A i \in (m + 1)..n : i \in 1..Len(s)
      BY LenProperties
    <3> QED BY <3>1, ElementOfSeq
  <2>6. n - (m + 1) + 1 = k /\ (m + 1 <= n \/ k = 0) /\ (m + 1 <= n => k > 0)
    BY <1>2
  <2>7. /\ r \in Seq(S) /\ Len(r) = IF m + 1 <= n THEN n - (m + 1) + 1 ELSE 0
        /\ \A i \in 1..(n - (m + 1) + 1) : r[i] = s[(m + 1) + i - 1]
    <3>1. m + 1 \in Int /\ n \in Int
      OBVIOUS
    <3> QED BY <1>0, <2>5, <3>1, SubSeqProperties
  <2>8. Len(r) = k
    BY <2>6, <2>7
  <2>9. \A i \in 1..k : r[i] = s[m + i]
    <3>1. SUFFICES ASSUME NEW i \in 1..k PROVE r[i] = s[m + i]
      OBVIOUS
    <3>2. i \in 1..(n - (m + 1) + 1) /\ (m + 1) + i - 1 = m + i
      BY <2>6
    <3> QED BY <2>7, <3>2
  <2> QED BY <2>7, <2>8, <2>9
<1>4. PICK u : u = p \o r
  OBVIOUS
<1>5. /\ u \in Seq(S) /\ Len(u) = Len(p) + Len(r)
      /\ \A i \in 1..Len(p) : u[i] = p[i]
      /\ \A i \in 1..Len(r) : u[Len(p) + i] = r[i]
  <2>1. p \in Seq(S)
    BY <1>1
  <2>2. r \in Seq(S)
    BY <1>3
  <2>3. /\ (p \o r) \in Seq(S) /\ Len(p \o r) = Len(p) + Len(r)
        /\ \A i \in 1..Len(p) : (p \o r)[i] = p[i]
        /\ \A i \in 1..Len(r) : (p \o r)[Len(p) + i] = r[i]
    BY <2>1, <2>2, ConcatProperties, Joined
  <2> QED BY <1>4, <2>3
<1>6. Len(u) = n /\ (\A i \in 1..m : u[i] = p[i]) /\ \A i \in 1..k : u[m + i] = r[i]
  BY <1>1, <1>2, <1>3, <1>5
<1>7. \A i \in 1..n : u[i] = q[i]
  <2>1. SUFFICES ASSUME NEW i \in 1..n PROVE u[i] = q[i]
    OBVIOUS
  <2>2. CASE i <= m
    BY <1>1, <1>6, <2>2
  <2>3. CASE i > m
    <3>1. PICK j \in 1..k : i = m + j
      <4>1. i - m \in 1..k /\ i = m + (i - m)
        BY <1>2, <2>3
      <4> QED BY <4>1
    <3> QED BY <1>1, <1>3, <1>6, <3>1
  <2> QED BY <2>2, <2>3
<1>8. u = q
  BY <1>1, <1>5, <1>6, <1>7, SeqEqual
<1> QED BY <1>0, <1>2, <1>3, <1>4, <1>8

(* The same for every two places.                                          *)
LEMMA PiecesMeet ==
  \A S : \A s \in Seq(S) : \A m, n \in Nat :
    m <= n /\ n <= Len(s) => Piece(s, 0, n) = Piece(s, 0, m) \o Piece(s, m, n)
BY PiecesJoin

(* Places up to k, in order, the last one k; and the pieces between them.  *)
Cuts(c, N, k) ==
  /\ N \in Nat /\ c \in [0..N -> 0..k]
  /\ c[0] = 0 /\ c[N] = k /\ \A i \in 1..N : c[i - 1] <= c[i]

Pieces(s, c, N) == [i \in 1..N |-> Piece(s, c[i - 1], c[i])]

(* A sequence that is cut into pieces is the pieces joined.                *)
LEMMA FlattenCuts ==
  ASSUME NEW S, NEW s \in Seq(S), NEW N, NEW c, Cuts(c, N, Len(s))
  PROVE  FlattenSeq(Pieces(s, c, N)) = s
<1>0. /\ N \in Nat /\ c \in [0..N -> 0..Len(s)]
      /\ c[0] = 0 /\ c[N] = Len(s) /\ \A i \in 1..N : c[i - 1] <= c[i]
  BY DEF Cuts
<1>9. PICK seqs : seqs = Pieces(s, c, N) /\ seqs = [i \in 1..N |-> Piece(s, c[i - 1], c[i])]
  BY DEF Pieces
<1>1. PICK l \in Nat : l = Len(s)
  BY LenProperties
<1>2. Len(seqs) = N /\ \A i \in 1..N : seqs[i] = Piece(s, c[i - 1], c[i])
  <2>1. DOMAIN seqs = 1..N /\ seqs = [i \in DOMAIN seqs |-> seqs[i]]
    BY <1>9
  <2>2. \A i \in 1..N : seqs[i] \in {seqs[j] : j \in 1..N}
    OBVIOUS
  <2>3. Len(seqs) = N
    BY <1>0, <2>1, <2>2, SeqIs
  <2> QED BY <1>9, <2>3
<1>3. CASE N = 0
  <2>1. FlattenSeq(seqs) = seqs
    BY <1>2, <1>3 DEF FlattenSeq
  <2>2. Len(s) = 0
    BY <1>0, <1>3
  <2>3. s = <<>>
    BY <2>2, EmptySeq
  <2>4. seqs = <<>>
    BY <1>3, <1>9
  <2> QED BY <1>9, <2>1, <2>3, <2>4
<1>4. CASE N # 0
  <2>1. PICK h : h = [i \in 1..N |-> Piece(s, 0, c[i])]
    OBVIOUS
  <2>2. ASSUME NEW i \in 1..N
        PROVE  h[i] = IF i = 1 THEN seqs[i] ELSE h[i - 1] \o seqs[i]
    <3>1. PICK m \in Nat, n \in Nat : m = c[i - 1] /\ n = c[i] /\ m <= n /\ n <= l
      <4>1. i - 1 \in 0..N /\ i \in 0..N
        BY <1>0
      <4>2. c[i - 1] \in 0..l /\ c[i] \in 0..l
        BY <1>0, <1>1, <4>1
      <4> QED BY <1>0, <4>2
    <3>2. seqs[i] = Piece(s, m, n) /\ h[i] = Piece(s, 0, n)
      BY <1>2, <2>1, <3>1
    <3>3. CASE i = 1
      <4>1. m = 0
        BY <1>0, <3>1, <3>3
      <4> QED BY <3>2, <3>3, <4>1
    <3>4. CASE i # 1
      <4>1. i - 1 \in 1..N
        BY <1>0, <3>4
      <4>2. h[i - 1] = Piece(s, 0, m)
        BY <2>1, <3>1, <4>1
      <4>3. n <= Len(s)
        BY <1>1, <3>1
      <4>5. s \in Seq(S) /\ m \in Nat /\ n \in Nat /\ m <= n
        BY <3>1
      <4>4. Piece(s, 0, n) = Piece(s, 0, m) \o Piece(s, m, n)
        BY <4>3, <4>5, PiecesMeet
      <4> QED BY <3>2, <3>4, <4>2, <4>4
    <3> QED BY <3>3, <3>4
  <2>4. FlattenSeq(seqs) = h[N]
    <3>1. N \in Nat \ {0} /\ Len(seqs) = N
      BY <1>0, <1>2, <1>4
    <3>2. h = [i \in 1..N |-> h[i]]
      BY <2>1
    <3>3. h[1] = seqs[1] /\ \A i \in 2..N : h[i] = h[i - 1] \o seqs[i]
      <4>1. 1 \in 1..N /\ \A i \in 2..N : i \in 1..N /\ i # 1
        BY <3>1
      <4> QED BY <2>2, <4>1
    <3>4. Joins(h, seqs, N)
      BY <3>1, <3>2, <3>3 DEF Joins
    <3> QED BY <3>4, FlattenBy
  <2>5. h[N] = Piece(s, 0, l)
    <3>1. N \in 1..N /\ c[N] = l
      BY <1>0, <1>1, <1>4
    <3>2. h[N] = Piece(s, 0, c[N])
      BY <2>1, <3>1
    <3> QED BY <3>1, <3>2
  <2>6. Piece(s, 0, l) = s
    <3>1. PICK p : p = SubSeq(s, 1, l) /\ p = Piece(s, 0, l)
      <4>1. 0 + 1 = 1
        OBVIOUS
      <4> QED BY <4>1 DEF Piece
    <3>2. p \in Seq(S) /\ Len(p) = l /\ \A i \in 1..l : p[i] = s[i]
      BY <1>1, <3>1, Beginning
    <3> QED BY <1>1, <3>1, <3>2, SeqEqual
  <2> QED BY <1>9, <2>4, <2>5, <2>6
<1> QED BY <1>3, <1>4

(* Bytes in pairs are the bytes.                                           *)
LEMMA PairsFlat ==
  ASSUME NEW S, NEW bytes \in Seq(S)
  PROVE  /\ FlattenSeq(Pairs(bytes)) = bytes
         /\ Len(Pairs(bytes)) = (Len(bytes) + 1) \div 2
<1>1. PICK k \in Nat : k = Len(bytes)
  BY LenProperties
<1>2. PICK N \in Nat : /\ N = (k + 1) \div 2
                       /\ \A p \in 1..N : 2 * (p - 1) <= k - 1 /\ 2 * p - 1 = (2 * (p - 1)) + 1
                       /\ k <= 2 * N
  <2>1. (k + 1) \div 2 \in Nat
    OBVIOUS
  <2> QED BY <2>1
<1>3. PICK c : c = [p \in 0..N |-> IF 2 * p <= k THEN 2 * p ELSE k]
  OBVIOUS
<1>4. Cuts(c, N, k)
  <2>1. \A p \in 0..N : c[p] = (IF 2 * p <= k THEN 2 * p ELSE k) /\ c[p] \in 0..k
    BY <1>3
  <2>2. c \in [0..N -> 0..k]
    BY <1>3, <2>1
  <2>3. c[0] = 0 /\ c[N] = k
    BY <1>2, <2>1
  <2>4. ASSUME NEW p \in 1..N PROVE c[p - 1] <= c[p]
    <3>1. p - 1 \in 0..N /\ p \in 0..N
      OBVIOUS
    <3> QED BY <2>1, <3>1
  <2> QED BY <2>2, <2>3, <2>4 DEF Cuts
<1>5. Pairs(bytes) = Pieces(bytes, c, N)
  <2>1. ASSUME NEW p \in 1..N
        PROVE  SubSeq(bytes, 2 * p - 1, IF 2 * p <= k THEN 2 * p ELSE k)
                 = Piece(bytes, c[p - 1], c[p])
    <3>1. p - 1 \in 0..N /\ p \in 0..N
      OBVIOUS
    <3>2. c[p] = IF 2 * p <= k THEN 2 * p ELSE k
      BY <1>3, <3>1
    <3>3. c[p - 1] = 2 * (p - 1)
      BY <1>2, <1>3, <3>1
    <3>4. c[p - 1] + 1 = 2 * p - 1
      BY <1>2, <3>3
    <3> QED BY <3>2, <3>4 DEF Piece
  <2>2. Pairs(bytes) = [p \in 1..N |-> SubSeq(bytes, 2 * p - 1, IF 2 * p <= k THEN 2 * p ELSE k)]
    BY <1>1, <1>2 DEF Pairs
  <2> QED BY <2>1, <2>2 DEF Pieces
<1>6. PICK seqs : seqs = Pairs(bytes) /\ seqs = [p \in 1..N |-> Piece(bytes, c[p - 1], c[p])]
  BY <1>5 DEF Pieces
<1>7. FlattenSeq(seqs) = bytes
  <2>1. Cuts(c, N, Len(bytes))
    BY <1>1, <1>4
  <2> QED BY <1>5, <1>6, <2>1, FlattenCuts
<1>8. Len(seqs) = N
  <2>1. DOMAIN seqs = 1..N /\ seqs = [i \in DOMAIN seqs |-> seqs[i]]
    BY <1>6
  <2>2. \A i \in 1..N : seqs[i] \in {seqs[j] : j \in 1..N}
    OBVIOUS
  <2> QED BY <2>1, <2>2, SeqIs
<1> QED BY <1>1, <1>2, <1>6, <1>7, <1>8

(* What a dump shows of the strings is every byte of them, in columns.     *)
LEMMA DataTold ==
  ASSUME NEW data \in Seq(0..255)
  PROVE  TellsData(Hexdump(data), data)
<1>1. PICK k \in Nat : k = Len(data)
  BY LenProperties
<1>2. PICK N \in Nat : /\ N = LinesOf(k) /\ k <= 16 * N
                       /\ \A l \in 1..N : (l - 1) * 16 <= k - 1
  <2>1. LinesOf(k) = (k + 15) \div 16
    BY DEF LinesOf, BytesPerLine
  <2>2. (k + 15) \div 16 \in Nat
    OBVIOUS
  <2> QED BY <2>1, <2>2
<1>3. PICK c : c = [l \in 0..N |-> IF 16 * l <= k THEN 16 * l ELSE k]
  OBVIOUS
<1>4. Cuts(c, N, k)
  <2>1. \A l \in 0..N : c[l] = (IF 16 * l <= k THEN 16 * l ELSE k) /\ c[l] \in 0..k
    BY <1>3
  <2>2. c \in [0..N -> 0..k]
    BY <1>3, <2>1
  <2>3. c[0] = 0 /\ c[N] = k
    BY <1>2, <2>1
  <2>4. ASSUME NEW l \in 1..N PROVE c[l - 1] <= c[l]
    <3>1. l - 1 \in 0..N /\ l \in 0..N
      OBVIOUS
    <3> QED BY <2>1, <3>1
  <2> QED BY <2>2, <2>3, <2>4 DEF Cuts
<1>5. PICK f : f = Formatted(data) /\ f \in Seq(0..255) /\ Len(f) = k
  <2>1. PICK f : f = Formatted(data)
    OBVIOUS
  <2>2. f = [n \in 1..k |-> IF data[n] \in 32..126 THEN data[n] ELSE 46]
    BY <1>1, <2>1, LenProperties DEF Formatted
  <2>3. DOMAIN f = 1..k /\ \A n \in 1..k : f[n] \in 0..255
    BY <2>2
  <2>4. f = [n \in DOMAIN f |-> f[n]]
    BY <2>2
  <2>5. PICK B : B = 0..255
    OBVIOUS
  <2>6. DOMAIN f = 1..k /\ \A n \in 1..k : f[n] \in B
    BY <2>3, <2>5
  <2>7. f \in Seq(B) /\ Len(f) = k
    BY <2>4, <2>6, SeqIs
  <2> QED BY <2>1, <2>5, <2>7
<1>6. PICK h : /\ h = Hexdump(data) /\ DOMAIN h = 1..N
               /\ \A l \in 1..N : /\ h[l].at = (l - 1) * 16
                                  /\ h[l].hex = Pairs(Piece(data, c[l - 1], c[l]))
                                  /\ h[l].blanks = Blanks(c[l] - c[l - 1])
                                  /\ h[l].shown = Piece(f, c[l - 1], c[l])
  <2>1. PICK h : h = Hexdump(data)
    OBVIOUS
  <2> DEFINE I(l) == (l - 1) * BytesPerLine
             J(l) == IF k - I(l) < BytesPerLine THEN k ELSE I(l) + BytesPerLine
             R(l) == [at |-> I(l), hex |-> Pairs(SubSeq(data, I(l) + 1, J(l))),
                      blanks |-> Blanks(J(l) - I(l)), shown |-> SubSeq(f, I(l) + 1, J(l))]
  <2>2. h = [l \in 1..N |-> R(l)]
    BY <1>1, <1>2, <1>5, <2>1 DEF Hexdump
  <2>3. ASSUME NEW l \in 1..N
        PROVE  I(l) = (l - 1) * 16 /\ I(l) = c[l - 1] /\ J(l) = c[l]
    <3>1. l - 1 \in 0..N /\ l \in 0..N /\ 16 * (l - 1) = (l - 1) * 16
                          /\ (l - 1) * 16 + 16 = 16 * l
      OBVIOUS
    <3>2. c[l - 1] = (l - 1) * 16
      BY <1>2, <1>3, <3>1
    <3>3. c[l] = IF k - (l - 1) * 16 < 16 THEN k ELSE (l - 1) * 16 + 16
      BY <1>3, <3>1
    <3> QED BY <3>2, <3>3 DEF BytesPerLine
  <2>4. ASSUME NEW l \in 1..N
        PROVE  /\ h[l].at = (l - 1) * 16
               /\ h[l].hex = Pairs(Piece(data, c[l - 1], c[l]))
               /\ h[l].blanks = Blanks(c[l] - c[l - 1])
               /\ h[l].shown = Piece(f, c[l - 1], c[l])
    <3>1. PICK i, j : i = I(l) /\ j = J(l) /\ i = (l - 1) * 16 /\ i = c[l - 1] /\ j = c[l]
      BY <2>3
    <3>2. PICK x, y, z : /\ x = Pairs(SubSeq(data, i + 1, j)) /\ y = Blanks(j - i)
                         /\ z = SubSeq(f, i + 1, j)
      OBVIOUS
    <3>3. PICK t : t = h[l] /\ t = [at |-> i, hex |-> x, blanks |-> y, shown |-> z]
      BY <2>2, <3>1, <3>2
    <3> HIDE DEF I, J, R
    <3>4. t.at = i /\ t.hex = x /\ t.blanks = y /\ t.shown = z
      BY <3>3
    <3> QED BY <3>1, <3>2, <3>3, <3>4 DEF Piece
  <2>5. DOMAIN h = 1..N
    BY <2>2
  <2> QED BY <2>1, <2>4, <2>5
<1>7. ASSUME NEW l \in 1..N
      PROVE  /\ FlattenSeq(h[l].hex) = Piece(data, c[l - 1], c[l])
             /\ Columns(h[l]) = 40
  <2>1. PICK m \in Nat, n \in Nat : m = c[l - 1] /\ n = c[l] /\ m <= n /\ n <= k
                                    /\ n - m \in 1..16
    <3>1. l - 1 \in 0..N /\ l \in 0..N /\ (l - 1) * 16 <= k - 1
      BY <1>2
    <3>2. c[l - 1] = (l - 1) * 16 /\ c[l] = IF 16 * l <= k THEN 16 * l ELSE k
      BY <1>3, <3>1
    <3> QED BY <3>1, <3>2
  <2>2. n <= Len(data)
    BY <1>1, <2>1
  <2>3. PICK b : b = Piece(data, m, n) /\ b \in Seq(0..255) /\ Len(b) = n - m
    <3>1. m <= n
      BY <2>1
    <3>2. Piece(data, m, n) \in Seq(0..255) /\ Len(Piece(data, m, n)) = n - m
      BY <2>2, <3>1, PiecesJoin, ZenonT(40)
    <3> QED BY <3>2
  <2>4. FlattenSeq(Pairs(b)) = b /\ Len(Pairs(b)) = (Len(b) + 1) \div 2
    BY <2>3, PairsFlat
  <2>5. PICK r \in 1..16 : r = n - m
    BY <2>1
  <2>6. Columns(h[l]) = 5 * ((r + 1) \div 2) + ((16 - r) \div 2) * 5
    BY <1>6, <2>1, <2>3, <2>4, <2>5 DEF Columns, Blanks, BytesPerLine
  <2>7. 5 * ((r + 1) \div 2) + ((16 - r) \div 2) * 5 = 40
    OBVIOUS
  <2> QED BY <1>6, <2>1, <2>3, <2>4, <2>6, <2>7
<1>8. FlattenSeq([l \in DOMAIN h |-> FlattenSeq(h[l].hex)]) = data
  <2>1. [l \in DOMAIN h |-> FlattenSeq(h[l].hex)] = Pieces(data, c, N)
    BY <1>6, <1>7 DEF Pieces
  <2>2. Cuts(c, N, Len(data))
    BY <1>1, <1>4
  <2>3. FlattenSeq(Pieces(data, c, N)) = data
    BY <2>2, FlattenCuts
  <2> QED BY <2>1, <2>3
<1>9. FlattenSeq([l \in DOMAIN h |-> h[l].shown]) = f
  <2>1. [l \in DOMAIN h |-> h[l].shown] = Pieces(f, c, N)
    BY <1>6 DEF Pieces
  <2>2. Cuts(c, N, Len(f)) /\ f \in Seq(0..255)
    BY <1>4, <1>5
  <2>3. FlattenSeq(Pieces(f, c, N)) = f
    BY <2>2, FlattenCuts
  <2> QED BY <2>1, <2>3
<1>10. 5 * (BytesPerLine \div 2) = 40 /\ BytesPerLine = 16
  BY DEF BytesPerLine
<1> QED BY <1>5, <1>6, <1>7, <1>8, <1>9, <1>10 DEF TellsData

(* The buffers, when the stack is empty, tell the text they hold.          *)
LEMMA CompleteTells ==
  ASSUME CodegenInv, phase # "idle", node = Len(ast) + 1
  PROVE  /\ TellsText(Mnemonics(g.text), g.text, g.rodata)
         /\ TellsData(Hexdump(g.rodata), g.rodata)
<1>1. Good(g, ast, node) /\ ast \in Asts
  BY InvIs
<1>2. Len(ast) \in Nat /\ Len(ast) <= MaxNodes
  <2>1. ast \in Seq([tok : Token, sibling : Nat]) /\ Len(ast) <= MaxNodes
    BY <1>1, AstsAssumption DEF IsTree
  <2> QED BY <2>1, LenProperties
<1>3. Sound(g) /\ g.stack = <<>>
  <2>1. Good(g, ast, Len(ast) + 1)
    BY <1>1
  <2> QED BY <1>2, <2>1, GoodLast DEF Good
<1>4. \A n \in DOMAIN g.text : g.text[n].op \in {"sa", "del"} => JumpSet(g, n)
  <2>1. DOMAIN g.stack = {}
    BY <1>3
  <2>2. \A n : ~JumpWaits(g, n)
    BY <2>1 DEF JumpWaits
  <2> QED BY <1>3, <2>2 DEF Sound, Jumps
<1>5. /\ Len(g.text) \in Nat /\ Len(g.rodata) \in Nat /\ g.rodata \in Seq(0..255)
      /\ Len(g.text) <= Len(ast) /\ Len(g.rodata) <= Len(ast)
  BY <1>3, Sizes, FitFollows DEF Sound, BuffersFit
<1>6. Len(g.text) <= MaxNodes /\ Len(g.rodata) <= MaxNodes
  BY SMT, <1>2, <1>5 DEF MaxNodes
<1>7. TellsText(Mnemonics(g.text), g.text, g.rodata)
  BY <1>3, <1>4, <1>6, TextTold
<1> QED BY <1>5, <1>7, DataTold

(* A sequence of anything.                                                 *)
IsList(s) == \E S : s \in Seq(S)

IsLonger(u, s, x) ==
  /\ IsList(u) /\ DOMAIN u = 1..(Len(s) + 1) /\ Len(s) \in Nat /\ DOMAIN s = 1..Len(s)
  /\ u[Len(s) + 1] = x /\ \A i \in DOMAIN s : u[i] = s[i]

(* What was written, and one section more.                                 *)
LEMMA AppendList ==
  ASSUME NEW s, IsList(s), NEW x
  PROVE  IsLonger(Append(s, x), s, x)
<1>0. PICK u : u = Append(s, x)
  OBVIOUS
<1>1. PICK S : s \in Seq(S)
  BY DEF IsList
<1>2. PICK T : T = S \cup {x}
  OBVIOUS
<1>3. s \in Seq(T)
  <2>1. \A i \in 1..Len(s) : s[i] \in T
    BY <1>1, <1>2, ElementOfSeq
  <2>2. s = [i \in DOMAIN s |-> s[i]] /\ DOMAIN s = 1..Len(s) /\ Len(s) \in Nat
    BY <1>1, LenProperties
  <2> QED BY <2>1, <2>2, SeqIs
<1>4. /\ u \in Seq(T) /\ Len(u) = Len(s) + 1 /\ u[Len(s) + 1] = x
      /\ \A i \in 1..Len(s) : u[i] = s[i]
  <2>1. x \in T
    BY <1>2
  <2> QED BY <1>0, <1>3, <2>1, AppendProperties
<1> QED BY <1>0, <1>3, <1>4, LenProperties DEF IsList, IsLonger

(* All nodes are done, whether or not what followed failed.                *)
Complete == phase # "idle" /\ node = Len(ast) + 1

(* A section is the same as long as the buffers are.                       *)
LEMMA SectionStays ==
  ASSUME g' = g, NEW s
  PROVE  Section(s)' = Section(s)
BY DEF Section

(* A step that leaves complete buffers alone and writes no section.        *)
LEMMA ShownKept ==
  ASSUME Shown, written' = written, Complete => Complete' /\ g' = g
  PROVE  Shown'
<1>1. SUFFICES ASSUME NEW i \in DOMAIN written, written[i].sec \in {"mnemonics", "data"}
               PROVE  Complete' /\ written[i] = Section(written[i].sec)'
  BY DEF Shown, Complete
<1>2. PICK s : s = written[i].sec
  OBVIOUS
<1>3. Complete /\ written[i] = Section(s)
  BY <1>1, <1>2 DEF Shown, Complete
<1>4. Section(s)' = Section(s)
  BY <1>3, SectionStays
<1> QED BY <1>2, <1>3, <1>4

(* A step that writes one.                                                 *)
LEMMA ShownMore ==
  ASSUME Shown, IsList(written), NEW x, written' = Append(written, x), g' = g,
         Complete => Complete',
         x.sec \in {"mnemonics", "data"} => Complete /\ x = Section(x.sec)
  PROVE  Shown' /\ IsList(written')
<1>1. PICK l \in Nat : /\ IsList(written') /\ DOMAIN written' = 1..(l + 1)
                       /\ DOMAIN written = 1..l
                       /\ written'[l + 1] = x /\ \A i \in 1..l : written'[i] = written[i]
  <2>1. IsLonger(Append(written, x), written, x)
    BY AppendList
  <2>2. IsLonger(written', written, x)
    BY <2>1
  <2> QED BY <2>2 DEF IsLonger
<1>2. ASSUME NEW i \in 1..(l + 1), written'[i].sec \in {"mnemonics", "data"}
      PROVE  Complete' /\ (written[i] = Section(written[i].sec))'
  <2>1. PICK w : w = written'[i]
    OBVIOUS
  <2>2. Complete /\ w = Section(w.sec)
    <3>1. CASE i = l + 1
      BY <1>1, <1>2, <2>1, <3>1
    <3>2. CASE i # l + 1
      <4>1. i \in 1..l
        BY <3>2
      <4> QED BY <1>1, <1>2, <2>1, <4>1 DEF Shown, Complete
    <3> QED BY <3>1, <3>2
  <2>3. PICK s : s = w.sec
    OBVIOUS
  <2>4. Section(s)' = Section(s)
    BY SectionStays
  <2>5. w = Section(s)'
    BY <2>2, <2>3, <2>4
  <2> QED BY <2>1, <2>2, <2>3, <2>5
<1> QED BY <1>1, <1>2 DEF Shown, Complete

(* Every step keeps what was shown of the complete buffers.                *)
LEMMA ShownNext ==
  ASSUME CodegenInv, Shown, IsList(written), [Next]_vars
  PROVE  Shown' /\ IsList(written')
<1>1. options \in Options /\ (NodesDone => node = Len(ast) + 1)
  BY InvIs
<1>2. CASE \E tree \in Asts, opts \in Options : Start(tree, opts)
  <2>1. ~Complete /\ written' = written
    BY <1>2 DEF Start, Complete
  <2> QED BY <2>1, ShownKept
<1>3. CASE WritePrefix
  <2>1. /\ phase' = "alloc" /\ UNCHANGED <<ast, node, g>>
        /\ written' = written \/ written' = Append(written, [sec |-> "prefix"])
    BY <1>3 DEF WritePrefix
  <2>2. CASE written' = written
    BY <2>1, <2>2, ShownKept DEF Complete
  <2>3. CASE written' = Append(written, [sec |-> "prefix"])
    <3>1. PICK x : x = [sec |-> "prefix"] /\ x.sec = "prefix"
      <4>1. PICK x : x = [sec |-> "prefix"]
        OBVIOUS
      <4>2. x.sec = "prefix"
        BY <4>1
      <4> QED BY <4>1, <4>2
    <3>2. Complete => Complete'
      BY <2>1 DEF Complete
    <3> QED BY <2>1, <2>3, <3>1, <3>2, ShownMore
  <2> QED BY <2>1, <2>2, <2>3
<1>4. CASE Allocate \/ EndNodes \/ Failed \/ DumpNoMemory
  <2>1. UNCHANGED <<ast, node, g, written>> /\ phase' # "idle"
    BY <1>1, <1>4, SectionsAre DEF Allocate, EndNodes, Failed, DumpNoMemory
  <2> QED BY <2>1, ShownKept DEF Complete
<1>5. CASE GenerateNode
  <2>1. node <= Len(ast) /\ written' = written /\ phase = "nodes"
    BY <1>5 DEF GenerateNode
  <2>2. Len(ast) \in Nat
    <3>1. ast \in Asts
      BY <2>1, InvIs
    <3>2. ast \in Seq([tok : Token, sibling : Nat])
      BY <3>1, AstsAssumption DEF IsTree
    <3> QED BY <3>2
  <2>3. ~Complete
    BY <2>1, <2>2 DEF Complete
  <2> QED BY <2>1, <2>3, ShownKept
<1>6. CASE WriteSection
  <2>1. PICK i \in DOMAIN Sections :
          /\ phase = Sections[i] /\ written' = Append(written, Section(Sections[i]))
          /\ phase' = IF i < Len(Sections) THEN Sections[i + 1] ELSE "ok"
          /\ UNCHANGED <<ast, options, node, g>>
    BY <1>6 DEF WriteSection
  <2>2. PICK s : s = Sections[i] /\ s \in {"header", "text", "rodata", "mnemonics", "data"}
    BY <1>1, <2>1, SectionsAre
  <2>3. Complete /\ Complete'
    <3>1. NodesDone /\ phase # "idle" /\ phase' # "idle"
      BY <1>1, <2>1, SectionsAre DEF NodesDone
    <3> QED BY <1>1, <2>1, <3>1 DEF Complete
  <2>4. Section(s).sec = s
    <3>1. PICK tl, rl, t, r, m, h : tl = Len(g.text) /\ rl = Len(g.rodata) /\ t = g.text /\ r = g.rodata
                             /\ m = Mnemonics(g.text) /\ h = Hexdump(g.rodata)
      OBVIOUS
    <3>2. /\ s = "header" => Section(s) = [sec |-> s, text_len |-> tl, rodata_len |-> rl]
          /\ s = "text" => Section(s) = [sec |-> s, text |-> t]
          /\ s = "rodata" => Section(s) = [sec |-> s, rodata |-> r]
          /\ s = "mnemonics" => Section(s) = [sec |-> s, lines |-> m]
          /\ s = "data" => Section(s) = [sec |-> s, lines |-> h]
      BY <3>1 DEF Section
    <3> QED BY <2>2, <3>2
  <2>5. PICK x : x = Section(s) /\ x.sec = s /\ written' = Append(written, x)
    BY <2>1, <2>2, <2>4
  <2> QED BY <2>1, <2>3, <2>5, ShownMore
<1>7. CASE UNCHANGED vars
  BY <1>7, ShownKept DEF vars, Complete
<1>8. IsList(written') \/ WriteSection \/ WritePrefix
  BY DEF Next, CodegenStep, vars, Start, Allocate, EndNodes, GenerateNode, Failed, DumpNoMemory
<1>9. CASE WritePrefix \/ WriteSection
  BY <1>3, <1>6, <1>9
<1> QED BY <1>2, <1>4, <1>5, <1>7, <1>8, <1>9 DEF Next, CodegenStep

(* What was written of the dump is what the complete buffers tell.         *)
LEMMA TellsFollows ==
  ASSUME CodegenInv, Shown
  PROVE  DumpTells
<1>1. SUFFICES ASSUME NEW i \in DOMAIN written, written[i].sec \in {"mnemonics", "data"}
               PROVE  /\ written[i].sec = "mnemonics" => TellsText(written[i].lines, g.text, g.rodata)
                      /\ written[i].sec = "data" => TellsData(written[i].lines, g.rodata)
  BY DEF DumpTells
<1>2. phase # "idle" /\ node = Len(ast) + 1 /\ written[i] = Section(written[i].sec)
  BY <1>1 DEF Shown
<1>3. /\ TellsText(Mnemonics(g.text), g.text, g.rodata)
      /\ TellsData(Hexdump(g.rodata), g.rodata)
  BY <1>2, CompleteTells
<1>4. PICK m, h : m = Mnemonics(g.text) /\ h = Hexdump(g.rodata)
  OBVIOUS
<1>5. CASE written[i].sec = "mnemonics"
  <2>1. PICK x : x = written[i] /\ x = [sec |-> "mnemonics", lines |-> m]
    BY <1>2, <1>4, <1>5 DEF Section
  <2>2. x.lines = m
    BY <2>1
  <2> QED BY <1>3, <1>4, <1>5, <2>1, <2>2
<1>6. CASE written[i].sec = "data"
  <2>1. PICK x : x = written[i] /\ x = [sec |-> "data", lines |-> h]
    BY <1>2, <1>4, <1>6 DEF Section
  <2>2. x.lines = h
    BY <2>1
  <2> QED BY <1>3, <1>4, <1>6, <2>1, <2>2
<1> QED BY <1>1, <1>5, <1>6

(* What -S wrote tells the program that was generated, the names of all    *)
(* operands, the line each jump leads to and every byte of the strings.    *)
THEOREM DumpTellsHolds == Spec => []DumpTells
<1>1. Init => Shown /\ IsList(written)
  BY DEF Init, Shown, IsList
<1>2. CodegenInv /\ Shown /\ IsList(written) /\ [Next]_vars => (Shown /\ IsList(written))'
  <2>1. SUFFICES ASSUME CodegenInv, Shown, IsList(written), [Next]_vars
                 PROVE  Shown' /\ IsList(written')
    BY DEF IsList
  <2> QED BY <2>1, ShownNext
<1>3. CodegenInv /\ Shown => DumpTells
  BY TellsFollows
<1> QED BY <1>1, <1>2, <1>3, CodegenSound, PTL DEF Spec

-----------------------------------------------------------------------------
(* The text and the code of the tree.                                      *)

(* Sequence s lies in c behind place x.                                    *)
Lies(c, x, s) == x + Len(s) <= Len(c) /\ \A i \in 1..Len(s) : c[x + i] = s[i]

(* What text t stands for in the code c: its first n instructions are the  *)
(* first P[n] of c.  A string of data d is the prints it replaced.         *)
StringStands(t, d, c, P, n) ==
  /\ n + 1 <= Len(t) /\ t[n + 1].op = "app"
  /\ \E o, m \in 0..Len(d) :
       /\ t[n].offset = Swap32(o) /\ o + m + 1 <= Len(d) /\ d[o + m + 1] = NUL
       /\ P[n] = P[n - 1] + m /\ P[n] <= Len(c)
       /\ \A k \in 1..m :
            /\ d[o + k] # NUL
            /\ c[P[n - 1] + k] = AppIns(TokCh("out", d[o + k]),
                                        IF k = 1 THEN t[n + 1].second ELSE NoTok)

(* A jump lands where the la that waits for it will end, or an la has.     *)
JumpStands(t, L, c, P, n) ==
  \E z \in 0..Len(c) :
    /\ c[P[n]] = Jump(t[n].op, z - P[n - 1])
    /\ \A e \in L : e.at = n => e.end = z
    /\ \/ \E e \in L : e.at = n
       \/ \E m \in 1..Len(t) : t[n].offset = Swap32(m) /\ P[m] = z

InString(t, n) == n > 1 /\ t[n - 1].op = "lc"

EntryStands(t, d, L, c, P, n) ==
  /\ t[n].op = "lc" => StringStands(t, d, c, P, n) /\ ~InString(t, n)
  /\ InString(t, n) => P[n] = P[n - 1]
  /\ t[n].op # "lc" /\ ~InString(t, n) =>
       /\ P[n] = P[n - 1] + 1 /\ P[n] <= Len(c)
       /\ IF t[n].op \in {"sa", "del"} THEN JumpStands(t, L, c, P, n)
          ELSE c[P[n]] = t[n]

TextStands(t, d, L, c, P) ==
  /\ P \in [0..Len(t) -> 0..Len(c)] /\ P[0] = 0
  /\ \A n \in 1..Len(t) : EntryStands(t, d, L, c, P, n)

(* What waits is behind place q[i] of c; w[i] is the application that a    *)
(* waiting sa waits for.                                                   *)
Las(s, q) == {[at |-> s[i].at, end |-> q[i] + 1] : i \in {i \in 1..Len(s) : s[i].ins.op = "la"}}

SaStands(c, C, y, o, z) ==
  /\ c[y + 1] = Jump("sa", Len(C[o]) + 2)
  /\ Lies(c, y + 1, C[o])
  /\ c[y + Len(C[o]) + 2] = OpIns("la", 0)
  /\ z = y + Len(C[o]) + 2

WaitStands(s, c, C, q, w, i) ==
  IF s[i].ins.op = "sa" THEN SaStands(c, C, q[i], w[i], q[i - 1])
  ELSE c[q[i] + 1] = s[i].ins /\ q[i - 1] = q[i] + 1 /\ s[i].ins.offset = 0

StackStands(s, c, C, q, w) ==
  /\ q \in [0..Len(s) -> 0..Len(c)] /\ q[0] = Len(c)
  /\ \A i \in 1..Len(s) : WaitStands(s, c, C, q, w, i)

Waiters(s) == {i \in 1..Len(s) : s[i].ins.op = "sa"}

(* The applications V are the ones that are waited for, the next one last. *)
Awaited(V, s, w) ==
  /\ V = {w[i] : i \in Waiters(s)}
  /\ \A i, j \in Waiters(s) : i < j => w[j] < w[i]

(* The stack waits for V, and what it holds is behind place y of the code. *)
Waits(V, s, c, C, y, q, w) ==
  StackStands(s, c, C, q, w) /\ q[Len(s)] = y /\ Awaited(V, s, w)

(* The code of application o is behind place x and ends at place y.        *)
Ahead(c, C, x, o, y) == Lies(c, x, C[o]) /\ y = x + Len(C[o])

(* The text stands for the code up to place x, and the stack, which waits  *)
(* for V, for the code behind place y.                                     *)
Stands(b, V, c, C, x, y) ==
  \E P, q, w : /\ TextStands(b.text, b.rodata, Las(b.stack, q), c, P)
               /\ P[Len(b.text)] = x
               /\ Waits(V, b.stack, c, C, y, q, w)

(* The code between the two is the one of the next application of W.       *)
StandsNext(b, W, c, C) ==
  IF W = {} THEN b.stack = <<>> /\ Stands(b, {}, c, C, Len(c), Len(c))
  ELSE \E o \in W, x, y \in 0..Len(c) :
         /\ \A v \in W : o <= v
         /\ Stands(b, W \ {o}, c, C, x, y) /\ Ahead(c, C, x, o, y)

(* What lies in a sequence lies there part by part.                        *)
LEMMA LiesJoin ==
  ASSUME NEW S, NEW c \in Seq(S), NEW x \in Nat, NEW s \in Seq(S), NEW t \in Seq(S),
         Lies(c, x, s \o t)
  PROVE  Lies(c, x, s) /\ Lies(c, x + Len(s), t) /\ x + Len(s) <= Len(c)
<1>1. PICK u : u = s \o t
  OBVIOUS
<1>2. PICK k \in Nat, n \in Nat, l \in Nat : k = Len(s) /\ n = Len(t) /\ l = Len(c)
  BY LenProperties
<1>3. /\ Len(u) = k + n
      /\ \A i \in 1..k : u[i] = s[i]
      /\ \A i \in 1..n : u[k + i] = t[i]
  <2>1. /\ Len(u) = Len(s) + Len(t)
        /\ \A i \in 1..Len(s) : u[i] = s[i]
        /\ \A i \in 1..Len(t) : u[Len(s) + i] = t[i]
    BY <1>1, Joined
  <2> QED BY <1>2, <2>1
<1>4. x + (k + n) <= l /\ \A i \in 1..(k + n) : c[x + i] = u[i]
  BY <1>1, <1>2, <1>3 DEF Lies
<1>5. \A i \in 1..k : c[x + i] = s[i]
  BY <1>3, <1>4
<1>6. ASSUME NEW i \in 1..n PROVE c[x + k + i] = t[i]
  <2>1. k + i \in 1..(k + n) /\ x + (k + i) = x + k + i
    OBVIOUS
  <2> QED BY <1>3, <1>4, <2>1
<1>7. x + k <= l /\ x + k + n <= l
  BY <1>4
<1> QED BY <1>2, <1>5, <1>6, <1>7 DEF Lies

(* One value lies at its place.                                            *)
LEMMA LiesOne ==
  ASSUME NEW c, NEW x \in Nat, NEW i, Lies(c, x, <<i>>)
  PROVE  c[x + 1] = i
<1>1. PICK s : s = <<i>>
  OBVIOUS
<1>2. Len(s) = 1 /\ s[1] = i
  BY <1>1
<1> QED BY <1>1, <1>2 DEF Lies

-----------------------------------------------------------------------------
(* The code of a tree.                                                     *)

(* The rule for a node gives instructions when the nodes behind it do.     *)
LEMMA RuleType ==
  ASSUME NEW a, IsTree(a), NEW n \in 1..Len(a), NEW f,
         IsApp(a[n].tok) =>
           f[n + 1] \in Seq(Ins) /\ f[a[n + 1].sibling] \in Seq(Ins)
  PROVE  CodeRule(a, n, f) \in Seq(Ins)
<1>1. CASE ~IsApp(a[n].tok)
  <2>1. CodeRule(a, n, f) = <<>>
    BY <1>1, Zenon DEF CodeRule
  <2> QED BY <2>1
<1>2. CASE IsApp(a[n].tok)
  <2>1. PICK l \in Token, r \in Token : l = a[n + 1].tok /\ r = a[a[n + 1].sibling].tok
    BY <1>2, TreeNode
  <2>2. PICK cl \in Seq(Ins), cr \in Seq(Ins) : cl = f[n + 1] /\ cr = f[a[n + 1].sibling]
    BY <1>2
  <2>3. PICK k \in Nat : k = Len(cr)
    BY LenProperties
  <2>4. \A i \in Ins : <<i>> \in Seq(Ins)
    OBVIOUS
  <2>5. /\ Jump("sa", k + 2) \in Ins /\ Jump("del", k + 2) \in Ins /\ OpIns("la", 0) \in Ins
    <3>1. k + 2 \in Nat /\ 0 \in Nat
      OBVIOUS
    <3> QED BY <3>1, InsType DEF Jump
  <2>6. /\ ~IsApp(l) => AppIns(l, NoTok) \in Ins
        /\ ~IsApp(r) => AppIns(NoTok, r) \in Ins
        /\ ~IsApp(l) /\ ~IsApp(r) => AppIns(l, r) \in Ins
    <3>1. (~IsApp(l) => l \in Leaves \cup {NoTok}) /\ (~IsApp(r) => r \in Leaves \cup {NoTok})
      BY DEF Leaves
    <3> QED BY <3>1, InsType
  <2>7. CASE IsApp(l) /\ IsApp(r)
    <3>1. CodeRule(a, n, f) = cl \o <<Jump("sa", k + 2)>> \o cr \o <<OpIns("la", 0)>>
      BY <1>2, <2>1, <2>2, <2>3, <2>7, Zenon DEF CodeRule
    <3> QED BY <2>4, <2>5, <3>1, ConcatProperties
  <2>8. CASE IsApp(l) /\ ~IsApp(r)
    <3>1. CodeRule(a, n, f) = cl \o <<AppIns(NoTok, r)>>
      BY <1>2, <2>1, <2>2, <2>8, Zenon DEF CodeRule
    <3> QED BY <2>4, <2>6, <2>8, <3>1, ConcatProperties
  <2>9. CASE ~IsApp(l) /\ l.fn = "d" /\ IsApp(r)
    <3>1. CodeRule(a, n, f) = <<Jump("del", k + 2)>> \o cr \o <<OpIns("la", 0)>>
      BY <1>2, <2>1, <2>2, <2>3, <2>9, Zenon DEF CodeRule
    <3> QED BY <2>4, <2>5, <3>1, ConcatProperties
  <2>10. CASE ~IsApp(l) /\ l.fn # "d" /\ IsApp(r)
    <3>1. CodeRule(a, n, f) = cr \o <<AppIns(l, NoTok)>>
      BY <1>2, <2>1, <2>2, <2>10, Zenon DEF CodeRule
    <3> QED BY <2>4, <2>6, <2>10, <3>1, ConcatProperties
  <2>11. CASE ~IsApp(l) /\ ~IsApp(r)
    <3>1. CodeRule(a, n, f) = <<AppIns(l, r)>>
      BY <1>2, <2>1, <2>2, <2>11, Zenon DEF CodeRule
    <3> QED BY <2>4, <2>6, <2>11, <3>1
  <2> QED BY <2>7, <2>8, <2>9, <2>10, <2>11
<1> QED BY <1>1, <1>2

(* Two functions that agree behind a node give it the same code.           *)
LEMMA RuleSame ==
  ASSUME NEW a, IsTree(a), NEW n \in 1..Len(a), NEW f, NEW h,
         \A m \in (n + 1)..Len(a) : f[m] = h[m]
  PROVE  CodeRule(a, n, f) = CodeRule(a, n, h)
<1>1. CASE ~IsApp(a[n].tok)
  BY <1>1, Zenon DEF CodeRule
<1>2. CASE IsApp(a[n].tok)
  <2>0. PICK N \in Nat, s \in Nat : s = a[n + 1].sibling /\ N = Len(a)
    <3>1. Len(a) \in Nat /\ a[n + 1].sibling \in (n + 2)..Len(a)
      BY <1>2, LenProperties, TreeNode DEF IsTree
    <3> QED BY <3>1
  <2>1. s \in (n + 2)..N /\ n + 1 \in 1..N
    BY <1>2, <2>0, TreeNode
  <2>2. n + 1 \in (n + 1)..Len(a) /\ s \in (n + 1)..Len(a)
    BY <2>0, <2>1
  <2>3. f[n + 1] = h[n + 1] /\ f[s] = h[s]
    BY <2>2
  <2> QED BY <2>0, <2>3, Zenon DEF CodeRule
<1> QED BY <1>1, <1>2

(* The equations of the code have a solution, and it is a sequence of      *)
(* instructions for every node.                                            *)
LEMMA CodesAre ==
  ASSUME NEW a, IsTree(a)
  PROVE  \A n \in 1..Len(a) : /\ CodesOf(a)[n] = CodeRule(a, n, CodesOf(a))
                              /\ CodesOf(a)[n] \in Seq(Ins)
<1>1. PICK N \in Nat : N = Len(a) /\ DOMAIN a = 1..N
  BY LenProperties DEF IsTree
<1>2. PICK V : V = Seq(Ins)
  OBVIOUS
<1> DEFINE Sol == {h \in UNION {[p..N -> V] : p \in 1..(N + 1)} :
                     \A n \in DOMAIN h : h[n] = CodeRule(a, n, h)}
<1>3. \A h \in [(N + 1)..N -> V] : h \in Sol
  <2>1. (N + 1)..N = {} /\ N + 1 \in 1..(N + 1)
    OBVIOUS
  <2> QED BY <2>1
<1>4. ASSUME NEW p \in 1..N, NEW h \in [(p + 1)..N -> V], h \in Sol
      PROVE  \E k \in [p..N -> V] : k \in Sol
  <2>1. PICK v : v = CodeRule(a, p, h)
    OBVIOUS
  <2>2. v \in V
    <3>1. ASSUME IsApp(a[p].tok)
          PROVE  h[p + 1] \in Seq(Ins) /\ h[a[p + 1].sibling] \in Seq(Ins)
      <4>1. PICK s : s = a[p + 1].sibling
        OBVIOUS
      <4>2. s \in (p + 2)..N /\ p + 1 \in 1..N
        BY <1>1, <3>1, <4>1, TreeNode
      <4>3. p + 1 \in (p + 1)..N /\ s \in (p + 1)..N
        BY <4>2
      <4> QED BY <1>2, <4>1, <4>3
    <3>2. p \in 1..Len(a)
      BY <1>1
    <3> QED BY <1>2, <2>1, <3>1, <3>2, RuleType
  <2>3. PICK k : k = [n \in p..N |-> IF n = p THEN v ELSE h[n]]
    OBVIOUS
  <2>4. k \in [p..N -> V] /\ k[p] = v /\ \A n \in (p + 1)..N : k[n] = h[n]
    <3>1. \A n \in p..N : n = p \/ n \in (p + 1)..N
      OBVIOUS
    <3>2. p \in p..N /\ \A n \in (p + 1)..N : n \in p..N /\ n # p
      OBVIOUS
    <3> QED BY <2>2, <2>3, <3>1, <3>2
  <2>5. \A n \in p..N : CodeRule(a, n, k) = CodeRule(a, n, h)
    <3>1. SUFFICES ASSUME NEW n \in p..N PROVE CodeRule(a, n, k) = CodeRule(a, n, h)
      OBVIOUS
    <3>2. n \in 1..Len(a) /\ \A m \in (n + 1)..Len(a) : m \in (p + 1)..N
      BY <1>1
    <3>3. \A m \in (n + 1)..Len(a) : k[m] = h[m]
      BY <2>4, <3>2
    <3> QED BY <3>2, <3>3, RuleSame
  <2>6. \A n \in p..N : k[n] = CodeRule(a, n, k)
    <3>1. \A n \in (p + 1)..N : h[n] = CodeRule(a, n, h)
      <4>1. DOMAIN h = (p + 1)..N
        OBVIOUS
      <4> QED BY <1>4, <4>1
    <3>2. p \in p..N /\ \A n \in p..N : n = p \/ n \in (p + 1)..N
      OBVIOUS
    <3>3. \A n \in (p + 1)..N : n \in p..N
      OBVIOUS
    <3>4. k[p] = CodeRule(a, p, k)
      BY <2>1, <2>4, <2>5, <3>2
    <3>5. \A n \in (p + 1)..N : k[n] = CodeRule(a, n, k)
      BY <2>4, <2>5, <3>1, <3>3
    <3> QED BY <3>2, <3>4, <3>5
  <2>7. k \in Sol
    <3>1. p \in 1..(N + 1) /\ DOMAIN k = p..N
      BY <2>4
    <3> QED BY <2>4, <2>6, <3>1
  <2> QED BY <2>4, <2>7
<1>5. PICK h \in [1..N -> V] : h \in Sol
  <2> HIDE DEF Sol
  <2> QED BY <1>3, <1>4, DownRecursion
<1>6. h = [n \in 1..N |-> CodeRule(a, n, h)]
  <2>1. \A n \in 1..N : h[n] = CodeRule(a, n, h)
    BY <1>5
  <2> QED BY <2>1
<1>7. PICK f : f = [n \in 1..N |-> CodeRule(a, n, f)] /\ CodesOf(a) = f
  <2>1. CodesOf(a) = CHOOSE f : f = [n \in 1..N |-> CodeRule(a, n, f)]
    BY <1>1 DEF CodesOf
  <2>2. PICK f : f = CHOOSE e : e = [n \in 1..N |-> CodeRule(a, n, e)]
    OBVIOUS
  <2>3. f = [n \in 1..N |-> CodeRule(a, n, f)]
    BY <1>6, <2>2
  <2> QED BY <2>1, <2>2, <2>3
<1>8. \A n \in 1..N : f[n] = CodeRule(a, n, f)
  BY <1>7
<1> DEFINE T == {n \in 1..N : f[n] \in V}
<1>9. ASSUME NEW n \in 1..N, \A m \in (n + 1)..N : m \in T PROVE n \in T
  <2>1. ASSUME IsApp(a[n].tok)
        PROVE  f[n + 1] \in Seq(Ins) /\ f[a[n + 1].sibling] \in Seq(Ins)
    <3>1. PICK s : s = a[n + 1].sibling
      OBVIOUS
    <3>2. s \in (n + 2)..N /\ n + 1 \in 1..N
      BY <1>1, <2>1, <3>1, TreeNode
    <3>3. n + 1 \in (n + 1)..N /\ s \in (n + 1)..N
      BY <3>2
    <3> QED BY <1>2, <1>9, <3>1, <3>3
  <2>2. CodeRule(a, n, f) \in Seq(Ins)
    BY <1>1, <2>1, RuleType
  <2> QED BY <1>2, <1>8, <2>2
<1>10. \A n \in 1..N : n \in T
  <2> HIDE DEF T
  <2> QED BY <1>9, DownInduction
<1> QED BY <1>1, <1>2, <1>7, <1>8, <1>10

(* Where the code of an application is, the parts of it are.               *)
LEMMA CodeLies ==
  ASSUME NEW a, IsTree(a), NEW n \in 1..Len(a), IsApp(a[n].tok),
         NEW C, C = CodesOf(a), NEW c \in Seq(Ins), NEW x \in Nat, NEW y \in Nat,
         Ahead(c, C, x, n, y),
         NEW s, s = a[n + 1].sibling, NEW l, l = a[n + 1].tok, NEW r, r = a[s].tok
  PROVE  /\ y \in 0..Len(c)
         /\ IsApp(l) /\ IsApp(r) =>
              \E z \in 0..y : Ahead(c, C, x, n + 1, z) /\ SaStands(c, C, z, s, y)
         /\ IsApp(l) /\ ~IsApp(r) =>
              \E z \in 0..y : /\ Ahead(c, C, x, n + 1, z) /\ y = z + 1
                             /\ c[z + 1] = AppIns(NoTok, r)
         /\ ~IsApp(l) /\ l.fn = "d" /\ IsApp(r) =>
              \E z \in 0..y : /\ c[x + 1] = Jump("del", y - x) /\ x + 1 <= y
                             /\ Ahead(c, C, x + 1, s, z) /\ y = z + 1
                             /\ c[z + 1] = OpIns("la", 0)
         /\ ~IsApp(l) /\ l.fn # "d" /\ IsApp(r) =>
              \E z \in 0..y : /\ Ahead(c, C, x, s, z) /\ y = z + 1
                             /\ c[z + 1] = AppIns(l, NoTok)
         /\ ~IsApp(l) /\ ~IsApp(r) => c[x + 1] = AppIns(l, r) /\ y = x + 1
<1>1. PICK m \in Nat : m = Len(c)
  BY LenProperties
<1>2. s \in (n + 2)..Len(a) /\ n + 1 \in 1..Len(a) /\ l \in Token /\ r \in Token
  BY TreeNode
<1>3. s \in 1..Len(a)
  BY <1>2
<1>4. PICK cn \in Seq(Ins), cl \in Seq(Ins), cr \in Seq(Ins) :
        cn = C[n] /\ cl = C[n + 1] /\ cr = C[s] /\ cn = CodeRule(a, n, C)
  BY <1>2, <1>3, CodesAre
<1>5. PICK kn \in Nat, kl \in Nat, kr \in Nat : kn = Len(cn) /\ kl = Len(cl) /\ kr = Len(cr)
  BY LenProperties
<1>6. Lies(c, x, cn) /\ y = x + kn /\ y <= m
  BY <1>1, <1>4, <1>5 DEF Ahead, Lies
<1>7. \A i : i \in Ins => <<i>> \in Seq(Ins) /\ Len(<<i>>) = 1
  OBVIOUS
<1>8. /\ Jump("sa", kr + 2) \in Ins /\ Jump("del", kr + 2) \in Ins /\ OpIns("la", 0) \in Ins
  <2>1. kr + 2 \in Nat /\ 0 \in Nat
    OBVIOUS
  <2> QED BY <2>1, InsType DEF Jump
<1>9. /\ ~IsApp(l) => AppIns(l, NoTok) \in Ins
      /\ ~IsApp(r) => AppIns(NoTok, r) \in Ins
      /\ ~IsApp(l) /\ ~IsApp(r) => AppIns(l, r) \in Ins
  <2>1. (~IsApp(l) => l \in Leaves \cup {NoTok}) /\ (~IsApp(r) => r \in Leaves \cup {NoTok})
    BY <1>2 DEF Leaves
  <2> QED BY <2>1, InsType
<1>10. CASE IsApp(l) /\ IsApp(r)
  <2>1. cn = cl \o <<Jump("sa", kr + 2)>> \o cr \o <<OpIns("la", 0)>>
    BY <1>4, <1>5, <1>10, Zenon DEF CodeRule
  <2>2. PICK j \in Seq(Ins), e \in Seq(Ins) :
          /\ j = <<Jump("sa", kr + 2)>> /\ e = <<OpIns("la", 0)>> /\ Len(j) = 1 /\ Len(e) = 1
    BY <1>7, <1>8
  <2>3. PICK u \in Seq(Ins) : u = cl \o j /\ Len(u) = Len(cl) + Len(j)
    BY ConcatProperties
  <2>4. PICK v \in Seq(Ins) : v = u \o cr /\ Len(v) = Len(u) + Len(cr)
    BY ConcatProperties
  <2>5. cn = v \o e
    BY <2>1, <2>2, <2>3, <2>4
  <2>6. Len(cn) = Len(v) + Len(e)
    BY <2>5, ConcatProperties
  <2>7. Len(u) = kl + 1 /\ Len(v) = kl + 1 + kr /\ kn = kl + 1 + kr + 1
    BY <1>5, <2>2, <2>3, <2>4, <2>6
  <2>8. Lies(c, x, v \o e)
    BY <1>6, <2>5
  <2>9. Lies(c, x, v) /\ Lies(c, x + Len(v), e)
    BY <2>8, LiesJoin
  <2>10. Lies(c, x, u \o cr)
    BY <2>4, <2>9
  <2>11. Lies(c, x, u) /\ Lies(c, x + Len(u), cr)
    BY <2>10, LiesJoin
  <2>12. Lies(c, x, cl \o j)
    BY <2>3, <2>11
  <2>13. Lies(c, x, cl) /\ Lies(c, x + Len(cl), j)
    BY <2>12, LiesJoin
  <2>14. PICK z \in Nat, w \in Nat : z = x + kl /\ w = z + kr + 1
    <3>1. PICK z \in Nat : z = x + kl
      OBVIOUS
    <3>2. z + kr + 1 \in Nat
      OBVIOUS
    <3> QED BY <3>1, <3>2
  <2>15. x + Len(v) = w /\ x + Len(u) = z + 1 /\ x + Len(cl) = z
    BY <1>5, <2>7, <2>14
  <2>16. Lies(c, z, <<Jump("sa", kr + 2)>>) /\ Lies(c, w, <<OpIns("la", 0)>>)
    BY <2>2, <2>9, <2>13, <2>15
  <2>17. c[z + 1] = Jump("sa", kr + 2) /\ c[w + 1] = OpIns("la", 0)
    BY <2>16, LiesOne
  <2>18. w + 1 = z + kr + 2 /\ y = z + kr + 2 /\ z \in 0..y
    BY <1>6, <2>7, <2>14
  <2>19. Ahead(c, C, x, n + 1, z)
    BY <1>4, <1>5, <2>13, <2>14 DEF Ahead
  <2>20. SaStands(c, C, z, s, y)
    <3>1. Lies(c, z + 1, C[s]) /\ Len(C[s]) = kr
      BY <1>4, <1>5, <2>11, <2>15
    <3> QED BY <2>17, <2>18, <3>1 DEF SaStands
  <2>21. \E k \in 0..y : Ahead(c, C, x, n + 1, k) /\ SaStands(c, C, k, s, y)
    BY <2>18, <2>19, <2>20
  <2>22. y \in 0..Len(c)
    BY <1>1, <1>6
  <2> QED BY <1>10, <2>21, <2>22, Zenon
<1>11. CASE IsApp(l) /\ ~IsApp(r)
  <2>1. cn = cl \o <<AppIns(NoTok, r)>>
    BY <1>4, <1>5, <1>11, Zenon DEF CodeRule
  <2>2. PICK e \in Seq(Ins) : e = <<AppIns(NoTok, r)>> /\ Len(e) = 1
    BY <1>7, <1>9, <1>11
  <2>3. Lies(c, x, cl) /\ Lies(c, x + Len(cl), e) /\ kn = kl + 1
    <3>1. Len(cn) = Len(cl) + Len(e)
      BY <2>1, <2>2, ConcatProperties
    <3>2. Lies(c, x, cl \o e)
      BY <1>6, <2>1, <2>2
    <3>3. Lies(c, x, cl) /\ Lies(c, x + Len(cl), e)
      BY <3>2, LiesJoin
    <3> QED BY <1>5, <2>2, <3>1, <3>3
  <2>4. PICK z \in Nat : z = x + kl
    OBVIOUS
  <2>5. c[z + 1] = AppIns(NoTok, r)
    BY <1>5, <2>2, <2>3, <2>4, LiesOne
  <2>6. y = z + 1 /\ z \in 0..y
    <3>1. y = x + kn
      BY <1>6
    <3>2. kn = z - x + 1
      BY <2>3, <2>4
    <3>3. y = z + 1
      BY <3>1, <3>2
    <3> QED BY <3>3
  <2>7. Ahead(c, C, x, n + 1, z)
    BY <1>4, <1>5, <2>3, <2>4 DEF Ahead
  <2>8. \E k \in 0..y : /\ Ahead(c, C, x, n + 1, k) /\ y = k + 1
                          /\ c[k + 1] = AppIns(NoTok, r)
    BY <2>5, <2>6, <2>7
  <2>9. y \in 0..Len(c)
    BY <1>1, <1>6
  <2> QED BY <1>11, <2>8, <2>9, Zenon
<1>12. CASE ~IsApp(l) /\ l.fn = "d" /\ IsApp(r)
  <2>1. cn = <<Jump("del", kr + 2)>> \o cr \o <<OpIns("la", 0)>>
    BY <1>4, <1>5, <1>12, Zenon DEF CodeRule
  <2>2. PICK j \in Seq(Ins), e \in Seq(Ins) :
          /\ j = <<Jump("del", kr + 2)>> /\ e = <<OpIns("la", 0)>> /\ Len(j) = 1 /\ Len(e) = 1
    BY <1>7, <1>8
  <2>3. PICK v \in Seq(Ins) : v = j \o cr /\ Len(v) = Len(j) + Len(cr)
    BY ConcatProperties
  <2>4. cn = v \o e
    BY <2>1, <2>2, <2>3
  <2>5. Len(cn) = Len(v) + Len(e)
    BY <2>4, ConcatProperties
  <2>6. Len(v) = 1 + kr /\ kn = kr + 2
    BY <1>5, <2>2, <2>3, <2>5
  <2>7. Lies(c, x, v \o e)
    BY <1>6, <2>4
  <2>8. Lies(c, x, v) /\ Lies(c, x + Len(v), e)
    BY <2>7, LiesJoin
  <2>9. Lies(c, x, j \o cr)
    BY <2>3, <2>8
  <2>10. Lies(c, x, j) /\ Lies(c, x + Len(j), cr)
    BY <2>9, LiesJoin
  <2>11. PICK z \in Nat : z = x + 1 + kr
    OBVIOUS
  <2>12. y = z + 1 /\ z \in 0..y /\ x + Len(v) = z /\ x + 1 <= y /\ y - x = kr + 2
    <3>1. y = x + kn
      BY <1>6
    <3>2. kn = kr + 2
      BY <2>6
    <3>3. Len(v) = 1 + kr
      BY <2>6
    <3>4. y = x + kr + 2
      BY <3>1, <3>2
    <3>5. x + Len(v) = z
      BY <2>11, <3>3
    <3> QED BY <2>11, <3>4, <3>5
  <2>13. c[x + 1] = Jump("del", kr + 2) /\ c[z + 1] = OpIns("la", 0)
    BY <2>2, <2>8, <2>10, <2>12, LiesOne
  <2>14. Ahead(c, C, x + 1, s, z)
    BY <1>4, <1>5, <2>2, <2>10, <2>11 DEF Ahead
  <2>15. \E k \in 0..y : /\ c[x + 1] = Jump("del", y - x) /\ x + 1 <= y
                         /\ Ahead(c, C, x + 1, s, k) /\ y = k + 1
                         /\ c[k + 1] = OpIns("la", 0)
    BY <2>12, <2>13, <2>14
  <2>16. y \in 0..Len(c)
    BY <1>1, <1>6
  <2> QED BY <1>12, <2>15, <2>16, Zenon
<1>13. CASE ~IsApp(l) /\ l.fn # "d" /\ IsApp(r)
  <2>1. cn = cr \o <<AppIns(l, NoTok)>>
    BY <1>4, <1>5, <1>13, Zenon DEF CodeRule
  <2>2. PICK e \in Seq(Ins) : e = <<AppIns(l, NoTok)>> /\ Len(e) = 1
    BY <1>7, <1>9, <1>13
  <2>3. Lies(c, x, cr) /\ Lies(c, x + Len(cr), e) /\ kn = kr + 1
    <3>1. Len(cn) = Len(cr) + Len(e)
      BY <2>1, <2>2, ConcatProperties
    <3>2. Lies(c, x, cr \o e)
      BY <1>6, <2>1, <2>2
    <3>3. Lies(c, x, cr) /\ Lies(c, x + Len(cr), e)
      BY <3>2, LiesJoin
    <3> QED BY <1>5, <2>2, <3>1, <3>3
  <2>4. PICK z \in Nat : z = x + kr
    OBVIOUS
  <2>5. c[z + 1] = AppIns(l, NoTok)
    BY <1>5, <2>2, <2>3, <2>4, LiesOne
  <2>6. y = z + 1 /\ z \in 0..y
    <3>1. y = x + kn
      BY <1>6
    <3>2. kn = z - x + 1
      BY <2>3, <2>4
    <3>3. y = z + 1
      BY <3>1, <3>2
    <3> QED BY <3>3
  <2>7. Ahead(c, C, x, s, z)
    BY <1>4, <1>5, <2>3, <2>4 DEF Ahead
  <2>8. \E k \in 0..y : /\ Ahead(c, C, x, s, k) /\ y = k + 1
                          /\ c[k + 1] = AppIns(l, NoTok)
    BY <2>5, <2>6, <2>7
  <2>9. y \in 0..Len(c)
    BY <1>1, <1>6
  <2> QED BY <1>13, <2>8, <2>9, Zenon
<1>14. CASE ~IsApp(l) /\ ~IsApp(r)
  <2>1. cn = <<AppIns(l, r)>> /\ Len(cn) = 1
    BY <1>4, <1>7, <1>9, <1>14, Zenon DEF CodeRule
  <2>2. y = x + 1 /\ c[x + 1] = AppIns(l, r)
    BY <1>5, <1>6, <2>1, LiesOne
  <2> QED BY <1>1, <1>6, <1>14, <2>2
<1> QED BY <1>10, <1>11, <1>12, <1>13, <1>14

-----------------------------------------------------------------------------
(* What a text stands for, entry by entry.                                 *)

Extends(u, t) == Len(t) <= Len(u) /\ \A i \in 1..Len(t) : u[i] = t[i]

(* The same la's wait for the jump n.                                      *)
SameAt(L, M, n) == \A e : e.at = n => (e \in L <=> e \in M)

(* A jump stands when the text gets longer and the la that sets it is as   *)
(* before.                                                                 *)
LEMMA JumpKept ==
  ASSUME NEW T \in Nat, NEW U \in Nat, T <= U, NEW t, NEW u, Len(t) = T, Len(u) = U,
         NEW n \in 1..T, u[n] = t[n],
         NEW P, NEW Q, \A i \in 0..T : Q[i] = P[i], NEW L, NEW M, SameAt(L, M, n), NEW c,
         JumpStands(t, L, c, P, n)
  PROVE  JumpStands(u, M, c, Q, n)
<1>1. PICK z \in 0..Len(c) :
        /\ c[P[n]] = Jump(t[n].op, z - P[n - 1])
        /\ \A e \in L : e.at = n => e.end = z
        /\ \/ \E e \in L : e.at = n
           \/ \E m \in 1..T : t[n].offset = Swap32(m) /\ P[m] = z
  BY DEF JumpStands
<1>2. n \in 0..T /\ n - 1 \in 0..T
  OBVIOUS
<1>3. c[Q[n]] = Jump(u[n].op, z - Q[n - 1])
  BY <1>1, <1>2
<1>4. \A e \in M : e.at = n => e.end = z
  BY <1>1 DEF SameAt
<1>5. (\E e \in L : e.at = n) => \E e \in M : e.at = n
  BY DEF SameAt
<1>6. ASSUME NEW m \in 1..T, t[n].offset = Swap32(m), P[m] = z
      PROVE  \E k \in 1..U : u[n].offset = Swap32(k) /\ Q[k] = z
  <2>1. m \in 1..U /\ m \in 0..T
    OBVIOUS
  <2> QED BY <1>6, <2>1
<1> QED BY <1>1, <1>3, <1>4, <1>5, <1>6 DEF JumpStands

(* A string stands when text and data get longer.                          *)
LEMMA StringKept ==
  ASSUME NEW t, NEW u, NEW T \in Nat, T = Len(t), NEW U \in Nat, U = Len(u), Extends(u, t),
         NEW d, NEW e, NEW D \in Nat, D = Len(d), NEW E \in Nat, E = Len(e), Extends(e, d),
         NEW P, NEW Q, \A i \in 0..T : Q[i] = P[i], NEW n \in 1..T, NEW c,
         StringStands(t, d, c, P, n)
  PROVE  StringStands(u, e, c, Q, n)
<1>1. /\ n + 1 <= T /\ t[n + 1].op = "app"
      /\ \E o, m \in 0..D :
           /\ t[n].offset = Swap32(o) /\ o + m + 1 <= D /\ d[o + m + 1] = NUL
           /\ P[n] = P[n - 1] + m /\ P[n] <= Len(c)
           /\ \A k \in 1..m :
                /\ d[o + k] # NUL
                /\ c[P[n - 1] + k] = AppIns(TokCh("out", d[o + k]),
                                            IF k = 1 THEN t[n + 1].second ELSE NoTok)
  BY DEF StringStands
<1>2. PICK o \in 0..D, m \in 0..D :
           /\ t[n].offset = Swap32(o) /\ o + m + 1 <= D /\ d[o + m + 1] = NUL
           /\ P[n] = P[n - 1] + m /\ P[n] <= Len(c)
           /\ \A k \in 1..m :
                /\ d[o + k] # NUL
                /\ c[P[n - 1] + k] = AppIns(TokCh("out", d[o + k]),
                                            IF k = 1 THEN t[n + 1].second ELSE NoTok)
  BY <1>1
<1>3. /\ T <= U /\ \A i \in 1..T : u[i] = t[i]
      /\ D <= E /\ \A i \in 1..D : e[i] = d[i]
  BY DEF Extends
<1>4. n + 1 \in 1..T /\ n + 1 <= U /\ n \in 0..T /\ n - 1 \in 0..T
  BY <1>1, <1>3
<1>5. u[n] = t[n] /\ u[n + 1] = t[n + 1] /\ Q[n] = P[n] /\ Q[n - 1] = P[n - 1]
  BY <1>3, <1>4
<1>6. o \in 0..E /\ m \in 0..E /\ o + m + 1 <= E /\ o + m + 1 \in 1..D
  BY <1>2, <1>3
<1>7. e[o + m + 1] = NUL
  BY <1>2, <1>3, <1>6
<1>8. \A k \in 1..m : e[o + k] = d[o + k]
  <2>1. \A k \in 1..m : o + k \in 1..D
    BY <1>2
  <2> QED BY <1>3, <2>1
<1>9. \A k \in 1..m :
        /\ e[o + k] # NUL
        /\ c[Q[n - 1] + k] = AppIns(TokCh("out", e[o + k]),
                                    IF k = 1 THEN u[n + 1].second ELSE NoTok)
  BY <1>2, <1>5, <1>8
<1>10. u[n].offset = Swap32(o) /\ Q[n] = Q[n - 1] + m /\ Q[n] <= Len(c) /\ u[n + 1].op = "app"
  BY <1>1, <1>2, <1>5
<1> QED BY <1>4, <1>6, <1>7, <1>9, <1>10 DEF StringStands

(* So does every entry.                                                    *)
LEMMA EntryKept ==
  ASSUME NEW t, NEW u, NEW T \in Nat, T = Len(t), NEW U \in Nat, U = Len(u), Extends(u, t),
         NEW d, NEW e, NEW D \in Nat, D = Len(d), NEW E \in Nat, E = Len(e), Extends(e, d),
         NEW P, NEW Q, \A i \in 0..T : Q[i] = P[i], NEW n \in 1..T,
         NEW L, NEW M, SameAt(L, M, n), NEW c,
         EntryStands(t, d, L, c, P, n)
  PROVE  EntryStands(u, e, M, c, Q, n)
<1>1. T <= U /\ (\A i \in 1..T : u[i] = t[i]) /\ n \in 0..T /\ n - 1 \in 0..T
  BY DEF Extends
<1>2. u[n] = t[n] /\ Q[n] = P[n] /\ Q[n - 1] = P[n - 1]
  BY <1>1
<1>3. InString(u, n) <=> InString(t, n)
  <2>1. n > 1 => n - 1 \in 1..T
    OBVIOUS
  <2>2. n > 1 => u[n - 1] = t[n - 1]
    BY <1>1, <2>1
  <2> QED BY <2>2 DEF InString
<1>4. StringStands(t, d, c, P, n) => StringStands(u, e, c, Q, n)
  BY StringKept
<1>5. JumpStands(t, L, c, P, n) => JumpStands(u, M, c, Q, n)
  BY <1>1, <1>2, JumpKept, ZenonT(40)
<1> QED BY <1>2, <1>3, <1>4, <1>5 DEF EntryStands

(* A longer text stands when the entries behind the old ones do.           *)
Longer(t, d, L, P, u, e, M, Q, c) ==
  /\ Len(t) \in Nat /\ Len(u) \in Nat /\ Len(d) \in Nat /\ Len(e) \in Nat
  /\ Extends(u, t) /\ Extends(e, d) /\ \A n \in 1..Len(t) : SameAt(L, M, n)
  /\ Q \in [0..Len(u) -> 0..Len(c)] /\ \A i \in 0..Len(t) : Q[i] = P[i]
  /\ \A n \in (Len(t) + 1)..Len(u) : EntryStands(u, e, M, c, Q, n)

(* A longer text stands when the part that is new does.                    *)
LEMMA TextMore ==
  ASSUME NEW t, NEW d, NEW L, NEW P, NEW u, NEW e, NEW M, NEW Q, NEW c,
         TextStands(t, d, L, c, P), Longer(t, d, L, P, u, e, M, Q, c)
  PROVE  TextStands(u, e, M, c, Q)
<1>0. PICK T \in Nat, U \in Nat, D \in Nat, E \in Nat :
        /\ T = Len(t) /\ U = Len(u) /\ D = Len(d) /\ E = Len(e)
        /\ Extends(u, t) /\ Extends(e, d) /\ \A n \in 1..T : SameAt(L, M, n)
        /\ Q \in [0..U -> 0..Len(c)] /\ \A i \in 0..T : Q[i] = P[i]
        /\ \A n \in (T + 1)..U : EntryStands(u, e, M, c, Q, n)
  BY DEF Longer
<1>1. P[0] = 0 /\ \A n \in 1..T : EntryStands(t, d, L, c, P, n)
  BY <1>0 DEF TextStands
<1>2. \A n \in 1..T : EntryStands(u, e, M, c, Q, n)
  BY <1>0, <1>1, EntryKept
<1>3. \A n \in 1..U : n \in 1..T \/ n \in (T + 1)..U
  OBVIOUS
<1>4. \A n \in 1..U : EntryStands(u, e, M, c, Q, n)
  BY <1>0, <1>2, <1>3
<1>5. 0 \in 0..T
  OBVIOUS
<1>6. Q[0] = 0
  BY <1>0, <1>1, <1>5
<1> QED BY <1>0, <1>4, <1>6 DEF TextStands

(* A string is never at the end of a text.                                 *)
LEMMA NoString ==
  ASSUME NEW t, NEW u, NEW T \in Nat, T = Len(t), Extends(u, t), NEW d, NEW L, NEW c, NEW P,
         TextStands(t, d, L, c, P)
  PROVE  ~InString(u, T + 1)
<1>1. SUFFICES ASSUME T + 1 > 1, u[T] = t[T], t[T].op = "lc" PROVE FALSE
  <2>1. T + 1 > 1 => T \in 1..Len(t) /\ T + 1 - 1 = T
    OBVIOUS
  <2>2. T + 1 > 1 => u[T] = t[T]
    BY <2>1 DEF Extends
  <2> QED BY <2>1, <2>2 DEF InString
<1>2. T \in 1..Len(t)
  BY <1>1
<1>3. EntryStands(t, d, L, c, P, T)
  BY <1>2 DEF TextStands
<1>4. T + 1 <= T
  BY <1>1, <1>3 DEF EntryStands, StringStands
<1> QED BY <1>4

(* What an entry that belongs to no string stands for.                     *)
LEMMA EntryIs ==
  ASSUME NEW u, NEW n, ~InString(u, n), u[n].op # "lc", NEW Q, NEW m, m = n - 1,
         Q[n] = Q[m] + 1, NEW c, Q[n] <= Len(c), NEW M, NEW e,
         IF u[n].op \in {"sa", "del"} THEN JumpStands(u, M, c, Q, n) ELSE c[Q[n]] = u[n]
  PROVE  EntryStands(u, e, M, c, Q, n)
BY Zenon DEF EntryStands

(* The places of a text with one instruction more.                         *)
More(P, T, y) == [i \in 0..(T + 1) |-> IF i = T + 1 THEN y ELSE P[i]]

Marks(P, T, k) == P \in [0..T -> 0..k]

(* One place more.                                                         *)
LEMMA MoreIs ==
  \A T, k \in Nat : \A P : Marks(P, T, k) => \A y \in 0..k :
    /\ Marks(More(P, T, y), T + 1, k)
    /\ More(P, T, y)[T + 1] = y /\ \A i \in 0..T : More(P, T, y)[i] = P[i]
<1>1. SUFFICES ASSUME NEW T \in Nat, NEW k \in Nat, NEW P, P \in [0..T -> 0..k], NEW y \in 0..k
               PROVE  /\ More(P, T, y) \in [0..(T + 1) -> 0..k]
                      /\ More(P, T, y)[T + 1] = y /\ \A i \in 0..T : More(P, T, y)[i] = P[i]
  BY DEF Marks
<1>2. \A i \in 0..(T + 1) : i = T + 1 \/ (i \in 0..T /\ i # T + 1)
  OBVIOUS
<1>3. \A i \in 0..T : i \in 0..(T + 1) /\ i # T + 1
  OBVIOUS
<1>4. T + 1 \in 0..(T + 1)
  OBVIOUS
<1> QED BY <1>1, <1>2, <1>3, <1>4 DEF More

(* A sequence with one value more extends it.                              *)
LEMMA AppendExtends ==
  ASSUME NEW S, NEW t \in Seq(S), NEW x \in S, NEW u, u = Append(t, x)
  PROVE  Extends(u, t) /\ Len(u) = Len(t) + 1 /\ u[Len(t) + 1] = x /\ Len(t) \in Nat
<1>1. /\ Len(u) = Len(t) + 1 /\ u[Len(t) + 1] = x /\ \A i \in 1..Len(t) : u[i] = t[i]
  BY AppendIs
<1>2. Len(t) \in Nat /\ Len(t) <= Len(t) + 1
  BY LenProperties
<1> QED BY <1>1, <1>2 DEF Extends

(* The text with one instruction more stands when that does.               *)
IsOneMore(t, u, i, x, Q) ==
  /\ u[Len(t) + 1] = i /\ ~InString(u, Len(t) + 1)
  /\ Q[Len(t)] = x /\ Q[Len(t) + 1] = x + 1
(* The text with one instruction more stands when that does.               *)
LEMMA OneMore ==
  ASSUME NEW t \in Seq(Ins), NEW d \in Seq(0..255), NEW L, NEW c \in Seq(Ins), NEW P,
         TextStands(t, d, L, c, P), NEW x, x = P[Len(t)], x + 1 <= Len(c),
         NEW i \in Ins, NEW u, u = Append(t, i),
         NEW M, \A n \in 1..Len(t) : SameAt(L, M, n),
         NEW Q, Q = More(P, Len(t), x + 1)
  PROVE  /\ IsOneMore(t, u, i, x, Q)
         /\ EntryStands(u, d, M, c, Q, Len(t) + 1) => TextStands(u, d, M, c, Q)
<1>1. PICK T \in Nat, D \in Nat, k \in Nat : T = Len(t) /\ D = Len(d) /\ k = Len(c)
  BY LenProperties
<1>2. PICK U \in Nat : U = T + 1
  OBVIOUS
<1>3. Extends(u, t) /\ Len(u) = U /\ u[T + 1] = i
  BY <1>1, <1>2, AppendExtends
<1>4. P \in [0..T -> 0..k]
  BY <1>1 DEF TextStands
<1>5. x \in 0..k /\ x + 1 \in 0..k
  <2>1. T \in 0..T
    OBVIOUS
  <2>2. x \in 0..k
    BY <1>1, <1>4, <2>1
  <2> QED BY <1>1, <2>2
<1>7. Q \in [0..U -> 0..Len(c)] /\ Q[T + 1] = x + 1 /\ \A j \in 0..T : Q[j] = P[j]
  <2>1. /\ More(P, T, x + 1) \in [0..(T + 1) -> 0..k] /\ More(P, T, x + 1)[T + 1] = x + 1
        /\ \A j \in 0..T : More(P, T, x + 1)[j] = P[j]
    <3>1. Marks(P, T, k)
      BY <1>4 DEF Marks
    <3>2. /\ Marks(More(P, T, x + 1), T + 1, k)
          /\ More(P, T, x + 1)[T + 1] = x + 1 /\ \A j \in 0..T : More(P, T, x + 1)[j] = P[j]
      BY <1>5, <3>1, MoreIs
    <3> QED BY <3>2 DEF Marks
  <2>2. Q = More(P, T, x + 1)
    BY <1>1
  <2> QED BY <1>1, <1>2, <2>1, <2>2
<1>8. IsOneMore(t, u, i, x, Q)
  <2>1. ~InString(u, T + 1)
    BY <1>1, <1>3, NoString
  <2>2. Q[T] = x
    BY <1>1, <1>7
  <2> QED BY <1>1, <1>3, <1>7, <2>1, <2>2 DEF IsOneMore
<1>9. ASSUME EntryStands(u, d, M, c, Q, T + 1) PROVE TextStands(u, d, M, c, Q)
  <2>1. \A n \in (T + 1)..U : n = T + 1
    BY <1>2
  <2>2. \A n \in (T + 1)..U : EntryStands(u, d, M, c, Q, n)
    BY <1>9, <2>1
  <2>3. Extends(d, d)
    BY <1>1 DEF Extends
  <2>4. Longer(t, d, L, P, u, d, M, Q, c)
    BY <1>1, <1>3, <1>7, <2>2, <2>3 DEF Longer
  <2> QED BY <2>4, TextMore
<1> QED BY <1>1, <1>8, <1>9

(* An instruction that does not jump is emitted.                           *)
LEMMA TextApp ==
  ASSUME NEW t \in Seq(Ins), NEW d \in Seq(0..255), NEW L, NEW c \in Seq(Ins), NEW P,
         TextStands(t, d, L, c, P), NEW x, x = P[Len(t)], x + 1 <= Len(c),
         NEW i \in Ins, i.op \in {"app", "la"}, c[x + 1] = i,
         NEW u, u = Append(t, i)
  PROVE  TextStands(u, d, L, c, More(P, Len(t), x + 1))
<1>1. PICK Q : Q = More(P, Len(t), x + 1)
  OBVIOUS
<1>2. \A n \in 1..Len(t) : SameAt(L, L, n)
  BY DEF SameAt
<1>3. /\ IsOneMore(t, u, i, x, Q)
      /\ EntryStands(u, d, L, c, Q, Len(t) + 1) => TextStands(u, d, L, c, Q)
  BY <1>1, <1>2, OneMore
<1>4. PICK T \in Nat, n \in Nat : T = Len(t) /\ n = T + 1 /\ T = n - 1
  <2>1. Len(t) + 1 \in Nat /\ Len(t) \in Nat /\ Len(t) = (Len(t) + 1) - 1
    BY LenProperties
  <2> QED BY <2>1
<1>5. u[n] = i /\ ~InString(u, n) /\ Q[T] = x /\ Q[n] = x + 1
  BY <1>3, <1>4 DEF IsOneMore
<1>6. EntryStands(u, d, L, c, Q, n)
  <2>1. u[n].op # "lc" /\ u[n].op \notin {"sa", "del"}
    BY <1>5
  <2>2. c[Q[n]] = u[n] /\ Q[n] = Q[T] + 1 /\ Q[n] <= Len(c)
    BY <1>5
  <2> QED BY <1>4, <1>5, <2>1, <2>2, EntryIs
<1> QED BY <1>1, <1>3, <1>4, <1>6

(* An sa or a del is emitted, and the la e that waits for its operand ends *)
(* at place z.                                                             *)
LEMMA TextJump ==
  ASSUME NEW t \in Seq(Ins), NEW d \in Seq(0..255), NEW L, NEW c \in Seq(Ins), NEW P,
         TextStands(t, d, L, c, P), NEW x, x = P[Len(t)], x + 1 <= Len(c),
         NEW op \in {"sa", "del"}, NEW z \in 0..Len(c), c[x + 1] = Jump(op, z - x),
         \A f \in L : f.at \in 0..Len(t),
         NEW u, u = Append(t, OpIns(op, 0)),
         NEW e, e.at = Len(t) + 1, e.end = z, NEW M, M = L \cup {e}
  PROVE  TextStands(u, d, M, c, More(P, Len(t), x + 1))
<1>1. PICK T \in Nat, n \in Nat : T = Len(t) /\ n = T + 1 /\ T = n - 1
  <2>1. Len(t) + 1 \in Nat /\ Len(t) \in Nat /\ Len(t) = (Len(t) + 1) - 1
    BY LenProperties
  <2> QED BY <2>1
<1>2. PICK Q : Q = More(P, Len(t), x + 1)
  OBVIOUS
<1>3. PICK i \in Ins : i = OpIns(op, 0) /\ i.op = op
  BY InsType
<1>4. \A j \in 1..Len(t) : SameAt(L, M, j)
  <2>1. \A j \in 1..T : j # n
    BY <1>1
  <2>2. \A f : f \in M => f \in L \/ f.at = n
    BY <1>1
  <2> QED BY <1>1, <2>1, <2>2 DEF SameAt
<1>5. /\ IsOneMore(t, u, i, x, Q)
      /\ EntryStands(u, d, M, c, Q, Len(t) + 1) => TextStands(u, d, M, c, Q)
  <2>1. u = Append(t, i)
    BY <1>3
  <2> QED BY <1>2, <1>4, <2>1, OneMore
<1>6. u[n] = i /\ ~InString(u, n) /\ Q[T] = x /\ Q[n] = x + 1
  BY <1>1, <1>5 DEF IsOneMore
<1>7. JumpStands(u, M, c, Q, n)
  <2>1. c[Q[n]] = Jump(u[n].op, z - Q[n - 1])
    BY <1>1, <1>3, <1>6
  <2>2. \A f \in L : f.at # n
    BY <1>1
  <2>3. \A f \in M : f.at = n => f.end = z
    BY <2>2
  <2>4. \E f \in M : f.at = n
    BY <1>1
  <2> HIDE <1>6
  <2> QED BY <2>1, <2>3, <2>4 DEF JumpStands
<1>8. EntryStands(u, d, M, c, Q, n)
  <2>1. u[n].op # "lc" /\ u[n].op \in {"sa", "del"}
    BY <1>3, <1>6
  <2>2. Q[n] = Q[T] + 1 /\ Q[n] <= Len(c)
    BY <1>6
  <2> QED BY <1>1, <1>6, <1>7, <2>1, <2>2, EntryIs
<1> QED BY <1>1, <1>2, <1>5, <1>8

(* A string is emitted for characters that the code prints one by one.     *)
StringPrints(str, c, x, r) ==
  \A k \in 1..Len(str) :
    /\ str[k] # NUL
    /\ c[x + k] = AppIns(TokCh("out", str[k]), IF k = 1 THEN r ELSE NoTok)

StringIns(i, j, d) == i.op = "lc" /\ i.offset = Swap32(Len(d)) /\ j.op = "app"

StandsTo(t, d, L, c, y) == \E Q : TextStands(t, d, L, c, Q) /\ Q[Len(t)] = y

(* A load of a string and its application stand for the prints of its      *)
(* characters.                                                             *)
LEMMA TextString ==
  ASSUME NEW t \in Seq(Ins), NEW d \in Seq(0..255), NEW L, NEW c \in Seq(Ins), NEW P,
         TextStands(t, d, L, c, P), NEW x, x = P[Len(t)],
         NEW str \in Seq(0..255), x + Len(str) <= Len(c),
         NEW i \in Ins, NEW j \in Ins, StringIns(i, j, d), StringPrints(str, c, x, j.second)
  PROVE  StandsTo(TextWith(t, i, j), DataWith(d, str), L, c, x + Len(str))
<1>0. PICK u, e : u = TextWith(t, i, j) /\ e = DataWith(d, str)
  OBVIOUS
<1>1. PICK T \in Nat, D \in Nat, k \in Nat, m \in Nat :
        T = Len(t) /\ D = Len(d) /\ k = Len(c) /\ m = Len(str)
  BY LenProperties
<1>2. /\ u \in Seq(Ins) /\ Len(u) = T + 2 /\ Extends(u, t)
      /\ u[T + 1] = i /\ u[T + 2] = j
  <2>1. IsTextWith(t, T, i, j, u)
    BY <1>0, <1>1, TextWithIs
  <2>2. /\ u \in Seq(Ins) /\ Len(u) = T + 2 /\ \A n \in 1..T : u[n] = t[n]
        /\ u[T + 1] = i /\ u[T + 2] = j
    BY <2>1 DEF IsTextWith
  <2> QED BY <1>1, <2>2 DEF Extends
<1>3. /\ Len(e) = D + m + 1 /\ Extends(e, d) /\ e[D + m + 1] = NUL
      /\ \A n \in 1..m : e[D + n] = str[n]
  <2>1. IsDataWith(d, str, D, m, e)
    BY <1>0, <1>1, DataWithIs
  <2>2. /\ Len(e) = D + m + 1 /\ e[D + m + 1] = NUL
        /\ \A n \in 1..D : e[n] = d[n]
        /\ \A n \in 1..m : e[D + n] = str[n]
    BY <2>1 DEF IsDataWith
  <2>3. D <= D + m + 1
    OBVIOUS
  <2> QED BY <1>1, <2>2, <2>3 DEF Extends
<1>4. x \in 0..k /\ P \in [0..T -> 0..k]
  <2>1. P \in [0..T -> 0..k]
    BY <1>1 DEF TextStands
  <2>2. T \in 0..T
    OBVIOUS
  <2> QED BY <1>1, <2>1, <2>2
<1>5. PICK y \in 0..k : y = x + m
  BY <1>1, <1>4
<1>6. PICK Q : Q = [n \in 0..(T + 2) |-> IF n > T THEN y ELSE P[n]]
  OBVIOUS
<1>7. /\ Q \in [0..(T + 2) -> 0..k] /\ Q[T + 1] = y /\ Q[T + 2] = y
      /\ \A n \in 0..T : Q[n] = P[n]
  <2>1. \A n \in 0..(T + 2) : n > T \/ n \in 0..T
    OBVIOUS
  <2>2. T + 1 \in 0..(T + 2) /\ T + 2 \in 0..(T + 2) /\ T + 1 > T /\ T + 2 > T
    OBVIOUS
  <2>3. \A n \in 0..T : n \in 0..(T + 2) /\ ~(n > T)
    OBVIOUS
  <2> QED BY <1>4, <1>6, <2>1, <2>2, <2>3
<1>8. Q[T] = x
  <2>1. T \in 0..T
    OBVIOUS
  <2> QED BY <1>1, <1>7, <2>1
<1>9. PICK n \in Nat, o \in Nat : n = T + 1 /\ o = T + 2 /\ n - 1 = T /\ n + 1 = o /\ o - 1 = n /\ o > 1
  <2>1. T + 1 \in Nat /\ T + 2 \in Nat /\ (T + 1) - 1 = T /\ (T + 1) + 1 = T + 2
          /\ (T + 2) - 1 = T + 1 /\ T + 2 > 1
    OBVIOUS
  <2> QED BY <2>1
<1>10. StringStands(u, e, c, Q, n)
  <2>1. n + 1 <= Len(u) /\ u[n + 1].op = "app"
    BY <1>2, <1>9 DEF StringIns
  <2>2. D \in 0..Len(e) /\ m \in 0..Len(e) /\ D + m + 1 <= Len(e)
    BY <1>3
  <2>3. u[n].offset = Swap32(D) /\ e[D + m + 1] = NUL
    BY <1>1, <1>2, <1>3, <1>9 DEF StringIns
  <2>4. Q[n] = Q[n - 1] + m /\ Q[n] <= Len(c)
    BY <1>1, <1>5, <1>7, <1>8, <1>9
  <2>5. \A l \in 1..m : /\ e[D + l] # NUL
                        /\ c[Q[n - 1] + l] = AppIns(TokCh("out", e[D + l]),
                                                    IF l = 1 THEN u[n + 1].second ELSE NoTok)
    <3>1. \A l \in 1..m : /\ str[l] # NUL
                          /\ c[x + l] = AppIns(TokCh("out", str[l]), IF l = 1 THEN j.second ELSE NoTok)
      BY <1>1 DEF StringPrints
    <3>2. Q[n - 1] = x /\ u[n + 1] = j
      BY <1>2, <1>8, <1>9
    <3> QED BY <1>3, <3>1, <3>2
  <2> QED BY <2>1, <2>2, <2>3, <2>4, <2>5 DEF StringStands
<1>11. EntryStands(u, e, L, c, Q, n)
  <2>1. ~InString(u, n) /\ u[n].op = "lc"
    BY <1>1, <1>2, <1>9, NoString DEF StringIns
  <2> QED BY <1>10, <2>1 DEF EntryStands
<1>12. EntryStands(u, e, L, c, Q, o)
  <2>1. InString(u, o) /\ u[o].op # "lc"
    BY <1>2, <1>9 DEF InString, StringIns
  <2>2. Q[o] = Q[o - 1]
    BY <1>7, <1>9
  <2> QED BY <2>1, <2>2 DEF EntryStands
<1>13. Longer(t, d, L, P, u, e, L, Q, c)
  <2>1. \A l \in (T + 1)..(T + 2) : l = n \/ l = o
    BY <1>9
  <2>2. \A l \in (T + 1)..(T + 2) : EntryStands(u, e, L, c, Q, l)
    BY <1>11, <1>12, <2>1
  <2>3. T + 2 \in Nat /\ D + m + 1 \in Nat
    OBVIOUS
  <2>4. \A l \in 1..T : SameAt(L, L, l)
    BY DEF SameAt
  <2> QED BY <1>1, <1>2, <1>3, <1>7, <2>2, <2>3, <2>4 DEF Longer
<1>14. TextStands(u, e, L, c, Q)
  BY <1>13, TextMore
<1> QED BY <1>0, <1>1, <1>2, <1>5, <1>7, <1>14 DEF StandsTo

(* What follows a leaf application is where the code has it: the i-th      *)
(* instruction ends at place p[i].                                         *)
OutsStand(outs, m, c, x, p) ==
  /\ m \in Nat /\ p \in [0..m -> 0..Len(c)] /\ p[0] = x
  /\ \A i \in 1..m : /\ outs[i].ins.op \in {"app", "la"}
                     /\ c[p[i - 1] + 1] = outs[i].ins /\ p[i] = p[i - 1] + 1

(* The la's L that waited are the ones M that wait still and the ones that *)
(* are emitted, and those complete jumps.                                  *)
LasOut(t, T, outs, m, p, L, M) ==
  /\ M \subseteq L
  /\ \A e \in L : e \in M \/ \E i \in 1..m : outs[i].ins.op = "la" /\ outs[i].at = e.at
  /\ \A i \in 1..m : outs[i].ins.op = "la" =>
       /\ outs[i].at \in 1..T /\ t[outs[i].at].op \in {"sa", "del"}
       /\ \E e \in L : e.at = outs[i].at /\ e.end = p[i]

(* A jump stands when the la that waits for it comes out where the code    *)
(* has it.                                                                 *)
LEMMA JumpOut ==
  ASSUME NEW t, NEW T \in Nat, T = Len(t), NEW outs, NEW m, NEW p, NEW L, NEW M, NEW done,
         IsDone(t, T, outs, m, done), LasOut(t, T, outs, m, p, L, M),
         NEW c, NEW x, OutsStand(outs, m, c, x, p),
         NEW P, NEW Q, \A i \in 0..T : Q[i] = P[i], \A i \in 1..m : Q[T + i] = p[i],
         NEW n \in 1..T, JumpStands(t, L, c, P, n)
  PROVE  JumpStands(done, M, c, Q, n)
<1>0. m \in Nat
  BY DEF OutsStand
<1>1. PICK z \in 0..Len(c) :
        /\ c[P[n]] = Jump(t[n].op, z - P[n - 1])
        /\ \A e \in L : e.at = n => e.end = z
        /\ \/ \E e \in L : e.at = n
           \/ \E k \in 1..T : t[n].offset = Swap32(k) /\ P[k] = z
  BY DEF JumpStands
<1>2. /\ Len(done) = T + m /\ done[n].op = t[n].op
      /\ (\A i \in 1..m : ~(outs[i].ins.op = "la" /\ outs[i].at = n)) => done[n] = t[n]
      /\ \A j \in 1..m : outs[j].ins.op = "la" /\ outs[j].at = n =>
           \E i \in 1..m : /\ outs[i].ins.op = "la" /\ outs[i].at = n
                          /\ done[n].offset = Swap32(T + i)
  BY DEF IsDone
<1>3. n \in 0..T /\ n - 1 \in 0..T
  OBVIOUS
<1>4. c[Q[n]] = Jump(done[n].op, z - Q[n - 1])
  BY <1>1, <1>2, <1>3
<1>5. \A e \in M : e.at = n => e.end = z
  BY <1>1 DEF LasOut
<1>6. CASE \E j \in 1..m : outs[j].ins.op = "la" /\ outs[j].at = n
  <2>1. PICK i \in 1..m : /\ outs[i].ins.op = "la" /\ outs[i].at = n
                          /\ done[n].offset = Swap32(T + i)
    BY <1>2, <1>6
  <2>2. PICK e \in L : e.at = n /\ e.end = p[i]
    BY <2>1 DEF LasOut
  <2>3. Q[T + i] = z
    BY <1>1, <2>2
  <2>4. T + i \in 1..Len(done)
    BY <1>0, <1>2
  <2>5. \E k \in 1..Len(done) : done[n].offset = Swap32(k) /\ Q[k] = z
    BY <2>1, <2>3, <2>4
  <2> QED BY <1>4, <1>5, <2>5 DEF JumpStands
<1>7. CASE \A j \in 1..m : ~(outs[j].ins.op = "la" /\ outs[j].at = n)
  <2>1. done[n] = t[n]
    BY <1>2, <1>7
  <2>2. (\E e \in L : e.at = n) => \E e \in M : e.at = n
    BY <1>7 DEF LasOut
  <2>3. ASSUME NEW k \in 1..T, t[n].offset = Swap32(k), P[k] = z
        PROVE  \E l \in 1..Len(done) : done[n].offset = Swap32(l) /\ Q[l] = z
    <3>1. k \in 1..Len(done) /\ k \in 0..T
      BY <1>0, <1>2
    <3> QED BY <2>1, <2>3, <3>1
  <2> QED BY <1>1, <1>4, <1>5, <2>2, <2>3 DEF JumpStands
<1> QED BY <1>6, <1>7

(* The text with what follows behind it stands when the code goes on with  *)
(* that.                                                                   *)
LEMMA TextDrain ==
  ASSUME NEW t \in Seq(Ins), NEW d \in Seq(0..255), NEW L, NEW c \in Seq(Ins), NEW P,
         TextStands(t, d, L, c, P), NEW x, x = P[Len(t)],
         NEW outs, NEW m, NEW p, NEW M, NEW done,
         IsDone(t, Len(t), outs, m, done), LasOut(t, Len(t), outs, m, p, L, M),
         OutsStand(outs, m, c, x, p)
  PROVE  \E Q : TextStands(done, d, M, c, Q) /\ Q[Len(done)] = p[m]
<1>1. PICK T \in Nat, D \in Nat, k \in Nat : T = Len(t) /\ D = Len(d) /\ k = Len(c)
  BY LenProperties
<1>2. /\ m \in Nat /\ p \in [0..m -> 0..k] /\ p[0] = x
      /\ \A i \in 1..m : /\ outs[i].ins.op \in {"app", "la"}
                         /\ c[p[i - 1] + 1] = outs[i].ins /\ p[i] = p[i - 1] + 1
  BY <1>1 DEF OutsStand
<1>3. IsDone(t, T, outs, m, done) /\ LasOut(t, T, outs, m, p, L, M)
  BY <1>1
<1>4. PICK U \in Nat : U = T + m
  BY <1>2
<1>5. Len(done) = U
  BY <1>3, <1>4 DEF IsDone
<1>6. P \in [0..T -> 0..k] /\ P[0] = 0 /\ P[T] = x /\ \A n \in 1..T : EntryStands(t, d, L, c, P, n)
  BY <1>1 DEF TextStands
<1>7. PICK Q : Q = [n \in 0..U |-> IF n <= T THEN P[n] ELSE p[n - T]]
  OBVIOUS
<1>8. /\ Q \in [0..U -> 0..k] /\ (\A n \in 0..T : Q[n] = P[n])
      /\ \A i \in 0..m : Q[T + i] = p[i]
  <2>1. \A n \in 0..U : (n <= T /\ n \in 0..T) \/ (~(n <= T) /\ n - T \in 0..m)
    BY <1>2, <1>4
  <2>2. Q \in [0..U -> 0..k]
    BY <1>2, <1>6, <1>7, <2>1
  <2>3. \A n \in 0..T : n \in 0..U /\ n <= T
    BY <1>2, <1>4
  <2>4. \A n \in 0..T : Q[n] = P[n]
    BY <1>7, <2>3
  <2>5. ASSUME NEW i \in 1..m PROVE Q[T + i] = p[i]
    <3>1. T + i \in 0..U /\ ~(T + i <= T) /\ (T + i) - T = i
      BY <1>2, <1>4
    <3> QED BY <1>7, <3>1
  <2>6. Q[T + 0] = p[0]
    <3>1. T + 0 = T /\ T \in 0..T
      OBVIOUS
    <3> QED BY <1>2, <1>6, <2>4, <3>1
  <2>7. \A i \in 0..m : i = 0 \/ i \in 1..m
    BY <1>2
  <2> QED BY <2>2, <2>4, <2>5, <2>6, <2>7
<1>9. /\ \A n \in 1..T : done[n].op = t[n].op
      /\ \A n \in 1..T :
           (\A i \in 1..m : ~(outs[i].ins.op = "la" /\ outs[i].at = n)) => done[n] = t[n]
      /\ \A n \in 1..m :
           (\A i \in 1..m : ~(outs[i].ins.op = "la" /\ outs[i].at = T + n)) =>
             done[T + n] = outs[n].ins
  BY <1>3 DEF IsDone
<1>10. \A i \in 1..m : outs[i].ins.op = "la" =>
         outs[i].at \in 1..T /\ t[outs[i].at].op \in {"sa", "del"}
  BY <1>3 DEF LasOut
<1>11. \A n \in 1..T : t[n].op \notin {"sa", "del"} => done[n] = t[n]
  BY <1>9, <1>10
<1>12. ASSUME NEW n \in 1..T PROVE EntryStands(done, d, M, c, Q, n)
  <2>0. EntryStands(t, d, L, c, P, n)
    BY <1>6
  <2>1. InString(done, n) <=> InString(t, n)
    <3>1. n > 1 => n - 1 \in 1..T
      OBVIOUS
    <3>2. n > 1 => done[n - 1].op = t[n - 1].op
      BY <1>9, <3>1
    <3> QED BY <3>2 DEF InString
  <2>2. n \in 0..T /\ n - 1 \in 0..T
    OBVIOUS
  <2>3. Q[n] = P[n] /\ Q[n - 1] = P[n - 1] /\ done[n].op = t[n].op
    BY <1>8, <1>9, <2>2
  <2>4. CASE t[n].op = "lc"
    <3>1. StringStands(t, d, c, P, n) /\ ~InString(t, n)
      BY <2>0, <2>4 DEF EntryStands
    <3>2. n + 1 <= T /\ t[n + 1].op = "app"
      BY <1>1, <3>1 DEF StringStands
    <3>3. n + 1 \in 1..T
      BY <3>2
    <3>4. done[n + 1] = t[n + 1] /\ done[n] = t[n]
      BY <1>11, <2>4, <3>2, <3>3
    <3>5. n + 1 <= Len(done)
      BY <1>2, <1>4, <1>5, <3>2
    <3>6. PICK o \in 0..D, l \in 0..D :
            /\ t[n].offset = Swap32(o) /\ o + l + 1 <= D /\ d[o + l + 1] = NUL
            /\ P[n] = P[n - 1] + l /\ P[n] <= Len(c)
            /\ \A j \in 1..l :
                 /\ d[o + j] # NUL
                 /\ c[P[n - 1] + j] = AppIns(TokCh("out", d[o + j]),
                                             IF j = 1 THEN t[n + 1].second ELSE NoTok)
      <4>1. \E o, l \in 0..D :
            /\ t[n].offset = Swap32(o) /\ o + l + 1 <= D /\ d[o + l + 1] = NUL
            /\ P[n] = P[n - 1] + l /\ P[n] <= Len(c)
            /\ \A j \in 1..l :
                 /\ d[o + j] # NUL
                 /\ c[P[n - 1] + j] = AppIns(TokCh("out", d[o + j]),
                                             IF j = 1 THEN t[n + 1].second ELSE NoTok)
        BY <1>1, <3>1 DEF StringStands
      <4> QED BY <4>1
    <3>7. StringStands(done, d, c, Q, n)
      <4>1. done[n].offset = Swap32(o) /\ Q[n] = Q[n - 1] + l /\ Q[n] <= Len(c)
            /\ done[n + 1].op = "app"
        BY <2>3, <3>2, <3>4, <3>6
      <4>2. \A j \in 1..l :
                 /\ d[o + j] # NUL
                 /\ c[Q[n - 1] + j] = AppIns(TokCh("out", d[o + j]),
                                             IF j = 1 THEN done[n + 1].second ELSE NoTok)
        BY <2>3, <3>4, <3>6
      <4> QED BY <1>1, <3>5, <3>6, <4>1, <4>2 DEF StringStands
    <3> QED BY <2>1, <2>3, <2>4, <3>1, <3>7 DEF EntryStands
  <2>5. CASE t[n].op # "lc" /\ InString(t, n)
    <3>1. P[n] = P[n - 1]
      BY <2>0, <2>5 DEF EntryStands
    <3> QED BY <2>1, <2>3, <2>5, <3>1 DEF EntryStands
  <2>6. CASE t[n].op # "lc" /\ ~InString(t, n)
    <3>1. /\ P[n] = P[n - 1] + 1 /\ P[n] <= Len(c)
          /\ IF t[n].op \in {"sa", "del"} THEN JumpStands(t, L, c, P, n) ELSE c[P[n]] = t[n]
      BY <2>0, <2>6 DEF EntryStands
    <3>2. CASE t[n].op \in {"sa", "del"}
      <4>1. JumpStands(done, M, c, Q, n)
        <5>1. \A i \in 1..m : Q[T + i] = p[i]
          BY <1>8
        <5>2. JumpStands(t, L, c, P, n) /\ \A i \in 0..T : Q[i] = P[i]
          BY <1>8, <3>1, <3>2
        <5> QED BY <1>1, <1>3, <5>1, <5>2, JumpOut, SMTT(30)
      <4> QED BY <2>1, <2>3, <2>6, <3>1, <3>2, <4>1 DEF EntryStands
    <3>3. CASE t[n].op \notin {"sa", "del"}
      <4>1. done[n] = t[n]
        BY <1>11, <3>3
      <4> QED BY <2>1, <2>3, <2>6, <3>1, <3>3, <4>1 DEF EntryStands
    <3> QED BY <3>2, <3>3
  <2> QED BY <2>4, <2>5, <2>6
<1>13. \A i \in 1..m : done[T + i] = outs[i].ins
  <2>1. \A i \in 1..m : \A j \in 1..T : j # T + i
    BY <1>2
  <2> QED BY <1>9, <1>10, <2>1
<1>14. ASSUME NEW i \in 1..m PROVE EntryStands(done, d, M, c, Q, T + i)
  <2>1. PICK n \in Nat, l \in Nat : n = T + i /\ l = n - 1 /\ l = T + (i - 1)
    <3>1. T + i \in Nat /\ (T + i) - 1 \in Nat /\ (T + i) - 1 = T + (i - 1)
      BY <1>2
    <3> QED BY <3>1
  <2>2. i \in 0..m /\ i - 1 \in 0..m
    BY <1>2
  <2>3. Q[n] = p[i] /\ Q[l] = p[i - 1]
    BY <1>8, <2>1, <2>2
  <2>4. done[n] = outs[i].ins
    BY <1>13, <2>1
  <2>5. done[n].op \in {"app", "la"}
    BY <1>2, <2>4
  <2>6. ~InString(done, n)
    <3>1. CASE i = 1
      <4>1. l = T /\ (n > 1 => T \in 1..T)
        BY <2>1, <3>1
      <4>2. ASSUME n > 1, done[T].op = "lc" PROVE FALSE
        <5>1. T \in 1..T /\ t[T].op = "lc"
          BY <1>9, <4>1, <4>2
        <5>2. EntryStands(t, d, L, c, P, T)
          BY <1>6, <5>1
        <5>3. T + 1 <= T
          BY <1>1, <5>1, <5>2 DEF EntryStands, StringStands
        <5> QED BY <5>3
      <4> QED BY <2>1, <4>1, <4>2 DEF InString
    <3>2. CASE i # 1
      <4>1. i - 1 \in 1..m
        BY <1>2, <3>2
      <4>2. done[l] = outs[i - 1].ins
        BY <1>13, <2>1, <4>1
      <4>3. done[l].op # "lc"
        BY <1>2, <4>1, <4>2
      <4> QED BY <2>1, <4>3 DEF InString
    <3> QED BY <3>1, <3>2
  <2>7. c[Q[n]] = done[n] /\ Q[n] = Q[l] + 1 /\ Q[n] <= Len(c)
    <3>1. p[i] \in 0..k /\ p[i] = p[i - 1] + 1 /\ c[p[i - 1] + 1] = outs[i].ins
      BY <1>2, <2>2
    <3> QED BY <1>1, <2>3, <2>4, <3>1
  <2>8. done[n].op # "lc" /\ done[n].op \notin {"sa", "del"}
    BY <2>5
  <2>9. EntryStands(done, d, M, c, Q, n)
    BY <2>1, <2>6, <2>7, <2>8, EntryIs
  <2> QED BY <2>1, <2>9
<1>15. ASSUME NEW n \in 1..U PROVE EntryStands(done, d, M, c, Q, n)
  <2>1. CASE n <= T
    BY <1>12, <2>1
  <2>2. CASE n > T
    <3>1. n - T \in 1..m /\ T + (n - T) = n
      BY <1>2, <1>4, <2>2
    <3>2. EntryStands(done, d, M, c, Q, T + (n - T))
      BY <1>14, <3>1
    <3> QED BY <3>1, <3>2
  <2> QED BY <2>1, <2>2
<1>16. Q[0] = 0
  <2>1. 0 \in 0..T
    OBVIOUS
  <2> QED BY <1>6, <1>8, <2>1
<1>17. TextStands(done, d, M, c, Q)
  BY <1>1, <1>5, <1>8, <1>15, <1>16 DEF TextStands
<1>18. Q[Len(done)] = p[m]
  <2>1. m \in 0..m
    BY <1>2
  <2> QED BY <1>4, <1>5, <1>8, <2>1
<1> QED BY <1>17, <1>18

(* An entry e goes with place z of the code, and an sa with application o. *)
GoesWith(e, c, C, V, y, z, o) ==
  IF e.ins.op = "sa" THEN SaStands(c, C, z, o, y) /\ \A v \in V : o < v
  ELSE c[z + 1] = e.ins /\ y = z + 1 /\ e.ins.offset = 0

WaitedToo(V, e, o) == IF e.ins.op = "sa" THEN V \cup {o} ELSE V
LasToo(L, e, y)    == IF e.ins.op = "la" THEN L \cup {[at |-> e.at, end |-> y]} ELSE L

Pushed(u, s, e) == u = Append(s, e)

(* One entry more waits.                                                   *)
LEMMA PushWaits ==
  ASSUME NEW s \in Seq(Waiting), NEW e \in Waiting, NEW u, Pushed(u, s, e),
         NEW c \in Seq(Ins), NEW C, NEW V, NEW y, NEW q, NEW w, Waits(V, s, c, C, y, q, w),
         NEW z \in 0..Len(c), NEW o,
         GoesWith(e, c, C, V, y, z, o)
  PROVE  \E r, v : /\ Waits(WaitedToo(V, e, o), u, c, C, z, r, v)
                   /\ Las(u, r) = LasToo(Las(s, q), e, y)
<1>0. IF e.ins.op = "sa" THEN SaStands(c, C, z, o, y) /\ \A v \in V : o < v
      ELSE c[z + 1] = e.ins /\ y = z + 1 /\ e.ins.offset = 0
  BY DEF GoesWith
<1>1. PICK K \in Nat, k \in Nat : K = Len(s) /\ k = Len(c)
  BY LenProperties
<1>2. Len(u) = K + 1 /\ u[K + 1] = e /\ \A i \in 1..K : u[i] = s[i]
  BY <1>1, AppendIs DEF Pushed
<1>3. /\ q \in [0..K -> 0..k] /\ q[0] = k /\ q[K] = y
      /\ \A i \in 1..K : WaitStands(s, c, C, q, w, i)
  BY <1>1 DEF Waits, StackStands
<1>4. /\ V = {w[i] : i \in Waiters(s)}
      /\ \A i, j \in Waiters(s) : i < j => w[j] < w[i]
  BY DEF Waits, Awaited
<1>5. PICK r : r = More(q, K, z)
  OBVIOUS
<1>6. r \in [0..(K + 1) -> 0..k] /\ r[K + 1] = z /\ \A i \in 0..K : r[i] = q[i]
  <2>1. Marks(q, K, k)
    BY <1>3 DEF Marks
  <2>2. /\ Marks(More(q, K, z), K + 1, k)
        /\ More(q, K, z)[K + 1] = z /\ \A i \in 0..K : More(q, K, z)[i] = q[i]
    BY <1>1, <2>1, MoreIs
  <2> QED BY <1>5, <2>2 DEF Marks
<1>7. PICK v : v = [i \in 1..(K + 1) |-> IF i = K + 1 THEN o ELSE w[i]]
  OBVIOUS
<1>8. v[K + 1] = o /\ \A i \in 1..K : v[i] = w[i]
  <2>1. \A i \in 1..K : i \in 1..(K + 1) /\ i # K + 1
    OBVIOUS
  <2>2. K + 1 \in 1..(K + 1)
    OBVIOUS
  <2> QED BY <1>7, <2>1, <2>2
<1>9. ASSUME NEW i \in 1..K PROVE WaitStands(u, c, C, r, v, i)
  <2>1. i \in 0..K /\ i - 1 \in 0..K
    OBVIOUS
  <2>2. u[i] = s[i] /\ r[i] = q[i] /\ r[i - 1] = q[i - 1] /\ v[i] = w[i]
    BY <1>2, <1>6, <1>8, <2>1
  <2>3. WaitStands(s, c, C, q, w, i)
    BY <1>3
  <2> QED BY <2>2, <2>3 DEF WaitStands
<1>10. WaitStands(u, c, C, r, v, K + 1)
  <2>1. PICK n \in Nat : n = K + 1 /\ n - 1 = K
    <3>1. K + 1 \in Nat /\ (K + 1) - 1 = K
      OBVIOUS
    <3> QED BY <3>1
  <2>2. K \in 0..K
    OBVIOUS
  <2>3. u[n] = e /\ r[n] = z /\ r[n - 1] = y /\ v[n] = o
    BY <1>2, <1>3, <1>6, <1>8, <2>1, <2>2
  <2>4. WaitStands(u, c, C, r, v, n)
    BY <1>0, <2>3 DEF WaitStands
  <2> QED BY <2>1, <2>4
<1>11. StackStands(u, c, C, r, v)
  <2>1. \A i \in 1..(K + 1) : i \in 1..K \/ i = K + 1
    OBVIOUS
  <2>2. \A i \in 1..(K + 1) : WaitStands(u, c, C, r, v, i)
    BY <1>9, <1>10, <2>1
  <2>3. r[0] = k
    <3>1. 0 \in 0..K
      OBVIOUS
    <3> QED BY <1>3, <1>6, <3>1
  <2> QED BY <1>1, <1>2, <1>6, <2>2, <2>3 DEF StackStands
<1>12. \A i : i \in 1..(K + 1) <=> i \in 1..K \/ i = K + 1
  OBVIOUS
<1>13. \A i : i \in Waiters(u) <=> i \in Waiters(s) \/ (i = K + 1 /\ e.ins.op = "sa")
  <2>1. \A i : i \in Waiters(u) <=> (i \in 1..(K + 1) /\ u[i].ins.op = "sa")
    BY <1>2 DEF Waiters
  <2>2. \A i : i \in Waiters(s) <=> (i \in 1..K /\ s[i].ins.op = "sa")
    BY <1>1 DEF Waiters
  <2>3. \A i \in 1..K : i # K + 1
    OBVIOUS
  <2> QED BY <1>2, <1>12, <2>1, <2>2, <2>3
<1>14. Waiters(s) \subseteq 1..K
  BY <1>1 DEF Waiters
<1>15. Awaited(IF e.ins.op = "sa" THEN V \cup {o} ELSE V, u, v)
  <2>1. CASE e.ins.op = "sa"
    <3>1. \A i : i \in Waiters(u) <=> i \in Waiters(s) \/ i = K + 1
      BY <1>13, <2>1
    <3>2. V \cup {o} = {v[i] : i \in Waiters(u)}
      BY <1>4, <1>8, <1>14, <3>1
    <3>3. ASSUME NEW i \in Waiters(u), NEW j \in Waiters(u), i < j PROVE v[j] < v[i]
      <4>1. CASE j = K + 1
        <5>1. i \in Waiters(s)
          BY <3>1, <3>3, <4>1
        <5>2. v[i] = w[i] /\ w[i] \in V /\ v[j] = o
          BY <1>4, <1>8, <1>14, <4>1, <5>1
        <5> QED BY <1>0, <2>1, <5>2
      <4>2. CASE j # K + 1
        <5>1. j \in Waiters(s) /\ j \in 1..K
          BY <1>14, <3>1, <4>2
        <5>2. i \in Waiters(s)
          BY <3>1, <3>3, <5>1
        <5> QED BY <1>4, <1>8, <1>14, <3>3, <5>1, <5>2
      <4> QED BY <4>1, <4>2
    <3> QED BY <2>1, <3>2, <3>3 DEF Awaited
  <2>2. CASE e.ins.op # "sa"
    <3>1. Waiters(u) = Waiters(s)
      BY <1>13, <2>2
    <3>2. V = {v[i] : i \in Waiters(u)}
      BY <1>4, <1>8, <1>14, <3>1
    <3>3. \A i, j \in Waiters(u) : i < j => v[j] < v[i]
      BY <1>4, <1>8, <1>14, <3>1
    <3> QED BY <2>2, <3>2, <3>3 DEF Awaited
  <2> QED BY <2>1, <2>2
<1>16. Las(u, r) = IF e.ins.op = "la" THEN Las(s, q) \cup {[at |-> e.at, end |-> y]} ELSE Las(s, q)
  <2>1. PICK I, J : /\ I = {i \in 1..Len(s) : s[i].ins.op = "la"}
                    /\ J = {i \in 1..Len(u) : u[i].ins.op = "la"}
    OBVIOUS
  <2>2. /\ Las(s, q) = {[at |-> s[i].at, end |-> q[i] + 1] : i \in I}
        /\ Las(u, r) = {[at |-> u[i].at, end |-> r[i] + 1] : i \in J}
    BY <2>1 DEF Las
  <2>7. PICK f, h : /\ f = [i \in I |-> [at |-> s[i].at, end |-> q[i] + 1]]
                    /\ h = [i \in J |-> [at |-> u[i].at, end |-> r[i] + 1]]
    OBVIOUS
  <2>8. /\ \A i \in I : f[i] = [at |-> s[i].at, end |-> q[i] + 1]
        /\ \A i \in J : h[i] = [at |-> u[i].at, end |-> r[i] + 1]
    BY <2>7
  <2>9. Las(s, q) = {f[i] : i \in I} /\ Las(u, r) = {h[i] : i \in J}
    BY <2>2, <2>7
  <2>3. I \subseteq 1..K /\ \A i : i \in J <=> i \in I \/ (i = K + 1 /\ e.ins.op = "la")
    <3>1. \A i : i \in J <=> (i \in 1..(K + 1) /\ u[i].ins.op = "la")
      BY <1>2, <2>1
    <3>2. \A i : i \in I <=> (i \in 1..K /\ s[i].ins.op = "la")
      BY <1>1, <2>1
    <3>3. \A i \in 1..K : i # K + 1
      OBVIOUS
    <3> QED BY <1>2, <1>12, <3>1, <3>2, <3>3
  <2>4. \A i \in I : [at |-> u[i].at, end |-> r[i] + 1] = [at |-> s[i].at, end |-> q[i] + 1]
    <3>1. \A i \in 1..K : i \in 0..K
      OBVIOUS
    <3> QED BY <1>2, <1>6, <2>3, <3>1
  <2>10. \A i \in I : h[i] = f[i]
    BY <2>3, <2>4, <2>8
  <2>5. CASE e.ins.op = "la"
    <3>0. K + 1 \in J
      BY <2>3, <2>5
    <3>1. h[K + 1] = [at |-> e.at, end |-> y] /\ z + 1 = y
      BY <1>0, <1>2, <1>6, <2>5, <2>8, <3>0
    <3>2. \A i : i \in J <=> i \in I \/ i = K + 1
      BY <2>3, <2>5
    <3>3. Las(u, r) = Las(s, q) \cup {[at |-> e.at, end |-> y]}
      BY <2>9, <2>10, <3>1, <3>2
    <3> QED BY <2>5, <3>3
  <2>6. CASE e.ins.op # "la"
    <3>1. J = I
      BY <2>3, <2>6
    <3>2. Las(u, r) = Las(s, q)
      BY <2>9, <2>10, <3>1
    <3> QED BY <2>6, <3>2
  <2> QED BY <2>5, <2>6
<1>17. Waits(IF e.ins.op = "sa" THEN V \cup {o} ELSE V, u, c, C, z, r, v)
  <2>1. r[Len(u)] = z
    BY <1>2, <1>6
  <2> QED BY <1>11, <1>15, <2>1 DEF Waits
<1> QED BY <1>16, <1>17 DEF WaitedToo, LasToo

(* The stack down to a height h.                                           *)
IsFront(u, s, h) == Len(u) = h /\ \A i \in 1..h : u[i] = s[i]
Down(q, h)     == [i \in 0..h |-> q[i]]

(* The las that wait.                                                      *)
LEMMA LasAre ==
  ASSUME NEW s, NEW q, NEW e
  PROVE  e \in Las(s, q) <=> \E i \in 1..Len(s) : /\ s[i].ins.op = "la"
                                                  /\ e = [at |-> s[i].at, end |-> q[i] + 1]
<1>1. PICK I : I = {i \in 1..Len(s) : s[i].ins.op = "la"}
  OBVIOUS
<1>2. Las(s, q) = {[at |-> s[i].at, end |-> q[i] + 1] : i \in I}
  BY <1>1 DEF Las
<1>3. PICK f : f = [i \in I |-> [at |-> s[i].at, end |-> q[i] + 1]]
  OBVIOUS
<1>4. \A i \in I : f[i] = [at |-> s[i].at, end |-> q[i] + 1]
  BY <1>3
<1>5. Las(s, q) = {f[i] : i \in I}
  BY <1>2, <1>3
<1>6. e \in Las(s, q) <=> \E i \in I : e = f[i]
  BY <1>5
<1> QED BY <1>1, <1>4, <1>6

(* The same of all of them at once.                                        *)
LEMMA LasAll ==
  ASSUME NEW s, NEW q
  PROVE  \A a : a \in Las(s, q) <=> \E k \in 1..Len(s) : /\ s[k].ins.op = "la"
                                                        /\ a = [at |-> s[k].at, end |-> q[k] + 1]
<1> SUFFICES ASSUME NEW a
             PROVE  a \in Las(s, q) <=> \E k \in 1..Len(s) : /\ s[k].ins.op = "la"
                                                           /\ a = [at |-> s[k].at, end |-> q[k] + 1]
  OBVIOUS
<1> QED BY LasAre

(* The stack u that is left of s stands, with fewer that wait.             *)
IsLeft(u, s, h, c, C, q, w) ==
  /\ StackStands(u, c, C, Down(q, h), w) /\ Down(q, h)[Len(u)] = q[h]
  /\ Waiters(u) = {i \in Waiters(s) : i <= h}
  /\ \A e : e \in Las(u, Down(q, h)) <=>
       \E i \in 1..h : s[i].ins.op = "la" /\ e = [at |-> s[i].at, end |-> q[i] + 1]

(* The lower part of the stack waits for what it waited for.               *)
LEMMA PopStands ==
  ASSUME NEW s \in Seq(Waiting), NEW c \in Seq(Ins), NEW C, NEW q, NEW w,
         StackStands(s, c, C, q, w), NEW h \in Nat, h <= Len(s), NEW u, IsFront(u, s, h)
  PROVE  IsLeft(u, s, h, c, C, q, w)
<1>1. PICK K \in Nat, k \in Nat : K = Len(s) /\ k = Len(c)
  BY LenProperties
<1>2. Len(u) = h /\ \A i \in 1..h : u[i] = s[i]
  BY DEF IsFront
<1>3. /\ q \in [0..K -> 0..k] /\ q[0] = k
      /\ \A i \in 1..K : WaitStands(s, c, C, q, w, i)
  BY <1>1 DEF StackStands
<1>4. PICK r : r = Down(q, h)
  OBVIOUS
<1>5. r \in [0..h -> 0..k] /\ \A i \in 0..h : r[i] = q[i]
  <2>1. \A i \in 0..h : i \in 0..K
    BY <1>1
  <2> QED BY <1>3, <1>4, <2>1 DEF Down
<1>6. ASSUME NEW i \in 1..h PROVE WaitStands(u, c, C, r, w, i)
  <2>1. i \in 0..h /\ i - 1 \in 0..h /\ i \in 1..K
    BY <1>1
  <2>2. u[i] = s[i] /\ r[i] = q[i] /\ r[i - 1] = q[i - 1]
    BY <1>2, <1>5, <2>1
  <2>3. WaitStands(s, c, C, q, w, i)
    BY <1>3, <2>1
  <2> QED BY <2>2, <2>3 DEF WaitStands
<1>7. StackStands(u, c, C, r, w)
  <2>1. 0 \in 0..h
    OBVIOUS
  <2>2. r[0] = k
    BY <1>3, <1>5, <2>1
  <2> QED BY <1>1, <1>2, <1>5, <1>6, <2>2 DEF StackStands
<1>8. Waiters(u) = {i \in Waiters(s) : i <= h}
  <2>1. \A i : i \in 1..h <=> i \in 1..K /\ i <= h
    BY <1>1
  <2> QED BY <1>1, <1>2, <2>1 DEF Waiters
<1>9. ASSUME NEW e PROVE e \in Las(u, r) <=> \E i \in 1..h : /\ s[i].ins.op = "la"
                                                         /\ e = [at |-> s[i].at, end |-> q[i] + 1]
  <2>1. \A i \in 1..h : i \in 0..h
    OBVIOUS
  <2>2. \A i \in 1..h : u[i] = s[i] /\ r[i] = q[i]
    BY <1>2, <1>5, <2>1
  <2>3. e \in Las(u, r) <=> \E i \in 1..h : /\ u[i].ins.op = "la"
                                             /\ e = [at |-> u[i].at, end |-> r[i] + 1]
    BY <1>2, LasAre
  <2> QED BY <2>2, <2>3
<1>10. r[Len(u)] = q[h]
  <2>1. h \in 0..h
    OBVIOUS
  <2> QED BY <1>2, <1>5, <2>1
<1> QED BY <1>4, <1>7, <1>8, <1>9, <1>10 DEF IsLeft

(* An instruction more may wait when it is the one before what waits in    *)
(* the code.                                                               *)
LEMMA PushStands ==
  ASSUME NEW b, Sound(b), NEW i \in Ins, i.op \in {"app", "sa"}, NEW c \in Seq(Ins), NEW C,
         NEW V, NEW x, NEW y, Stands(b, V, c, C, x, y), NEW z \in 0..Len(c), NEW o,
         IF i.op = "sa" THEN SaStands(c, C, z, o, y) /\ \A v \in V : o < v
         ELSE c[z + 1] = i /\ y = z + 1 /\ i.offset = 0
  PROVE  Stands(PushIns(b, i), IF i.op = "sa" THEN V \cup {o} ELSE V, c, C, x, z)
<1>1. PICK s \in Seq(Waiting) : s = b.stack
  BY Sizes DEF Sound
<1>2. PICK P, q, w : /\ TextStands(b.text, b.rodata, Las(s, q), c, P)
                     /\ P[Len(b.text)] = x /\ Waits(V, s, c, C, y, q, w)
  BY <1>1 DEF Stands
<1>3. PICK e \in Waiting : e = Pending(i, 0) /\ e.ins = i
  BY InsType
<1>4. PICK u : u = Append(s, e) /\ Pushed(u, s, e)
  BY DEF Pushed
<1>5. PICK d : d = PushIns(b, i)
  OBVIOUS
<1>6. d.text = b.text /\ d.rodata = b.rodata /\ d.stack = u
  <2>1. d = [b EXCEPT !.stack = u]
    BY <1>1, <1>3, <1>4, <1>5 DEF PushIns
  <2> QED BY <2>1 DEF Sound, Buffers
<1>7. GoesWith(e, c, C, V, y, z, o)
  BY <1>3 DEF GoesWith
<1>8. PICK r, v : /\ Waits(WaitedToo(V, e, o), u, c, C, z, r, v)
                  /\ Las(u, r) = LasToo(Las(s, q), e, y)
  BY <1>2, <1>4, <1>7, PushWaits
<1>9. Las(u, r) = Las(s, q)
  BY <1>3, <1>8 DEF LasToo
<1>10. PICK U : U = IF i.op = "sa" THEN V \cup {o} ELSE V
  OBVIOUS
<1>11. Waits(U, d.stack, c, C, z, r, v)
  BY <1>3, <1>6, <1>8, <1>10 DEF WaitedToo
<1>12. TextStands(d.text, d.rodata, Las(d.stack, r), c, P) /\ P[Len(d.text)] = x
  BY <1>2, <1>6, <1>9
<1>13. Stands(d, U, c, C, x, z)
  BY <1>11, <1>12 DEF Stands
<1> QED BY <1>5, <1>10, <1>13

(* A jump out, and its la waiting, when the code has both where text and   *)
(* stack meet.                                                             *)
LEMMA EmitStands ==
  ASSUME NEW b, Sound(b), NEW op \in {"sa", "del"}, NEW c \in Seq(Ins), NEW C,
         NEW V, NEW x, NEW y, Stands(b, V, c, C, x, y), NEW z \in 0..Len(c),
         x + 1 <= Len(c), c[x + 1] = Jump(op, y - x), c[z + 1] = OpIns("la", 0), y = z + 1,
         y <= Len(c)
  PROVE  Stands(EmitAndPush(b, OpIns(op, 0), OpIns("la", 0)), V, c, C, x + 1, z)
<1>1. PICK s \in Seq(Waiting), t \in Seq(Ins), T \in Nat, d \in Seq(0..255) :
        /\ s = b.stack /\ t = b.text /\ T = Len(t) /\ d = b.rodata
        /\ DOMAIN s = 1..Len(s) /\ DOMAIN t = 1..T
  BY Sizes DEF Sound
<1>2. PICK P, q, w : /\ TextStands(t, d, Las(s, q), c, P)
                     /\ P[T] = x /\ Waits(V, s, c, C, y, q, w)
  BY <1>1 DEF Stands
<1>3. PICK e \in Waiting : e = Pending(OpIns("la", 0), T + 1) /\ e.ins = OpIns("la", 0) /\ e.at = T + 1
                           /\ e.ins.op = "la" /\ e.ins.offset = 0
  <2>1. PICK i \in Ins, n \in Nat : i = OpIns("la", 0) /\ n = T + 1 /\ i.op = "la" /\ i.offset = 0
    <3>1. OpIns("la", 0) \in Ins /\ OpIns("la", 0).op = "la" /\ OpIns("la", 0).offset = 0
      BY InsType
    <3>2. T + 1 \in Nat
      OBVIOUS
    <3> QED BY <3>1, <3>2
  <2>2. Pending(i, n) \in Waiting /\ Pending(i, n).ins = i /\ Pending(i, n).at = n
    BY InsType, SMTT(30)
  <2> QED BY <2>1, <2>2
<1>4. PICK u : u = Append(s, e) /\ Pushed(u, s, e)
  BY DEF Pushed
<1>5. PICK v : v = Append(t, OpIns(op, 0))
  OBVIOUS
<1>6. PICK f : f = EmitAndPush(b, OpIns(op, 0), OpIns("la", 0))
  OBVIOUS
<1>7. f.text = v /\ f.rodata = d /\ f.stack = u /\ Len(v) = T + 1
  <2>1. f = [b EXCEPT !.text = v, !.stack = u]
    BY <1>1, <1>3, <1>4, <1>5, <1>6 DEF EmitAndPush
  <2>2. f.text = v /\ f.rodata = d /\ f.stack = u
    BY <1>1, <2>1 DEF Sound, Buffers
  <2>3. OpIns(op, 0) \in Ins
    BY InsType
  <2> QED BY <1>1, <1>5, <2>2, <2>3, AppendIs
<1>8. PICK r, k : /\ Waits(V, u, c, C, z, r, k)
                  /\ Las(u, r) = Las(s, q) \cup {[at |-> T + 1, end |-> y]}
  <2>1. GoesWith(e, c, C, V, y, z, 0)
    BY <1>3 DEF GoesWith
  <2>2. PICK r, k : /\ Waits(WaitedToo(V, e, 0), u, c, C, z, r, k)
                    /\ Las(u, r) = LasToo(Las(s, q), e, y)
    BY <1>2, <1>4, <2>1, PushWaits
  <2> QED BY <1>3, <2>2 DEF WaitedToo, LasToo
<1>9. PICK L, M, a : /\ L = Las(s, q) /\ M = Las(u, r) /\ a = [at |-> T + 1, end |-> y] /\ M = L \cup {a}
                     /\ a.at = T + 1 /\ a.end = y
  <2>1. PICK a : a = [at |-> T + 1, end |-> y]
    OBVIOUS
  <2>2. a.at = T + 1 /\ a.end = y
    BY <2>1
  <2> QED BY <1>8, <2>1, <2>2
<1>10. \A m \in L : m.at \in 0..T
  <2>1. SUFFICES ASSUME NEW m \in L PROVE m.at \in 0..T
    OBVIOUS
  <2>2. PICK i \in 1..Len(s) : m = [at |-> s[i].at, end |-> q[i] + 1]
    BY <1>9, LasAre, SMTT(30)
  <2>3. s[i].at \in 0..T
    BY <1>1 DEF Sound, Jumps
  <2> QED BY <2>2, <2>3
<1>11. TextStands(v, d, M, c, More(P, T, x + 1))
  <2>1. y \in 0..Len(c)
    OBVIOUS
  <2>2. TextStands(t, d, L, c, P) /\ x = P[Len(t)] /\ \A m \in L : m.at \in 0..Len(t)
    BY <1>1, <1>2, <1>9, <1>10
  <2>3. TextStands(v, d, M, c, More(P, Len(t), x + 1))
    BY <1>1, <1>5, <1>9, <2>1, <2>2, TextJump, ZenonT(40)
  <2> QED BY <1>1, <2>3
<1>12. More(P, T, x + 1)[T + 1] = x + 1
  <2>1. T + 1 \in 0..(T + 1)
    OBVIOUS
  <2> QED BY <2>1 DEF More
<1>13. Stands(f, V, c, C, x + 1, z)
  <2>1. TextStands(f.text, f.rodata, Las(f.stack, r), c, More(P, T, x + 1))
    BY <1>7, <1>9, <1>11
  <2>2. More(P, T, x + 1)[Len(f.text)] = x + 1
    BY <1>7, <1>12
  <2>3. Waits(V, f.stack, c, C, z, r, k)
    BY <1>7, <1>8
  <2> QED BY <2>1, <2>2, <2>3 DEF Stands
<1> QED BY <1>6, <1>13

(* What is left of the buffers when all that waits before entry k of the   *)
(* stack is out, and entry k is gone.                                      *)
Rest(b, k) == [b EXCEPT !.text = Done(b.text, Outs(b.stack, k)),
                        !.stack = SubSeq(b.stack, 1, k - 1)]

(* Counting the entries above k from the top.                              *)
LEMMA Mirrored ==
  \A K, k \in Nat : \A i \in (k + 1)..K : K - i + 1 \in 1..(K - k) /\ K - (K - i + 1) + 1 = i
OBVIOUS

IsBelow(h, k) == h = IF k = 0 THEN 0 ELSE k - 1

RestFrom(b, k, c, C, P, q, w) ==
  /\ k = LastSa(b.stack) /\ TextStands(b.text, b.rodata, Las(b.stack, q), c, P)
  /\ StackStands(b.stack, c, C, q, w) /\ P[Len(b.text)] = q[Len(b.stack)]

RestTo(b, k, c, q, u, h) ==
  \E Q : /\ TextStands(Done(b.text, Outs(b.stack, k)), b.rodata, Las(u, Down(q, h)), c, Q)
         /\ Q[Len(Done(b.text, Outs(b.stack, k)))] = q[k]

(* The text of the rest stands up to the place of entry k.                 *)
LEMMA RestStands ==
  ASSUME NEW b, Sound(b), NEW c \in Seq(Ins), NEW C, NEW k \in Nat,
         NEW P, NEW q, NEW w, RestFrom(b, k, c, C, P, q, w),
         NEW u, NEW h \in Nat, IsBelow(h, k), IsFront(u, b.stack, h)
  PROVE  RestTo(b, k, c, q, u, h)
<1>0. /\ k = LastSa(b.stack) /\ TextStands(b.text, b.rodata, Las(b.stack, q), c, P)
      /\ StackStands(b.stack, c, C, q, w) /\ P[Len(b.text)] = q[Len(b.stack)]
  BY DEF RestFrom
<1>1. PICK s \in Seq(Waiting), t \in Seq(Ins), K \in Nat, T \in Nat, e \in Seq(0..255) :
        /\ s = b.stack /\ K = Len(s) /\ t = b.text /\ T = Len(t) /\ e = b.rodata
        /\ DOMAIN s = 1..K /\ DOMAIN t = 1..T
  BY Sizes DEF Sound
<1>2. k \in 0..K /\ \A i \in (k + 1)..K : s[i].ins.op # "sa"
  <2>1. k \in 0..K /\ \A i \in Sas(b) : i <= k
    BY <1>0, <1>1, LastSaIs DEF Sound
  <2>2. \A i \in (k + 1)..K : i \in 1..K /\ ~(i <= k)
    BY <2>1
  <2> QED BY <1>1, <2>1, <2>2 DEF Sas
<1>3. PICK m \in Nat : m = K - k
  BY <1>2
<1>4. PICK outs : outs = Outs(s, k)
  OBVIOUS
<1>5. outs \in Seq(Waiting) /\ Len(outs) = m /\ \A i \in 1..m : outs[i] = s[K - i + 1]
  BY <1>1, <1>2, <1>3, <1>4, OutsAre
<1>6. PICK done : done = Done(t, outs)
  OBVIOUS
<1>7. IsDone(t, T, outs, m, done)
  BY <1>1, <1>5, <1>6, DoneIs
<1>8. /\ q \in [0..K -> 0..Len(c)] /\ \A i \in 1..K : WaitStands(s, c, C, q, w, i)
  BY <1>0, <1>1 DEF StackStands
<1>9. PICK p : p = [i \in 0..m |-> q[K - i]]
  OBVIOUS
<1>10. /\ p \in [0..m -> 0..Len(c)] /\ p[0] = q[K] /\ p[m] = q[k]
       /\ \A i \in 1..m : p[i - 1] = q[K - i + 1] /\ p[i] = q[K - i]
  <2>1. \A i \in 0..m : K - i \in 0..K
    BY <1>2, <1>3
  <2>2. p \in [0..m -> 0..Len(c)]
    BY <1>8, <1>9, <2>1
  <2>3. 0 \in 0..m /\ m \in 0..m /\ K - 0 = K /\ K - m = k
    BY <1>2, <1>3
  <2>4. p[0] = q[K] /\ p[m] = q[k]
    BY <1>9, <2>3
  <2>5. ASSUME NEW i \in 1..m PROVE p[i - 1] = q[K - i + 1] /\ p[i] = q[K - i]
    <3>1. i \in 0..m /\ i - 1 \in 0..m /\ K - (i - 1) = K - i + 1
      OBVIOUS
    <3> QED BY <1>9, <3>1
  <2> QED BY <2>2, <2>4, <2>5
<1>11. ASSUME NEW j \in 1..m
       PROVE  /\ outs[j].ins.op \in {"app", "la"} /\ c[p[j - 1] + 1] = outs[j].ins
              /\ p[j] = p[j - 1] + 1
  <2>1. PICK i \in (k + 1)..K : i = K - j + 1 /\ i - 1 = K - j /\ i \in 1..K
    <3>1. K - j + 1 \in (k + 1)..K /\ (K - j + 1) - 1 = K - j /\ K - j + 1 \in 1..K
      BY <1>2, <1>3
    <3> QED BY <3>1
  <2>2. outs[j] = s[i] /\ p[j - 1] = q[i] /\ p[j] = q[i - 1]
    BY <1>5, <1>10, <2>1
  <2>3. s[i].ins.op # "sa" /\ WaitStands(s, c, C, q, w, i)
    BY <1>2, <1>8, <2>1
  <2>4. c[q[i] + 1] = s[i].ins /\ q[i - 1] = q[i] + 1
    BY <2>3 DEF WaitStands
  <2>5. s[i].ins.op \in {"app", "sa", "la"}
    BY <1>1, <2>1 DEF Sound, Jumps
  <2> QED BY <2>2, <2>3, <2>4, <2>5
<1>12. OutsStand(outs, m, c, q[K], p)
  BY <1>10, <1>11 DEF OutsStand
<1>13. PICK L, M : L = Las(s, q) /\ M = Las(u, Down(q, h))
  OBVIOUS
<1>14. h \in 0..K /\ h <= k /\ \A i \in 1..K : i <= h \/ i = k \/ i \in (k + 1)..K
  BY <1>2 DEF IsBelow
<1>15. \A a : a \in M <=> \E i \in 1..h : /\ s[i].ins.op = "la"
                                           /\ a = [at |-> s[i].at, end |-> q[i] + 1]
  <2>1. /\ StackStands(s, c, C, q, w) /\ h <= Len(s) /\ IsFront(u, s, h)
    BY <1>0, <1>1, <1>14
  <2>2. \A a : a \in Las(u, Down(q, h)) <=>
                \E i \in 1..h : /\ s[i].ins.op = "la"
                                /\ a = [at |-> s[i].at, end |-> q[i] + 1]
    BY <2>1, PopStands DEF IsLeft
  <2> QED BY <1>13, <2>2
<1>16. \A a : a \in L <=> \E i \in 1..K : /\ s[i].ins.op = "la"
                                           /\ a = [at |-> s[i].at, end |-> q[i] + 1]
  <2>1. \A a : a \in Las(s, q) <=> \E i \in 1..Len(s) : /\ s[i].ins.op = "la"
                                                        /\ a = [at |-> s[i].at, end |-> q[i] + 1]
    BY LasAll, SMTT(30)
  <2> QED BY <1>1, <1>13, <2>1
<1>17. LasOut(t, T, outs, m, p, L, M)
  <2>1. M \subseteq L
    <3>1. \A i \in 1..h : i \in 1..K
      BY <1>14
    <3> QED BY <1>15, <1>16, <3>1
  <2>2. ASSUME NEW a \in L
        PROVE  a \in M \/ \E i \in 1..m : outs[i].ins.op = "la" /\ outs[i].at = a.at
    <3>1. PICK i \in 1..K : s[i].ins.op = "la" /\ a = [at |-> s[i].at, end |-> q[i] + 1]
      BY <1>16
    <3>2. CASE i <= h
      <4>1. i \in 1..h
        BY <3>2
      <4> QED BY <1>15, <3>1, <4>1
    <3>3. CASE i = k
      <4>1. k \in Sas(b)
        BY <1>0, <1>1, <3>3, LastSaIs DEF Sound
      <4> QED BY <1>1, <3>1, <3>3, <4>1 DEF Sas
    <3>4. CASE i \in (k + 1)..K
      <4>1. PICK j \in 1..m : j = K - i + 1 /\ K - j + 1 = i
        <5>1. K - i + 1 \in 1..m /\ K - (K - i + 1) + 1 = i
          BY <1>3, <3>4, Mirrored
        <5> QED BY <5>1
      <4>2. outs[j] = s[i]
        BY <1>5, <4>1
      <4> QED BY <3>1, <4>2
    <3> QED BY <1>14, <3>2, <3>3, <3>4
  <2>3. ASSUME NEW j \in 1..m, outs[j].ins.op = "la"
        PROVE  /\ outs[j].at \in 1..T /\ t[outs[j].at].op \in {"sa", "del"}
               /\ \E a \in L : a.at = outs[j].at /\ a.end = p[j]
    <3>1. PICK i \in 1..K : i = K - j + 1
      <4>1. K - j + 1 \in 1..K
        BY <1>2, <1>3
      <4> QED BY <4>1
    <3>2. outs[j] = s[i] /\ p[j - 1] = q[i]
      BY <1>5, <1>10, <3>1
    <3>3. s[i].at \in 0..T /\ s[i].at > 0 /\ t[s[i].at].op \in {"sa", "del"}
      BY <1>1, <2>3, <3>2 DEF Sound, Jumps
    <3>4. s[i].at \in 1..T
      BY <3>3
    <3>5. [at |-> s[i].at, end |-> q[i] + 1] \in L
      BY <1>16, <2>3, <3>2
    <3>6. PICK a \in L : a = [at |-> s[i].at, end |-> q[i] + 1]
      BY <3>5
    <3>7. a.at = s[i].at /\ a.end = q[i] + 1
      BY <3>6
    <3>8. a.end = p[j]
      BY <1>11, <3>2, <3>7
    <3> QED BY <3>2, <3>3, <3>4, <3>7, <3>8
  <2> QED BY <2>1, <2>2, <2>3 DEF LasOut
<1>18. \E Q : TextStands(done, e, M, c, Q) /\ Q[Len(done)] = p[m]
  <2>1. TextStands(t, e, L, c, P) /\ q[K] = P[Len(t)]
    BY <1>0, <1>1, <1>13
  <2>2. IsDone(t, Len(t), outs, m, done) /\ LasOut(t, Len(t), outs, m, p, L, M)
    BY <1>1, <1>7, <1>17
  <2> QED BY <1>12, <2>1, <2>2, TextDrain
<1> QED BY <1>1, <1>4, <1>6, <1>10, <1>13, <1>18 DEF RestTo

(* Where text and stack meet, what waits up to the last sa comes out as    *)
(* the code has it, and the sa's application comes next.                   *)
LEMMA DrainStands ==
  ASSUME NEW b, Sound(b), NEW c \in Seq(Ins), NEW C, NEW V \in SUBSET Nat, NEW y,
         \A v \in V : C[v] \in Seq(Ins), Stands(b, V, c, C, y, y)
  PROVE  StandsNext(Drain(b), V, c, C)
<1>1. PICK s \in Seq(Waiting), K \in Nat, l \in Nat :
        s = b.stack /\ K = Len(s) /\ DOMAIN s = 1..K /\ l = Len(c)
  <2>1. Len(c) \in Nat
    BY LenProperties
  <2> QED BY <2>1, Sizes DEF Sound
<1>2. PICK P, q, w : /\ TextStands(b.text, b.rodata, Las(s, q), c, P)
                     /\ P[Len(b.text)] = y /\ Waits(V, s, c, C, y, q, w)
  BY <1>1 DEF Stands
<1>3. StackStands(s, c, C, q, w) /\ q[K] = y /\ Awaited(V, s, w)
  BY <1>1, <1>2 DEF Waits
<1>4. /\ q \in [0..K -> 0..l] /\ q[0] = l /\ \A i \in 1..K : WaitStands(s, c, C, q, w, i)
  BY <1>1, <1>3 DEF StackStands
<1>5. PICK k \in 0..K : k = LastSa(s) /\ (k > 0 => k \in Sas(b)) /\ \A i \in Sas(b) : i <= k
  BY <1>1, LastSaIs DEF Sound
<1>6. Sas(b) = Waiters(s)
  BY <1>1 DEF Sas, Waiters
<1>7. PICK r : r = Rest(b, k)
  OBVIOUS
<1>8. Drain(b) = IF k = 0 THEN r ELSE EmitAndPush(r, OpIns("sa", 0), OpIns("la", 0))
  BY <1>1, <1>5, <1>7 DEF Drain, Done, All, Outs, Sets, Rest
<1>9. /\ Sound(r) /\ r.rodata = b.rodata /\ (k = 0 => r.stack = <<>>)
      /\ r.text = Done(b.text, Outs(s, k)) /\ r.stack = SubSeq(s, 1, k - 1)
  <2>1. IsRest(b, k, r)
    <3>1. r = [b EXCEPT !.text = Done(b.text, Outs(b.stack, k)),
                         !.stack = SubSeq(b.stack, 1, k - 1)]
      BY <1>7 DEF Rest
    <3>2. k \in Nat /\ k = LastSa(b.stack)
      BY <1>1, <1>5
    <3> QED BY <3>1, <3>2, RestDoes
  <2>2. r.text = Done(b.text, Outs(s, k)) /\ r.stack = SubSeq(s, 1, k - 1)
    BY <1>1, <1>7 DEF Sound, Buffers, Rest
  <2> QED BY <2>1, <2>2 DEF IsRest
<1>10. PICK u : u = r.stack
  OBVIOUS
<1>11. PICK h \in Nat : IsBelow(h, k) /\ h = IF k = 0 THEN 0 ELSE k - 1
  <2>1. (IF k = 0 THEN 0 ELSE k - 1) \in Nat
    OBVIOUS
  <2> QED BY <2>1 DEF IsBelow
<1>12. h <= K /\ IsFront(u, s, h)
  <2>1. CASE k = 0
    BY <1>9, <1>10, <1>11, <2>1 DEF IsFront
  <2>2. CASE k > 0
    <3>1. h = k - 1 /\ h <= K
      BY <1>11, <2>2
    <3>2. u = StackTo(s, h)
      BY <1>9, <1>10, <3>1 DEF StackTo
    <3> QED BY <1>1, <3>1, <3>2, StackToIs DEF IsFront
  <2> QED BY <2>1, <2>2
<1>13. PICK Q : TextStands(r.text, r.rodata, Las(u, Down(q, h)), c, Q) /\ Q[Len(r.text)] = q[k]
  <2>1. \E R : /\ TextStands(Done(b.text, Outs(b.stack, k)), b.rodata, Las(u, Down(q, h)), c, R)
               /\ R[Len(Done(b.text, Outs(b.stack, k)))] = q[k]
    <3>1. RestFrom(b, k, c, C, P, q, w) /\ IsFront(u, b.stack, h)
      BY <1>1, <1>2, <1>3, <1>5, <1>12 DEF RestFrom
    <3>2. k \in Nat /\ IsBelow(h, k)
      BY <1>11
    <3>3. RestTo(b, k, c, q, u, h)
      BY <3>1, <3>2, RestStands
    <3> QED BY <3>3 DEF RestTo
  <2> QED BY <1>1, <1>9, <2>1
<1>14. /\ StackStands(u, c, C, Down(q, h), w) /\ Down(q, h)[Len(u)] = q[h]
       /\ Waiters(u) = {i \in Waiters(s) : i <= h}
  <2>1. IsLeft(u, s, h, c, C, q, w)
    BY <1>1, <1>3, <1>12, PopStands
  <2> QED BY <2>1 DEF IsLeft
<1>15. V = {w[i] : i \in Waiters(s)} /\ \A i, j \in Waiters(s) : i < j => w[j] < w[i]
  BY <1>3 DEF Awaited
<1>16. Waiters(s) \subseteq 1..K /\ \A i \in Waiters(s) : i <= k
  BY <1>1, <1>5, <1>6 DEF Waiters
<1>17. CASE k = 0
  <2>1. Waiters(s) = {}
    BY <1>16, <1>17
  <2>2. V = {} /\ Waiters(u) = {}
    BY <1>14, <1>15, <2>1
  <2>3. Awaited({}, u, w)
    BY <2>2 DEF Awaited
  <2>4. h = 0 /\ q[h] = l /\ q[k] = l
    BY <1>4, <1>11, <1>17
  <2>5. Waits({}, u, c, C, l, Down(q, h), w)
    BY <1>14, <2>3, <2>4 DEF Waits
  <2>6. Stands(r, {}, c, C, l, l)
    BY <1>10, <1>13, <2>4, <2>5 DEF Stands
  <2> QED BY <1>1, <1>8, <1>9, <1>17, <2>2, <2>6 DEF StandsNext
<1>18. CASE k > 0
  <2>1. k \in Waiters(s) /\ h = k - 1 /\ k \in 1..K
    BY <1>5, <1>6, <1>11, <1>18
  <2>2. PICK o \in V : o = w[k] /\ C[o] \in Seq(Ins)
    BY <1>15, <2>1
  <2>3. PICK n \in Nat : n = Len(C[o])
    BY <2>2, LenProperties
  <2>4. SaStands(c, C, q[k], o, q[k - 1])
    <3>1. WaitStands(s, c, C, q, w, k) /\ s[k].ins.op = "sa"
      BY <1>1, <1>4, <2>1 DEF Waiters
    <3> QED BY <2>2, <3>1 DEF WaitStands
  <2>5. PICK x \in 0..l, e \in 0..l : x = q[k] /\ e = q[h]
    <3>1. k \in 0..K /\ h \in 0..K
      BY <2>1
    <3> QED BY <1>4, <3>1
  <2>6. /\ c[x + 1] = Jump("sa", n + 2) /\ Lies(c, x + 1, C[o])
        /\ c[x + n + 2] = OpIns("la", 0) /\ e = x + n + 2
    BY <2>1, <2>3, <2>4, <2>5 DEF SaStands
  <2>7. PICK z \in 0..l : z = x + n + 1
    BY <2>5, <2>6, SMTT(30)
  <2>8. ASSUME NEW v \in V PROVE o <= v /\ (v # o => \E i \in Waiters(u) : v = w[i])
    <3>1. PICK i \in Waiters(s) : v = w[i]
      BY <1>15
    <3>2. CASE i = k
      BY <2>2, <3>1, <3>2
    <3>3. CASE i # k
      <4>1. i < k /\ i <= h
        BY <1>16, <2>1, <3>3
      <4>2. w[k] < w[i]
        BY <1>15, <2>1, <4>1
      <4> QED BY <1>14, <2>2, <3>1, <4>1, <4>2
    <3> QED BY <3>2, <3>3
  <2>9. Awaited(V \ {o}, u, w)
    <3>1. ASSUME NEW i \in Waiters(u) PROVE w[i] \in V \ {o}
      <4>1. i \in Waiters(s) /\ i < k
        BY <1>14, <2>1, <1>16
      <4>2. w[k] < w[i] /\ w[i] \in V
        BY <1>15, <2>1, <4>1
      <4> QED BY <2>2, <4>2
    <3>2. V \ {o} = {w[i] : i \in Waiters(u)}
      BY <2>8, <3>1
    <3>3. Waiters(u) \subseteq Waiters(s)
      BY <1>14
    <3> QED BY <1>15, <3>2, <3>3 DEF Awaited
  <2>10. Waits(V \ {o}, u, c, C, e, Down(q, h), w)
    BY <1>14, <2>5, <2>9 DEF Waits
  <2>11. Stands(r, V \ {o}, c, C, x, e)
    BY <1>10, <1>13, <2>5, <2>10 DEF Stands
  <2>12. x + 1 <= l /\ x + 1 \in 0..l /\ e = z + 1 /\ e <= l /\ e - x = n + 2 /\ z + 1 = x + n + 2
    <3>1. e = x + n + 2 /\ z = x + n + 1 /\ e \in 0..l
      BY <2>5, <2>6, <2>7
    <3>2. \A i, j \in 0..l : i = j + n + 2 =>
            /\ j + 1 <= l /\ j + 1 \in 0..l /\ i = (j + n + 1) + 1 /\ i <= l /\ i - j = n + 2
            /\ (j + n + 1) + 1 = j + n + 2
      OBVIOUS
    <3>3. /\ x + 1 <= l /\ x + 1 \in 0..l /\ e = (x + n + 1) + 1 /\ e <= l /\ e - x = n + 2
          /\ (x + n + 1) + 1 = x + n + 2
      BY <2>5, <3>1, <3>2
    <3> QED BY <3>1, <3>3
  <2>13. Stands(Drain(b), V \ {o}, c, C, x + 1, z)
    <3>1. c[x + 1] = Jump("sa", e - x) /\ c[z + 1] = OpIns("la", 0)
      BY <2>6, <2>12
    <3>2. Stands(EmitAndPush(r, OpIns("sa", 0), OpIns("la", 0)), V \ {o}, c, C, x + 1, z)
      BY <1>1, <1>9, <2>11, <2>12, <3>1, EmitStands
    <3> QED BY <1>8, <1>18, <3>2
  <2>14. Ahead(c, C, x + 1, o, z)
    <3>1. z = x + 1 + n
      BY <2>7
    <3> QED BY <2>3, <2>6, <3>1 DEF Ahead
  <2>15. V # {}
    BY <2>2
  <2>16. \A v \in V : o <= v
    BY <2>8
  <2> HIDE DEF Drain
  <2> QED BY <1>1, <2>2, <2>7, <2>12, <2>13, <2>14, <2>15, <2>16 DEF StandsNext
<1> QED BY <1>17, <1>18

(* A leaf that prints is its character.                                    *)
LEMMA OutTok ==
  ASSUME NEW t \in Leaves \cup {NoTok}, t.fn = "out"
  PROVE  t = TokCh("out", t.ch) /\ t.ch # NUL
<1>1. t # NoTok
  <2>1. NoTok.fn = ""
    BY DEF NoTok, Tok
  <2> QED BY <2>1
<1>2. t \in [fn : TokenFns, ch : 0..255] /\ t.ch \in (32..126) \cup {10}
  BY <1>1 DEF Leaves, Token
<1>3. t = [fn |-> t.fn, ch |-> t.ch]
  BY <1>2
<1> QED BY <1>2, <1>3 DEF TokCh, NUL

(* A waiting print is an application to nothing.                           *)
LEMMA PrintIns ==
  ASSUME NEW e \in Waiting, IsPrint(e), e.ins.offset = 0
  PROVE  e.ins = AppIns(TokCh("out", e.ins.first.ch), NoTok) /\ e.ins.first.ch # NUL
<1>1. PICK i \in Ins, t \in Leaves \cup {NoTok} : i = e.ins /\ t = i.first
  <2>1. e.ins \in Ins /\ e.ins.first \in Leaves \cup {NoTok}
    BY DEF Waiting, Ins
  <2> QED BY <2>1
<1>2. i.op = "app" /\ t.fn = "out" /\ i.second = NoTok /\ i.offset = 0
  BY <1>1 DEF IsPrint
<1>3. t = TokCh("out", t.ch) /\ t.ch # NUL
  BY <1>2, OutTok
<1>4. i = [op |-> i.op, first |-> i.first, second |-> i.second, offset |-> i.offset]
  BY DEF Ins
<1>5. i = AppIns(t, NoTok)
  BY <1>1, <1>2, <1>4 DEF AppIns
<1> QED BY <1>1, <1>3, <1>5

(* The run of prints is on top of the stack.                               *)
LEMMA RunPrints ==
  ASSUME NEW b \in Buffers
  PROVE  /\ PrintRun(b.stack) \in 0..Len(b.stack)
         /\ \A i \in (Len(b.stack) - PrintRun(b.stack) + 1)..Len(b.stack) : IsPrint(b.stack[i])
<1>1. PICK l \in Nat, s \in Seq(Waiting) : l = Len(s) /\ s = b.stack
  BY DEF Buffers, Waiting
<1>2. PICK S : S = {n \in 0..Len(s) : \A i \in (Len(s) - n + 1)..Len(s) : IsPrint(s[i])}
  OBVIOUS
<1>3. 0 \in S /\ S \in SUBSET (0..l)
  BY <1>1, <1>2
<1>4. \E m \in S : \A j \in S : j <= m
  BY <1>3, GreatestUpTo
<1>5. PrintRun(s) = CHOOSE m \in S : \A j \in S : j <= m
  BY <1>2 DEF PrintRun
<1>6. PrintRun(s) \in S
  BY <1>4, <1>5
<1> QED BY <1>1, <1>2, <1>6

(* The characters of a string, one by one.                                 *)
LEMMA CharIs ==
  ASSUME NEW l \in Token, NEW s \in Seq(Waiting), NEW n \in Nat, n <= Len(s),
         NEW str, str = Chars(l, s, Len(s), n)
  PROVE  str[1] = l.ch /\ \A j \in 1..n : str[1 + j] = s[Len(s) - j + 1].ins.first.ch
<1>1. PICK top \in Nat : top = Len(s)
  BY LenProperties
<1>3. PICK f : f = [i \in 1..n |-> s[top - i + 1].ins.first.ch]
  OBVIOUS
<1>4. PICK W : W = {l.ch} \cup {f[i] : i \in 1..n}
  OBVIOUS
<1>5. PICK z \in Seq(W) : z = <<l.ch>> /\ Len(z) = 1 /\ z[1] = l.ch
  <2>1. <<l.ch>> \in Seq(W)
    BY <1>4
  <2> QED BY <2>1
<1>2. f \in Seq(W) /\ Len(f) = n
  <2>1. DOMAIN f = 1..n /\ f = [i \in DOMAIN f |-> f[i]] /\ \A i \in 1..n : f[i] \in W
    BY <1>3, <1>4
  <2> QED BY <2>1, SeqIs
<1>6. PICK e \in Seq(W) : e = f /\ Len(e) = n
  BY <1>2
<1>7. PICK u : u = z \o e
  OBVIOUS
<1>8. (\A i \in 1..Len(z) : u[i] = z[i]) /\ \A i \in 1..Len(e) : u[Len(z) + i] = e[i]
  <2>1. \A i \in 1..Len(z) : u[i] = z[i]
    BY <1>7, Joined
  <2>2. \A i \in 1..Len(e) : u[Len(z) + i] = e[i]
    BY <1>7, Joined
  <2> QED BY <2>1, <2>2
<1>9. u[1] = l.ch /\ \A i \in 1..n : u[1 + i] = f[i]
  BY <1>5, <1>6, <1>8
<1>10. str = u
  BY <1>1, <1>3, <1>5, <1>6, <1>7 DEF Chars
<1> QED BY <1>1, <1>3, <1>9, <1>10

(* Where the entries of a run are.                                         *)
OnTop(s, n) == n <= Len(s) /\ \A i \in (Len(s) - n + 1)..Len(s) : IsPrint(s[i])

RunLies(s, n, c, q) ==
  /\ \A j \in 0..n : q[Len(s) - j] = q[Len(s)] + j
  /\ \A j \in 1..n : /\ c[q[Len(s)] + j] = s[Len(s) - j + 1].ins
                     /\ s[Len(s) - j + 1].ins.offset = 0

(* A run of prints that waits lies in the code one behind the other.       *)
LEMMA RunPlaces ==
  ASSUME NEW s \in Seq(Waiting), NEW c \in Seq(Ins), NEW C, NEW q, NEW w,
         StackStands(s, c, C, q, w), NEW n \in Nat, OnTop(s, n)
  PROVE  RunLies(s, n, c, q)
<1>1. PICK K \in Nat, k \in Nat :
        K = Len(s) /\ k = Len(c) /\ n <= K /\ \A i \in (K - n + 1)..K : IsPrint(s[i])
  BY LenProperties DEF OnTop
<1>2. q \in [0..K -> 0..k] /\ \A i \in 1..K : WaitStands(s, c, C, q, w, i)
  BY <1>1 DEF StackStands
<1>3. PICK y \in 0..k : y = q[K]
  <2>1. K \in 0..K
    OBVIOUS
  <2> QED BY <1>2, <2>1
<1>4. ASSUME NEW j \in 1..n
      PROVE  /\ c[q[K - (j - 1)] + 1] = s[K - j + 1].ins /\ s[K - j + 1].ins.offset = 0
             /\ q[K - j] = q[K - (j - 1)] + 1 /\ q[K - (j - 1)] \in Nat
  <2>1. PICK i \in 1..K : /\ i = K - j + 1 /\ i - 1 = K - j /\ i = K - (j - 1)
                          /\ i \in (K - n + 1)..K /\ i \in 0..K
    <3>1. /\ K - j + 1 \in 1..K /\ (K - j + 1) - 1 = K - j /\ K - j + 1 = K - (j - 1)
          /\ K - j + 1 \in (K - n + 1)..K /\ K - j + 1 \in 0..K
      BY <1>1
    <3> QED BY <3>1
  <2>2. IsPrint(s[i]) /\ WaitStands(s, c, C, q, w, i)
    BY <1>1, <1>2, <2>1
  <2>3. s[i].ins.op # "sa"
    BY <2>2 DEF IsPrint
  <2>4. c[q[i] + 1] = s[i].ins /\ q[i - 1] = q[i] + 1 /\ s[i].ins.offset = 0 /\ q[i] \in Nat
    BY <1>2, <2>1, <2>2, <2>3 DEF WaitStands
  <2> QED BY <2>1, <2>4
<1> DEFINE S == {j \in 0..n : q[K - j] = y + j}
<1>5. ASSUME NEW j \in 0..n, \A m \in 0..(j - 1) : m \in S PROVE j \in S
  <2>1. CASE j = 0
    BY <1>1, <1>3, <2>1
  <2>2. CASE j # 0
    <3>1. j - 1 \in 0..(j - 1) /\ j \in 1..n
      BY <2>2
    <3>2. q[K - (j - 1)] = y + (j - 1)
      BY <1>5, <3>1
    <3>3. q[K - j] = q[K - (j - 1)] + 1
      BY <1>4, <3>1
    <3> QED BY <3>2, <3>3
  <2> QED BY <2>1, <2>2
<1>6. \A j \in 0..n : j \in S
  <2> HIDE DEF S
  <2> QED BY <1>5, UpInduction
<1>7. \A j \in 0..n : q[K - j] = y + j
  BY <1>6
<1>8. ASSUME NEW j \in 1..n PROVE c[y + j] = s[K - j + 1].ins /\ s[K - j + 1].ins.offset = 0
  <2>1. j - 1 \in 0..n
    OBVIOUS
  <2>2. q[K - (j - 1)] + 1 = y + j
    <3>1. q[K - (j - 1)] = y + (j - 1)
      BY <1>7, <2>1
    <3>2. (y + (j - 1)) + 1 = y + j
      OBVIOUS
    <3> QED BY <3>1, <3>2
  <2> QED BY <1>4, <2>2
<1> QED BY <1>1, <1>3, <1>7, <1>8 DEF RunLies

RunBegins(s, c, q, x, l, r) == q[Len(s)] = x + 1 /\ c[x + 1] = AppIns(l, r)

(* The run of n prints on the stack and a leaf application that prints are *)
(* the characters of the string they become.                               *)
LEMMA RunIsString ==
  ASSUME NEW l \in Leaves, l.fn = "out", NEW r, NEW s \in Seq(Waiting), NEW c \in Seq(Ins),
         NEW C, NEW q, NEW w, StackStands(s, c, C, q, w), NEW n \in Nat, OnTop(s, n),
         NEW x \in Nat, RunBegins(s, c, q, x, l, r)
  PROVE  StringPrints(Chars(l, s, Len(s), n), c, x, r)
<1>1. PICK K \in Nat :
        /\ K = Len(s) /\ n <= K /\ \A i \in (K - n + 1)..K : IsPrint(s[i])
        /\ q[K] = x + 1 /\ c[x + 1] = AppIns(l, r)
  BY LenProperties DEF OnTop, RunBegins
<1>2. l \in Token /\ l = TokCh("out", l.ch) /\ l.ch # NUL
  BY OutTok DEF Leaves
<1>3. PICK str \in Seq(0..255) : str = Chars(l, s, K, n) /\ Len(str) = n + 1
  BY <1>1, <1>2, CharsAre
<1>4. str[1] = l.ch /\ \A j \in 1..n : str[1 + j] = s[K - j + 1].ins.first.ch
  BY <1>1, <1>2, <1>3, CharIs, SMTT(30)
<1>5. \A j \in 1..n : c[q[K] + j] = s[K - j + 1].ins /\ s[K - j + 1].ins.offset = 0
  <2>1. RunLies(s, n, c, q)
    BY RunPlaces
  <2> QED BY <1>1, <2>1 DEF RunLies
<1>6. ASSUME NEW j \in 1..n
      PROVE  str[1 + j] # NUL /\ c[x + 1 + j] = AppIns(TokCh("out", str[1 + j]), NoTok)
  <2>1. PICK i \in 1..K : i = K - j + 1 /\ i \in (K - n + 1)..K
    <3>1. K - j + 1 \in 1..K /\ K - j + 1 \in (K - n + 1)..K
      BY <1>1
    <3> QED BY <3>1
  <2>2. s[i] \in Waiting /\ IsPrint(s[i]) /\ s[i].ins.offset = 0
    BY <1>1, <1>5, <2>1, ElementOfSeq
  <2>3. s[i].ins = AppIns(TokCh("out", s[i].ins.first.ch), NoTok) /\ s[i].ins.first.ch # NUL
    BY <2>2, PrintIns
  <2>4. c[q[K] + j] = s[i].ins /\ str[1 + j] = s[i].ins.first.ch
    BY <1>4, <1>5, <2>1
  <2>5. q[K] + j = x + 1 + j
    BY <1>1
  <2> QED BY <2>3, <2>4, <2>5
<1>7. ASSUME NEW k \in 1..(n + 1)
      PROVE  /\ str[k] # NUL
             /\ c[x + k] = AppIns(TokCh("out", str[k]), IF k = 1 THEN r ELSE NoTok)
  <2>1. CASE k = 1
    BY <1>1, <1>2, <1>4, <2>1
  <2>2. CASE k # 1
    <3>1. PICK j \in 1..n : j = k - 1 /\ 1 + j = k /\ x + 1 + j = x + k
      <4>1. k - 1 \in 1..n /\ 1 + (k - 1) = k /\ x + 1 + (k - 1) = x + k
        BY <2>2
      <4> QED BY <4>1
    <3>2. str[k] # NUL /\ c[x + k] = AppIns(TokCh("out", str[k]), NoTok)
      BY <1>6, <3>1
    <3> QED BY <2>2, <3>2
  <2> QED BY <2>1, <2>2
<1>8. StringPrints(str, c, x, r)
  BY <1>3, <1>7 DEF StringPrints
<1> QED BY <1>1, <1>3, <1>8

(* A leaf application stands for its instruction in the code, and the      *)
(* string a run of prints became for the run.                              *)
LEMMA LeafAppStands ==
  ASSUME NEW b, Sound(b), NEW c \in Seq(Ins), NEW C, NEW V, NEW x \in Nat, NEW y, y = x + 1,
         Stands(b, V, c, C, x, y), NEW l \in Leaves, NEW r \in Leaves,
         c[x + 1] = AppIns(l, r), x + 1 <= Len(c), NEW opt
  PROVE  \E z : Stands(LeafApp(b, l, r, opt), V, c, C, z, z)
<1>1. PICK s \in Seq(Waiting), t \in Seq(Ins), d \in Seq(0..255), K \in Nat, T \in Nat, D \in Nat :
        /\ s = b.stack /\ t = b.text /\ d = b.rodata /\ K = Len(s) /\ T = Len(t) /\ D = Len(d)
        /\ DOMAIN s = 1..K
  BY Sizes DEF Sound
<1>2. PICK P, q, w : /\ TextStands(t, d, Las(s, q), c, P)
                     /\ P[T] = x /\ Waits(V, s, c, C, y, q, w)
  BY <1>1 DEF Stands
<1>3. StackStands(s, c, C, q, w) /\ q[K] = x + 1 /\ Awaited(V, s, w)
  BY <1>1, <1>2 DEF Waits
<1>4. PICK n \in 0..K : n = PrintRun(s) /\ \A i \in (K - n + 1)..K : IsPrint(s[i])
  BY <1>1, RunPrints DEF Sound
<1>5. PICK e : e = LeafApp(b, l, r, opt)
  OBVIOUS
<1>6. CASE opt /\ l.fn = "out" /\ n + 1 >= OptimizeStrMinLen
  <2>1. PICK i \in Ins, j \in Ins :
          /\ i = OpIns("lc", Swap32(D)) /\ i.op = "lc" /\ i.offset = Swap32(D)
          /\ j = AppIns(NoTok, r) /\ j.op = "app" /\ j.second = r
    <3>1. Swap32(D) \in Nat
      BY SwapType
    <3>2. OpIns("lc", Swap32(D)) \in Ins /\ OpIns("lc", Swap32(D)).op = "lc"
            /\ OpIns("lc", Swap32(D)).offset = Swap32(D)
      BY <3>1, InsType
    <3>4. AppIns(NoTok, r) \in Ins /\ AppIns(NoTok, r).op = "app"
      <4>1. PICK Z : Z = Leaves \cup {NoTok}
        OBVIOUS
      <4>2. r \in Z /\ NoTok \in Z
        BY <4>1
      <4>3. \A t1 \in Z, t2 \in Z : AppIns(t1, t2) \in Ins /\ AppIns(t1, t2).op = "app"
        BY <4>1, InsType
      <4> QED BY <4>2, <4>3, Zenon
    <3>5. AppIns(NoTok, r).second = r
      BY DEF AppIns
    <3> QED BY <3>2, <3>4, <3>5
  <2>2. PICK str \in Seq(0..255) : str = Chars(l, s, K, n) /\ Len(str) = n + 1
    <3>1. l \in Token
      BY DEF Leaves
    <3> QED BY <1>1, <3>1, CharsAre
  <2>3. PICK h \in Nat : h = K - n /\ h <= K
    <3>1. K - n \in Nat /\ K - n <= K
      OBVIOUS
    <3> QED BY <3>1
  <2>4. e = [text |-> TextWith(t, i, j), rodata |-> DataWith(d, str), stack |-> StackTo(s, h)]
    BY <1>1, <1>4, <1>5, <1>6, <2>1, <2>2, <2>3
       DEF LeafApp, TextWith, DataWith, StackTo, Chars
  <2>5. StringPrints(str, c, x, j.second)
    <3>1. OnTop(s, n) /\ RunBegins(s, c, q, x, l, r) /\ n \in Nat
      BY <1>1, <1>3, <1>4 DEF OnTop, RunBegins
    <3>2. StringPrints(Chars(l, s, Len(s), n), c, x, r)
      BY <1>3, <1>6, <3>1, RunIsString
    <3> QED BY <1>1, <2>1, <2>2, <3>2
  <2>6. PICK z \in 0..Len(c) : z = q[h] /\ z = x + (n + 1)
    <3>1. n \in Nat /\ OnTop(s, n)
      BY <1>1, <1>4 DEF OnTop
    <3>2. RunLies(s, n, c, q)
      BY <1>3, <3>1, RunPlaces
    <3>3. n \in 0..n
      OBVIOUS
    <3>4. q[h] = x + 1 + n
      BY <1>1, <1>3, <2>3, <3>2, <3>3 DEF RunLies
    <3>5. q \in [0..K -> 0..Len(c)] /\ h \in 0..K
      BY <1>1, <1>3, <2>3 DEF StackStands
    <3>6. q[h] \in 0..Len(c)
      BY <3>5
    <3> QED BY <3>4, <3>6
  <2>7. PICK Q : TextStands(e.text, e.rodata, Las(s, q), c, Q) /\ Q[Len(e.text)] = z
    <3>1. x + Len(str) <= Len(c) /\ x = P[Len(t)] /\ StringIns(i, j, d)
      BY <1>1, <1>2, <2>1, <2>2, <2>6 DEF StringIns
    <3>2. StandsTo(TextWith(t, i, j), DataWith(d, str), Las(s, q), c, x + Len(str))
      BY <1>2, <2>5, <3>1, TextString
    <3>3. StandsTo(e.text, e.rodata, Las(s, q), c, z)
      BY <2>2, <2>4, <2>6, <3>2
    <3> QED BY <3>3 DEF StandsTo
  <2>8. PICK u : u = StackTo(s, h)
    OBVIOUS
  <2>9. IsFront(u, s, h)
    BY <1>1, <2>3, <2>8, StackToIs DEF IsFront
  <2>10. /\ StackStands(u, c, C, Down(q, h), w) /\ Down(q, h)[Len(u)] = q[h]
         /\ Waiters(u) = {k \in Waiters(s) : k <= h}
         /\ \A a : a \in Las(u, Down(q, h)) <=>
                \E k \in 1..h : s[k].ins.op = "la" /\ a = [at |-> s[k].at, end |-> q[k] + 1]
    <3>1. IsLeft(u, s, h, c, C, q, w)
      BY <1>1, <1>3, <2>3, <2>9, PopStands
    <3> QED BY <3>1 DEF IsLeft
  <2>11. \A k \in 1..K : k \in 1..h \/ s[k].ins.op = "app"
    <3>1. \A k \in 1..K : k \in 1..h \/ k \in (K - n + 1)..K
      BY <2>3
    <3> QED BY <1>4, <3>1 DEF IsPrint
  <2>12. Waiters(u) = Waiters(s)
    <3>1. \A k \in Waiters(s) : k \in 1..K /\ s[k].ins.op = "sa"
      BY <1>1 DEF Waiters
    <3>2. \A k \in Waiters(s) : k \in 1..h
      BY <2>11, <3>1
    <3> QED BY <2>10, <3>2
  <2>13. Las(u, Down(q, h)) = Las(s, q)
    <3>1. \A a : a \in Las(s, q) <=>
                \E k \in 1..Len(s) : s[k].ins.op = "la" /\ a = [at |-> s[k].at, end |-> q[k] + 1]
      BY LasAll, SMTT(30)
    <3>2. \A k \in 1..h : k \in 1..K
      BY <2>3
    <3>3. \A k \in 1..K : s[k].ins.op = "la" => k \in 1..h
      BY <2>11
    <3>4. \A a : a \in Las(u, Down(q, h)) <=> a \in Las(s, q)
      BY <1>1, <2>10, <3>1, <3>2, <3>3
    <3> QED BY <3>4
  <2>14. Waits(V, u, c, C, z, Down(q, h), w)
    <3>1. Awaited(V, u, w)
      BY <1>3, <2>12 DEF Awaited
    <3> QED BY <2>6, <2>10, <3>1 DEF Waits
  <2>15. e.stack = u
    BY <2>4, <2>8
  <2>16. Stands(e, V, c, C, z, z)
    BY <2>7, <2>13, <2>14, <2>15 DEF Stands
  <2> QED BY <1>5, <2>16
<1>7. CASE ~(opt /\ l.fn = "out" /\ n + 1 >= OptimizeStrMinLen)
  <2>1. PICK i \in Ins : i = AppIns(l, r) /\ i.op = "app"
    <3>1. AppIns(l, r) \in Ins /\ AppIns(l, r).op = "app"
      BY InsType
    <3> QED BY <3>1
  <2>2. PICK u : u = Append(t, i)
    OBVIOUS
  <2>3. e.text = u /\ e.rodata = d /\ e.stack = s
    <3>1. e = [b EXCEPT !.text = u]
      BY <1>1, <1>4, <1>5, <1>7, <2>1, <2>2 DEF LeafApp
    <3> QED BY <1>1, <3>1 DEF Sound, Buffers
  <2>4. TextStands(u, d, Las(s, q), c, More(P, T, x + 1))
    <3>1. x = P[Len(t)] /\ c[x + 1] = i /\ i.op \in {"app", "la"}
      BY <1>1, <1>2, <2>1
    <3>2. TextStands(u, d, Las(s, q), c, More(P, Len(t), x + 1))
      BY <1>2, <2>2, <3>1, TextApp
    <3> QED BY <1>1, <3>2
  <2>5. Len(u) = T + 1
    BY <1>1, <2>2, AppendIs
  <2>6. More(P, T, x + 1)[T + 1] = y
    <3>1. T + 1 \in 0..(T + 1)
      OBVIOUS
    <3> QED BY <3>1 DEF More
  <2>7. Stands(e, V, c, C, y, y)
    <3>1. TextStands(e.text, e.rodata, Las(e.stack, q), c, More(P, T, x + 1))
      BY <2>3, <2>4
    <3>2. More(P, T, x + 1)[Len(e.text)] = y
      BY <2>3, <2>5, <2>6
    <3>3. Waits(V, e.stack, c, C, y, q, w)
      BY <1>2, <2>3
    <3> QED BY <3>1, <3>2, <3>3 DEF Stands
  <2> QED BY <1>5, <2>7
<1> QED BY <1>6, <1>7

(* The next node is the first of the applications to come.  Its children   *)
(* take its place, and come before all others.                             *)
LEMMA OpenApp ==
  ASSUME NEW a, IsTree(a), NEW n \in 1..Len(a), IsApp(a[n].tok),
         NEW s, s = a[n + 1].sibling
  PROVE  /\ n \in Open(a, n) /\ Open(a, n) \subseteq 1..Len(a)
         /\ \A m \in Open(a, n) \ {n} : n + 1 < m /\ s < m
         /\ \A m : m \in Open(a, n + 1) <=>
              m \in Open(a, n) \ {n} \/ (m \in {n + 1, s} /\ IsApp(a[m].tok))
<1>1. PICK N \in Nat : N = Len(a) /\ DOMAIN a = 1..N
  BY LenProperties DEF IsTree
<1>2. n + 1 \in 1..N /\ s \in (n + 2)..N /\ Children(a, n) = {n + 1, s}
  BY <1>1, TreeNode DEF Children
<1>3. n \in Open(a, n)
  BY KidsApp
<1>4. \A m : m \in Open(a, n) <=> m \in n..N /\ IsApp(a[m].tok) /\ (m = 1 \/ m \in Kids(a, n))
  BY <1>1 DEF Open
<1>5. Open(a, n) \subseteq 1..N
  BY <1>1, <1>4
<1>6. ASSUME NEW m \in Open(a, n), m # n PROVE n + 1 < m /\ s < m
  <2>1. m \in (n + 1)..N /\ m \in Kids(a, n)
    BY <1>1, <1>4, <1>6
  <2>2. PICK i \in 1..(n - 1) : IsApp(a[i].tok) /\ m \in Children(a, i)
    BY <2>1 DEF Kids
  <2>3. m = a[i + 1].sibling
    BY <1>1, <2>1, <2>2 DEF Children
  <2>4. i \in 1..N /\ n \in 1..N /\ n \in (i + 1)..(m - 1)
    BY <1>1, <2>1
  <2>5. a[n + 1].sibling < a[i + 1].sibling
    BY <1>1, <2>2, <2>3, <2>4 DEF IsTree
  <2> QED BY <1>1, <1>2, <2>1, <2>3, <2>5
<1>7. Kids(a, n + 1) = Kids(a, n) \cup {n + 1, s}
  <2>1. {i \in 1..((n + 1) - 1) : IsApp(a[i].tok)} = {i \in 1..(n - 1) : IsApp(a[i].tok)} \cup {n}
    BY <1>1
  <2>2. Kids(a, n + 1) = Kids(a, n) \cup Children(a, n)
    BY <2>1, Zenon DEF Kids
  <2> QED BY <1>2, <2>2
<1>8. \A m : m \in Open(a, n + 1) <=>
        m \in (n + 1)..N /\ IsApp(a[m].tok) /\ (m = 1 \/ m \in Kids(a, n) \/ m \in {n + 1, s})
  BY <1>1, <1>7 DEF Open
<1>9. \A m : m \in Open(a, n + 1) <=>
        m \in Open(a, n) \ {n} \/ (m \in {n + 1, s} /\ IsApp(a[m].tok))
  <2>1. \A m : m \in (n + 1)..N <=> m \in n..N /\ m # n
    BY <1>1
  <2>2. n + 1 \in (n + 1)..N /\ s \in (n + 1)..N
    BY <1>1, <1>2
  <2> QED BY <1>4, <1>8, <2>1, <2>2
<1> QED BY <1>1, <1>3, <1>5, <1>6, <1>9

(* The text stands for the code up to the next application.                *)
LEMMA NextIs ==
  ASSUME NEW d, NEW W, NEW c \in Seq(Ins), NEW C, NEW o \in W, \A v \in W : o <= v,
         NEW x \in 0..Len(c), NEW y \in 0..Len(c),
         Stands(d, W \ {o}, c, C, x, y), Ahead(c, C, x, o, y)
  PROVE  StandsNext(d, W, c, C)
<1>1. W # {}
  OBVIOUS
<1> QED BY <1>1 DEF StandsNext

(* Generating a node keeps text and stack in step with the code of the     *)
(* tree.                                                                   *)
LEMMA NodeStands ==
  ASSUME NEW a, IsTree(a), NEW n \in 1..Len(a), NEW b, Sound(b), NEW opt, NEW C, C = CodesOf(a),
         NEW c, c = C[1], StandsNext(b, Open(a, n), c, C)
  PROVE  StandsNext(GenNode(b, a, n, opt), Open(a, n + 1), c, C)
<1>1. PICK N \in Nat : N = Len(a) /\ DOMAIN a = 1..N /\ n \in 1..N
  BY LenProperties DEF IsTree
<1>2. c \in Seq(Ins) /\ \A m \in 1..N : C[m] \in Seq(Ins)
  <2>1. 1 \in 1..Len(a)
    BY <1>1
  <2> QED BY <1>1, <2>1, CodesAre
<1>3. PICK k \in Nat : k = Len(c)
  BY <1>2, LenProperties
<1>4. CASE ~IsApp(a[n].tok)
  <2>1. GenNode(b, a, n, opt) = b
    BY <1>4, Zenon DEF GenNode
  <2>2. Open(a, n + 1) = Open(a, n)
    BY <1>4, KidsLeaf
  <2> QED BY <2>1, <2>2
<1>5. CASE IsApp(a[n].tok)
  <2>1. PICK s, l, r : s = a[n + 1].sibling /\ l = a[n + 1].tok /\ r = a[s].tok
    OBVIOUS
  <2>2. s \in (n + 2)..N /\ s \in 1..N /\ n + 1 \in 1..N /\ l \in Token /\ r \in Token
    <3>1. s \in (n + 2)..N /\ n + 1 \in 1..N /\ l \in Token /\ r \in Token
      BY <1>1, <1>5, <2>1, TreeNode
    <3> QED BY <1>1, <3>1
  <2>3. PICK W, R : W = Open(a, n) /\ R = Open(a, n + 1)
    OBVIOUS
  <2>4. PICK V : V = W \ {n}
    OBVIOUS
  <2>5. /\ n \in W /\ W \subseteq 1..N /\ V \subseteq 1..N
        /\ \A m \in V : n + 1 < m /\ s < m
        /\ \A m : m \in R <=> m \in V \/ (m \in {n + 1, s} /\ IsApp(a[m].tok))
    <3>1. /\ n \in W /\ W \subseteq 1..N
          /\ \A m \in W \ {n} : n + 1 < m /\ s < m
          /\ \A m : m \in R <=> m \in W \ {n} \/ (m \in {n + 1, s} /\ IsApp(a[m].tok))
      BY <1>1, <1>5, <2>1, <2>3, OpenApp
    <3> QED BY <2>4, <3>1
  <2>6. PICK x \in 0..k, y \in 0..k : Stands(b, V, c, C, x, y) /\ Ahead(c, C, x, n, y)
    <3>1. PICK o \in W, x \in 0..k, y \in 0..k :
            /\ \A v \in W : o <= v
            /\ Stands(b, W \ {o}, c, C, x, y) /\ Ahead(c, C, x, o, y)
      BY <1>3, <2>3, <2>5 DEF StandsNext
    <3>2. o = n
      BY <1>1, <2>4, <2>5, <3>1
    <3> QED BY <2>4, <3>1, <3>2
  <2>7. PICK e : e = GenNode(b, a, n, opt)
    OBVIOUS
  <2>8. \A t : t \in Token /\ ~IsApp(t) => t \in Leaves
    BY DEF Leaves
  <2>9. PICK Z : Z = Leaves \cup {NoTok}
    OBVIOUS
  <2>10. \A t \in Z, u \in Z : AppIns(t, u) \in Ins /\ AppIns(t, u).op = "app" /\ AppIns(t, u).offset = 0
    <3>1. \A t \in Z, u \in Z : AppIns(t, u) \in Ins /\ AppIns(t, u).op = "app"
      BY <2>9, InsType
    <3>2. \A t, u : AppIns(t, u).offset = 0
      BY DEF AppIns
    <3> QED BY <3>1, <3>2
  <2>11. NoTok \in Z /\ \A t \in Leaves : t \in Z
    BY <2>9
  <2>12. CASE IsApp(l) /\ IsApp(r)
    <3>1. e = PushIns(b, OpIns("sa", 0))
      BY <1>5, <2>1, <2>7, <2>12, Zenon DEF GenNode
    <3>2. PICK z \in 0..y : Ahead(c, C, x, n + 1, z) /\ SaStands(c, C, z, s, y)
      BY <1>2, <1>5, <2>1, <2>6, <2>12, CodeLies
    <3>3. PICK i \in Ins : i = OpIns("sa", 0) /\ i.op = "sa"
      BY InsType
    <3>4. z \in 0..Len(c)
      BY <1>3
    <3>5. Stands(PushIns(b, i), IF i.op = "sa" THEN V \cup {s} ELSE V, c, C, x, z)
      <4>1. IF i.op = "sa" THEN SaStands(c, C, z, s, y) /\ \A v \in V : s < v
            ELSE c[z + 1] = i /\ y = z + 1 /\ i.offset = 0
        BY <2>5, <3>2, <3>3
      <4> QED BY <1>2, <2>6, <3>3, <3>4, <4>1, PushStands
    <3>6. R = V \cup {n + 1, s} /\ n + 1 \notin V /\ n + 1 # s
      BY <1>1, <2>1, <2>2, <2>5, <2>12
    <3>7. R \ {n + 1} = V \cup {s} /\ n + 1 \in R
      BY <3>6
    <3>8. Stands(e, R \ {n + 1}, c, C, x, z)
      BY <3>1, <3>3, <3>5, <3>7
    <3>9. \A v \in R : n + 1 <= v
      BY <1>1, <2>2, <2>5, <3>6
    <3>10. x \in 0..Len(c)
      BY <1>3
    <3>11. StandsNext(e, R, c, C)
      BY <1>2, <3>2, <3>4, <3>7, <3>8, <3>9, <3>10, NextIs
    <3> QED BY <2>3, <2>7, <3>11
  <2>13. CASE IsApp(l) /\ ~IsApp(r)
    <3>1. e = PushIns(b, AppIns(NoTok, r))
      BY <1>5, <2>1, <2>7, <2>13, Zenon DEF GenNode
    <3>2. PICK z \in 0..y : /\ Ahead(c, C, x, n + 1, z) /\ y = z + 1
                            /\ c[z + 1] = AppIns(NoTok, r)
      BY <1>2, <1>5, <2>1, <2>6, <2>13, CodeLies, SMTT(30)
    <3>3. PICK i \in Ins : i = AppIns(NoTok, r) /\ i.op = "app" /\ i.offset = 0
      BY <2>2, <2>8, <2>10, <2>11, <2>13, Zenon
    <3>4. z \in 0..Len(c)
      BY <1>3
    <3>5. Stands(PushIns(b, i), IF i.op = "sa" THEN V \cup {s} ELSE V, c, C, x, z)
      <4>1. IF i.op = "sa" THEN SaStands(c, C, z, s, y) /\ \A v \in V : s < v
            ELSE c[z + 1] = i /\ y = z + 1 /\ i.offset = 0
        BY <3>2, <3>3
      <4> QED BY <1>2, <2>6, <3>3, <3>4, <4>1, PushStands
    <3>6. R = V \cup {n + 1} /\ n + 1 \notin V
      BY <1>1, <2>1, <2>2, <2>5, <2>13
    <3>7. R \ {n + 1} = V /\ n + 1 \in R
      BY <3>6
    <3>8. Stands(e, R \ {n + 1}, c, C, x, z)
      BY <3>1, <3>3, <3>5, <3>7
    <3>9. \A v \in R : n + 1 <= v
      BY <1>1, <2>2, <2>5, <3>6
    <3>10. x \in 0..Len(c)
      BY <1>3
    <3>11. StandsNext(e, R, c, C)
      BY <1>2, <3>2, <3>4, <3>7, <3>8, <3>9, <3>10, NextIs
    <3> QED BY <2>3, <2>7, <3>11
  <2>14. CASE ~IsApp(l) /\ l.fn = "d" /\ IsApp(r)
    <3>1. e = EmitAndPush(b, OpIns("del", 0), OpIns("la", 0))
      BY <1>5, <2>1, <2>7, <2>14, Zenon DEF GenNode, LeafToApp
    <3>2. PICK z \in 0..y : /\ c[x + 1] = Jump("del", y - x) /\ x + 1 <= y
                            /\ Ahead(c, C, x + 1, s, z) /\ y = z + 1
                            /\ c[z + 1] = OpIns("la", 0)
      BY <1>2, <1>5, <2>1, <2>6, <2>14, CodeLies
    <3>3. z \in 0..Len(c) /\ x + 1 <= Len(c) /\ y <= Len(c) /\ x + 1 \in 0..Len(c)
      BY <1>3, <3>2
    <3>4. Stands(e, V, c, C, x + 1, z)
      BY <1>2, <2>6, <3>1, <3>2, <3>3, EmitStands
    <3>5. R = V \cup {s} /\ s \notin V
      BY <1>1, <2>1, <2>2, <2>5, <2>14
    <3>6. R \ {s} = V /\ s \in R
      BY <3>5
    <3>7. \A v \in R : s <= v
      BY <1>1, <2>2, <2>5, <3>5
    <3>8. Stands(e, R \ {s}, c, C, x + 1, z)
      BY <3>4, <3>6
    <3>9. StandsNext(e, R, c, C)
      BY <1>2, <3>2, <3>3, <3>6, <3>7, <3>8, NextIs
    <3> QED BY <2>3, <2>7, <3>9
  <2>15. CASE ~IsApp(l) /\ l.fn # "d" /\ IsApp(r)
    <3>1. e = PushIns(b, AppIns(l, NoTok))
      BY <1>5, <2>1, <2>7, <2>15, Zenon DEF GenNode, LeafToApp
    <3>2. PICK z \in 0..y : /\ Ahead(c, C, x, s, z) /\ y = z + 1
                            /\ c[z + 1] = AppIns(l, NoTok)
      BY <1>2, <1>5, <2>1, <2>6, <2>15, CodeLies
    <3>3. PICK i \in Ins : i = AppIns(l, NoTok) /\ i.op = "app" /\ i.offset = 0
      BY <2>2, <2>8, <2>10, <2>11, <2>15, Zenon
    <3>4. z \in 0..Len(c)
      BY <1>3
    <3>5. Stands(PushIns(b, i), IF i.op = "sa" THEN V \cup {s} ELSE V, c, C, x, z)
      <4>1. IF i.op = "sa" THEN SaStands(c, C, z, s, y) /\ \A v \in V : s < v
            ELSE c[z + 1] = i /\ y = z + 1 /\ i.offset = 0
        BY <3>2, <3>3
      <4> QED BY <1>2, <2>6, <3>3, <3>4, <4>1, PushStands
    <3>6. R = V \cup {s} /\ s \notin V
      BY <1>1, <2>1, <2>2, <2>5, <2>15
    <3>7. R \ {s} = V /\ s \in R
      BY <3>6
    <3>8. Stands(e, R \ {s}, c, C, x, z)
      BY <3>1, <3>3, <3>5, <3>7
    <3>9. \A v \in R : s <= v
      BY <1>1, <2>2, <2>5, <3>6
    <3>10. x \in 0..Len(c)
      BY <1>3
    <3>11. StandsNext(e, R, c, C)
      BY <1>2, <3>2, <3>4, <3>7, <3>8, <3>9, <3>10, NextIs
    <3> QED BY <2>3, <2>7, <3>11
  <2>16. CASE ~IsApp(l) /\ ~IsApp(r)
    <3>1. PICK f : f = LeafApp(b, l, r, opt)
      OBVIOUS
    <3>2. e = Drain(f)
      BY <1>5, <2>1, <2>7, <2>16, <3>1, Zenon DEF GenNode
    <3>3. c[x + 1] = AppIns(l, r) /\ y = x + 1
      BY <1>2, <1>5, <2>1, <2>6, <2>16, CodeLies, SMTT(30)
    <3>4. l \in Leaves /\ r \in Leaves
      BY <2>2, <2>8, <2>16
    <3>5. Sound(f)
      BY <3>1, <3>4, LeafAppDoes DEF IsLeafApp
    <3>6. PICK z : Stands(f, V, c, C, z, z)
      <4>1. x + 1 <= Len(c) /\ x \in Nat
        BY <1>3, <3>3
      <4> QED BY <1>2, <2>6, <3>1, <3>3, <3>4, <4>1, LeafAppStands
    <3>7. V \in SUBSET Nat /\ \A v \in V : C[v] \in Seq(Ins)
      BY <1>2, <2>5
    <3>8. R = V
      BY <2>1, <2>5, <2>16
    <3>9. StandsNext(e, R, c, C)
      BY <1>2, <3>2, <3>5, <3>6, <3>7, <3>8, DrainStands
    <3> QED BY <2>3, <2>7, <3>9
  <2> QED BY <2>12, <2>13, <2>14, <2>15, <2>16
<1> QED BY <1>4, <1>5

-----------------------------------------------------------------------------
(* The complete program.                                                   *)

(* Text t stands for all of the code c.                                    *)
Whole(t, d, c, P) ==
  /\ t \in Seq(Ins) /\ d \in Seq(0..255) /\ c \in Seq(Ins)
  /\ Len(t) <= MaxNodes /\ Len(d) <= MaxNodes
  /\ TextStands(t, d, {}, c, P) /\ P[Len(t)] = Len(c)

(* A string is the characters up to the first NUL.                         *)
IsStringAt(d, o, m) ==
  /\ o \in Nat /\ m \in Nat /\ o + m + 1 <= Len(d) /\ d[o + m + 1] = NUL
  /\ \A k \in 1..m : d[o + k] # NUL

(* The values of a piece, for every two places.                            *)
LEMMA PieceHas ==
  \A S : \A s \in Seq(S) : \A m, n \in Nat : m <= n /\ n <= Len(s) =>
    /\ Piece(s, m, n) \in Seq(S) /\ Len(Piece(s, m, n)) = n - m
    /\ \A i \in 1..(n - m) : Piece(s, m, n)[i] = s[m + i]
BY PiecesJoin, ZenonT(40)

StringHas(d, o, m) ==
  DOMAIN StringAt(d, o) = 1..m /\ \A k \in 1..m : StringAt(d, o)[k] = d[o + k]

(* The string that is found at an offset is the one that was put there.    *)
LEMMA StringIsAt ==
  ASSUME NEW W, NEW d \in Seq(W), NEW o, NEW m, IsStringAt(d, o, m)
  PROVE  StringHas(d, o, m)
<1>1. PICK l \in Nat : l = Len(d)
  BY LenProperties
<1>2. /\ o \in Nat /\ m \in Nat /\ o + m + 1 <= l /\ d[o + m + 1] = NUL
      /\ \A k \in 1..m : d[o + k] # NUL
  BY <1>1 DEF IsStringAt
<1>3. PICK e \in Nat : e = o + m + 1
  <2>1. o + m + 1 \in Nat
    BY <1>2
  <2> QED BY <2>1
<1>4. e \in (o + 1)..l /\ d[e] = NUL /\ e - 1 = o + m
  BY <1>2, <1>3
<1>5. \A n \in (o + 1)..(e - 1) : d[n] # NUL
  <2>1. SUFFICES ASSUME NEW n \in (o + 1)..(e - 1) PROVE d[n] # NUL
    OBVIOUS
  <2>2. n - o \in 1..m /\ o + (n - o) = n
    BY <1>2, <1>4
  <2> QED BY <1>2, <2>2
<1>6. \A n \in (o + 1)..l :
        d[n] = NUL /\ (\A i \in (o + 1)..(n - 1) : d[i] # NUL) => n = e
  <2>1. SUFFICES ASSUME NEW n \in (o + 1)..l, d[n] = NUL,
                        \A i \in (o + 1)..(n - 1) : d[i] # NUL
                 PROVE  n = e
    OBVIOUS
  <2>2. ~(n \in (o + 1)..(e - 1)) /\ ~(e \in (o + 1)..(n - 1))
    BY <1>4, <1>5, <2>1
  <2> QED BY <1>2, <1>3, <1>4, <2>2
<1>7. e = CHOOSE n \in (o + 1)..l : d[n] = NUL /\ \A i \in (o + 1)..(n - 1) : d[i] # NUL
  BY <1>4, <1>5, <1>6
<1>8. StringAt(d, o) = SubSeq(d, o + 1, e - 1)
  BY <1>1, <1>7, Zenon DEF StringAt
<1>9. StringAt(d, o) = Piece(d, o, o + m)
  BY <1>4, <1>8 DEF Piece
<1>10. PICK p \in Nat : p = o + m /\ o <= p /\ p <= Len(d) /\ p - o = m
  <2>1. o + m \in Nat /\ o <= o + m /\ o + m <= Len(d) /\ (o + m) - o = m
    BY <1>1, <1>2
  <2> QED BY <2>1
<1>11. PICK r \in Nat : r = o /\ r <= p /\ p <= Len(d)
  BY <1>2, <1>10
<1>12. /\ Piece(d, r, p) \in Seq(W) /\ Len(Piece(d, r, p)) = p - r
       /\ \A k \in 1..(p - r) : Piece(d, r, p)[k] = d[r + k]
  BY <1>11, PieceHas
<1> QED BY <1>9, <1>10, <1>11, <1>12, LenProperties DEF StringHas

(* A piece of a sequence is known by its length and its values.            *)
LEMMA PieceIs ==
  ASSUME NEW S, NEW s \in Seq(S), NEW m \in Nat, NEW n \in Nat, m <= n, n <= Len(s),
         NEW u, u \in Seq(S), Len(u) = n - m, \A i \in 1..(n - m) : u[i] = s[m + i]
  PROVE  u = Piece(s, m, n)
<1>1. /\ Piece(s, m, n) \in Seq(S) /\ Len(Piece(s, m, n)) = n - m
      /\ \A i \in 1..(n - m) : Piece(s, m, n)[i] = s[m + i]
  BY PiecesJoin
<1>2. \A i \in 1..Len(u) : u[i] = Piece(s, m, n)[i]
  BY <1>1
<1> QED BY <1>1, <1>2, SeqEqual

(* The instruction after the load of a string applies it.                  *)
LEMMA AfterLoad ==
  ASSUME NEW t \in Seq(Ins), NEW d, NEW c, NEW P, TextStands(t, d, {}, c, P),
         NEW n \in 1..Len(t), InString(t, n)
  PROVE  t[n].op = "app"
<1>1. PICK l \in Nat : l = Len(t)
  BY LenProperties
<1>2. n - 1 \in 1..l /\ t[n - 1].op = "lc" /\ (n - 1) + 1 = n
  BY <1>1 DEF InString
<1>3. StringStands(t, d, c, P, n - 1)
  BY <1>1, <1>2 DEF TextStands, EntryStands
<1>4. t[(n - 1) + 1].op = "app"
  BY <1>3 DEF StringStands
<1> QED BY <1>2, <1>4

(* An instruction, undone, is the piece of the code it stands for.         *)
LEMMA PlainStands ==
  ASSUME NEW t, NEW d, NEW c, NEW P, Whole(t, d, c, P), NEW n \in 1..Len(t)
  PROVE  /\ P[n - 1] \in Nat /\ P[n] \in Nat /\ P[n - 1] <= P[n] /\ P[n] <= Len(c)
         /\ Len(Plain(t, d, n)) = P[n] - P[n - 1]
         /\ t[n].op \notin {"sa", "del"} => Plain(t, d, n) = Piece(c, P[n - 1], P[n])
<1>1. PICK l \in Nat, h \in Nat, z \in Nat : l = Len(t) /\ h = Len(d) /\ z = Len(c)
  BY LenProperties DEF Whole
<1>2. /\ t \in Seq(Ins) /\ d \in Seq(0..255) /\ c \in Seq(Ins)
      /\ TextStands(t, d, {}, c, P) /\ h <= MaxNodes
  BY <1>1 DEF Whole
<1>3. P \in [0..l -> 0..z] /\ EntryStands(t, d, {}, c, P, n)
  BY <1>1, <1>2 DEF TextStands
<1>4. n \in 1..l /\ n - 1 \in 0..l /\ n \in 0..l
  BY <1>1
<1>5. PICK x \in Nat, y \in Nat : x = P[n - 1] /\ y = P[n] /\ y <= z
  <2>1. P[n - 1] \in 0..z /\ P[n] \in 0..z
    BY <1>3, <1>4
  <2> QED BY <2>1
<1>6. CASE t[n].op = "lc"
  <2>1. StringStands(t, d, c, P, n)
    BY <1>3, <1>6 DEF EntryStands
  <2>2. PICK o \in 0..h, m \in 0..h :
          /\ t[n].offset = Swap32(o) /\ o + m + 1 <= h /\ d[o + m + 1] = NUL
          /\ y = x + m
          /\ \A k \in 1..m :
               /\ d[o + k] # NUL
               /\ c[x + k] = AppIns(TokCh("out", d[o + k]),
                                    IF k = 1 THEN t[n + 1].second ELSE NoTok)
    BY <1>1, <1>5, <2>1 DEF StringStands
  <2>3. Swap32(t[n].offset) = o
    <3>1. o \in Nat /\ o <= MaxNodes
      BY <1>2, <2>2, SMT DEF MaxNodes
    <3> QED BY <2>2, <3>1, SwapSwap
  <2>4. IsStringAt(d, o, m)
    <3>1. o \in Nat /\ m \in Nat
      BY <2>2
    <3>2. o + m + 1 <= h /\ d[o + m + 1] = NUL /\ \A k \in 1..m : d[o + k] # NUL
      BY <2>2, Zenon
    <3> QED BY <1>1, <3>1, <3>2 DEF IsStringAt
  <2>5. PICK str : str = StringAt(d, o)
    OBVIOUS
  <2>6. DOMAIN str = 1..m /\ \A k \in 1..m : str[k] = d[o + k]
    <3>1. StringHas(d, o, m)
      BY <1>2, <2>4, StringIsAt
    <3> QED BY <2>5, <3>1 DEF StringHas
  <2>7. PICK u : u = Plain(t, d, n)
    OBVIOUS
  <2>8. u = [i \in 1..m |-> AppIns(TokCh("out", str[i]), IF i = 1 THEN t[n + 1].second ELSE NoTok)]
    <3>1. u = Prints(t, d, n)
      BY <1>6, <2>7, Zenon DEF Plain
    <3> QED BY <2>3, <2>5, <2>6, <3>1 DEF Prints
  <2>9. \A i \in 1..m : u[i] = c[x + i]
    BY <2>2, <2>6, <2>8
  <2>10. \A i \in 1..m : x + i \in 1..z
    <3>1. y = x + m /\ m \in Nat
      BY <2>2
    <3> QED BY <1>5, <3>1, SMTT(30)
  <2>11. DOMAIN u = 1..m /\ u = [i \in DOMAIN u |-> u[i]]
    BY <2>8
  <2>12. \A i \in 1..m : u[i] \in Ins
    BY <1>1, <1>2, <2>9, <2>10, ElementOfSeq
  <2>13. u \in Seq(Ins) /\ Len(u) = m
    <3>1. m \in Nat
      BY <2>2
    <3> QED BY <2>11, <2>12, <3>1, SeqIs
  <2>14. y - x = m /\ x <= y
    BY <1>5, <2>2
  <2>15. u = Piece(c, x, y)
    <3>1. y <= Len(c) /\ Len(u) = y - x /\ \A i \in 1..(y - x) : u[i] = c[x + i]
      BY <1>1, <1>5, <2>9, <2>13, <2>14
    <3> QED BY <1>2, <2>13, <2>14, <3>1, PieceIs
  <2> QED BY <1>1, <1>5, <2>7, <2>13, <2>14, <2>15
<1>7. CASE t[n].op # "lc" /\ InString(t, n)
  <2>1. y = x
    BY <1>3, <1>5, <1>7 DEF EntryStands
  <2>2. PICK u : u = Plain(t, d, n) /\ u = <<>>
    BY <1>7, Zenon DEF Plain, InString
  <2>3. u \in Seq(Ins) /\ Len(u) = y - x /\ \A i \in 1..(y - x) : u[i] = c[x + i]
    BY <2>1, <2>2
  <2>4. u = Piece(c, x, y)
    <3>1. c \in Seq(Ins) /\ x <= y /\ y <= Len(c)
      BY <1>1, <1>2, <1>5, <2>1
    <3> QED BY <2>3, <3>1, PieceIs
  <2> QED BY <1>1, <1>5, <2>1, <2>2, <2>3, <2>4
<1>8. CASE t[n].op # "lc" /\ ~InString(t, n)
  <2>1. y = x + 1 /\ (t[n].op \notin {"sa", "del"} => c[y] = t[n])
    BY <1>3, <1>5, <1>8 DEF EntryStands
  <2>2. PICK u : u = Plain(t, d, n) /\ u = <<t[n]>>
    BY <1>8, Zenon DEF Plain, InString
  <2>3. t[n] \in Ins
    BY <1>1, <1>2, <1>4, ElementOfSeq
  <2>4. u \in Seq(Ins) /\ Len(u) = 1 /\ u[1] = t[n]
    BY <2>2, <2>3
  <2>5. y - x = 1
    BY <2>1
  <2>6. ASSUME t[n].op \notin {"sa", "del"} PROVE u = Piece(c, x, y)
    <3>1. \A i \in 1..(y - x) : u[i] = c[x + i]
      BY <2>1, <2>4, <2>5, <2>6
    <3>2. y <= Len(c) /\ x <= y /\ Len(u) = y - x
      BY <1>1, <1>5, <2>1, <2>4, <2>5
    <3> QED BY <1>2, <2>4, <3>1, <3>2, PieceIs, ZenonT(40)
  <2> QED BY <1>1, <1>5, <2>1, <2>2, <2>4, <2>5, <2>6
<1> QED BY <1>6, <1>7, <1>8

(* The lengths add up to the places in the code.                           *)
LEMMA PlainLenIs ==
  ASSUME NEW t, NEW d, NEW c, NEW P, Whole(t, d, c, P)
  PROVE  PlainLen(t, d) = P
<1>1. PICK l \in Nat : l = Len(t)
  BY LenProperties DEF Whole
<1>2. P \in [0..l -> 0..Len(c)] /\ P[0] = 0
  BY <1>1 DEF Whole, TextStands
<1> DEFINE E(n, f) == IF n = 0 THEN 0 ELSE f[n - 1] + Len(Plain(t, d, n))
<1>3. ASSUME NEW n \in 0..l PROVE P[n] = E(n, P)
  <2>1. CASE n = 0
    BY <1>2, <2>1
  <2>2. CASE n # 0
    <3>1. n \in 1..Len(t)
      BY <1>1, <2>2
    <3>2. /\ P[n - 1] \in Nat /\ P[n] \in Nat
          /\ Len(Plain(t, d, n)) = P[n] - P[n - 1]
      BY <3>1, PlainStands
    <3>3. P[n] = P[n - 1] + Len(Plain(t, d, n))
      BY <3>2
    <3> QED BY <2>2, <3>3
  <2> QED BY <2>1, <2>2
<1>4. P = [n \in 0..l |-> E(n, P)]
  <2> HIDE DEF E
  <2> QED BY <1>2, <1>3
<1>5. PICK f : f = [n \in 0..l |-> E(n, f)] /\ PlainLen(t, d) = f
  <2>1. \E f : f = [n \in 0..l |-> E(n, f)]
    BY <1>4
  <2>2. PICK f : f = CHOOSE e : e = [n \in 0..l |-> E(n, e)]
    OBVIOUS
  <2>3. PlainLen(t, d) = f
    BY <1>1, <2>2 DEF PlainLen
  <2> HIDE DEF E
  <2>4. f = [n \in 0..l |-> E(n, f)]
    BY <2>1, <2>2
  <2> QED BY <2>3, <2>4
<1>6. \A n \in 0..l : f[n] = E(n, f) /\ P[n] = E(n, P)
  <2> HIDE DEF E
  <2> QED BY <1>3, <1>5
<1> DEFINE S == {n \in 0..l : f[n] = P[n]}
<1>7. ASSUME NEW n \in 0..l, \A q \in 0..(n - 1) : q \in S PROVE n \in S
  <2>1. f[n] = E(n, f) /\ P[n] = E(n, P)
    BY <1>6
  <2>2. CASE n = 0
    BY <2>1, <2>2
  <2>3. CASE n # 0
    <3>1. n - 1 \in 0..(n - 1)
      BY <2>3
    <3>2. f[n - 1] = P[n - 1]
      BY <1>7, <3>1
    <3> QED BY <2>1, <2>3, <3>2
  <2> QED BY <2>2, <2>3
<1>8. \A n \in 0..l : n \in S
  <2> HIDE DEF S
  <2> QED BY <1>7, UpInduction
<1>9. \A n \in 0..l : f[n] = P[n]
  BY <1>8
<1>10. f = [n \in 0..l |-> f[n]]
  <2> HIDE DEF E
  <2> QED BY <1>5, <1>6
<1> QED BY <1>2, <1>5, <1>9, <1>10

(* The text, undone, is the code.                                          *)
LEMMA PlainTextIs ==
  ASSUME NEW t, NEW d, NEW c, NEW P, Whole(t, d, c, P)
  PROVE  PlainText(t, d) = c
<1>1. PICK l \in Nat, z \in Nat : l = Len(t) /\ z = Len(c) /\ DOMAIN t = 1..l
  BY LenProperties DEF Whole
<1>2. /\ t \in Seq(Ins) /\ d \in Seq(0..255) /\ c \in Seq(Ins) /\ l <= MaxNodes
      /\ TextStands(t, d, {}, c, P) /\ P[l] = z /\ P \in [0..l -> 0..z] /\ P[0] = 0
  BY <1>1 DEF Whole, TextStands
<1>3. Cuts(P, l, Len(c))
  <2>1. \A i \in 1..l : P[i - 1] <= P[i]
    BY <1>1, PlainStands
  <2> QED BY <1>1, <1>2, <2>1 DEF Cuts
<1>4. FlattenSeq(Pieces(c, P, l)) = c
  BY <1>2, <1>3, FlattenCuts
<1>5. PICK s : s = [n \in 1..l |-> IF t[n].op \in {"sa", "del"}
                                   THEN <<Jump(t[n].op, P[Swap32(t[n].offset)] - P[n - 1])>>
                                   ELSE Plain(t, d, n)]
  OBVIOUS
<1>6. PlainText(t, d) = FlattenSeq(s)
  <2>1. PlainLen(t, d) = P
    BY PlainLenIs
  <2> QED BY <1>1, <1>5, <2>1 DEF PlainText
<1>7. ASSUME NEW n \in 1..l PROVE s[n] = Piece(c, P[n - 1], P[n])
  <2>0. n \in 1..Len(t)
    BY <1>1
  <2>1. CASE t[n].op \notin {"sa", "del"}
    <3>1. s[n] = Plain(t, d, n)
      BY <1>5, <2>1
    <3>2. Plain(t, d, n) = Piece(c, P[n - 1], P[n])
      BY <2>0, <2>1, PlainStands
    <3> QED BY <3>1, <3>2
  <2>2. CASE t[n].op \in {"sa", "del"}
    <3>1. ~InString(t, n) /\ t[n].op # "lc"
      BY <1>2, <2>0, <2>2, AfterLoad
    <3>2. EntryStands(t, d, {}, c, P, n)
      BY <1>2, <2>0 DEF TextStands
    <3>3. P[n] = P[n - 1] + 1 /\ P[n] <= Len(c) /\ JumpStands(t, {}, c, P, n)
      BY <2>2, <3>1, <3>2 DEF EntryStands
    <3>4. PICK m \in 1..l : t[n].offset = Swap32(m) /\ c[P[n]] = Jump(t[n].op, P[m] - P[n - 1])
      BY <1>1, <3>3 DEF JumpStands
    <3>5. Swap32(t[n].offset) = m
      <4>1. m \in Nat /\ m <= MaxNodes
        BY <1>2, SMT DEF MaxNodes
      <4> QED BY <3>4, <4>1, SwapSwap
    <3>6. s[n] = <<c[P[n]]>>
      BY <1>5, <2>2, <3>4, <3>5
    <3>7. PICK x \in Nat, y \in Nat : x = P[n - 1] /\ y = P[n] /\ x <= y /\ y <= Len(c)
      BY <2>0, PlainStands
    <3>8. y = x + 1 /\ y - x = 1 /\ y \in 1..Len(c)
      BY <1>1, <3>3, <3>7
    <3>9. c[y] \in Ins
      BY <1>2, <3>8, ElementOfSeq
    <3>10. PICK u : u = <<c[y]>>
      OBVIOUS
    <3>11. u \in Seq(Ins) /\ Len(u) = y - x /\ \A i \in 1..(y - x) : u[i] = c[x + i]
      BY <3>8, <3>9, <3>10
    <3>12. u = Piece(c, x, y)
      <4>1. c \in Seq(Ins) /\ x <= y /\ y <= Len(c)
        BY <1>2, <3>7
      <4> QED BY <3>11, <4>1, PieceIs
    <3> QED BY <3>6, <3>7, <3>10, <3>12
  <2> QED BY <2>1, <2>2
<1>8. s = Pieces(c, P, l)
  <2>1. s = [n \in 1..l |-> s[n]]
    BY <1>5
  <2> QED BY <1>7, <2>1 DEF Pieces
<1> QED BY <1>4, <1>6, <1>8

(* Before the first node the empty text stands for no code.                *)
LEMMA FirstStands ==
  ASSUME NEW a, IsTree(a), NEW C, C = CodesOf(a), NEW c, c = C[1]
  PROVE  StandsNext(NewBuffers, Open(a, 1), c, C)
<1>1. PICK N \in Nat : N = Len(a) /\ 1 \in 1..N
  BY LenProperties DEF IsTree
<1>2. c \in Seq(Ins)
  BY <1>1, CodesAre
<1>3. PICK k \in Nat : k = Len(c)
  BY <1>2, LenProperties
<1>4. PICK b : b = NewBuffers
  OBVIOUS
<1>5. b.text = <<>> /\ b.rodata = <<>> /\ b.stack = <<>> /\ Len(<<>>) = 0
  BY <1>4 DEF NewBuffers
<1>6. PICK P : P = [i \in 0..0 |-> 0]
  OBVIOUS
<1>7. PICK q : q = [i \in 0..0 |-> k]
  OBVIOUS
<1>8. 0 \in 0..0 /\ 1..0 = {}
  OBVIOUS
<1>9. TextStands(<<>>, <<>>, Las(<<>>, q), c, P) /\ P[0] = 0
  <2>1. P \in [0..0 -> 0..k] /\ P[0] = 0
    BY <1>6, <1>8
  <2> QED BY <1>3, <1>5, <1>8, <2>1 DEF TextStands
<1>10. Waits({}, <<>>, c, C, k, q, <<>>)
  <2>1. q \in [0..0 -> 0..k] /\ q[0] = k
    BY <1>7, <1>8
  <2>2. StackStands(<<>>, c, C, q, <<>>)
    BY <1>3, <1>5, <1>8, <2>1 DEF StackStands
  <2>3. Waiters(<<>>) = {}
    BY <1>5, <1>8 DEF Waiters
  <2>4. Awaited({}, <<>>, <<>>)
    BY <2>3 DEF Awaited
  <2> QED BY <1>5, <2>1, <2>2, <2>4 DEF Waits
<1>11. Stands(b, {}, c, C, 0, k)
  BY <1>5, <1>9, <1>10 DEF Stands
<1>12. Open(a, 1) = {1}
  BY KidsFirst
<1>13. Ahead(c, C, 0, 1, k)
  BY <1>2, <1>3 DEF Ahead, Lies
<1>14. PICK W : W = Open(a, 1) /\ 1 \in W /\ W \ {1} = {} /\ \A v \in W : 1 <= v
  BY <1>12
<1>15. 0 \in 0..Len(c) /\ k \in 0..Len(c)
  BY <1>3
<1>16. Stands(b, W \ {1}, c, C, 0, k)
  BY <1>11, <1>14
<1>17. StandsNext(b, W, c, C)
  BY <1>2, <1>13, <1>14, <1>15, <1>16, NextIs
<1> QED BY <1>4, <1>14, <1>17

(* When no application is to come the text stands for all of the code.     *)
LEMMA LastStands ==
  ASSUME NEW b, b \in Buffers, Len(b.text) <= MaxNodes, Len(b.rodata) <= MaxNodes,
         NEW c \in Seq(Ins), NEW C, StandsNext(b, {}, c, C)
  PROVE  PlainText(b.text, b.rodata) = c
<1>1. b.text \in Seq(Ins) /\ b.rodata \in Seq(0..255)
  BY Sizes
<1>2. b.stack = <<>> /\ Stands(b, {}, c, C, Len(c), Len(c))
  BY DEF StandsNext
<1>3. PICK P, q : TextStands(b.text, b.rodata, Las(b.stack, q), c, P) /\ P[Len(b.text)] = Len(c)
  BY <1>2 DEF Stands
<1>4. Las(b.stack, q) = {}
  <2>1. 1..0 = {} /\ Len(b.stack) = 0
    BY <1>2
  <2> QED BY <2>1 DEF Las
<1>5. Whole(b.text, b.rodata, c, P)
  BY <1>1, <1>3, <1>4, Zenon DEF Whole
<1> QED BY <1>5, PlainTextIs

(* The text stands for the code up to the next application.                *)
TextSound ==
  phase # "idle" => StandsNext(g, Open(ast, node), CodeOf(ast), CodesOf(ast))

(* Every step keeps the text in step with the code of the tree.            *)
LEMMA TextSoundNext ==
  ASSUME CodegenInv, TextSound, [Next]_vars
  PROVE  TextSound'
<1>1. CASE \E tree \in Asts, opts \in Options : Start(tree, opts)
  <2>1. PICK tree \in Asts : phase = "idle" /\ ast' = tree /\ UNCHANGED <<node, g>>
    BY <1>1 DEF Start
  <2>2. g' = NewBuffers /\ node' = 1
    BY <2>1, GoodStart
  <2>3. IsTree(ast')
    BY <2>1, AstsAssumption
  <2>4. PICK a : a = ast'
    OBVIOUS
  <2>5. StandsNext(NewBuffers, Open(a, 1), CodesOf(a)[1], CodesOf(a))
    BY <2>3, <2>4, FirstStands
  <2>6. StandsNext(g', Open(ast', node'), CodesOf(ast')[1], CodesOf(ast'))
    BY <2>2, <2>4, <2>5
  <2> QED BY <2>6 DEF TextSound, CodeOf
<1>2. CASE GenerateNode
  <2>1. /\ phase = "nodes" /\ node <= Len(ast) /\ node' = node + 1
        /\ g' = GenNode(g, ast, node, options.optimize_const) /\ ast' = ast
    BY <1>2 DEF GenerateNode
  <2>2. ast \in Asts /\ IsTree(ast) /\ Sound(g) /\ node \in 1..(Len(ast) + 1)
    BY <2>1, InvIs, AstsAssumption DEF Good
  <2>3. node \in 1..Len(ast)
    <3>1. Len(ast) \in Nat
      BY <2>2, LenProperties DEF IsTree
    <3> QED BY <2>1, <2>2, <3>1
  <2>4. StandsNext(g, Open(ast, node), CodesOf(ast)[1], CodesOf(ast))
    BY <2>1 DEF TextSound, CodeOf
  <2>5. StandsNext(GenNode(g, ast, node, options.optimize_const), Open(ast, node + 1),
                   CodesOf(ast)[1], CodesOf(ast))
    BY <2>2, <2>3, <2>4, NodeStands
  <2>6. StandsNext(g', Open(ast', node'), CodesOf(ast')[1], CodesOf(ast'))
    BY <2>1, <2>5
  <2> QED BY <2>6 DEF TextSound, CodeOf
<1>3. CASE UNCHANGED <<ast, node, g>> /\ (phase = "idle" => phase' = "idle")
  BY <1>3 DEF TextSound
<1>4. options \in Options
  BY InvIs
<1>5. ASSUME WritePrefix \/ Allocate \/ EndNodes \/ WriteSection \/ Failed \/ DumpNoMemory
      PROVE  UNCHANGED <<ast, node, g>> /\ phase # "idle"
  <2>1. CASE WritePrefix \/ Allocate \/ EndNodes \/ DumpNoMemory
    BY <2>1 DEF WritePrefix, Allocate, EndNodes, DumpNoMemory
  <2>2. CASE WriteSection
    BY <1>4, <2>2, SectionsAre DEF WriteSection
  <2>3. CASE Failed
    BY <1>4, <2>3, SectionsAre DEF Failed
  <2> QED BY <1>5, <2>1, <2>2, <2>3
<1>6. CASE UNCHANGED vars
  BY <1>3, <1>6 DEF vars
<1> QED BY <1>1, <1>2, <1>3, <1>5, <1>6 DEF Next, CodegenStep

(* At the end nothing is to come, so that the text is the whole code.      *)
LEMMA TextFollows ==
  ASSUME CodegenInv, TextSound
  PROVE  TextIsTree
<1>1. SUFFICES ASSUME phase = "ok" PROVE PlainText(g.text, g.rodata) = CodeOf(ast)
  BY DEF TextIsTree
<1>2. node = Len(ast) + 1 /\ ast \in Asts /\ Sound(g)
  BY <1>1, InvIs DEF NodesDone, Good
<1>3. IsTree(ast) /\ Len(ast) <= MaxNodes
  BY <1>2, AstsAssumption
<1>4. PICK l \in Nat : l = Len(ast) /\ 1 \in 1..l
  BY <1>3, LenProperties DEF IsTree
<1>5. CodesOf(ast)[1] \in Seq(Ins)
  BY <1>3, <1>4, CodesAre
<1>6. StandsNext(g, {}, CodesOf(ast)[1], CodesOf(ast))
  <2>1. Open(ast, node) = {}
    BY <1>2, <1>4, OpenLast
  <2> QED BY <1>1, <2>1 DEF TextSound, CodeOf
<1>7. Len(g.text) <= MaxNodes /\ Len(g.rodata) <= MaxNodes
  <2>1. PICK t \in Nat, d \in Nat : t = Len(g.text) /\ d = Len(g.rodata)
    BY <1>2, Sizes DEF Sound
  <2>2. t <= l /\ d <= l
    BY <1>4, <2>1, FitFollows DEF BuffersFit
  <2> QED BY <1>3, <1>4, <2>1, <2>2, SMT DEF MaxNodes
<1>8. g \in Buffers
  BY <1>2 DEF Sound
<1>9. PICK n : n = MaxNodes
  OBVIOUS
<1>10. PlainText(g.text, g.rodata) = CodesOf(ast)[1]
  BY <1>5, <1>6, <1>7, <1>8, LastStands
<1> QED BY <1>10 DEF CodeOf

(* The program u6ac writes is the tree's: without the optimisation's       *)
(* strings, and with distances for offsets, it is the code of the tree.    *)
THEOREM TextHolds == Spec => []TextIsTree
<1>1. Init => TextSound
  BY DEF Init, TextSound
<1>2. CodegenInv /\ TextSound /\ [Next]_vars => TextSound'
  BY TextSoundNext
<1>3. CodegenInv /\ TextSound => TextIsTree
  BY TextFollows
<1> QED BY <1>1, <1>2, <1>3, CodegenSound, PTL DEF Spec

=============================================================================
