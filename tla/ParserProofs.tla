---------------------------- MODULE ParserProofs -----------------------------
(***************************************************************************)
(* Proofs about u6a_parse, for token arrays of every length: it accepts    *)
(* the programs and nothing else, stays within its arrays, and links every *)
(* application to the node its right child begins at.                      *)
(***************************************************************************)
EXTENDS Parser, FiniteSetTheorems, TLAPS

(* A function without a character of its own is a token.                   *)
LEMMA PlainTokens ==
  ASSUME NEW f \in TokenFns \ {"out", "cmp"}
  PROVE  Tok(f) \in Token /\ Tok(f).fn = f
<1>1. PICK t : t = Tok(f)
  OBVIOUS
<1>2. t = [fn |-> f, ch |-> 0]
  BY <1>1 DEF Tok, NUL
<1>3. t \in [fn : TokenFns, ch : 0..255] /\ t.fn = f
  BY <1>2
<1> QED BY <1>1, <1>3 DEF Token

(* Counting one node more.                                                 *)
LEMMA AppsFinite ==
  ASSUME NEW a, NEW m \in Nat, NEW n \in Int
  PROVE  IsFiniteSet(Apps(a, m, n)) /\ Cardinality(Apps(a, m, n)) \in Nat
<1>1. IsFiniteSet(m..n)
  BY FS_Interval
<1>2. IsFiniteSet(Apps(a, m, n))
  BY <1>1, FS_Subset DEF Apps
<1> QED BY <1>2, FS_CardinalityType

LEMMA LacksNone ==
  ASSUME NEW a, NEW m \in Nat
  PROVE  Lacks(a, m, m - 1) = 1
<1>1. Apps(a, m, m - 1) = {}
  BY DEF Apps
<1>2. Cardinality(Apps(a, m, m - 1)) = 0
  BY <1>1, FS_EmptySet
<1> QED BY <1>2 DEF Lacks

LEMMA LacksNext ==
  ASSUME NEW a, NEW m \in Nat, NEW n \in Nat, m <= n + 1
  PROVE  /\ Lacks(a, m, n) \in Int
         /\ Lacks(a, m, n + 1) = IF IsApp(a[n + 1].tok) THEN Lacks(a, m, n) + 1 ELSE Lacks(a, m, n) - 1
<1>1. PICK c \in Nat : c = Cardinality(Apps(a, m, n))
  BY AppsFinite
<1>2. Lacks(a, m, n) = 2 * c + 1 - (n - m + 1)
  BY <1>1 DEF Lacks
<1>3. CASE IsApp(a[n + 1].tok)
  <2>1. Apps(a, m, n + 1) = Apps(a, m, n) \cup {n + 1} /\ n + 1 \notin Apps(a, m, n)
    BY <1>3 DEF Apps
  <2>2. IsFiniteSet(Apps(a, m, n))
    BY AppsFinite
  <2>3. Cardinality(Apps(a, m, n) \cup {n + 1}) = c + 1
    BY <1>1, <2>1, <2>2, FS_AddElement
  <2>4. Cardinality(Apps(a, m, n + 1)) = c + 1
    BY <2>1, <2>3, Zenon
  <2> QED BY <1>2, <1>3, <2>4 DEF Lacks
<1>4. CASE ~IsApp(a[n + 1].tok)
  <2>1. Apps(a, m, n + 1) = Apps(a, m, n)
    BY <1>4 DEF Apps
  <2>2. Cardinality(Apps(a, m, n + 1)) = c
    BY <1>1, <2>1
  <2> QED BY <1>2, <1>4, <2>2 DEF Lacks
<1> QED BY <1>3, <1>4

(* The count is of applications only.                                      *)
LEMMA LacksSame ==
  ASSUME NEW a, NEW b, NEW m \in Nat, NEW n \in Int, \A i \in m..n : a[i].tok = b[i].tok
  PROVE  Lacks(a, m, n) = Lacks(b, m, n)
<1>1. Apps(a, m, n) = Apps(b, m, n)
  BY DEF Apps
<1> QED BY <1>1 DEF Lacks

LEMMA NeedAfterNext ==
  ASSUME NEW tk, NEW n \in Nat, Len(tk) \in Nat, n < Len(tk)
  PROVE  /\ NeedAfter(tk)[n] \in Int
         /\ NeedAfter(tk)[n + 1] = IF IsApp(tk[n + 1]) THEN NeedAfter(tk)[n] + 1
                                   ELSE NeedAfter(tk)[n] - 1
<1>1. PICK A, B : A = {i \in 1..n : IsApp(tk[i])} /\ B = {i \in 1..(n + 1) : IsApp(tk[i])}
  OBVIOUS
<1>2. /\ NeedAfter(tk)[n] = 1 + 2 * Cardinality(A) - n
      /\ NeedAfter(tk)[n + 1] = 1 + 2 * Cardinality(B) - (n + 1)
  BY <1>1 DEF NeedAfter
<1>3. IsFiniteSet(A)
  <2>1. IsFiniteSet(1..n) /\ A \subseteq 1..n
    BY <1>1, FS_Interval
  <2> QED BY <2>1, FS_Subset
<1>4. PICK c \in Nat : c = Cardinality(A)
  BY <1>3, FS_CardinalityType
<1>5. CASE IsApp(tk[n + 1])
  <2>1. B = A \cup {n + 1} /\ n + 1 \notin A
    BY <1>1, <1>5
  <2>2. Cardinality(B) = c + 1
    BY <1>3, <1>4, <2>1, FS_AddElement
  <2>3. /\ NeedAfter(tk)[n] = 1 + 2 * c - n
        /\ NeedAfter(tk)[n + 1] = 1 + 2 * (c + 1) - (n + 1)
    BY <1>2, <1>4, <2>2
  <2> QED BY <1>5, <2>3
<1>6. CASE ~IsApp(tk[n + 1])
  <2>1. B = A
    BY <1>1, <1>6
  <2>3. /\ NeedAfter(tk)[n] = 1 + 2 * c - n
        /\ NeedAfter(tk)[n + 1] = 1 + 2 * c - (n + 1)
    BY <1>2, <1>4, <2>1
  <2> QED BY <1>6, <2>3
<1> QED BY <1>5, <1>6

-----------------------------------------------------------------------------

LEMMA InitInv == Init => ParserInv
<1> SUFFICES ASSUME Init PROVE ParserInv
  OBVIOUS
<1>1. /\ tokens = <<>> /\ ast = <<>> /\ pstack = <<>> /\ idx = 1
      /\ status = "idle" /\ need = 1 /\ ~Parsed
      /\ Len(tokens) = 0 /\ Len(pstack) = 0 /\ DOMAIN pstack = {}
  BY DEF Init, Parsed
<1>2. ParserType
  <2>1. <<>> \in Seq(Token) /\ <<>> \in Seq(1..(Len(tokens) + 2))
    OBVIOUS
  <2> QED BY <1>1, <2>1 DEF ParserType
<1>3. Filled /\ Waits /\ Links /\ Shaped /\ Counted /\ Judged
  BY <1>1 DEF Filled, Waits, PstackOK, Links, Shaped, Counted, Judged
<1> QED BY <1>2, <1>3 DEF ParserInv

LEMMA StartInv ==
  ASSUME ParserInv, NEW tk \in Seq(Token), Start(tk)
  PROVE  ParserInv'
<1>1. /\ status = "idle" /\ tokens' = tk /\ idx' = 1 /\ need' = 1 /\ pstack = <<>> /\ ast = <<>>
  BY DEF ParserInv, ParserType, Parsed, Start
<1>2. Len(tk) \in Nat
  OBVIOUS
<1>3. CASE status' = "bad_alloc" /\ ast' = ast /\ pstack' = pstack
  <2>1. pstack' = <<>> /\ Len(pstack') = 0 /\ DOMAIN pstack' = {} /\ ~Parsed'
    BY <1>1, <1>3 DEF Parsed
  <2>2. ParserType'
    <3>1. <<>> \in Seq(1..(Len(tokens') + 2))
      OBVIOUS
    <3> QED BY <1>1, <1>2, <1>3, <2>1, <3>1 DEF ParserType
  <2>3. Filled' /\ Waits' /\ Links' /\ Shaped' /\ Counted' /\ Judged'
    BY <1>1, <1>2, <1>3, <2>1 DEF Filled, Waits, PstackOK, Links, Shaped, Counted, Judged
  <2> QED BY <2>2, <2>3 DEF ParserInv
<1>4. CASE status' = "parsing" /\ ast' = NewAst(Len(tk)) /\ pstack' = <<1>>
  <2>1. /\ ast' = [i \in 1..(Len(tk) + 2) |-> CASE i = 1 -> Node(Tok("app"), 0)
                                                [] i = 2 -> Node(Tok("e"), 3)
                                                [] OTHER -> Node(NoTok, 0)]
        /\ pstack' = <<1>> /\ status' = "parsing" /\ Parsed'
    BY <1>4 DEF NewAst, Parsed
  <2>2. Tok("app") \in Token /\ Tok("e") \in Token
    BY PlainTokens DEF TokenFns
  <2>3. /\ ast'[1] = Node(Tok("app"), 0) /\ ast'[2] = Node(Tok("e"), 3)
        /\ \A n \in 3..(Len(tk) + 2) : ast'[n] = Node(NoTok, 0)
    BY <1>2, <2>1
  <2>4. ast' \in [1..(Len(tk) + 2) -> [tok : Token \cup {NoTok}, sibling : Nat]]
    <3>1. /\ Node(Tok("app"), 0) \in [tok : Token \cup {NoTok}, sibling : Nat]
          /\ Node(Tok("e"), 3) \in [tok : Token \cup {NoTok}, sibling : Nat]
          /\ Node(NoTok, 0) \in [tok : Token \cup {NoTok}, sibling : Nat]
      BY <2>2 DEF Node
    <3> QED BY <1>2, <2>1, <3>1
  <2>5. pstack' \in Seq(1..(Len(tk) + 2)) /\ Len(pstack') = 1 /\ DOMAIN pstack' = {1} /\ pstack'[1] = 1
    BY <1>2, <2>1
  <2>6. ast'[1].tok = Tok("app") /\ ast'[2].tok = Tok("e") /\ ast'[2].sibling = 3
        /\ \A n \in 3..(Len(tk) + 2) : ast'[n].tok = NoTok
    BY <2>3 DEF Node
  <2>7. IsApp(ast'[1].tok) /\ ~IsApp(ast'[2].tok)
    BY <2>6 DEF IsApp, Tok
  <2>8. ParserType'
    BY <1>1, <1>2, <2>1, <2>4, <2>5 DEF ParserType
  <2>9. Filled'
    BY <1>1, <1>2, <2>6 DEF Filled
  <2>10. Missing' = 1
    BY <1>1, <2>5 DEF Missing, Top
  <2>11. Waits'
    <3>1. Lacks(ast', 2, 2) = 0
      <4>1. Apps(ast', 2, 2) = {}
        BY <2>7 DEF Apps
      <4>2. Cardinality(Apps(ast', 2, 2)) = 0
        BY <4>1, FS_EmptySet
      <4> QED BY <4>2 DEF Lacks
    <3>2. PstackOK'
      BY <1>1, <1>2, <2>5, <2>7 DEF PstackOK
    <3> QED BY <1>1, <1>2, <2>5, <2>10, <3>1, <3>2 DEF Waits
  <2>12. Links'
    BY <1>1, <2>5, <2>7 DEF Links
  <2>13. Counted'
    <3>1. NeedAfter(tk)[0] = 1
      <4>1. {i \in 1..0 : IsApp(tk[i])} = {}
        OBVIOUS
      <4> QED BY <1>2, <4>1, FS_EmptySet DEF NeedAfter
    <3> QED BY <1>1, <2>10, <3>1 DEF Counted
  <2>14. Judged'
    BY <2>1 DEF Judged
  <2>15. Shaped'
    <3>1. \A n \in 1..2 : ~Complete(n)'
      BY <2>5, <2>7 DEF Complete
    <3>2. \A m \in 2..2 : m = 1 + 1 /\ 1 \in 1..(m - 1)
      OBVIOUS
    <3> QED BY <1>1, <2>7, <3>1, <3>2 DEF Shaped
  <2> QED BY <2>8, <2>9, <2>11, <2>12, <2>13, <2>14, <2>15 DEF ParserInv
<1> QED BY <1>3, <1>4 DEF Start

(* The end of the parser.                                                  *)
LEMMA EndInv ==
  ASSUME ParserInv, Trailing \/ Finish
  PROVE  ParserInv'
<1>1. /\ UNCHANGED <<tokens, idx, ast, pstack, need>>
      /\ status = "parsing" /\ status' \in {"ok", "bad_syntax"} /\ Parsed /\ Parsed'
      /\ \/ idx <= Len(tokens) /\ pstack = <<>> /\ status' = "bad_syntax"
         \/ idx > Len(tokens) /\ status' = IF pstack = <<>> THEN "ok" ELSE "bad_syntax"
  BY DEF Trailing, Finish, Parsed
<1>2. ParserType /\ Filled /\ Waits /\ Links /\ Shaped /\ Counted
  BY DEF ParserInv
<1>3. ParserType'
  BY <1>1, <1>2 DEF ParserType
<1>4. Filled'
  BY <1>1, <1>2 DEF Filled
<1>5. Waits' /\ Links' /\ Counted'
  <2>1. \A m, n : Lacks(ast', m, n) = Lacks(ast, m, n) /\ Ends(ast', m, n) = Ends(ast, m, n)
    BY <1>1 DEF Lacks, Apps, Ends
  <2>2. Missing' = Missing /\ PstackOK' = PstackOK
    BY <1>1 DEF Missing, Top, PstackOK
  <2>3. Waits'
    BY <1>1, <1>2, <2>1, <2>2 DEF Waits
  <2>4. Links'
    BY <1>1, <1>2, <2>1 DEF Links
  <2>5. Counted'
    BY <1>1, <1>2, <2>2 DEF Counted
  <2> QED BY <2>3, <2>4, <2>5
<1>6. Judged'
  BY <1>1, <1>2 DEF Judged, ParserType
<1>7. Shaped'
  <2>1. \A n : Complete(n)' = Complete(n)
    BY <1>1 DEF Complete
  <2> QED BY <1>1, <1>2, <2>1 DEF Shaped
<1> QED BY <1>3, <1>4, <1>5, <1>6, <1>7 DEF ParserInv

-----------------------------------------------------------------------------
(* A token.                                                                *)

(* The next node gets it, as a left child that is free or as a right one.  *)
LEMMA ReadTokenDoes ==
  ASSUME ParserInv, ReadToken
  PROVE  LET w == IF Top = idx + 1 THEN Len(pstack) ELSE Len(pstack) - 1
         IN  /\ Len(pstack) \in Nat /\ Len(pstack) > 0 /\ idx \in 1..Len(tokens)
             /\ Top \in 1..(idx + 1) /\ Top = pstack[Len(pstack)] /\ tokens[idx] \in Token
             /\ Child = idx + 2 /\ Len(tokens) \in Nat
             /\ ast' \in [1..(Len(tokens) + 2) -> [tok : Token \cup {NoTok}, sibling : Nat]]
             /\ ast'[idx + 2].tok = tokens[idx]
             /\ \A n \in 1..(Len(tokens) + 2) : n # idx + 2 => ast'[n].tok = ast[n].tok
             /\ \A n \in 1..(Len(tokens) + 2) :
                  ast'[n].sibling = IF n = Top + 1 /\ Top # idx + 1 THEN idx + 2 ELSE ast[n].sibling
             /\ pstack' \in Seq(1..(Len(tokens) + 2))
             /\ Len(pstack') = IF IsApp(tokens[idx]) THEN w + 1 ELSE w
             /\ \A i \in 1..w : pstack'[i] = pstack[i]
             /\ IsApp(tokens[idx]) => pstack'[w + 1] = idx + 2
<1>1. /\ ParserType /\ Filled /\ Waits /\ Parsed /\ pstack # <<>>
      /\ idx \in 1..Len(tokens) /\ Len(tokens) \in Nat
      /\ ast \in [1..(Len(tokens) + 2) -> [tok : Token \cup {NoTok}, sibling : Nat]]
      /\ pstack \in Seq(1..(Len(tokens) + 2))
  BY DEF ParserInv, ParserType, ReadToken, Parsed
<1>2. Len(pstack) \in Nat /\ Len(pstack) > 0 /\ DOMAIN pstack = 1..Len(pstack)
  BY <1>1
<1>3. Top \in 1..(idx + 1) /\ Top = pstack[Len(pstack)]
  BY <1>1, <1>2 DEF Waits, PstackOK, Top
<1>4. tokens[idx] \in Token
  BY <1>1 DEF ParserType
<1>9. NoTok.fn = ""
  BY DEF NoTok, Tok
<1>5. LeftIsFree <=> Top = idx + 1
  <2>1. ASSUME Top = idx + 1 PROVE LeftIsFree
    <3>1. ast[idx + 2].tok = NoTok
      BY <1>1 DEF Filled
    <3> QED BY <2>1, <3>1, <1>1 DEF LeftIsFree
  <2>2. ASSUME Top # idx + 1 PROVE ~LeftIsFree
    <3>1. Top + 1 \in 2..(idx + 1)
      BY <1>1, <1>3, <2>2
    <3>2. CASE Top + 1 = 2
      <4>1. ast[Top + 1].tok = Tok("e")
        BY <1>1, <3>2 DEF Filled
      <4>2. ast[Top + 1].tok.fn = "e"
        BY <4>1 DEF Tok
      <4> QED BY <1>9, <4>2 DEF LeftIsFree
    <3>3. CASE Top + 1 # 2
      <4>1. PICK i \in 1..(idx - 1) : Top + 1 = i + 2
        <5>0. PICK j \in Nat, t \in Nat : j = idx /\ t = Top
          BY <1>1, <1>3
        <5>1. Top - 1 \in 1..(idx - 1) /\ Top + 1 = (Top - 1) + 2
          BY <3>1, <3>3, <5>0
        <5> QED BY <5>1
      <4>2. ast[Top + 1].tok = tokens[i] /\ tokens[i] \in Token
        BY <1>1, <4>1 DEF Filled, ParserType
      <4>3. tokens[i].fn # ""
        BY <4>2 DEF Token, TokenFns
      <4> QED BY <1>9, <4>2, <4>3 DEF LeftIsFree
    <3> QED BY <3>2, <3>3
  <2> QED BY <2>1, <2>2
<1>6. Child = idx + 2
  BY <1>1, <1>3, <1>5 DEF Child
<1>7. CASE Top = idx + 1
  <2>1. ast' = [ast EXCEPT ![idx + 2].tok = tokens[idx]]
        /\ pstack' = IF IsApp(tokens[idx]) THEN Append(pstack, idx + 2) ELSE pstack
    BY <1>5, <1>6, <1>7 DEF ReadToken, Linked, Waiting
  <2>2. /\ ast' \in [1..(Len(tokens) + 2) -> [tok : Token \cup {NoTok}, sibling : Nat]]
        /\ ast'[idx + 2].tok = tokens[idx]
        /\ \A n \in 1..(Len(tokens) + 2) : n # idx + 2 => ast'[n].tok = ast[n].tok
        /\ \A n \in 1..(Len(tokens) + 2) : ast'[n].sibling = ast[n].sibling
    BY <1>1, <1>4, <2>1
  <2>3. CASE IsApp(tokens[idx])
    <3>1. pstack' = Append(pstack, idx + 2) /\ idx + 2 \in 1..(Len(tokens) + 2)
      BY <1>1, <2>1, <2>3
    <3>2. /\ pstack' \in Seq(1..(Len(tokens) + 2)) /\ Len(pstack') = Len(pstack) + 1
          /\ \A i \in 1..Len(pstack) : pstack'[i] = pstack[i]
          /\ pstack'[Len(pstack) + 1] = idx + 2
      BY <1>1, <1>2, <3>1
    <3> QED BY <1>1, <1>2, <1>3, <1>4, <1>6, <1>7, <2>2, <2>3, <3>2
  <2>4. CASE ~IsApp(tokens[idx])
    BY <1>1, <1>2, <1>3, <1>4, <1>6, <1>7, <2>1, <2>2, <2>4
  <2> QED BY <2>3, <2>4
<1>8. CASE Top # idx + 1
  <2> DEFINE q == SubSeq(pstack, 1, Len(pstack) - 1)
  <2>1. /\ ast' = [[ast EXCEPT ![Top + 1].sibling = idx + 2] EXCEPT ![idx + 2].tok = tokens[idx]]
        /\ pstack' = IF IsApp(tokens[idx]) THEN Append(q, idx + 2) ELSE q
    BY <1>5, <1>6, <1>8 DEF ReadToken, Linked, Waiting
  <2>2. /\ ast' \in [1..(Len(tokens) + 2) -> [tok : Token \cup {NoTok}, sibling : Nat]]
        /\ ast'[idx + 2].tok = tokens[idx]
        /\ \A n \in 1..(Len(tokens) + 2) : n # idx + 2 => ast'[n].tok = ast[n].tok
        /\ \A n \in 1..(Len(tokens) + 2) :
             ast'[n].sibling = IF n = Top + 1 THEN idx + 2 ELSE ast[n].sibling
    <3>1. PICK a : a = [ast EXCEPT ![Top + 1].sibling = idx + 2]
      OBVIOUS
    <3>4. PICK nd \in [tok : Token \cup {NoTok}, sibling : Nat] :
            /\ nd = [ast[Top + 1] EXCEPT !.sibling = idx + 2]
            /\ nd.tok = ast[Top + 1].tok /\ nd.sibling = idx + 2
      <4>1. ast[Top + 1] \in [tok : Token \cup {NoTok}, sibling : Nat]
        BY <1>1, <1>3
      <4>2. PICK x : x = [ast[Top + 1] EXCEPT !.sibling = idx + 2]
        OBVIOUS
      <4>3. x \in [tok : Token \cup {NoTok}, sibling : Nat]
            /\ x.tok = ast[Top + 1].tok /\ x.sibling = idx + 2
        <5>1. idx + 2 \in Nat
          BY <1>1
        <5> QED BY <4>1, <4>2, <5>1
      <4> QED BY <4>2, <4>3
    <3>5. a = [ast EXCEPT ![Top + 1] = nd]
      BY <3>1, <3>4
    <3>2. /\ a \in [1..(Len(tokens) + 2) -> [tok : Token \cup {NoTok}, sibling : Nat]]
          /\ \A n \in 1..(Len(tokens) + 2) :
               /\ a[n].tok = ast[n].tok
               /\ a[n].sibling = IF n = Top + 1 THEN idx + 2 ELSE ast[n].sibling
      BY <1>1, <1>3, <3>4, <3>5
    <3>3. ast' = [a EXCEPT ![idx + 2].tok = tokens[idx]]
      BY <2>1, <3>1
    <3>6. PICK nx \in [tok : Token \cup {NoTok}, sibling : Nat] :
            /\ nx = [a[idx + 2] EXCEPT !.tok = tokens[idx]]
            /\ nx.sibling = a[idx + 2].sibling /\ nx.tok = tokens[idx]
      <4>1. a[idx + 2] \in [tok : Token \cup {NoTok}, sibling : Nat]
        BY <1>1, <3>2
      <4>2. PICK x : x = [a[idx + 2] EXCEPT !.tok = tokens[idx]]
        OBVIOUS
      <4>3. x \in [tok : Token \cup {NoTok}, sibling : Nat]
            /\ x.sibling = a[idx + 2].sibling /\ x.tok = tokens[idx]
        BY <1>4, <4>1, <4>2
      <4> QED BY <4>2, <4>3
    <3>7. ast' = [a EXCEPT ![idx + 2] = nx]
      BY <3>3, <3>6
    <3> QED BY <1>1, <3>2, <3>6, <3>7
  <2>3. /\ q \in Seq(1..(Len(tokens) + 2)) /\ Len(q) = Len(pstack) - 1
        /\ \A i \in 1..(Len(pstack) - 1) : q[i] = pstack[i]
    BY <1>1, <1>2
  <2> HIDE DEF q
  <2>4. CASE IsApp(tokens[idx])
    <3>1. pstack' = Append(q, idx + 2) /\ idx + 2 \in 1..(Len(tokens) + 2)
      BY <1>1, <2>1, <2>4
    <3>3. PICK w \in Nat : w = Len(pstack) - 1 /\ w + 1 = Len(pstack)
      <4>1. PICK x : x = Len(pstack) - 1
        OBVIOUS
      <4>2. x \in Nat /\ x + 1 = Len(pstack)
        BY <1>2, <4>1
      <4> QED BY <4>1, <4>2
    <3>4. q \in Seq(1..(Len(tokens) + 2)) /\ Len(q) = w
      BY <2>3, <3>3
    <3>5. /\ pstack' \in Seq(1..(Len(tokens) + 2)) /\ Len(pstack') = w + 1
          /\ \A i \in 1..w : pstack'[i] = q[i]
          /\ pstack'[w + 1] = idx + 2
      BY <3>1, <3>4
    <3>2. /\ pstack' \in Seq(1..(Len(tokens) + 2)) /\ Len(pstack') = Len(pstack)
          /\ \A i \in 1..(Len(pstack) - 1) : pstack'[i] = pstack[i]
          /\ pstack'[Len(pstack)] = idx + 2
      BY <2>3, <3>3, <3>5
    <3> QED BY <1>1, <1>2, <1>3, <1>4, <1>6, <1>8, <2>2, <2>4, <3>2
  <2>5. CASE ~IsApp(tokens[idx])
    BY <1>1, <1>2, <1>3, <1>4, <1>6, <1>8, <2>1, <2>2, <2>3, <2>5
  <2> QED BY <2>4, <2>5
<1> QED BY <1>7, <1>8

LEMMA ReadTokenInv ==
  ASSUME ParserInv, ReadToken
  PROVE  ParserInv'
<1>1. /\ ParserType /\ Filled /\ Waits /\ Links /\ Counted /\ Parsed /\ Parsed'
      /\ tokens' = tokens /\ status = "parsing" /\ status' = "parsing" /\ idx' = idx + 1
      /\ need' = IF IsApp(tokens[idx]) THEN need + 1 ELSE need - 1
  BY DEF ParserInv, ReadToken, Parsed
<1>30. PICK L \in Nat, N \in Nat, t \in Nat : L = Len(pstack) /\ N = Len(tokens) /\ t = Top
  BY ReadTokenDoes
<1>31. L > 0 /\ idx \in 1..N /\ t \in 1..(idx + 1) /\ t = pstack[L] /\ tokens[idx] \in Token
  BY <1>30, ReadTokenDoes
<1>2. PICK w \in Nat, e \in {0, 1} :
        /\ L > 0 /\ idx \in 1..N /\ t \in 1..(idx + 1) /\ w = L - 1 + e
        /\ t = idx + 1 => e = 1
        /\ t # idx + 1 => e = 0
  <2>1. CASE t = idx + 1
    BY <1>31, <2>1
  <2>2. CASE t # idx + 1
    <3>1. PICK w \in Nat : w = L - 1 + 0
      <4>1. PICK x : x = L - 1 + 0
        OBVIOUS
      <4>2. x \in Nat
        BY <1>31, <4>1
      <4> QED BY <4>1, <4>2
    <3> QED BY <1>31, <2>2, <3>1
  <2> QED BY <2>1, <2>2
<1>32. w = IF t = idx + 1 THEN L ELSE L - 1
  BY <1>2
<1>3. /\ ast' \in [1..(N + 2) -> [tok : Token \cup {NoTok}, sibling : Nat]]
      /\ ast'[idx + 2].tok = tokens[idx]
      /\ \A n \in 1..(N + 2) : n # idx + 2 => ast'[n].tok = ast[n].tok
      /\ \A n \in 1..(N + 2) :
           ast'[n].sibling = IF n = t + 1 /\ t # idx + 1 THEN idx + 2 ELSE ast[n].sibling
  BY <1>30, ReadTokenDoes
<1>33. /\ pstack' \in Seq(1..(N + 2))
       /\ Len(pstack') = IF IsApp(tokens[idx]) THEN w + 1 ELSE w
       /\ \A i \in 1..w : pstack'[i] = pstack[i]
       /\ IsApp(tokens[idx]) => pstack'[w + 1] = idx + 2
  BY <1>30, <1>32, ReadTokenDoes
<1>4. /\ pstack # <<>> /\ DOMAIN pstack = 1..L /\ DOMAIN pstack' = 1..Len(pstack')
      /\ \A i \in 1..L : pstack[i] \in 1..(idx + 1) /\ IsApp(ast[pstack[i]].tok)
      /\ \A i, j \in 1..L : i < j => pstack[i] < pstack[j]
      /\ L <= idx
  <2>1. pstack \in Seq(1..(N + 2)) /\ PstackOK /\ L <= idx
    BY <1>1, <1>30 DEF ParserType, Waits
  <2>2. pstack # <<>> /\ DOMAIN pstack = 1..L /\ \A i \in 1..L : pstack[i] \in 1..(N + 2)
    BY <1>2, <1>30, <2>1
  <2>3. DOMAIN pstack' = 1..Len(pstack')
    BY <1>33
  <2>4. \A i \in 1..L : pstack[i] \in 1..(idx + 1) /\ IsApp(ast[pstack[i]].tok)
    BY <1>2, <2>1, <2>2 DEF PstackOK
  <2> QED BY <2>1, <2>2, <2>3, <2>4 DEF PstackOK
<1>5. Missing = L + e /\ need = L + e
  BY <1>1, <1>2, <1>30, <1>4 DEF Missing, Counted
<1>34. \A i \in 1..L : /\ Lacks(ast, pstack[i] + 1, idx + 1) = L + e - i
                       /\ \A k \in (pstack[i] + 1)..idx : Lacks(ast, pstack[i] + 1, k) > 0
  <2>1. \A i \in 1..L : /\ Lacks(ast, pstack[i] + 1, idx + 1) = Missing - i
                        /\ \A k \in (pstack[i] + 1)..idx : Lacks(ast, pstack[i] + 1, k) > 0
    BY <1>1, <1>4 DEF Waits
  <2> QED BY <1>5, <2>1
<1>6. ParserType'
  <2>1. idx' \in 1..(N + 1)
    BY <1>1, <1>2
  <2> QED BY <1>1, <1>30, <1>3, <1>33, <2>1 DEF ParserType
<1>7. Filled'
  <2>4. /\ ast[1].tok = Tok("app") /\ ast[2].tok = Tok("e")
        /\ \A i \in 1..(idx - 1) : ast[i + 2].tok = tokens[i]
        /\ \A n \in (idx + 2)..(N + 2) : ast[n].tok = NoTok
    BY <1>1, <1>30 DEF Filled
  <2>1. ast'[1].tok = Tok("app") /\ ast'[2].tok = Tok("e")
    <3>1. 1 \in 1..(N + 2) /\ 1 # idx + 2 /\ 2 \in 1..(N + 2) /\ 2 # idx + 2
      BY <1>2
    <3> QED BY <1>3, <2>4, <3>1
  <2>2. \A i \in 1..idx : ast'[i + 2].tok = tokens[i]
    <3>1. SUFFICES ASSUME NEW i \in 1..idx PROVE ast'[i + 2].tok = tokens[i]
      OBVIOUS
    <3>2. CASE i = idx
      BY <1>3, <3>2
    <3>3. CASE i # idx
      <4>1. i \in 1..(idx - 1) /\ i + 2 \in 1..(N + 2) /\ i + 2 # idx + 2
        BY <1>2, <3>1, <3>3
      <4> QED BY <1>3, <2>4, <4>1
    <3> QED BY <3>2, <3>3
  <2>3. \A n \in (idx + 3)..(N + 2) : ast'[n].tok = NoTok
    BY <1>2, <1>3, <2>4
  <2>5. (idx + 1) - 1 = idx /\ (idx + 1) + 2 = idx + 3
    BY <1>2
  <2> QED BY <1>1, <1>30, <2>1, <2>2, <2>3, <2>5 DEF Filled
<1>8. /\ Len(pstack') \in Nat /\ Len(pstack') \in {w, w + 1}
      /\ Len(pstack') = w + 1 <=> IsApp(tokens[idx])
      /\ \A i \in 1..w : pstack'[i] = pstack[i] /\ i \in 1..L
      /\ \A i \in 1..Len(pstack') : i > w => i = w + 1 /\ pstack'[i] = idx + 2
  <2>1. CASE IsApp(tokens[idx])
    BY <1>2, <1>33, <2>1
  <2>2. CASE ~IsApp(tokens[idx])
    BY <1>2, <1>33, <2>2
  <2> QED BY <2>1, <2>2
<1>9. \A i \in 1..w : pstack'[i] < idx + 2 /\ pstack'[i] \in 1..(idx + 1) /\ IsApp(ast'[pstack'[i]].tok)
  <2>1. SUFFICES ASSUME NEW i \in 1..w
                 PROVE  pstack'[i] < idx + 2 /\ pstack'[i] \in 1..(idx + 1)
                        /\ IsApp(ast'[pstack'[i]].tok)
    OBVIOUS
  <2>2. PICK p \in 1..(idx + 1) : p = pstack'[i] /\ IsApp(ast[p].tok)
    BY <1>4, <1>8
  <2> QED BY <1>2, <1>3, <2>2
<1>10. PstackOK'
  <2>1. \A i \in DOMAIN pstack' : pstack'[i] <= idx' + 1 /\ IsApp(ast'[pstack'[i]].tok)
    <3>1. SUFFICES ASSUME NEW i \in 1..Len(pstack')
                   PROVE  pstack'[i] <= idx + 2 /\ IsApp(ast'[pstack'[i]].tok)
      BY <1>1, <1>2, <1>4
    <3>2. CASE i <= w
      BY <1>2, <1>8, <1>9, <3>1, <3>2
    <3>3. CASE i > w
      BY <1>2, <1>3, <1>8, <3>1, <3>3
    <3> QED BY <1>2, <1>8, <3>1, <3>2, <3>3
  <2>2. \A i, j \in DOMAIN pstack' : i < j => pstack'[i] < pstack'[j]
    <3>1. SUFFICES ASSUME NEW i \in 1..Len(pstack'), NEW j \in 1..Len(pstack'), i < j
                   PROVE  pstack'[i] < pstack'[j]
      BY <1>4
    <3>2. i \in 1..w
      BY <1>2, <1>8, <3>1
    <3>3. CASE j <= w
      <4>1. pstack'[i] = pstack[i] /\ pstack'[j] = pstack[j] /\ i \in 1..L /\ j \in 1..L
        BY <1>2, <1>8, <3>1, <3>2, <3>3
      <4>2. pstack[i] < pstack[j]
        BY <1>4, <3>1, <4>1
      <4> QED BY <4>1, <4>2
    <3>4. CASE j > w
      <4>1. j = w + 1 /\ pstack'[j] = idx + 2
        BY <1>8, <3>4
      <4>2. pstack'[i] < idx + 2
        BY <1>9, <3>2
      <4> QED BY <4>1, <4>2
    <3>5. j <= w \/ j > w
      BY <1>2
    <3> QED BY <3>3, <3>4, <3>5
  <2>3. Len(pstack') <= Len(tokens') + 1
    <3>1. PICK q \in Nat : q = Len(pstack') /\ q <= w + 1
      BY <1>8
    <3>2. Len(tokens') = N /\ q <= N + 1
      BY <1>1, <1>2, <1>30, <1>4, <3>1
    <3> QED BY <3>1, <3>2
  <2> QED BY <2>1, <2>2, <2>3 DEF PstackOK
<1>11. Missing' = IF IsApp(tokens[idx]) THEN L + e + 1 ELSE L + e - 1
  <2>1. CASE IsApp(tokens[idx])
    <3>1. Len(pstack') = w + 1 /\ Top' = idx + 2 /\ pstack' # <<>>
      <4>1. Len(pstack') = w + 1
        BY <1>8, <2>1
      <4>2. pstack' # <<>>
        BY <1>2, <1>33, <4>1
      <4> QED BY <1>33, <2>1, <4>1, <4>2 DEF Top
    <3> QED BY <1>1, <1>2, <2>1, <3>1 DEF Missing
  <2>2. CASE ~IsApp(tokens[idx])
    <3>1. Len(pstack') = w /\ (pstack' # <<>> => Top' # idx + 2)
      <4>1. CASE w = 0
        BY <1>33, <1>8, <2>2, <4>1
      <4>2. CASE w # 0
        BY <1>2, <1>8, <1>9, <2>2, <4>2 DEF Top
      <4> QED BY <4>1, <4>2
    <3> QED BY <1>1, <1>2, <2>2, <3>1 DEF Missing
  <2> QED BY <2>1, <2>2
<1>12. \A m \in Nat, n \in Nat : m >= 1 /\ n <= idx + 1 => Lacks(ast', m, n) = Lacks(ast, m, n)
  <2>1. SUFFICES ASSUME NEW m \in Nat, NEW n \in Nat, m >= 1, n <= idx + 1
                 PROVE  Lacks(ast', m, n) = Lacks(ast, m, n)
    OBVIOUS
  <2>2. \A i \in m..n : ast'[i].tok = ast[i].tok
    BY <1>2, <1>3, <2>1
  <2> QED BY <2>2, LacksSame
<1>13. \A m \in Nat : m >= 1 /\ m <= idx + 2 =>
         Lacks(ast', m, idx + 2) = IF IsApp(tokens[idx]) THEN Lacks(ast, m, idx + 1) + 1
                              ELSE Lacks(ast, m, idx + 1) - 1
  <2>1. SUFFICES ASSUME NEW m \in Nat, m >= 1, m <= idx + 2
                 PROVE  Lacks(ast', m, idx + 2) = IF IsApp(tokens[idx]) THEN Lacks(ast, m, idx + 1) + 1
                                             ELSE Lacks(ast, m, idx + 1) - 1
    OBVIOUS
  <2>2. Lacks(ast', m, idx + 1) = Lacks(ast, m, idx + 1)
    BY <1>2, <1>12, <2>1
  <2>3. PICK n \in Nat : n = idx + 1 /\ n + 1 = idx + 2
    BY <1>2
  <2>4. Lacks(ast', m, n + 1) = IF IsApp(ast'[n + 1].tok) THEN Lacks(ast', m, n) + 1
                                ELSE Lacks(ast', m, n) - 1
    BY <2>1, <2>3, LacksNext
  <2> QED BY <1>3, <2>2, <2>3, <2>4

<1>14. Waits'
  <2>1. ASSUME NEW i \in 1..Len(pstack')
        PROVE  /\ Lacks(ast', pstack'[i] + 1, idx + 2) = Missing' - i
               /\ \A k \in (pstack'[i] + 1)..(idx + 1) : Lacks(ast', pstack'[i] + 1, k) > 0
    <3>1. CASE i <= w
      <4>0. i \in 1..w /\ i \in 1..L
        BY <1>2, <1>8, <2>1, <3>1
      <4>1. PICK p \in 1..(idx + 1) : p = pstack[i] /\ p = pstack'[i] /\ i \in 1..L
        BY <1>4, <1>33, <4>0
      <4>2. /\ Lacks(ast, p + 1, idx + 1) = L + e - i
            /\ \A k \in (p + 1)..idx : Lacks(ast, p + 1, k) > 0
        BY <1>34, <4>1
      <4>3. Lacks(ast', p + 1, idx + 2) = Missing' - i
        BY <1>2, <1>11, <1>13, <4>1, <4>2
      <4>4. \A k \in (p + 1)..(idx + 1) : Lacks(ast, p + 1, k) > 0
        BY <1>2, <2>1, <3>1, <4>1, <4>2
      <4>5. \A k \in (p + 1)..(idx + 1) : Lacks(ast', p + 1, k) > 0
        BY <1>2, <1>12, <4>1, <4>4
      <4> QED BY <4>1, <4>3, <4>5
    <3>2. CASE i > w
      <4>1. i = w + 1 /\ pstack'[i] = idx + 2 /\ IsApp(tokens[idx])
        BY <1>2, <1>8, <2>1, <3>2
      <4>2. PICK m \in Nat : m = idx + 3 /\ m - 1 = idx + 2
        BY <1>2
      <4>3. Lacks(ast', idx + 3, idx + 2) = 1
        BY <4>2, LacksNone
      <4>4. Missing' - i = 1
        BY <1>2, <1>11, <4>1
      <4> QED BY <1>2, <4>1, <4>3, <4>4
    <3> QED BY <1>2, <2>1, <3>1, <3>2
  <2>2. Len(pstack') <= idx'
    BY <1>1, <1>2, <1>4, <1>8
  <2> QED BY <1>1, <1>2, <1>4, <1>10, <2>1, <2>2 DEF Waits
<1>15. Links'
  <2>1. SUFFICES ASSUME NEW n \in 1..(idx + 2), IsApp(ast'[n].tok),
                        \A i \in 1..Len(pstack') : pstack'[i] # n
                 PROVE  /\ ast'[n + 1].sibling - 1 \in (n + 1)..(idx + 2)
                        /\ Ends(ast', n + 1, ast'[n + 1].sibling - 1)
    <3>1. (idx + 1) + 1 = idx + 2
      BY <1>2
    <3> QED BY <1>1, <1>4, <3>1 DEF Links
  <2>2. n # idx + 2
    <3>1. ASSUME n = idx + 2 PROVE FALSE
      <4>1. IsApp(tokens[idx])
        BY <1>3, <2>1, <3>1
      <4>2. w + 1 \in 1..Len(pstack') /\ pstack'[w + 1] = n
        BY <1>2, <1>8, <1>33, <3>1, <4>1
      <4> QED BY <2>1, <4>2
    <3> QED BY <3>1
  <2>3. n \in 1..(idx + 1) /\ IsApp(ast[n].tok)
    <3>1. n \in 1..(idx + 1) /\ n \in 1..(N + 2)
      BY <1>2, <2>1, <2>2
    <3> QED BY <1>3, <2>1, <2>2, <3>1
  <2>4. PICK s : s = ast'[n + 1].sibling - 1
    OBVIOUS
  <2>5. s \in (n + 1)..(idx + 1) /\ Ends(ast, n + 1, s)
    <3>1. CASE \A i \in 1..L : pstack[i] # n
      <4>1. n # t
        BY <1>2, <1>31, <3>1
      <4>2. ast'[n + 1].sibling = ast[n + 1].sibling
        BY <1>2, <1>3, <2>3, <4>1
      <4> QED BY <1>1, <1>4, <2>3, <2>4, <3>1, <4>2 DEF Links
    <3>2. CASE \E i \in 1..L : pstack[i] = n
      <4>1. PICK i \in 1..L : pstack[i] = n
        BY <3>2
      <4>2. i > w
        <5>1. ASSUME i <= w PROVE FALSE
          <6>1. i \in 1..w /\ i \in 1..Len(pstack')
            BY <1>2, <1>8, <5>1
          <6> QED BY <1>8, <2>1, <4>1, <6>1
        <5> QED BY <1>2, <5>1
      <4>3. e = 0 /\ i = L /\ n = t /\ t # idx + 1
        BY <1>2, <1>31, <4>1, <4>2
      <4>4. s = idx + 1
        BY <1>2, <1>3, <2>3, <2>4, <4>3
      <4>5. Lacks(ast, n + 1, idx + 1) = 0 /\ \A k \in (n + 1)..idx : Lacks(ast, n + 1, k) > 0
        <5>1. L + e - L = 0
          BY <4>3
        <5> QED BY <1>34, <4>1, <4>3, <5>1
      <4>6. s \in (n + 1)..(idx + 1)
        BY <1>2, <2>3, <4>3, <4>4
      <4>7. \A k \in (n + 1)..(s - 1) : Lacks(ast, n + 1, k) # 0
        BY <1>2, <4>4, <4>5
      <4> QED BY <4>4, <4>5, <4>6, <4>7 DEF Ends
    <3> QED BY <3>1, <3>2
  <2>6. Ends(ast', n + 1, s)
    <3>1. \A k \in (n + 1)..s : Lacks(ast', n + 1, k) = Lacks(ast, n + 1, k)
      BY <1>2, <1>12, <2>3, <2>5
    <3>2. Lacks(ast, n + 1, s) = 0 /\ \A k \in (n + 1)..(s - 1) : Lacks(ast, n + 1, k) # 0
      BY <2>5 DEF Ends
    <3>3. s \in Nat /\ s \in (n + 1)..s /\ \A k \in (n + 1)..(s - 1) : k \in (n + 1)..s
      BY <1>2, <2>5
    <3> QED BY <3>1, <3>2, <3>3 DEF Ends
  <2> QED BY <1>2, <2>4, <2>5, <2>6
<1>16. Counted'
  <2>1. need' = Missing'
    BY <1>1, <1>2, <1>5, <1>11
  <2>2. need = NeedAfter(tokens)[idx - 1] /\ \A n \in 0..(idx - 2) : NeedAfter(tokens)[n] > 0
    BY <1>1 DEF Counted
  <2>3. PICK n \in Nat : n = idx - 1 /\ n + 1 = idx /\ n < N
    <3>1. PICK x : x = idx - 1
      OBVIOUS
    <3>2. x \in Nat /\ x + 1 = idx /\ x < N
      BY <1>2, <3>1
    <3> QED BY <3>1, <3>2
  <2>4. NeedAfter(tokens)[idx] = IF IsApp(tokens[idx]) THEN need + 1 ELSE need - 1
    BY <1>30, <2>2, <2>3, NeedAfterNext
  <2>5. \A k \in 0..(idx - 1) : NeedAfter(tokens)[k] > 0
    BY <1>2, <1>5, <2>2
  <2> QED BY <1>1, <1>2, <2>1, <2>4, <2>5 DEF Counted
<1>17. Judged'
  BY <1>1 DEF Judged
<1>18. Shaped'
  <2>1. Shaped /\ e = IF t = idx + 1 THEN 1 ELSE 0
    BY <1>2 DEF ParserInv
  <2>2. \A n \in 1..(idx + 1) : Complete(n) => ast[n + 1].sibling \in (n + 2)..(idx + 1) /\ n # t
    <3>1. \A n \in 1..(idx + 1) : Complete(n) => ast[n + 1].sibling \in (n + 2)..(idx + 1)
      BY <1>1, <2>1 DEF Shaped
    <3>2. \A n : Complete(n) => n # t
      <4>1. L \in DOMAIN pstack /\ pstack[L] = t
        BY <1>2, <1>31, <1>4
      <4> QED BY <4>1 DEF Complete
    <3> QED BY <3>1, <3>2
  <2>3. IsApp(ast[idx + 1].tok) => t = idx + 1
    <3>1. SUFFICES ASSUME IsApp(ast[idx + 1].tok), t # idx + 1 PROVE FALSE
      OBVIOUS
    <3>2. idx + 1 \in 1..(idx + 1) /\ ~(ast[(idx + 1) + 1].sibling \in ((idx + 1) + 2)..(idx + 1))
      BY <1>2
    <3>3. ~Complete(idx + 1)
      BY <2>2, <3>2
    <3>4. PICK i \in 1..L : pstack[i] = idx + 1
      BY <1>4, <3>1, <3>3 DEF Complete
    <3>5. i = L
      BY <1>4, <1>31, <3>4
    <3> QED BY <1>31, <3>1, <3>4, <3>5
  <2>4. ASSUME NEW n \in 1..(idx + 2), Complete(n)'
        PROVE  (n \in 1..(idx + 1) /\ Complete(n)) \/ (n = t /\ e = 0)
    <3>1. IsApp(ast'[n].tok) /\ \A i \in 1..Len(pstack') : pstack'[i] # n
      BY <1>4, <2>4 DEF Complete
    <3>2. n # idx + 2
      <4>1. ASSUME n = idx + 2 PROVE FALSE
        <5>1. IsApp(tokens[idx])
          BY <1>3, <3>1, <4>1
        <5>2. w + 1 \in 1..Len(pstack') /\ pstack'[w + 1] = n
          BY <1>2, <1>8, <1>33, <4>1, <5>1
        <5> QED BY <3>1, <5>2
      <4> QED BY <4>1
    <3>3. n \in 1..(idx + 1) /\ IsApp(ast[n].tok)
      BY <1>2, <1>3, <3>1, <3>2
    <3>4. CASE \A i \in 1..L : pstack[i] # n
      BY <1>4, <3>3, <3>4 DEF Complete
    <3>5. CASE \E i \in 1..L : pstack[i] = n
      <4>1. PICK i \in 1..L : pstack[i] = n
        BY <3>5
      <4>2. i > w
        <5>1. ASSUME i <= w PROVE FALSE
          <6>1. i \in 1..w /\ i \in 1..Len(pstack')
            BY <1>2, <1>8, <5>1
          <6> QED BY <1>8, <3>1, <4>1, <6>1
        <5> QED BY <1>2, <5>1
      <4> QED BY <1>2, <1>31, <4>1, <4>2
    <3> QED BY <3>4, <3>5
  <2>5. ASSUME NEW n \in 1..(idx + 1), Complete(n)
        PROVE  /\ Complete(n)' /\ ast'[n + 1].sibling = ast[n + 1].sibling
               /\ ast'[n + 1].sibling \in (n + 2)..(idx + 1)
    <3>1. IsApp(ast'[n].tok)
      BY <1>2, <1>3, <2>5 DEF Complete
    <3>2. \A i \in 1..Len(pstack') : pstack'[i] # n
      <4>1. SUFFICES ASSUME NEW i \in 1..Len(pstack') PROVE pstack'[i] # n
        OBVIOUS
      <4>2. CASE i \in 1..w
        BY <1>4, <1>8, <2>5, <4>2 DEF Complete
      <4>3. CASE i > w
        BY <1>2, <1>8, <4>3
      <4>4. i \in 1..w \/ i > w
        BY <1>2, <1>8
      <4> QED BY <4>2, <4>3, <4>4
    <3>3. n # t /\ ast[n + 1].sibling \in (n + 2)..(idx + 1) /\ n + 1 \in 1..(N + 2)
      BY <1>2, <2>2, <2>5
    <3>4. ast'[n + 1].sibling = ast[n + 1].sibling
      BY <1>3, <3>3
    <3> QED BY <1>4, <3>1, <3>2, <3>3, <3>4 DEF Complete
  <2>6. ASSUME e = 0
        PROVE  Complete(t)' /\ ast'[t + 1].sibling = idx + 2 /\ t \in 1..idx
    <3>1. t \in 1..idx /\ t # idx + 1 /\ w = L - 1
      BY <1>2, <2>6
    <3>2. IsApp(ast'[t].tok)
      <4>1. L \in 1..L /\ IsApp(ast[pstack[L]].tok)
        BY <1>2, <1>4
      <4>2. t \in 1..(N + 2) /\ t # idx + 2
        BY <1>2, <3>1
      <4> QED BY <1>3, <1>31, <4>1, <4>2
    <3>3. \A i \in 1..Len(pstack') : pstack'[i] # t
      <4>1. SUFFICES ASSUME NEW i \in 1..Len(pstack') PROVE pstack'[i] # t
        OBVIOUS
      <4>2. CASE i \in 1..w
        <5>1. pstack'[i] = pstack[i] /\ i \in 1..L /\ i < L /\ L \in 1..L
          BY <1>2, <1>8, <3>1, <4>2
        <5>2. pstack[i] < pstack[L]
          BY <1>4, <5>1
        <5> QED BY <1>31, <5>1, <5>2
      <4>3. CASE i > w
        BY <1>2, <1>8, <4>3
      <4>4. i \in 1..w \/ i > w
        BY <1>2, <1>8
      <4> QED BY <4>2, <4>3, <4>4
    <3>4. ast'[t + 1].sibling = idx + 2
      BY <1>2, <1>3, <3>1
    <3> QED BY <1>4, <3>1, <3>2, <3>3, <3>4 DEF Complete
  <2>7. ASSUME NEW n \in 1..(idx + 2), Complete(n)'
        PROVE  ast'[n + 1].sibling \in (n + 2)..(idx + 2)
    <3>1. CASE n \in 1..(idx + 1) /\ Complete(n)
      BY <1>2, <2>5, <3>1
    <3>2. CASE n = t /\ e = 0
      BY <1>2, <2>6, <3>2
    <3> QED BY <2>4, <2>7, <3>1, <3>2
  <2>8. ASSUME NEW m \in 2..(idx + 2)
        PROVE  \E n \in 1..(m - 1) :
                 IsApp(ast'[n].tok) /\ (m = n + 1 \/ (Complete(n)' /\ m = ast'[n + 1].sibling))
    <3>1. CASE m \in 2..(idx + 1)
      <4>1. PICK n \in 1..(m - 1) :
              IsApp(ast[n].tok) /\ (m = n + 1 \/ (Complete(n) /\ m = ast[n + 1].sibling))
        BY <1>1, <2>1, <3>1 DEF Shaped
      <4>2. n \in 1..(idx + 1) /\ n \in 1..(N + 2) /\ n # idx + 2
        BY <1>2, <3>1
      <4>3. IsApp(ast'[n].tok)
        BY <1>3, <4>1, <4>2
      <4>4. m = n + 1 \/ (Complete(n)' /\ m = ast'[n + 1].sibling)
        BY <2>5, <4>1, <4>2
      <4> QED BY <4>3, <4>4
    <3>2. CASE m = idx + 2
      <4>0. t \in 1..(idx + 1) /\ t \in 1..(N + 2) /\ t # idx + 2 /\ IsApp(ast[t].tok)
        BY <1>2, <1>31, <1>4
      <4>1. IsApp(ast'[t].tok) /\ t \in 1..(m - 1)
        BY <1>2, <1>3, <3>2, <4>0
      <4>2. CASE e = 1
        BY <1>2, <3>2, <4>1, <4>2
      <4>3. CASE e = 0
        BY <2>6, <3>2, <4>1, <4>3
      <4> QED BY <4>2, <4>3
    <3> QED BY <1>2, <3>1, <3>2
  <2>9. ASSUME NEW n \in 1..(idx + 2), NEW k \in 1..(idx + 2),
               Complete(n)', IsApp(ast'[k].tok), n # k
        PROVE  /\ ast'[n + 1].sibling # k + 1
               /\ Complete(k)' => ast'[n + 1].sibling # ast'[k + 1].sibling
    <3>1. k = idx + 2 \/ (k \in 1..(idx + 1) /\ IsApp(ast[k].tok))
      BY <1>2, <1>3, <2>9
    <3>2. CASE n \in 1..(idx + 1) /\ Complete(n)
      <4>1. ast'[n + 1].sibling = ast[n + 1].sibling /\ ast'[n + 1].sibling \in (n + 2)..(idx + 1)
        BY <2>5, <3>2
      <4>2. ast'[n + 1].sibling # k + 1
        <5>1. CASE k = idx + 2
          BY <1>2, <4>1, <5>1
        <5>2. CASE k \in 1..(idx + 1) /\ IsApp(ast[k].tok)
          BY <1>1, <2>1, <2>9, <3>2, <4>1, <5>2 DEF Shaped
        <5> QED BY <3>1, <5>1, <5>2
      <4>3. ASSUME Complete(k)' PROVE ast'[n + 1].sibling # ast'[k + 1].sibling
        <5>1. CASE k \in 1..(idx + 1) /\ Complete(k)
          <6>1. ast'[k + 1].sibling = ast[k + 1].sibling
            BY <2>5, <5>1
          <6>2. ast[n + 1].sibling # ast[k + 1].sibling
            BY <1>1, <2>1, <2>9, <3>2, <5>1 DEF Shaped, Complete
          <6> QED BY <4>1, <6>1, <6>2
        <5>2. CASE k = t /\ e = 0
          BY <1>2, <2>6, <4>1, <5>2
        <5> QED BY <2>4, <4>3, <5>1, <5>2
      <4> QED BY <4>2, <4>3
    <3>3. CASE n = t /\ e = 0
      <4>1. ast'[n + 1].sibling = idx + 2 /\ t # idx + 1
        BY <1>2, <2>6, <3>3
      <4>2. k # idx + 1
        <5>1. ASSUME k = idx + 1 PROVE FALSE
          <6>1. k # idx + 2
            BY <1>2, <5>1
          <6>2. IsApp(ast[idx + 1].tok)
            BY <3>1, <5>1, <6>1
          <6> QED BY <2>3, <4>1, <6>2
        <5> QED BY <5>1
      <4>3. ASSUME Complete(k)' PROVE ast'[n + 1].sibling # ast'[k + 1].sibling
        <5>1. k \in 1..(idx + 1) /\ Complete(k)
          BY <2>4, <2>9, <3>3, <4>3
        <5> QED BY <1>2, <2>5, <4>1, <5>1
      <4>4. k + 1 # idx + 2
        BY <1>2, <4>2
      <4> QED BY <4>1, <4>3, <4>4
    <3> QED BY <2>4, <2>9, <3>2, <3>3
  <2>10. idx' + 1 = idx + 2
    BY <1>1, <1>2
  <2>11. ASSUME NEW n \in 1..(idx + 2), NEW k \in 1..(idx + 2),
                Complete(n)', IsApp(ast'[k].tok), k \in (n + 1)..(ast'[n + 1].sibling - 1)
         PROVE  Complete(k)' /\ ast'[k + 1].sibling < ast'[n + 1].sibling
    <3>1. CASE n \in 1..(idx + 1) /\ Complete(n)
      <4>1. ast'[n + 1].sibling = ast[n + 1].sibling /\ ast'[n + 1].sibling \in (n + 2)..(idx + 1)
        BY <2>5, <3>1
      <4>2. k \in 1..(idx + 1) /\ k # idx + 2 /\ k \in 1..(N + 2) /\ k \in (n + 1)..(ast[n + 1].sibling - 1)
        BY <1>2, <2>11, <4>1
      <4>3. IsApp(ast[k].tok)
        BY <1>3, <2>11, <4>2
      <4>4. Complete(k) /\ ast[k + 1].sibling < ast[n + 1].sibling
        BY <1>1, <2>1, <3>1, <4>2, <4>3 DEF Shaped
      <4>5. Complete(k)' /\ ast'[k + 1].sibling = ast[k + 1].sibling
        BY <2>5, <4>2, <4>4
      <4> QED BY <4>1, <4>4, <4>5
    <3>2. CASE n = t /\ e = 0
      <4>1. ast'[n + 1].sibling = idx + 2 /\ n \in 1..idx
        BY <2>6, <3>2
      <4>2. k \in (t + 1)..(idx + 1) /\ k # idx + 2 /\ k \in 1..(N + 2)
        BY <1>2, <2>11, <3>2, <4>1
      <4>3. IsApp(ast[k].tok)
        BY <1>3, <2>11, <4>2
      <4>4. Complete(k)
        <5>1. ASSUME NEW i \in 1..L, pstack[i] = k PROVE FALSE
          <6>1. i = L \/ pstack[i] < pstack[L]
            BY <1>2, <1>4
          <6> QED BY <1>31, <4>2, <5>1, <6>1
        <5> QED BY <1>4, <4>3, <5>1 DEF Complete
      <4>5. k \in 1..(idx + 1)
        BY <1>2, <4>2
      <4>6. Complete(k)' /\ ast'[k + 1].sibling \in (k + 2)..(idx + 1)
        BY <2>5, <4>4, <4>5
      <4> QED BY <1>2, <4>1, <4>6
    <3> QED BY <2>4, <2>11, <3>1, <3>2
  <2> QED BY <2>7, <2>8, <2>9, <2>10, <2>11 DEF Shaped
<1> QED BY <1>6, <1>7, <1>14, <1>15, <1>16, <1>17, <1>18 DEF ParserInv

-----------------------------------------------------------------------------

LEMMA NextInv == ParserInv /\ [Next]_vars => ParserInv'
<1> SUFFICES ASSUME ParserInv, [Next]_vars PROVE ParserInv'
  OBVIOUS
<1>1. CASE \E tk \in Seq(Token) : Start(tk)
  BY <1>1, StartInv
<1>2. CASE ReadToken
  BY <1>2, ReadTokenInv
<1>3. CASE Trailing \/ Finish
  BY <1>3, EndInv
<1>4. CASE UNCHANGED vars
  <2>1. UNCHANGED <<tokens, idx, ast, pstack, status, need>> /\ Parsed' = Parsed
    BY <1>4 DEF vars, Parsed
  <2>2. Missing' = Missing /\ PstackOK' = PstackOK
    BY <2>1 DEF Missing, Top, PstackOK
  <2>3. ParserType' /\ Filled' /\ Judged'
    BY <2>1 DEF ParserInv, ParserType, Filled, Judged
  <2>4. Waits' /\ Links' /\ Counted'
    BY <2>1, <2>2 DEF ParserInv, Waits, Links, Counted
  <2>5. Shaped'
    <3>1. \A n : Complete(n)' = Complete(n)
      BY <2>1 DEF Complete
    <3> QED BY <2>1, <3>1 DEF ParserInv, Shaped
  <2> QED BY <2>3, <2>4, <2>5 DEF ParserInv
<1> QED BY <1>1, <1>2, <1>3, <1>4 DEF Next, ParseStep

(* All of the invariant, for every array of tokens.                        *)
THEOREM ParserSound == Spec => []ParserInv
<1> QED BY InitInv, NextInv, PTL DEF Spec

(* pstack stays within the array it was given, and what is on it within    *)
(* the tree.                                                               *)
THEOREM PstackHolds == Spec => []PstackOK
<1>1. ParserInv => PstackOK
  BY DEF ParserInv, Waits
<1> QED BY <1>1, ParserSound, PTL

(* What waits on pstack is what the tokens ask for.                        *)
THEOREM NeedsHold == Spec => []NeedsMissing
<1>1. ASSUME ParserInv, status = "parsing" PROVE need = Missing /\ need >= 0
  <2>1. need = Missing /\ Len(pstack) \in Nat
    BY <1>1 DEF ParserInv, Counted, ParserType, Parsed
  <2> QED BY <2>1 DEF Missing
<1>2. ParserInv => NeedsMissing
  BY <1>1 DEF NeedsMissing
<1> QED BY <1>2, ParserSound, PTL

(* The parser accepts the programs, and refuses the rest.                  *)
THEOREM AcceptsHolds == Spec => []AcceptsPrograms
<1>1. ASSUME ParserInv, status \in {"ok", "bad_syntax"}
      PROVE  /\ NeedAfter(tokens)[idx - 1] = Missing
             /\ \A n \in 0..(idx - 2) : NeedAfter(tokens)[n] > 0
             /\ Missing = 0 <=> pstack = <<>>
             /\ Len(tokens) \in Nat /\ idx \in 1..(Len(tokens) + 1)
  <2>1. /\ NeedAfter(tokens)[idx - 1] = Missing
        /\ \A n \in 0..(idx - 2) : NeedAfter(tokens)[n] > 0
        /\ tokens \in Seq(Token) /\ idx \in 1..(Len(tokens) + 1)
        /\ pstack \in Seq(1..(Len(tokens) + 2))
    BY <1>1 DEF ParserInv, Counted, ParserType, Parsed
  <2>2. Missing = 0 <=> pstack = <<>>
    BY <2>1 DEF Missing
  <2> QED BY <2>1, <2>2
<1>2. ASSUME ParserInv, status = "ok" PROVE IsProgram(tokens)
  <2>1. pstack = <<>> /\ idx = Len(tokens) + 1
    BY <1>2 DEF ParserInv, Judged
  <2>2. idx - 1 = Len(tokens) /\ idx - 2 = Len(tokens) - 1
    BY <1>1, <1>2, <2>1
  <2> QED BY <1>1, <1>2, <2>1, <2>2 DEF IsProgram
<1>3. ASSUME ParserInv, status = "bad_syntax" PROVE ~IsProgram(tokens)
  <2>1. CASE idx <= Len(tokens)
    <3>1. NeedAfter(tokens)[idx - 1] = 0 /\ idx - 1 \in 0..(Len(tokens) - 1)
      BY <1>1, <1>3, <2>1 DEF ParserInv, Judged
    <3> QED BY <3>1 DEF IsProgram
  <2>2. CASE idx > Len(tokens)
    <3>1. pstack # <<>> /\ idx - 1 = Len(tokens)
      BY <1>1, <1>3, <2>2 DEF ParserInv, Judged
    <3>2. NeedAfter(tokens)[Len(tokens)] # 0
      BY <1>1, <1>3, <3>1
    <3> QED BY <3>2 DEF IsProgram
  <2> QED BY <1>1, <1>3, <2>1, <2>2
<1>4. ParserInv => AcceptsPrograms
  BY <1>2, <1>3 DEF AcceptsPrograms
<1> QED BY <1>4, ParserSound, PTL

(* There is one end of an expression.                                      *)
LEMMA EndIsEndOf ==
  ASSUME NEW m \in Nat, NEW n \in m..(Len(tokens) + 2), Ends(ast, m, n), Len(tokens) \in Nat
  PROVE  EndOf(m) = n
<1>1. \A k \in m..(Len(tokens) + 2) : Ends(ast, m, k) => k = n
  <2>1. SUFFICES ASSUME NEW k \in m..(Len(tokens) + 2), Ends(ast, m, k), k # n PROVE FALSE
    OBVIOUS
  <2>2. CASE k < n
    <3>1. k \in m..(n - 1)
      BY <2>1, <2>2
    <3> QED BY <2>1, <3>1 DEF Ends
  <2>3. CASE n < k
    <3>1. n \in m..(k - 1)
      BY <2>1, <2>3
    <3> QED BY <2>1, <3>1 DEF Ends
  <2> QED BY <2>1, <2>2, <2>3
<1> QED BY <1>1 DEF EndOf

(* The tree has the right child of every application behind its left one,  *)
(* and the tokens in their order.                                          *)
THEOREM TreeHolds == Spec => []TreeIsRight
<1>1. ASSUME ParserInv, status = "ok"
      PROVE  /\ \A i \in DOMAIN tokens : ast[i + 2].tok = tokens[i]
             /\ \A n \in DOMAIN ast :
                  IsApp(ast[n].tok) => ast[n + 1].sibling = EndOf(n + 1) + 1
  <2>1. PICK N \in Nat :
          /\ N = Len(tokens) /\ idx = N + 1 /\ pstack = <<>> /\ Parsed
          /\ DOMAIN tokens = 1..N /\ DOMAIN ast = 1..(N + 2)
    BY <1>1 DEF ParserInv, Judged, ParserType, Parsed
  <2>2. \A n \in DOMAIN ast : ast[n + 1].sibling \in Nat \/ n = N + 2
    BY <1>1, <2>1 DEF ParserInv, ParserType
  <2>3. \A i \in DOMAIN tokens : ast[i + 2].tok = tokens[i]
    BY <1>1, <2>1 DEF ParserInv, Filled
  <2>4. ASSUME NEW n \in DOMAIN ast, IsApp(ast[n].tok)
        PROVE  ast[n + 1].sibling = EndOf(n + 1) + 1
    <3>1. \A i \in DOMAIN pstack : pstack[i] # n
      BY <2>1
    <3>2. n \in 1..(idx + 1)
      BY <2>1
    <3>3. PICK s : s = ast[n + 1].sibling - 1 /\ s \in (n + 1)..(N + 2) /\ Ends(ast, n + 1, s)
      <4>1. idx + 1 = N + 2
        BY <2>1
      <4> QED BY <1>1, <2>1, <2>4, <3>1, <3>2, <4>1 DEF ParserInv, Links
    <3>4. n + 1 \in Nat
      BY <2>1
    <3>5. EndOf(n + 1) = s
      BY <2>1, <3>3, <3>4, EndIsEndOf
    <3>6. n # N + 2
      BY <2>1, <3>3
    <3> QED BY <2>2, <3>3, <3>5, <3>6
  <2> QED BY <2>3, <2>4
<1>2. ParserInv => TreeIsRight
  BY <1>1 DEF TreeIsRight
<1> QED BY <1>2, ParserSound, PTL

(* What u6a_parse accepts is what u6a_codegen relies on: an array whose    *)
(* nodes are each the child of one application, but for the root.          *)
THEOREM GivesTrees == Spec => [](status = "ok" => IsTree(ast))
<1>1. ASSUME ParserInv, status = "ok" PROVE IsTree(ast)
  <2>1. PICK N \in Nat : /\ N = Len(tokens) /\ idx = N + 1 /\ idx + 1 = N + 2 /\ pstack = <<>> /\ Parsed
                         /\ tokens \in Seq(Token) /\ DOMAIN tokens = 1..N
                         /\ ast \in [1..(N + 2) -> [tok : Token \cup {NoTok}, sibling : Nat]]
    BY <1>1 DEF ParserInv, Judged, ParserType, Parsed
  <2>2. /\ ast[1].tok = Tok("app") /\ ast[2].tok = Tok("e")
        /\ \A i \in 1..N : ast[i + 2].tok = tokens[i]
    BY <1>1, <2>1 DEF ParserInv, Filled
  <2>3. \A n \in 1..(N + 2) : ast[n].tok \in Token
    <3>1. SUFFICES ASSUME NEW n \in 1..(N + 2) PROVE ast[n].tok \in Token
      OBVIOUS
    <3>2. CASE n \in {1, 2}
      <4>1. Tok("app") \in Token /\ Tok("e") \in Token
        BY PlainTokens DEF TokenFns
      <4> QED BY <2>2, <3>2, <4>1
    <3>3. CASE n \notin {1, 2}
      <4>1. PICK i \in 1..N : n = i + 2
        <5>1. n - 2 \in 1..N /\ n = (n - 2) + 2
          BY <3>1, <3>3
        <5> QED BY <5>1
      <4>2. tokens[i] \in Token
        BY <2>1
      <4> QED BY <2>2, <4>1, <4>2
    <3> QED BY <3>2, <3>3
  <2>11. PICK M \in Nat : M = N + 2
    BY <2>1
  <2>4. ast \in Seq([tok : Token, sibling : Nat]) /\ Len(ast) = M /\ DOMAIN ast = 1..M
    <3>1. \A n \in 1..(N + 2) : ast[n] \in [tok : Token, sibling : Nat]
      BY <2>1, <2>3
    <3>2. PICK S : S = [tok : Token, sibling : Nat]
      OBVIOUS
    <3>3. ast \in [1..M -> S]
      BY <2>1, <2>11, <3>1, <3>2
    <3>4. ast \in Seq(S) /\ Len(ast) = M
      BY <3>3
    <3> QED BY <3>2, <3>3, <3>4
  <2>5. \A n : Complete(n) = IsApp(ast[n].tok)
    BY <2>1 DEF Complete, IsApp
  <2>6. /\ \A n \in 1..(M) : IsApp(ast[n].tok) => ast[n + 1].sibling \in (n + 2)..(M)
        /\ \A m \in 2..(M) : \E n \in 1..(m - 1) :
             IsApp(ast[n].tok) /\ (m = n + 1 \/ m = ast[n + 1].sibling)
        /\ \A n, k \in 1..(M) :
             IsApp(ast[n].tok) /\ IsApp(ast[k].tok) /\ n # k =>
               ast[n + 1].sibling # k + 1 /\ ast[n + 1].sibling # ast[k + 1].sibling
    <3>1. idx + 1 = M
      BY <2>1, <2>11
    <3>2. Shaped
      BY <1>1 DEF ParserInv
    <3>3. \A n \in 1..M : IsApp(ast[n].tok) => ast[n + 1].sibling \in (n + 2)..M
      BY <2>1, <2>5, <3>1, <3>2 DEF Shaped
    <3>4. \A m \in 2..M : \E n \in 1..(m - 1) :
            IsApp(ast[n].tok) /\ (m = n + 1 \/ m = ast[n + 1].sibling)
      BY <2>1, <2>5, <3>1, <3>2, Zenon DEF Shaped
    <3>5. \A n, k \in 1..M :
            IsApp(ast[n].tok) /\ IsApp(ast[k].tok) /\ n # k =>
              ast[n + 1].sibling # k + 1 /\ ast[n + 1].sibling # ast[k + 1].sibling
      <4>1. SUFFICES ASSUME NEW n \in 1..M, NEW k \in 1..M,
                            IsApp(ast[n].tok), IsApp(ast[k].tok), n # k
                     PROVE  ast[n + 1].sibling # k + 1 /\ ast[n + 1].sibling # ast[k + 1].sibling
        BY Zenon
      <4>2. Complete(n) /\ Complete(k)
        BY <2>5, <4>1
      <4> QED BY <2>1, <3>1, <3>2, <4>1, <4>2 DEF Shaped
    <3> QED BY <3>3, <3>4, <3>5
  <2>7. IsApp(ast[1].tok) /\ ast # <<>>
    BY <2>2, <2>4, <2>11 DEF IsApp, Tok
  <2>8. \A n \in DOMAIN ast :
          IsApp(ast[n].tok) => n + 1 \in DOMAIN ast /\ ast[n + 1].sibling \in (n + 2)..Len(ast)
    <3>1. SUFFICES ASSUME NEW n \in 1..M, IsApp(ast[n].tok)
                   PROVE  n + 1 \in 1..M /\ ast[n + 1].sibling \in (n + 2)..M
      BY <2>4
    <3>2. ast[n + 1].sibling \in (n + 2)..M
      BY <2>6, <3>1
    <3> QED BY <3>2
  <2>9. \A m \in DOMAIN ast \ {1} :
          \E n \in 1..(m - 1) : IsApp(ast[n].tok) /\ m \in Children(ast, n)
    <3>1. SUFFICES ASSUME NEW m \in 2..M
                   PROVE  \E n \in 1..(m - 1) : IsApp(ast[n].tok) /\ m \in Children(ast, n)
      BY <2>4
    <3>2. PICK n \in 1..(m - 1) : IsApp(ast[n].tok) /\ (m = n + 1 \/ m = ast[n + 1].sibling)
      BY <2>6
    <3> QED BY <3>2 DEF Children
  <2>10. ASSUME NEW n \in DOMAIN ast, NEW k \in DOMAIN ast,
                IsApp(ast[n].tok), IsApp(ast[k].tok), n # k
         PROVE  Children(ast, n) \cap Children(ast, k) = {}
    <3>1. /\ ast[n + 1].sibling # k + 1 /\ ast[n + 1].sibling # ast[k + 1].sibling
          /\ ast[k + 1].sibling # n + 1
      BY <2>4, <2>6, <2>10
    <3>2. n + 1 # k + 1
      BY <2>4, <2>10
    <3> QED BY <3>1, <3>2 DEF Children
  <2>12. ASSUME NEW n \in DOMAIN ast, NEW k \in DOMAIN ast, IsApp(ast[n].tok), IsApp(ast[k].tok),
                k \in (n + 1)..(ast[n + 1].sibling - 1)
         PROVE  ast[k + 1].sibling < ast[n + 1].sibling
    <3>1. idx + 1 = M /\ n \in 1..M /\ k \in 1..M
      BY <2>1, <2>4, <2>11, <2>12
    <3>2. Shaped /\ Complete(n)
      BY <1>1, <2>5, <2>12 DEF ParserInv
    <3> QED BY <2>1, <2>12, <3>1, <3>2 DEF Shaped
  <2> QED BY <2>4, <2>7, <2>8, <2>9, <2>10, <2>12 DEF IsTree
<1>2. ParserInv => (status = "ok" => IsTree(ast))
  BY <1>1
<1> QED BY <1>2, ParserSound, PTL

=============================================================================
