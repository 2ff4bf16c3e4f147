--------------------------- MODULE FrontendProofs ----------------------------
(***************************************************************************)
(* Proofs about the lexer, and about the parser with the tokens the lexer  *)
(* gives it: for every set of sources, whatever the array's limits are.    *)
(* That the tokens are the right ones is proved of all texts that begin as *)
(* the source does, so that what the lexer has not read may be anything.   *)
(***************************************************************************)
EXTENDS Frontend, ParserProofs, CountingFacts

(* An empty array of the first length fits.                                *)
LEMMA LexInitInv == LexInit => LexInv
<1> SUFFICES ASSUME LexInit PROVE LexInv
  OBVIOUS
<1>1. lexed = <<>> /\ cap = InitLen /\ pos = 1 /\ source \in Sources /\ lex_status = "lexing"
  BY DEF LexInit
<1>2. lexed \in Seq(Token) /\ Len(lexed) = 0
  BY <1>1
<1>3. LimitExact
  BY <1>1, <1>2, LensAssumption DEF LimitExact
<1> QED BY <1>1, <1>2, <1>3 DEF LexInv

(* What is in a sequence of values.                                        *)
LEMMA ElementOf ==
  ASSUME NEW S, NEW s \in Seq(S), NEW p \in 1..Len(s)
  PROVE  s[p] \in S
<1> QED OBVIOUS

(* One token more; the array is doubled first when it is full.             *)
LEMMA GrowInv ==
  ASSUME LexInv, HasRoom, cap' = Grown,
         lexed' = lexed \/ \E t \in Token : lexed' = Append(lexed, t)
  PROVE  /\ lexed' \in Seq(Token) /\ Len(lexed') <= cap'
         /\ \A D \in SUBSET (InitLen..MaxLen) :
              InitLen \in D /\ (\A d \in D : d = MaxLen \/ 2 * d \in D) => cap' \in D
<1>1. PICK n \in Nat : n = Len(lexed) /\ lexed \in Seq(Token)
  BY DEF LexInv
<1>2. /\ n <= cap /\ MaxLen \in Nat /\ InitLen \in Nat \ {0}
      /\ cap \in InitLen..MaxLen
      /\ \A D \in SUBSET (InitLen..MaxLen) :
           InitLen \in D /\ (\A d \in D : d = MaxLen \/ 2 * d \in D) => cap \in D
  BY <1>1, LensAssumption DEF LexInv, LimitExact
<1>3. lexed' \in Seq(Token) /\ Len(lexed') <= n + 1
  BY <1>1
<1>4. CASE n < cap
  <2>1. cap' = cap
    BY <1>1, <1>2, <1>4 DEF Grown, Full
  <2> QED BY <1>2, <1>3, <1>4, <2>1
<1>5. CASE n = cap
  <2>1. cap' = 2 * cap /\ 2 * cap <= MaxLen
    BY <1>1, <1>2, <1>5 DEF Grown, Full, HasRoom, TooLong
  <2>2. n + 1 <= 2 * cap
    BY <1>2, <1>5
  <2>3. ASSUME NEW D \in SUBSET (InitLen..MaxLen), InitLen \in D,
               \A d \in D : d = MaxLen \/ 2 * d \in D
        PROVE  2 * cap \in D
    BY <1>2, <2>1, <2>3
  <2> QED BY <1>3, <2>1, <2>2, <2>3
<1> QED BY <1>1, <1>2, <1>4, <1>5

(* A function with the character that comes with it.                      *)
LEMMA CharTokens ==
  ASSUME NEW f \in TokenFns, NEW c \in 0..255, f \in {"out", "cmp"} => c \in (32..126) \cup {10}
  PROVE  TokCh(f, c) \in Token /\ TokCh(f, c).fn = f /\ TokCh(f, c).ch = c
<1>1. PICK t : t = TokCh(f, c)
  OBVIOUS
<1>2. t = [fn |-> f, ch |-> c]
  BY <1>1 DEF TokCh
<1>3. t \in [fn : TokenFns, ch : 0..255] /\ t.fn = f /\ t.ch = c
  BY <1>2
<1> QED BY <1>1, <1>3 DEF Token

(* What the characters stand for are tokens.                               *)
LEMMA CharsAreTokens ==
  ASSUME NEW c
  PROVE  /\ PlainFn(c) \subseteq Token
         /\ \A f \in FnOf(ChFns, c) : \A d \in 0..255 : IsCh(d) => TokCh(f, d) \in Token
<1>1. FnOf(FnChars, c) \subseteq TokenFns \ {"out", "cmp"}
      /\ FnOf(ChFns, c) \subseteq TokenFns
  BY DEF FnOf, FnChars, ChFns, TokenFns
<1>2. TokCh("out", LF) \in Token
  <2>1. "out" \in TokenFns /\ LF \in 0..255 /\ LF \in (32..126) \cup {10}
    BY DEF LF, TokenFns
  <2> QED BY <2>1, CharTokens
<1>3. {TokCh(f, j) : f \in FnOf(FnChars, c), j \in Junk} \subseteq Token
  <2>1. ASSUME NEW f \in FnOf(FnChars, c), NEW j \in Junk PROVE TokCh(f, j) \in Token
    <3>1. f \in TokenFns /\ f \notin {"out", "cmp"} /\ j \in 0..255
      BY <1>1, SourcesAssumption
    <3> QED BY <3>1, CharTokens
  <2> SUFFICES ASSUME NEW x \in {TokCh(f, j) : f \in FnOf(FnChars, c), j \in Junk}
               PROVE  x \in Token
    OBVIOUS
  <2>2. PICK f \in FnOf(FnChars, c), j \in Junk : x = TokCh(f, j)
    OBVIOUS
  <2> QED BY <2>1, <2>2
<1>4. PlainFn(c) \subseteq Token
  BY <1>2, <1>3 DEF PlainFn
<1>5. ASSUME NEW f \in FnOf(ChFns, c), NEW d \in 0..255, IsCh(d) PROVE TokCh(f, d) \in Token
  <2>1. d \in (32..126) \cup {10}
    BY <1>5 DEF IsCh, IsPrint, LF
  <2> QED BY <1>1, <2>1, CharTokens
<1> QED BY <1>4, <1>5

(* A comment ends at the first newline, or behind the last character.      *)
LEMMA CommentEnds ==
  ASSUME source \in Seq(0..255), NEW p \in 1..(Len(source) + 1)
  PROVE  /\ CommentEnd(p) \in p..(Len(source) + 1)
         /\ CommentEnd(p) = Len(source) + 1 \/ source[CommentEnd(p)] = LF
         /\ \A q \in p..(CommentEnd(p) - 1) : source[q] # LF
<1>1. PICK N \in Nat : N = Len(source)
  OBVIOUS
<1> DEFINE S == {e \in p..(N + 1) : e = N + 1 \/ source[e] = LF}
<1>2. p \in Nat /\ S \in SUBSET Nat /\ N + 1 \in S
  BY <1>1
<1>3. PICK m \in S : \A k \in S : m <= k
  <2> HIDE DEF S
  <2> QED BY <1>2, LeastNatural
<1>4. \A q \in p..(m - 1) : source[q] # LF
  BY <1>1, <1>2, <1>3
<1>5. \E e \in p..(Len(source) + 1) :
        /\ e = Len(source) + 1 \/ source[e] = LF
        /\ \A q \in p..(e - 1) : source[q] # LF
  BY <1>1, <1>3, <1>4
<1> QED BY <1>5 DEF CommentEnd

(* Whatever the next character is, the tokens fit their array.             *)
LEMMA LexNextInv == LexInv /\ [LexNext]_lex_vars => LexInv'
<1> SUFFICES ASSUME LexInv, [LexNext]_lex_vars PROVE LexInv'
  OBVIOUS
<1>1. /\ source \in Sources /\ pos \in Nat \ {0} /\ lexed \in Seq(Token) /\ Len(lexed) \in Nat
      /\ Len(lexed) <= cap
      /\ source \in Seq(0..255) /\ Len(source) \in Nat
  BY SourcesAssumption DEF LexInv, LimitExact
<1>2. CASE LexBadAlloc \/ EndOfInput
  BY <1>2 DEF LexInv, LimitExact, LexBadAlloc, EndOfInput, LexFailed
<1>3. CASE SkipSpace \/ SkipComment
  <2>1. UNCHANGED <<source, lexed, cap>> /\ lex_status' \in {"lexing", "ok"}
    BY <1>3 DEF SkipSpace, SkipComment, HasCh, Lexing
  <2>2. pos' \in Nat \ {0}
    <3>1. CASE SkipSpace
      BY <1>1, <3>1 DEF SkipSpace
    <3>2. CASE SkipComment
      <4>1. \/ pos' = CommentEnd(pos) + 1 /\ CommentEnd(pos) <= Len(source)
            \/ pos' \in (pos + 1)..CommentEnd(pos)
        BY <3>2 DEF SkipComment
      <4>2. pos \in 1..(Len(source) + 1)
        BY <1>1, <3>2 DEF SkipComment, HasCh
      <4>3. CommentEnd(pos) \in pos..(Len(source) + 1)
        BY <1>1, <4>2, CommentEnds
      <4> QED BY <1>1, <4>1, <4>3
    <3> QED BY <1>3, <3>1, <3>2
  <2> QED BY <2>1, <2>2 DEF LexInv, LimitExact
<1>4. CASE LexTooLong
  <2>1. /\ UNCHANGED <<source, pos, lexed, cap>> /\ lex_status' = "too_long"
        /\ IsToken(Ch) /\ Len(lexed) >= cap /\ 2 * cap > MaxLen
    BY <1>4 DEF LexTooLong, LexFailed, HasRoom, Full, TooLong
  <2>2. PICK D \in SUBSET (InitLen..MaxLen) :
          /\ InitLen \in D /\ MaxLen \in D
          /\ \A d \in D : d = MaxLen \/ 2 * d \in D
    BY LensAssumption
  <2>3. cap \in D
    BY <2>2 DEF LexInv
  <2>4. cap = MaxLen
    BY <2>1, <2>2, <2>3, LensAssumption
  <2>5. Len(lexed) = MaxLen
    BY <1>1, <2>1, <2>4, LensAssumption
  <2>6. Ch' = Ch
    BY <2>1 DEF Ch
  <2> QED BY <1>1, <2>1, <2>4, <2>5, <2>6 DEF LexInv, LimitExact
<1>5. CASE ReadFn \/ ReadCh \/ BadCh
  <2>1. /\ HasRoom /\ cap' = Grown /\ source' = source
        /\ lex_status' # "too_long"
    BY <1>5 DEF ReadFn, ReadCh, BadCh, HasCh, Lexing
  <2>2. pos' \in {pos, pos + 1, pos + 2}
    BY <1>5 DEF ReadFn, ReadCh, BadCh
  <2>3. lexed' = lexed \/ \E t \in Token : lexed' = Append(lexed, t)
    <3>1. CASE ReadFn
      BY <3>1, CharsAreTokens DEF ReadFn
    <3>2. CASE ReadCh
      <4>1. PICK f \in FnOf(ChFns, Ch) :
              \/ lexed' = lexed
              \/ /\ pos < Len(source) /\ IsCh(source[pos + 1])
                 /\ lexed' = Append(lexed, TokCh(f, source[pos + 1]))
        BY <3>2 DEF ReadCh
      <4>2. pos < Len(source) => source[pos + 1] \in 0..255
        <5> SUFFICES ASSUME pos < Len(source) PROVE source[pos + 1] \in 0..255
          OBVIOUS
        <5>1. PICK p : p = pos + 1
          OBVIOUS
        <5>2. p \in 1..Len(source)
          BY <1>1, <5>1
        <5>3. source[p] \in 0..255
          BY <1>1, <5>2, ElementOf
        <5> QED BY <5>1, <5>3
      <4> QED BY <4>1, <4>2, CharsAreTokens
    <3>3. CASE BadCh
      BY <3>3 DEF BadCh
    <3> QED BY <1>5, <3>1, <3>2, <3>3
  <2>4. /\ lexed' \in Seq(Token) /\ Len(lexed') <= cap'
        /\ \A D \in SUBSET (InitLen..MaxLen) :
             InitLen \in D /\ (\A d \in D : d = MaxLen \/ 2 * d \in D) => cap' \in D
    BY <2>1, <2>3, GrowInv
  <2>5. pos' \in Nat \ {0}
    BY <1>1, <2>2
  <2> QED BY <1>1, <2>1, <2>4, <2>5 DEF LexInv, LimitExact
<1>6. CASE UNCHANGED lex_vars
  BY <1>6 DEF lex_vars, LexInv, LimitExact, Ch
<1> QED BY <1>2, <1>3, <1>4, <1>5, <1>6 DEF LexNext

(* The lexer by itself.                                                    *)
THEOREM LexSound == LexSpec => []LexInv
<1> QED BY LexInitInv, LexNextInv, PTL DEF LexSpec

(* Both, one after the other.                                              *)
LEMMA FrontNextInv ==
  LexInv /\ ParserInv /\ [FrontNext]_front_vars => (LexInv /\ ParserInv)'
<1> SUFFICES ASSUME LexInv, ParserInv, [FrontNext]_front_vars PROVE LexInv' /\ ParserInv'
  OBVIOUS
<1>1. lexed \in Seq(Token)
  BY DEF LexInv
<1>2. [LexNext]_lex_vars
  BY DEF FrontNext, front_vars, Lex, Parse
<1>3. [Next]_vars
  BY <1>1 DEF FrontNext, front_vars, Lex, Parse, Next
<1> QED BY <1>2, <1>3, LexNextInv, NextInv

(* What holds of each holds of both: the lexer only hands on tokens.       *)
THEOREM FrontSound == FrontSpec => [](LexInv /\ ParserInv)
<1>1. FrontInit => LexInv /\ ParserInv
  BY LexInitInv, InitInv DEF FrontInit
<1> QED BY <1>1, FrontNextInv, PTL DEF FrontSpec

(* u6a_lex stays within its array, and refuses nothing as too long that    *)
(* the array could be made to hold.                                        *)
THEOREM LimitHolds == FrontSpec => []LimitExact
<1>1. LexInv => LimitExact
  BY DEF LexInv
<1> QED BY <1>1, FrontSound, PTL

(* The lexer's tokens are tokens the parser may get: what is proved of     *)
(* every run of the parser is true of it in the compiler.                  *)
THEOREM RunsParser == FrontSpec => Spec
<1>1. FrontInit => Init
  BY DEF FrontInit
<1>2. ASSUME LexInv, [FrontNext]_front_vars PROVE [Next]_vars
  <2>1. lexed \in Seq(Token)
    BY <1>2 DEF LexInv
  <2> QED BY <1>2, <2>1 DEF FrontNext, front_vars, Lex, Parse, Next
<1>3. LexInv /\ [FrontNext]_front_vars => [Next]_vars
  BY <1>2
<1> QED BY <1>1, <1>3, FrontSound, PTL DEF FrontSpec, Spec

(* The parser behind the lexer: it stays within its arrays, accepts the    *)
(* programs and nothing else, and makes trees of them.                     *)
THEOREM FrontTreesHold ==
  FrontSpec => [](PstackOK /\ NeedsMissing /\ AcceptsPrograms /\ TreeIsRight
                    /\ (status = "ok" => IsTree(ast)))
BY RunsParser, PstackHolds, NeedsHold, AcceptsHolds, TreeHolds, GivesTrees, PTL

-----------------------------------------------------------------------------
(* What the tokens ought to be.  The reference is a recursive function;    *)
(* its equation has a solution, so it has the values the rules give.       *)

(* Where a line ends: Lines solves its equation, because something does.   *)
LEMMA LinesIs ==
  ASSUME NEW src \in Seq(0..255), NEW p \in 1..(Len(src) + 1)
  PROVE  Lines(src)[p] = IF p > Len(src) THEN p
                         ELSE IF src[p] = LF THEN p ELSE Lines(src)[p + 1]
<1>1. PICK N \in Nat : N = Len(src)
  OBVIOUS
<1> DEFINE M    == N + 1
           E(q, f) == IF q > N THEN q ELSE IF src[q] = LF THEN q ELSE f[q + 1]
           Sol  == {g \in UNION {[k..M -> Nat] : k \in 1..(M + 1)} :
                      \A q \in DOMAIN g : g[q] = E(q, g)}
<1>2. M \in Nat /\ p \in 1..M
  BY <1>1
<1>3. \A g \in [(M + 1)..M -> Nat] : g \in Sol
  <2>1. SUFFICES ASSUME NEW g \in [(M + 1)..M -> Nat] PROVE g \in Sol
    OBVIOUS
  <2>2. DOMAIN g = {} /\ M + 1 \in 1..(M + 1)
    BY <1>2
  <2> QED BY <2>2
<1>4. ASSUME NEW q \in 1..M, NEW g \in [(q + 1)..M -> Nat], g \in Sol
      PROVE  \E h \in [q..M -> Nat] : h \in Sol
  <2>1. PICK h : h = [r \in q..M |-> IF r = q THEN E(q, g) ELSE g[r]]
    OBVIOUS
  <2>2. E(q, g) \in Nat
    BY <1>2
  <2>3. h \in [q..M -> Nat]
    BY <2>1, <2>2
  <2>4. \A r \in q..M : h[r] = E(r, h)
    <3>1. \A r \in (q + 1)..M : g[r] = E(r, g)
      BY <1>4
    <3>2. ASSUME NEW r \in q..M PROVE h[r] = E(r, h)
      BY <1>2, <2>1, <3>1
    <3> QED BY <3>2
  <2>5. h \in UNION {[k..M -> Nat] : k \in 1..(M + 1)}
    BY <2>3, <1>2
  <2> QED BY <2>3, <2>4, <2>5
<1>5. PICK h \in [1..M -> Nat] : h \in Sol
  <2> HIDE DEF Sol, M
  <2> QED BY <1>2, <1>3, <1>4, DownRecursion
<1>6. h = [q \in 1..M |-> E(q, h)]
  BY <1>5
<1>7. \E f : f = [q \in 1..M |-> E(q, f)]
  BY <1>6
<1>8. PICK f : f = [q \in 1..M |-> E(q, f)] /\ Lines(src) = f
  <2>1. Lines(src) = CHOOSE f : f = [q \in 1..M |-> E(q, f)]
    BY <1>1 DEF Lines
  <2> QED BY <1>7, <2>1
<1> QED BY <1>1, <1>2, <1>8

(* No character begins two kinds of tokens, or two functions.              *)
LEMMA CharKinds ==
  ASSUME NEW c
  PROVE  /\ IsSpace(c) => c # Hash /\ c \notin RChars /\ c # 46 /\ c # 63 /\ FnOf(FnChars, c) = {}
         /\ c = Hash => c \notin RChars /\ c # 46 /\ c # 63 /\ FnOf(FnChars, c) = {}
         /\ c \in RChars => c # 46 /\ c # 63 /\ FnOf(FnChars, c) = {}
         /\ c \in {46, 63} => FnOf(FnChars, c) = {}
         /\ \A f, h \in FnOf(FnChars, c) : f = h
         /\ FnOf(ChFns, c) = {f \in {"out", "cmp"} : (f = "out" /\ c = 46) \/ (f = "cmp" /\ c = 63)}
<1>1. FnOf(FnChars, c) = {f \in {"app", "s", "k", "i", "v", "c", "d", "in", "pipe", "e"} :
        \/ f = "app" /\ c = 96
        \/ f = "s" /\ (c = 83 \/ c = 115)
        \/ f = "k" /\ (c = 75 \/ c = 107)
        \/ f = "i" /\ (c = 73 \/ c = 105)
        \/ f = "v" /\ (c = 86 \/ c = 118)
        \/ f = "c" /\ (c = 67 \/ c = 99)
        \/ f = "d" /\ (c = 68 \/ c = 100)
        \/ f = "in" /\ c = 64
        \/ f = "pipe" /\ c = 124
        \/ f = "e" /\ (c = 69 \/ c = 101)}
  BY DEF FnOf, FnChars
<1>2. /\ IsSpace(c) <=> (c \in 9..13 \/ c = 32)
      /\ c \in RChars <=> (c = 82 \/ c = 114)
      /\ c = Hash <=> c = 35
  BY DEF IsSpace, RChars, Hash
<1>3. FnOf(ChFns, c) = {f \in {"out", "cmp"} : (f = "out" /\ c = 46) \/ (f = "cmp" /\ c = 63)}
  BY DEF FnOf, ChFns
<1> QED BY <1>1, <1>2, <1>3

(* What the reference does with each kind of character.                    *)
LEMMA RuleIs ==
  ASSUME NEW src, Len(src) \in Nat, NEW p \in Nat \ {0}, NEW from
  PROVE  /\ p > Len(src) => Rule(src, p, from) = AtEnd
         /\ p <= Len(src) =>
              /\ IsSpace(src[p]) => Rule(src, p, from) = from[p + 1]
              /\ src[p] = Hash => Rule(src, p, from) = from[Lines(src)[p]]
              /\ src[p] \in RChars =>
                   Rule(src, p, from) = Then(TokCh("out", LF), from[p + 1])
              /\ \A f \in FnOf(FnChars, src[p]) :
                   Rule(src, p, from) = Then(Tok(f), from[p + 1])
              /\ \A f \in FnOf(ChFns, src[p]) :
                   Rule(src, p, from) =
                     IF p < Len(src) /\ IsCh(src[p + 1])
                     THEN Then(TokCh(f, src[p + 1]), from[p + 2]) ELSE NoSource
              /\ IsToken(src[p]) /\ src[p] \notin RChars
                 /\ FnOf(FnChars, src[p]) = {} /\ FnOf(ChFns, src[p]) = {} =>
                   Rule(src, p, from) = NoSource
<1>1. CASE p > Len(src)
  BY <1>1 DEF Rule
<1>2. CASE p <= Len(src)
  <2>1. PICK c : c = src[p]
    OBVIOUS
  <2>2. PICK d : d = src[p + 1]
    OBVIOUS
  <2>3. ~(p > Len(src)) /\ (p < Len(src) <=> p # Len(src))
    BY <1>2
  <2>4. Printable(d) <=> IsCh(d)
    BY DEF Printable, IsCh, IsPrint, LF
  <2>5. CASE IsSpace(c)
    BY <1>2, <2>1, <2>3, <2>5, CharKinds DEF Rule, IsToken
  <2>6. CASE c = Hash
    BY <1>2, <2>1, <2>3, <2>6, CharKinds DEF Rule, IsToken
  <2>7. CASE c \in RChars
    BY <1>2, <2>1, <2>3, <2>7, CharKinds DEF Rule, IsToken
  <2>8. CASE c \in {46, 63}
    <3>1. ~IsSpace(c) /\ c # Hash /\ c \notin RChars /\ FnOf(FnChars, c) = {}
      BY <2>8, CharKinds
    <3>2. Rule(src, p, from) =
            IF p < Len(src) /\ Printable(d)
            THEN IF c = 46 THEN Then(TokCh("out", d), from[p + 2])
                           ELSE Then(TokCh("cmp", d), from[p + 2])
            ELSE NoSource
      BY <1>2, <2>1, <2>2, <2>3, <2>8, <3>1 DEF Rule
    <3>3. FnOf(ChFns, c) = IF c = 46 THEN {"out"} ELSE {"cmp"}
      BY <2>8, CharKinds
    <3> QED BY <2>1, <2>2, <2>3, <2>4, <3>1, <3>2, <3>3
  <2>9. CASE FnOf(FnChars, c) # {}
    BY <1>2, <2>1, <2>3, <2>9, CharKinds DEF Rule, IsToken
  <2>10. CASE /\ ~IsSpace(c) /\ c # Hash /\ c \notin RChars /\ c \notin {46, 63}
              /\ FnOf(FnChars, c) = {}
    BY <1>2, <2>1, <2>3, <2>10, CharKinds DEF Rule, IsToken
  <2> QED BY <2>5, <2>6, <2>7, <2>8, <2>9, <2>10
<1> QED BY <1>1, <1>2

(* A line ends at its first newline, or behind the last character.         *)
LEMMA LineEnds ==
  ASSUME NEW src \in Seq(0..255), NEW e \in 1..(Len(src) + 1),
         e = Len(src) + 1 \/ src[e] = LF,
         NEW p \in 1..e, \A q \in p..(e - 1) : src[q] # LF
  PROVE  Lines(src)[p] = e
<1>1. PICK N \in Nat : N = Len(src)
  OBVIOUS
<1> DEFINE S == {q \in 1..e : q >= p => Lines(src)[q] = e}
<1>2. ASSUME NEW q \in 1..e, \A r \in (q + 1)..e : r \in S PROVE q \in S
  <2>1. Lines(src)[q] = IF q > N THEN q ELSE IF src[q] = LF THEN q ELSE Lines(src)[q + 1]
    BY <1>1, LinesIs
  <2>2. CASE q = e
    BY <1>1, <2>1, <2>2
  <2>3. CASE q < e /\ q >= p
    <3>1. q + 1 \in S /\ q + 1 \in 1..e /\ q + 1 >= p
      BY <1>2, <2>3
    <3>2. q <= N /\ q \in p..(e - 1)
      BY <1>1, <2>3
    <3> QED BY <2>1, <3>1, <3>2
  <2> QED BY <2>2, <2>3
<1>3. e \in Nat
  BY <1>1
<1>5. \A q \in 1..e : q \in S
  <2> HIDE DEF S
  <2> QED BY <1>2, <1>3, DownInduction
<1>4. p \in S
  BY <1>5
<1> QED BY <1>4 DEF S

(* It ends behind its beginning when it does not end there.                *)
LEMMA LineBehind ==
  ASSUME NEW src \in Seq(0..255), NEW p \in 1..Len(src), src[p] # LF
  PROVE  Lines(src)[p] \in (p + 1)..(Len(src) + 1)
<1>1. PICK N \in Nat : N = Len(src)
  OBVIOUS
<1> DEFINE S == {e \in p..(N + 1) : e = N + 1 \/ src[e] = LF}
<1>2. S \in SUBSET Nat /\ N + 1 \in S
  BY <1>1
<1>3. PICK m \in S : \A k \in S : m <= k
  <2> HIDE DEF S
  <2> QED BY <1>2, LeastNatural
<1>4. \A q \in p..(m - 1) : src[q] # LF
  BY <1>1, <1>3
<1>5. m \in 1..(Len(src) + 1) /\ (m = Len(src) + 1 \/ src[m] = LF) /\ p \in 1..m
  BY <1>1, <1>3
<1>6. Lines(src)[p] = m
  BY <1>4, <1>5, LineEnds
<1> QED BY <1>1, <1>3, <1>6

(* What the reference may give for a place.                                *)
Result == [ok : BOOLEAN, toks : Seq(Token)]

(* A token before it.                                                      *)
LEMMA ThenType ==
  ASSUME NEW t \in Token, NEW r \in Result
  PROVE  Then(t, r) \in Result
<1>1. r.toks \in Seq(Token) /\ <<t>> \in Seq(Token)
  BY DEF Result
<1>2. <<t>> \o r.toks \in Seq(Token)
  BY <1>1, ConcatProperties
<1> QED BY <1>2 DEF Then, Result

(* The reference looks at the places behind p only.                        *)
LEMMA RuleLooks ==
  ASSUME NEW src \in Seq(0..255), NEW p \in 1..(Len(src) + 1), NEW f, NEW h,
         \A q \in (p + 1)..(Len(src) + 1) : f[q] = h[q] /\ f[q] \in Result
  PROVE  Rule(src, p, f) = Rule(src, p, h) /\ Rule(src, p, f) \in Result
<1>1. PICK N \in Nat : N = Len(src)
  OBVIOUS
<1>2. Len(src) \in Nat /\ p \in Nat \ {0}
  BY <1>1
<1>3. AtEnd \in Result /\ NoSource \in Result
  BY DEF AtEnd, NoSource, Result
<1>4. CASE p = N + 1
  <2>1. p > Len(src)
    BY <1>1, <1>4
  <2> QED BY <1>2, <1>3, <2>1, RuleIs
<1>5. CASE p <= N
  <2>1. p <= Len(src) /\ src[p] \in 0..255 /\ f[p + 1] = h[p + 1] /\ f[p + 1] \in Result
    BY <1>1, <1>5, ElementOf
  <2>2. CASE IsSpace(src[p])
    BY <1>2, <2>1, <2>2, RuleIs
  <2>3. CASE src[p] = Hash
    <3>1. Lines(src)[p] \in (p + 1)..(Len(src) + 1)
      BY <1>1, <1>5, <2>3, LineBehind DEF Hash, LF
    <3> QED BY <1>2, <2>1, <2>3, <3>1, RuleIs
  <2>4. CASE src[p] \in RChars
    <3>1. TokCh("out", LF) \in Token
      BY CharsAreTokens, <2>4 DEF PlainFn
    <3> QED BY <1>2, <2>1, <2>4, <3>1, RuleIs, ThenType
  <2>5. ASSUME NEW k \in FnOf(FnChars, src[p])
        PROVE  Rule(src, p, f) = Rule(src, p, h) /\ Rule(src, p, f) \in Result
    <3>1. k \in TokenFns \ {"out", "cmp"}
      BY DEF FnOf, FnChars, TokenFns
    <3>2. Tok(k) \in Token
      BY <3>1, PlainTokens
    <3> QED BY <1>2, <2>1, <2>5, <3>2, RuleIs, ThenType
  <2>6. ASSUME NEW k \in FnOf(ChFns, src[p])
        PROVE  Rule(src, p, f) = Rule(src, p, h) /\ Rule(src, p, f) \in Result
    <3>0. \A g : Rule(src, p, g) =
                  IF p < Len(src) /\ IsCh(src[p + 1])
                  THEN Then(TokCh(k, src[p + 1]), g[p + 2]) ELSE NoSource
      BY <1>2, <2>1, RuleIs
    <3>1. CASE p < Len(src) /\ IsCh(src[p + 1])
      <4>1. src[p + 1] \in 0..255
        <5>1. PICK q \in 1..Len(src) : q = p + 1
          <6>1. p + 1 \in 1..Len(src)
            BY <1>2, <3>1
          <6> QED BY <6>1
        <5>2. src[q] \in 0..255
          BY ElementOf
        <5> QED BY <5>1, <5>2
      <4>2. TokCh(k, src[p + 1]) \in Token
        BY <3>1, <4>1, CharsAreTokens
      <4>3. p + 2 \in (p + 1)..(Len(src) + 1)
        BY <1>1, <3>1
      <4>4. f[p + 2] = h[p + 2] /\ f[p + 2] \in Result
        BY <4>3
      <4> QED BY <3>0, <3>1, <4>2, <4>4, ThenType
    <3>2. CASE ~(p < Len(src) /\ IsCh(src[p + 1]))
      BY <1>3, <3>0, <3>2
    <3> QED BY <3>1, <3>2
  <2>7. CASE /\ IsToken(src[p]) /\ src[p] \notin RChars
             /\ FnOf(FnChars, src[p]) = {} /\ FnOf(ChFns, src[p]) = {}
    BY <1>2, <1>3, <2>1, <2>7, RuleIs
  <2> QED BY <2>2, <2>3, <2>4, <2>5, <2>6, <2>7 DEF IsToken
<1> QED BY <1>1, <1>4, <1>5

(* So its equation has a solution.                                         *)
LEMMA TokensAre ==
  ASSUME NEW src \in Seq(0..255), NEW p \in 1..(Len(src) + 1)
  PROVE  /\ TokensOf(src)[p] = Rule(src, p, TokensOf(src))
         /\ TokensOf(src)[p] \in Result
<1>1. PICK N \in Nat : N = Len(src)
  OBVIOUS
<1> DEFINE M    == N + 1
           E(q, f) == Rule(src, q, f)
           Sol  == {g \in UNION {[k..M -> Result] : k \in 1..(M + 1)} :
                      \A q \in DOMAIN g : g[q] = E(q, g)}
<1>2. M \in Nat /\ p \in 1..M
  BY <1>1
<1>3. \A g \in [(M + 1)..M -> Result] : g \in Sol
  <2>1. SUFFICES ASSUME NEW g \in [(M + 1)..M -> Result] PROVE g \in Sol
    OBVIOUS
  <2>2. DOMAIN g = {} /\ M + 1 \in 1..(M + 1)
    BY <1>2
  <2> QED BY <2>2
<1>4. ASSUME NEW q \in 1..M, NEW g \in [(q + 1)..M -> Result], g \in Sol
      PROVE  \E h \in [q..M -> Result] : h \in Sol
  <2>1. PICK h : h = [r \in q..M |-> IF r = q THEN E(q, g) ELSE g[r]]
    OBVIOUS
  <2>2. \A r \in (q + 1)..M : h[r] = g[r] /\ h[r] \in Result /\ g[r] = E(r, g)
    BY <1>2, <1>4, <2>1, SMTT(30)
  <2>3. E(q, g) \in Result /\ E(q, h) = E(q, g)
    BY <1>1, <2>2, RuleLooks
  <2>4. h \in [q..M -> Result]
    BY <2>1, <2>2, <2>3
  <2>5. ASSUME NEW r \in (q + 1)..M PROVE E(r, g) = E(r, h)
    <3>1. \A s \in (r + 1)..(Len(src) + 1) : h[s] = g[s] /\ h[s] \in Result
      BY <1>1, <2>2
    <3>2. r \in 1..(Len(src) + 1)
      BY <1>1
    <3> QED BY <3>1, <3>2, RuleLooks
  <2>6. \A r \in q..M : h[r] = E(r, h)
    <3>1. SUFFICES ASSUME NEW r \in q..M PROVE h[r] = E(r, h)
      OBVIOUS
    <3>2. CASE r = q
      <4>1. h[q] = E(q, g)
        BY <2>1
      <4> QED BY <2>3, <3>2, <4>1
    <3>3. CASE r # q
      <4>1. r \in (q + 1)..M
        BY <3>3
      <4> HIDE DEF E
      <4> QED BY <2>2, <2>5, <4>1
    <3> QED BY <3>2, <3>3
  <2>7. h \in UNION {[k..M -> Result] : k \in 1..(M + 1)}
    BY <2>4, <1>2
  <2> HIDE DEF E
  <2> QED BY <2>4, <2>6, <2>7
<1>5. PICK h \in [1..M -> Result] : h \in Sol
  <2> HIDE DEF Sol, M
  <2> QED BY <1>2, <1>3, <1>4, DownRecursion
<1>6. h = [q \in 1..M |-> E(q, h)]
  <2> HIDE DEF E
  <2> QED BY <1>5
<1>7. \E f : f = [q \in 1..M |-> E(q, f)]
  BY <1>6
<1>8. PICK f : f = [q \in 1..M |-> E(q, f)] /\ TokensOf(src) = f
  <2>1. TokensOf(src) = CHOOSE f : f = [q \in 1..M |-> E(q, f)]
    BY <1>1 DEF TokensOf
  <2> HIDE DEF E
  <2> QED BY <1>7, <2>1
<1>9. \A q \in 1..M : f[q] = E(q, f)
  <2> HIDE DEF E
  <2> QED BY <1>8
<1> DEFINE T == {q \in 1..M : f[q] \in Result}
<1>10. ASSUME NEW q \in 1..M, \A r \in (q + 1)..M : r \in T PROVE q \in T
  <2>1. \A r \in (q + 1)..(Len(src) + 1) : f[r] \in Result
    BY <1>1, <1>10
  <2>2. E(q, f) \in Result
    BY <1>1, <2>1, RuleLooks
  <2> HIDE DEF E
  <2> QED BY <1>9, <2>2
<1>11. \A q \in 1..M : q \in T
  <2> HIDE DEF T, M
  <2> QED BY <1>2, <1>10, DownInduction
<1> QED BY <1>2, <1>8, <1>9, <1>11

(* What the reference makes of the tokens L and of what follows them.      *)
After(L, r) == IF r.ok THEN [ok |-> TRUE, toks |-> L \o r.toks] ELSE r

(* The first n characters of a text are those of the source; and of every  *)
(* such text they are the tokens L.                                        *)
Begins(S, n) == n <= Len(S) /\ \A i \in 1..n : S[i] = source[i]
Gives(L, n)  == \A S \in Seq(0..255) :
                  Begins(S, n) => TokensOf(S)[1] = After(L, TokensOf(S)[n + 1])

(* The tokens are those of the first n characters, and what was read       *)
(* behind these is the beginning of a comment.                             *)
Taken(L, n) ==
  /\ n \in 0..(pos - 1) /\ pos - 1 <= Len(source)
  /\ SameToks(lexed, L) /\ Gives(L, n)
  /\ n = pos - 1 \/ /\ source[n + 1] = Hash
                    /\ \A q \in (n + 1)..(pos - 1) : source[q] # LF

ReadsInv ==
  /\ lex_status = "lexing" => \E L \in Seq(Token) : Taken(L, pos - 1)
  /\ lex_status = "ok" => \E L \in Seq(Token), n \in Nat : Taken(L, n)
  /\ RefusesRight

(* The rule at the place behind the first n characters.                    *)
LEMMA TextFacts ==
  ASSUME NEW S \in Seq(0..255), NEW n \in Nat, n <= Len(S)
  PROVE  /\ Len(S) \in Nat
         /\ TokensOf(S)[n + 1] = Rule(S, n + 1, TokensOf(S))
         /\ TokensOf(S)[n + 1] \in Result
<1>1. Len(S) \in Nat
  OBVIOUS
<1>2. n + 1 \in 1..(Len(S) + 1)
  BY <1>1
<1> QED BY <1>1, <1>2, TokensAre

(* Characters that are nothing add nothing, and those of a token add it,   *)
(* whatever the text goes on with.                                         *)
LEMMA GivesOn ==
  ASSUME NEW L, NEW n \in Nat, NEW m \in Nat, n <= m, Gives(L, n),
         \A S \in Seq(0..255) :
           Begins(S, m) => TokensOf(S)[n + 1] = TokensOf(S)[m + 1]
  PROVE  Gives(L, m)
<1> SUFFICES ASSUME NEW S \in Seq(0..255), Begins(S, m)
             PROVE  TokensOf(S)[1] = After(L, TokensOf(S)[m + 1])
  BY DEF Gives
<1>1. Len(S) \in Nat
  OBVIOUS
<1>2. Begins(S, n)
  BY <1>1 DEF Begins
<1> QED BY <1>2 DEF Gives

(* A token behind L, before r.                                             *)
LEMMA AfterThen ==
  ASSUME NEW L \in Seq(Token), NEW t \in Token, NEW r \in Result
  PROVE  After(L, Then(t, r)) = After(Append(L, t), r)
<1>1. CASE ~r.ok
  BY <1>1 DEF After, Then
<1>2. CASE r.ok
  <2>1. PICK q \in Seq(Token) : q = r.toks
    BY DEF Result
  <2>2. Append(L, t) \o q = L \o (<<t>> \o q)
    BY AppendConcat
  <2>3. PICK a, b : a = [ok |-> TRUE, toks |-> b] /\ b = <<t>> \o r.toks
    OBVIOUS
  <2>4. Then(t, r) = a /\ a.ok = TRUE /\ a.toks = b
    BY <1>2, <2>3 DEF Then
  <2>5. After(L, a) = [ok |-> TRUE, toks |-> L \o b]
    BY <2>4 DEF After
  <2>6. After(Append(L, t), r) = [ok |-> TRUE, toks |-> Append(L, t) \o r.toks]
    BY <1>2 DEF After
  <2> QED BY <2>1, <2>2, <2>3, <2>4, <2>5, <2>6
<1>3. r.ok \in BOOLEAN
  BY DEF Result
<1> QED BY <1>1, <1>2

(* The characters of a token.                                              *)
LEMMA GivesToken ==
  ASSUME NEW L \in Seq(Token), NEW t \in Token, NEW n \in Nat, NEW m \in Nat, n <= m,
         Gives(L, n),
         \A S \in Seq(0..255) :
           Begins(S, m) => TokensOf(S)[n + 1] = Then(t, TokensOf(S)[m + 1])
  PROVE  Gives(Append(L, t), m)
<1> SUFFICES ASSUME NEW S \in Seq(0..255), Begins(S, m)
             PROVE  TokensOf(S)[1] = After(Append(L, t), TokensOf(S)[m + 1])
  BY DEF Gives
<1>1. Len(S) \in Nat
  OBVIOUS
<1>2. Begins(S, n)
  BY <1>1 DEF Begins
<1>3. TokensOf(S)[1] = After(L, Then(t, TokensOf(S)[m + 1]))
  BY <1>2 DEF Gives
<1>4. TokensOf(S)[m + 1] \in Result
  BY TextFacts DEF Begins
<1> QED BY <1>3, <1>4, AfterThen

(* One token more.                                                         *)
LEMMA SameAppend ==
  ASSUME NEW q \in Seq(Token), NEW L \in Seq(Token), SameToks(q, L),
         NEW t \in Token, NEW u \in Token, SameTok(t, u)
  PROVE  SameToks(Append(q, t), Append(L, u)) /\ Append(L, u) \in Seq(Token)
<1>1. PICK k \in Nat : k = Len(q) /\ k = Len(L) /\ DOMAIN q = 1..k
  BY DEF SameToks
<1>2. PICK v, w : v = Append(q, t) /\ w = Append(L, u)
  OBVIOUS
<1>3. /\ Len(v) = k + 1 /\ Len(w) = k + 1 /\ DOMAIN v = 1..(k + 1)
      /\ v[k + 1] = t /\ w[k + 1] = u
      /\ \A n \in 1..k : v[n] = q[n] /\ w[n] = L[n]
      /\ w \in Seq(Token)
  BY <1>1, <1>2, AppendIs
<1>4. \A n \in 1..(k + 1) : n = k + 1 \/ n \in 1..k
  BY <1>1
<1>5. \A n \in 1..k : SameTok(q[n], L[n])
  BY <1>1 DEF SameToks
<1>6. \A n \in 1..(k + 1) : SameTok(v[n], w[n])
  BY <1>3, <1>4, <1>5
<1> QED BY <1>2, <1>3, <1>6 DEF SameToks

(* Nothing has been read yet.                                              *)
LEMMA ReadsInit == LexInit => ReadsInv
<1> SUFFICES ASSUME LexInit PROVE ReadsInv
  OBVIOUS
<1>1. source \in Seq(0..255) /\ pos = 1 /\ lexed = <<>> /\ lex_status = "lexing"
  BY SourcesAssumption DEF LexInit
<1>2. ASSUME NEW S \in Seq(0..255)
      PROVE  TokensOf(S)[1] = After(<<>>, TokensOf(S)[0 + 1])
  <2>1. PICK r \in Result : r = TokensOf(S)[1]
    <3>1. Len(S) \in Nat
      OBVIOUS
    <3>2. 0 \in Nat /\ 0 <= Len(S) /\ 0 + 1 = 1
      BY <3>1
    <3> QED BY <3>2, TextFacts
  <2>2. PICK q \in Seq(Token) : q = r.toks
    BY DEF Result
  <2>3. <<>> \o q = q
    BY ConcatEmptySeq
  <2>4. r.ok \in BOOLEAN /\ r = [ok |-> r.ok, toks |-> q]
    BY <2>2 DEF Result
  <2>5. After(<<>>, r) = r
    BY <2>2, <2>3, <2>4 DEF After
  <2>6. TokensOf(S)[0 + 1] = r
    BY <2>1
  <2> QED BY <2>1, <2>5, <2>6
<1>3. Gives(<<>>, 0)
  BY <1>2 DEF Gives
<1>4. SameToks(<<>>, <<>>) /\ <<>> \in Seq(Token)
  BY DEF SameToks
<1>5. Taken(<<>>, pos - 1)
  <2>1. Len(source) \in Nat
    BY <1>1
  <2> QED BY <1>1, <1>3, <1>4, <2>1 DEF Taken
<1> QED BY <1>1, <1>4, <1>5 DEF ReadsInv, RefusesRight

(* What a text that begins as the source does has where the source is      *)
(* read.                                                                   *)
LEMMA NextRule ==
  ASSUME LexInv, HasCh, NEW S \in Seq(0..255), NEW m \in Nat, pos <= m, Begins(S, m)
  PROVE  /\ Len(S) \in Nat /\ pos \in Nat \ {0} /\ pos <= Len(S) /\ S[pos] = Ch
         /\ TokensOf(S)[(pos - 1) + 1] = Rule(S, pos, TokensOf(S))
<1>1. pos \in Nat \ {0}
  BY DEF LexInv
<1>2. Len(S) \in Nat
  OBVIOUS
<1>3. pos <= Len(S) /\ S[pos] = source[pos]
  BY <1>1, <1>2 DEF Begins
<1>4. PICK n \in Nat : n = pos - 1 /\ n + 1 = pos /\ n <= Len(S)
  BY <1>1, <1>2, <1>3
<1>5. TokensOf(S)[n + 1] = Rule(S, n + 1, TokensOf(S))
  BY <1>4, TextFacts
<1> QED BY <1>1, <1>2, <1>3, <1>4, <1>5 DEF Ch

(* The types of what the lexer looks at.                                   *)
LEMMA LexTypes ==
  ASSUME LexInv
  PROVE  /\ source \in Seq(0..255) /\ Len(source) \in Nat
         /\ pos \in Nat \ {0} /\ pos - 1 \in Nat /\ lexed \in Seq(Token)
         /\ HasCh => pos <= Len(source) /\ Ch \in 0..255 /\ lex_status = "lexing"
<1>1. source \in Seq(0..255) /\ pos \in Nat \ {0} /\ lexed \in Seq(Token)
  BY SourcesAssumption DEF LexInv
<1>2. Len(source) \in Nat /\ pos - 1 \in Nat
  BY <1>1
<1>3. ASSUME HasCh PROVE pos <= Len(source) /\ Ch \in 0..255 /\ lex_status = "lexing"
  <2>1. pos <= Len(source) /\ lex_status = "lexing"
    BY <1>3 DEF HasCh, Lexing
  <2>2. pos \in 1..Len(source)
    BY <1>1, <1>2, <2>1
  <2> QED BY <1>1, <2>1, <2>2, ElementOf DEF Ch
<1> QED BY <1>1, <1>2, <1>3

(* What is taken is all that was read.                                     *)
LEMMA TakenNow ==
  ASSUME NEW L, source' = source, NEW n \in Nat, pos' = n + 1, n <= Len(source),
         SameToks(lexed', L), Gives(L, n)
  PROVE  Taken(L, pos - 1)'
<1>1. pos' - 1 = n /\ n \in 0..(pos' - 1)
  OBVIOUS
<1> QED BY <1>1 DEF Taken, Gives, Begins

(* White space and comments are nothing.                                   *)
LEMMA SpaceReads ==
  ASSUME LexInv, ReadsInv, SkipSpace
  PROVE  ReadsInv'
<1>1. /\ HasCh /\ IsSpace(Ch) /\ pos' = pos + 1
      /\ UNCHANGED <<source, lexed, lex_status>>
  BY DEF SkipSpace
<1>2. /\ pos \in Nat \ {0} /\ pos <= Len(source) /\ Len(source) \in Nat
      /\ lex_status = "lexing"
  BY <1>1, LexTypes
<1>3. PICK L \in Seq(Token) : Taken(L, pos - 1)
  BY <1>2 DEF ReadsInv
<1>4. ASSUME NEW S \in Seq(0..255), Begins(S, pos)
      PROVE  TokensOf(S)[(pos - 1) + 1] = TokensOf(S)[pos + 1]
  <2>1. /\ Len(S) \in Nat /\ pos <= Len(S) /\ S[pos] = Ch
        /\ TokensOf(S)[(pos - 1) + 1] = Rule(S, pos, TokensOf(S))
    BY <1>1, <1>2, <1>4, NextRule
  <2> QED BY <1>1, <1>2, <2>1, RuleIs
<1>5. Gives(L, pos)
  <2>1. pos - 1 \in Nat /\ pos - 1 <= pos /\ pos \in Nat
    BY <1>2
  <2>2. Gives(L, pos - 1)
    BY <1>3 DEF Taken
  <2> QED BY <1>4, <2>1, <2>2, GivesOn
<1>6. Taken(L, pos - 1)'
  <2>1. SameToks(lexed', L)
    BY <1>1, <1>3 DEF Taken
  <2> QED BY <1>1, <1>2, <1>5, <2>1, TakenNow
<1> QED BY <1>1, <1>2, <1>6 DEF ReadsInv, RefusesRight

(* A comment that ends with its line is nothing; one that ends with EOF is *)
(* behind the characters of the tokens, and stays there.                   *)
LEMMA CommentReads ==
  ASSUME LexInv, ReadsInv, SkipComment
  PROVE  ReadsInv'
<1>1. /\ HasCh /\ Ch = Hash /\ UNCHANGED <<source, lexed>>
  BY DEF SkipComment
<1>2. /\ pos \in Nat \ {0} /\ pos <= Len(source) /\ Len(source) \in Nat
      /\ lex_status = "lexing" /\ source \in Seq(0..255)
  BY <1>1, LexTypes
<1>3. PICK L \in Seq(Token) : Taken(L, pos - 1)
  BY <1>2 DEF ReadsInv
<1>4. PICK n \in Nat : n = pos - 1 /\ n + 1 = pos
  BY <1>2
<1>5. PICK e \in pos..(Len(source) + 1) :
        /\ e = CommentEnd(pos)
        /\ e = Len(source) + 1 \/ source[e] = LF
        /\ \A q \in pos..(e - 1) : source[q] # LF
  BY <1>2, CommentEnds
<1>6. SameToks(lexed', L) /\ Gives(L, n)
  BY <1>1, <1>3, <1>4 DEF Taken
<1>7. CASE e <= Len(source) /\ pos' = e + 1 /\ lex_status' = lex_status
  <2>1. ASSUME NEW S \in Seq(0..255), Begins(S, e)
        PROVE  TokensOf(S)[n + 1] = TokensOf(S)[e + 1]
    <3>1. /\ Len(S) \in Nat /\ pos <= Len(S) /\ S[pos] = Hash
          /\ TokensOf(S)[n + 1] = Rule(S, pos, TokensOf(S))
      BY <1>1, <1>2, <1>4, <1>5, <2>1, NextRule
    <3>2. TokensOf(S)[n + 1] = TokensOf(S)[Lines(S)[pos]]
      BY <1>2, <3>1, RuleIs
    <3>3. e <= Len(S) /\ \A q \in pos..e : S[q] = source[q]
      BY <1>2, <1>5, <2>1 DEF Begins
    <3>10. e \in pos..e /\ e # Len(source) + 1 /\ \A q \in pos..(e - 1) : q \in pos..e
      BY <1>2, <1>5, <1>7
    <3>4. S[e] = LF /\ (\A q \in pos..(e - 1) : S[q] # LF)
      BY <1>5, <3>3, <3>10
    <3>5. e \in 1..(Len(S) + 1) /\ pos \in 1..e
      BY <1>2, <1>5, <3>1, <3>3
    <3>6. Lines(S)[pos] = e
      BY <3>4, <3>5, LineEnds
    <3>7. TokensOf(S)[e] = Rule(S, e, TokensOf(S))
      BY <3>5, TokensAre
    <3>8. IsSpace(S[e]) /\ e \in Nat \ {0}
      BY <3>4, <3>5 DEF IsSpace, LF
    <3>9. Rule(S, e, TokensOf(S)) = TokensOf(S)[e + 1]
      BY <3>1, <3>3, <3>8, RuleIs
    <3> QED BY <3>2, <3>6, <3>7, <3>9
  <2>2. e \in Nat /\ n <= e
    BY <1>2, <1>4, <1>5
  <2>3. Gives(L, e)
    BY <1>6, <2>1, <2>2, GivesOn
  <2>4. Taken(L, pos - 1)'
    BY <1>1, <1>6, <1>7, <2>2, <2>3, TakenNow
  <2> QED BY <1>1, <1>2, <1>7, <2>4 DEF ReadsInv, RefusesRight
<1>8. CASE pos' \in (pos + 1)..e /\ lex_status' = "ok"
  <2>1. PICK m \in pos..(e - 1) : pos' = m + 1 /\ pos' - 1 = m
    <3>1. PICK k \in (pos + 1)..e : pos' = k
      BY <1>8
    <3>2. k - 1 \in pos..(e - 1) /\ k = (k - 1) + 1
      BY <1>2, <1>5
    <3> QED BY <3>1, <3>2
  <2>2. n \in 0..(pos' - 1) /\ pos' - 1 <= Len(source)
    BY <1>2, <1>4, <1>5, <2>1
  <2>3. source[n + 1] = Hash /\ \A q \in (n + 1)..(pos' - 1) : source[q] # LF
    BY <1>1, <1>2, <1>4, <1>5, <2>1 DEF Ch
  <2>4. Taken(L, n)'
    BY <1>1, <1>6, <2>2, <2>3 DEF Taken, Gives, Begins
  <2> QED BY <1>8, <2>4 DEF ReadsInv, RefusesRight
<1> QED BY <1>5, <1>7, <1>8 DEF SkipComment

(* A token is the reference's, but for a character that nobody looks at.   *)
LEMMA FnReads ==
  ASSUME LexInv, ReadsInv, ReadFn
  PROVE  ReadsInv'
<1>1. /\ HasCh /\ IsToken(Ch) /\ pos' = pos + 1 /\ UNCHANGED <<source, lex_status>>
  BY DEF ReadFn
<1>2. /\ pos \in Nat \ {0} /\ pos <= Len(source) /\ Len(source) \in Nat
      /\ lex_status = "lexing" /\ lexed \in Seq(Token)
  BY <1>1, LexTypes
<1>3. PICK L \in Seq(Token) : Taken(L, pos - 1)
  BY <1>2 DEF ReadsInv
<1>4. PICK n \in Nat : n = pos - 1 /\ n + 1 = pos /\ n <= pos /\ pos \in Nat
  BY <1>2
<1>5. PICK t \in PlainFn(Ch) : lexed' = Append(lexed, t)
  BY DEF ReadFn
<1>6. t \in Token
  BY CharsAreTokens
<1>7. PICK u \in Token :
        /\ SameTok(t, u)
        /\ \A S \in Seq(0..255) :
             Begins(S, pos) => TokensOf(S)[n + 1] = Then(u, TokensOf(S)[pos + 1])
  <2>1. ASSUME NEW S \in Seq(0..255), Begins(S, pos)
        PROVE  /\ Len(S) \in Nat /\ pos <= Len(S) /\ S[pos] = Ch
               /\ TokensOf(S)[n + 1] = Rule(S, pos, TokensOf(S))
    BY <1>1, <1>4, <2>1, NextRule
  <2>2. CASE Ch \in RChars
    <3>1. FnOf(FnChars, Ch) = {}
      BY <2>2, CharKinds
    <3>2. t \notin {TokCh(f, j) : f \in FnOf(FnChars, Ch), j \in Junk}
      BY <3>1
    <3>3. t = TokCh("out", LF)
      BY <2>2, <3>2 DEF PlainFn
    <3>4. SameTok(t, t)
      BY DEF SameTok
    <3>5. ASSUME NEW S \in Seq(0..255), Begins(S, pos)
          PROVE  TokensOf(S)[n + 1] = Then(t, TokensOf(S)[pos + 1])
      BY <1>2, <2>1, <2>2, <3>3, <3>5, RuleIs
    <3> QED BY <1>6, <3>4, <3>5
  <2>3. CASE Ch \notin RChars
    <3>1. PICK f \in FnOf(FnChars, Ch), j \in Junk : t = TokCh(f, j)
      BY <2>3 DEF PlainFn
    <3>2. f \in TokenFns \ {"out", "cmp"}
      BY DEF FnOf, FnChars, TokenFns
    <3>3. PICK u \in Token : u = Tok(f) /\ u.fn = f
      BY <3>2, PlainTokens
    <3>4. j \in 0..255 /\ f \in TokenFns
      BY <3>2, SourcesAssumption
    <3>5. t.fn = f
      BY <3>1, <3>2, <3>4, CharTokens
    <3>6. SameTok(t, u)
      BY <3>2, <3>3, <3>5 DEF SameTok, ChFns
    <3>7. ASSUME NEW S \in Seq(0..255), Begins(S, pos)
          PROVE  TokensOf(S)[n + 1] = Then(u, TokensOf(S)[pos + 1])
      BY <1>2, <2>1, <3>1, <3>3, <3>7, RuleIs
    <3> QED BY <3>6, <3>7
  <2> QED BY <2>2, <2>3
<1>8. PICK M : M = Append(L, u)
  OBVIOUS
<1>9. SameToks(lexed, L) /\ Gives(L, n)
  BY <1>3, <1>4 DEF Taken
<1>10. M \in Seq(Token) /\ SameToks(lexed', M)
  BY <1>2, <1>5, <1>6, <1>7, <1>8, <1>9, SameAppend
<1>11. Gives(M, pos)
  BY <1>4, <1>7, <1>8, <1>9, GivesToken
<1>12. Taken(M, pos - 1)'
  BY <1>1, <1>2, <1>10, <1>11, TakenNow
<1> QED BY <1>1, <1>2, <1>10, <1>12 DEF ReadsInv, RefusesRight

(* A character that begins nothing, or that cannot be printed, is one that *)
(* the reference refuses too.                                              *)
LEMMA RefusedHere ==
  ASSUME LexInv, ReadsInv, HasCh, Rule(source, pos, TokensOf(source)) = NoSource,
         source' = source
  PROVE  (~Reference(source).ok)'
<1>1. /\ pos \in Nat \ {0} /\ pos <= Len(source) /\ Len(source) \in Nat
      /\ lex_status = "lexing" /\ source \in Seq(0..255)
  BY LexTypes
<1>2. PICK L \in Seq(Token) : Taken(L, pos - 1)
  BY <1>1 DEF ReadsInv
<1>3. PICK n \in Nat : n = pos - 1 /\ n + 1 = pos /\ n <= Len(source)
  BY <1>1
<1>4. TokensOf(source)[1] = After(L, TokensOf(source)[n + 1])
  <2>1. Begins(source, n)
    BY <1>3 DEF Begins
  <2> QED BY <1>1, <1>2, <1>3, <2>1 DEF Taken, Gives
<1>5. TokensOf(source)[n + 1] = NoSource
  BY <1>1, <1>3, TextFacts
<1>6. NoSource.ok = FALSE
  BY DEF NoSource
<1> QED BY <1>4, <1>5, <1>6 DEF After, Reference

(* The character that . and ? take with them is the one behind them.       *)
LEMMA ChReads ==
  ASSUME LexInv, ReadsInv, ReadCh
  PROVE  ReadsInv'
<1>1. PICK f \in FnOf(ChFns, Ch) :
        /\ HasCh /\ source' = source
        /\ \/ /\ pos < Len(source) /\ IsCh(source[pos + 1])
              /\ lexed' = Append(lexed, TokCh(f, source[pos + 1]))
              /\ pos' = pos + 2
              /\ lex_status' = lex_status
           \/ /\ pos < Len(source) /\ ~IsCh(source[pos + 1])
              /\ lex_status' = "unprintable"
           \/ lex_status' = "eof"
  BY DEF ReadCh
<1>2. /\ pos \in Nat \ {0} /\ pos <= Len(source) /\ Len(source) \in Nat
      /\ lex_status = "lexing" /\ lexed \in Seq(Token) /\ source \in Seq(0..255)
  BY <1>1, LexTypes
<1>3. PICK L \in Seq(Token) : Taken(L, pos - 1)
  BY <1>2 DEF ReadsInv
<1>4. PICK n \in Nat, m \in Nat : n = pos - 1 /\ n + 1 = pos /\ m = pos + 1 /\ n <= m
  BY <1>2
<1>5. CASE /\ pos < Len(source) /\ IsCh(source[pos + 1])
           /\ lexed' = Append(lexed, TokCh(f, source[pos + 1]))
           /\ pos' = pos + 2 /\ lex_status' = lex_status
  <2>1. m \in 1..Len(source) /\ source[m] \in 0..255
    <3>1. m \in 1..Len(source)
      BY <1>2, <1>4, <1>5
    <3> QED BY <1>2, <3>1, ElementOf
  <2>2. PICK t \in Token : t = TokCh(f, source[m])
    BY <1>4, <1>5, <2>1, CharsAreTokens
  <2>3. ASSUME NEW S \in Seq(0..255), Begins(S, m)
        PROVE  TokensOf(S)[n + 1] = Then(t, TokensOf(S)[m + 1])
    <3>1. /\ Len(S) \in Nat /\ pos <= Len(S) /\ S[pos] = Ch
          /\ TokensOf(S)[n + 1] = Rule(S, pos, TokensOf(S))
      BY <1>1, <1>2, <1>4, <2>3, NextRule
    <3>2. m <= Len(S) /\ S[m] = source[m] /\ pos < Len(S)
      BY <1>2, <1>4, <2>1, <2>3, <3>1 DEF Begins
    <3>3. Rule(S, pos, TokensOf(S)) =
            IF pos < Len(S) /\ IsCh(S[pos + 1])
            THEN Then(TokCh(f, S[pos + 1]), TokensOf(S)[pos + 2]) ELSE NoSource
      BY <1>2, <3>1, RuleIs
    <3>4. pos + 2 = m + 1
      BY <1>2, <1>4
    <3> QED BY <1>4, <1>5, <2>2, <3>1, <3>2, <3>3, <3>4
  <2>4. PICK M : M = Append(L, t)
    OBVIOUS
  <2>5. SameToks(lexed, L) /\ Gives(L, n)
    BY <1>3, <1>4 DEF Taken
  <2>6. SameTok(t, t) /\ lexed' = Append(lexed, t)
    BY <1>4, <1>5, <2>2 DEF SameTok
  <2>7. M \in Seq(Token) /\ SameToks(lexed', M)
    BY <1>2, <2>4, <2>5, <2>6, SameAppend
  <2>8. Gives(M, m)
    BY <1>4, <2>3, <2>4, <2>5, GivesToken
  <2>9. pos' = m + 1 /\ m <= Len(source)
    BY <1>2, <1>4, <1>5
  <2>10. Taken(M, pos - 1)'
    BY <1>1, <1>4, <2>7, <2>8, <2>9, TakenNow
  <2> QED BY <1>2, <1>5, <2>7, <2>10 DEF ReadsInv, RefusesRight
<1>6. CASE pos < Len(source) /\ ~IsCh(source[pos + 1]) /\ lex_status' = "unprintable"
  <2>1. Rule(source, pos, TokensOf(source)) = NoSource
    BY <1>2, <1>6, RuleIs DEF Ch
  <2> QED BY <1>1, <1>6, <2>1, RefusedHere DEF ReadsInv, RefusesRight
<1>7. CASE lex_status' = "eof"
  BY <1>7 DEF ReadsInv, RefusesRight
<1> QED BY <1>1, <1>5, <1>6, <1>7

(* Every step of the lexer keeps to the reference.                         *)
LEMMA LexNextReads == LexInv /\ ReadsInv /\ [LexNext]_lex_vars => ReadsInv'
<1> SUFFICES ASSUME LexInv, ReadsInv, [LexNext]_lex_vars PROVE ReadsInv'
  OBVIOUS
<1>1. CASE LexBadAlloc \/ LexTooLong
  BY <1>1 DEF LexBadAlloc, LexTooLong, LexFailed, ReadsInv, RefusesRight
<1>2. CASE EndOfInput
  <2>1. lex_status = "lexing" /\ lex_status' = "ok" /\ UNCHANGED <<source, pos, lexed>>
    BY <1>2 DEF EndOfInput, LexFailed, Lexing
  <2>2. PICK L \in Seq(Token) : Taken(L, pos - 1)
    BY <2>1 DEF ReadsInv
  <2>3. PICK n \in Nat : n = pos - 1
    BY LexTypes
  <2>4. Taken(L, n)'
    BY <2>1, <2>2, <2>3 DEF Taken, Gives, Begins
  <2> QED BY <2>1, <2>4 DEF ReadsInv, RefusesRight
<1>3. CASE BadCh
  <2>1. /\ HasCh /\ source' = source /\ lex_status' = "bad_ch" /\ IsToken(Ch)
        /\ PlainFn(Ch) = {} /\ FnOf(ChFns, Ch) = {}
    BY <1>3 DEF BadCh
  <2>2. Ch \notin RChars /\ FnOf(FnChars, Ch) = {}
    <3>1. Ch \notin RChars
      BY <2>1 DEF PlainFn
    <3>2. PICK j : j \in Junk
      BY SourcesAssumption
    <3>3. \A f \in FnOf(FnChars, Ch) : TokCh(f, j) \in PlainFn(Ch)
      BY <3>2 DEF PlainFn
    <3> QED BY <2>1, <3>1, <3>3
  <2>3. pos \in Nat \ {0} /\ pos <= Len(source) /\ Len(source) \in Nat
    BY <2>1, LexTypes
  <2>4. Rule(source, pos, TokensOf(source)) = NoSource
    BY <2>1, <2>2, <2>3, RuleIs DEF Ch
  <2> QED BY <2>1, <2>4, RefusedHere DEF ReadsInv, RefusesRight
<1>4. CASE UNCHANGED lex_vars
  BY <1>4 DEF lex_vars, ReadsInv, RefusesRight, Taken, Gives, Begins
<1> QED BY <1>1, <1>2, <1>3, <1>4, SpaceReads, CommentReads, FnReads, ChReads DEF LexNext

(* What was read is read as the reference reads it, a comment that does    *)
(* not end included.                                                       *)
LEMMA ReadsRight ==
  ASSUME LexInv, ReadsInv
  PROVE  LexesSource
<1> SUFFICES ASSUME lex_status \in {"lexing", "ok"}
             PROVE  /\ Reference(SubSeq(source, 1, pos - 1)).ok
                    /\ SameToks(lexed, Reference(SubSeq(source, 1, pos - 1)).toks)
  BY DEF LexesSource
<1>1. /\ source \in Seq(0..255) /\ Len(source) \in Nat
      /\ pos \in Nat \ {0} /\ pos - 1 \in Nat
  BY LexTypes
<1>2. PICK L \in Seq(Token), n \in Nat : Taken(L, n)
  BY <1>1 DEF ReadsInv
<1>3. /\ n \in 0..(pos - 1) /\ pos - 1 <= Len(source) /\ SameToks(lexed, L) /\ Gives(L, n)
      /\ n = pos - 1 \/ /\ source[n + 1] = Hash
                        /\ \A q \in (n + 1)..(pos - 1) : source[q] # LF
  BY <1>2 DEF Taken
<1>4. PICK S \in Seq(0..255) :
        /\ S = SubSeq(source, 1, pos - 1) /\ Len(S) = pos - 1
        /\ \A i \in 1..(pos - 1) : S[i] = source[i]
  <2>1. PICK N \in Nat : N = pos - 1 /\ N <= Len(source)
    BY <1>1, <1>3
  <2>2. PICK S : S = SubSeq(source, 1, N)
    OBVIOUS
  <2>3. S \in Seq(0..255) /\ Len(S) = N /\ \A i \in 1..N : S[i] = source[i]
    <3>1. PICK B : B = 0..255
      OBVIOUS
    <3>2. source \in Seq(B)
      BY <1>1, <3>1
    <3>3. S \in Seq(B) /\ Len(S) = N /\ \A i \in 1..N : S[i] = source[i]
      BY <2>1, <2>2, <3>2, Beginning
    <3> QED BY <3>1, <3>3
  <2> QED BY <2>1, <2>2, <2>3
<1>5. PICK e \in Nat : e = pos /\ e = Len(S) + 1 /\ n + 1 <= e
  BY <1>1, <1>3, <1>4
<1>6. TokensOf(S)[e] = AtEnd
  <2>1. TokensOf(S)[e] = Rule(S, e, TokensOf(S))
    BY <1>5, TokensAre
  <2> QED BY <1>5, <2>1, RuleIs
<1>7. TokensOf(S)[n + 1] = AtEnd
  <2>1. CASE n + 1 = e
    BY <1>6, <2>1
  <2>2. CASE n + 1 # e
    <3>1. n + 1 \in 1..Len(S) /\ n + 1 <= Len(S) /\ n + 1 \in Nat \ {0}
      BY <1>5, <2>2
    <3>2. source[n + 1] = Hash /\ \A q \in (n + 1)..(pos - 1) : source[q] # LF
      BY <1>1, <1>3, <1>5, <2>2
    <3>3. S[n + 1] = Hash /\ \A q \in (n + 1)..(e - 1) : S[q] # LF
      BY <1>1, <1>4, <1>5, <3>1, <3>2
    <3>4. TokensOf(S)[n + 1] = Rule(S, n + 1, TokensOf(S))
      BY <3>1, TokensAre
    <3>5. Rule(S, n + 1, TokensOf(S)) = TokensOf(S)[Lines(S)[n + 1]]
      BY <3>1, <3>3, RuleIs
    <3>6. Lines(S)[n + 1] = e
      BY <1>5, <3>1, <3>3, LineEnds
    <3> QED BY <1>6, <3>4, <3>5, <3>6
  <2> QED BY <2>1, <2>2
<1>8. Begins(S, n)
  BY <1>1, <1>3, <1>4 DEF Begins
<1>9. Reference(S) = After(L, AtEnd)
  BY <1>3, <1>7, <1>8 DEF Gives, Reference
<1>10. AtEnd.ok = TRUE /\ AtEnd.toks = <<>>
  BY DEF AtEnd
<1>11. L \o <<>> = L
  BY ConcatEmptySeq
<1>12. Reference(S) = [ok |-> TRUE, toks |-> L]
  BY <1>9, <1>10, <1>11 DEF After
<1> QED BY <1>3, <1>4, <1>12

(* The invariant says both.                                                *)
LEMMA LexSafe == LexInv /\ ReadsInv => LexesSource /\ RefusesRight
BY ReadsRight DEF ReadsInv

(* In the compiler, the parser does not touch what the lexer has.          *)
LEMMA FrontReads == FrontSpec => []ReadsInv
<1>1. FrontInit => ReadsInv
  BY ReadsInit DEF FrontInit
<1>2. ASSUME LexInv, ReadsInv, [FrontNext]_front_vars PROVE ReadsInv'
  <2>1. [LexNext]_lex_vars
    BY <1>2 DEF FrontNext, front_vars, Lex, Parse
  <2> QED BY <1>2, <2>1, LexNextReads
<1>3. LexInv /\ ReadsInv /\ [FrontNext]_front_vars => ReadsInv'
  BY <1>2
<1> QED BY <1>1, <1>3, FrontSound, PTL DEF FrontSpec

(* u6a_lex: the tokens are the ones the language gives the part of the     *)
(* source that was read, for every source.                                 *)
THEOREM LexesSourceHolds == FrontSpec => []LexesSource
BY LexSafe, FrontReads, FrontSound, PTL

(* u6a_lex refuses a character, or the lack of one to print, only in a     *)
(* source that the language has no tokens for.                             *)
THEOREM RefusesRightHolds == FrontSpec => []RefusesRight
BY LexSafe, FrontReads, FrontSound, PTL

(* What the first tokens ask for depends on which are applications.        *)
LEMMA NeedAfterSame ==
  ASSUME NEW a, NEW b, NEW n \in Nat, Len(a) \in Nat, Len(b) \in Nat,
         n <= Len(a), n <= Len(b), \A i \in 1..n : IsApp(a[i]) <=> IsApp(b[i])
  PROVE  NeedAfter(a)[n] = NeedAfter(b)[n]
<1>1. {i \in 1..n : IsApp(a[i])} = {i \in 1..n : IsApp(b[i])}
  OBVIOUS
<1>2. n \in 0..Len(a) /\ n \in 0..Len(b)
  OBVIOUS
<1> QED BY <1>1, <1>2 DEF NeedAfter

(* A program does not begin with another one.                              *)
LEMMA NoProperPrefix ==
  ASSUME NEW q \in Seq(Token), NEW L \in Seq(Token), NEW r \in Seq(Token),
         SameToks(q, L), IsProgram(q), IsProgram(L \o r)
  PROVE  L \o r = L
<1>1. PICK k \in Nat : k = Len(q) /\ k = Len(L) /\ DOMAIN q = 1..k
  BY DEF SameToks
<1>2. PICK m \in Nat : m = Len(r)
  OBVIOUS
<1>3. PICK w \in Seq(Token) :
        w = L \o r /\ Len(w) = k + m /\ \A i \in 1..k : w[i] = L[i]
  <2>1. PICK w : w = L \o r
    OBVIOUS
  <2>2. w \in Seq(Token) /\ Len(w) = Len(L) + Len(r) /\ \A i \in 1..Len(L) : w[i] = L[i]
    BY <2>1, ConcatBegins
  <2> QED BY <1>1, <1>2, <2>1, <2>2
<1>4. \A i \in 1..k : IsApp(q[i]) <=> IsApp(w[i])
  BY <1>1, <1>3 DEF SameToks, SameTok, IsApp
<1>5. NeedAfter(w)[k] = NeedAfter(q)[k]
  <2>1. k <= Len(w) /\ Len(w) \in Nat /\ k <= Len(q) /\ Len(q) \in Nat
    BY <1>1, <1>2, <1>3
  <2> QED BY <1>4, <2>1, NeedAfterSame
<1>6. NeedAfter(w)[k] = 0
  BY <1>1, <1>5 DEF IsProgram
<1>7. \A n \in 0..(Len(w) - 1) : NeedAfter(w)[n] > 0
  BY <1>3 DEF IsProgram
<1>8. m = 0
  BY <1>1, <1>2, <1>3, <1>6, <1>7
<1>9. r = <<>>
  BY <1>2, <1>8, EmptySeq
<1> QED BY <1>9, ConcatEmptySeq

(* The parser has the tokens of the lexer, which has come to an end.       *)
Handed == status # "idle" => lex_status = "ok" /\ tokens = lexed

(* The lexer is done when the parser begins.                               *)
LEMMA HandedHolds == FrontSpec => []Handed
<1>1. FrontInit => Handed
  BY DEF FrontInit, Init, Handed
<1>2. ASSUME Handed, [FrontNext]_front_vars PROVE Handed'
  <2>1. CASE Lex
    <3>1. lex_status = "lexing"
      BY <2>1 DEF Lex, LexNext, LexBadAlloc, EndOfInput, SkipSpace, SkipComment,
                  LexTooLong, ReadFn, ReadCh, BadCh, HasCh, Lexing
    <3>2. status = "idle" /\ status' = status
      BY <1>2, <2>1, <3>1 DEF Handed, Lex, vars
    <3> QED BY <3>2 DEF Handed
  <2>2. CASE Parse
    <3>1. lex_status = "ok" /\ UNCHANGED lex_vars
      BY <2>2 DEF Parse
    <3>2. CASE Start(lexed)
      BY <3>1, <3>2 DEF Start, Handed, lex_vars
    <3>3. CASE ParseStep
      BY <1>2, <3>1, <3>3 DEF ParseStep, Trailing, ReadToken, Finish, Handed, lex_vars
    <3> QED BY <2>2, <3>2, <3>3 DEF Parse
  <2>3. CASE UNCHANGED front_vars
    BY <1>2, <2>3 DEF front_vars, lex_vars, vars, Handed
  <2> QED BY <1>2, <2>1, <2>2, <2>3 DEF FrontNext
<1>3. Handed /\ [FrontNext]_front_vars => Handed'
  BY <1>2
<1> QED BY <1>1, <1>3, PTL DEF FrontSpec

(* The whole source has the tokens of the part that was read and maybe     *)
(* more; but both are programs.                                            *)
LEMMA ShowsErrors ==
  ASSUME LexInv, ReadsInv, Handed, AcceptsPrograms
  PROVE  ReadErrorsShow
<1> SUFFICES ASSUME status = "ok", Reference(source).ok, IsProgram(Reference(source).toks)
             PROVE  SameToks(tokens, Reference(source).toks)
  BY DEF ReadErrorsShow
<1>1. lex_status = "ok" /\ tokens = lexed /\ IsProgram(lexed) /\ lexed \in Seq(Token)
  BY LexTypes DEF Handed, AcceptsPrograms
<1>2. source \in Seq(0..255) /\ Len(source) \in Nat /\ pos \in Nat \ {0}
  BY LexTypes
<1>3. PICK L \in Seq(Token), n \in Nat : Taken(L, n)
  BY <1>1 DEF ReadsInv
<1>4. n <= Len(source) /\ SameToks(lexed, L) /\ Gives(L, n)
  BY <1>2, <1>3 DEF Taken
<1>5. PICK r \in Result : r = TokensOf(source)[n + 1]
  BY <1>2, <1>4, TextFacts
<1>6. Reference(source) = After(L, r)
  BY <1>2, <1>4, <1>5 DEF Gives, Begins, Reference
<1>7. PICK q \in Seq(Token) : q = r.toks
  BY <1>5 DEF Result
<1>8. r.ok
  BY <1>6 DEF After
<1>9. Reference(source).toks = L \o q
  <2>1. Reference(source) = [ok |-> TRUE, toks |-> L \o q]
    BY <1>6, <1>7, <1>8 DEF After
  <2> QED BY <2>1
<1>10. L \o q = L
  BY <1>1, <1>4, <1>9, NoProperPrefix
<1> QED BY <1>1, <1>4, <1>9, <1>10

(* A read error that looks like the end of the source never changes an     *)
(* accepted program.                                                       *)
THEOREM ReadErrorsShowHolds == FrontSpec => []ReadErrorsShow
<1>1. LexInv /\ ReadsInv /\ Handed /\ AcceptsPrograms => ReadErrorsShow
  BY ShowsErrors
<1> QED BY <1>1, FrontSound, FrontReads, HandedHolds, FrontTreesHold, PTL

=============================================================================
