------------------------------- MODULE Lexer --------------------------------
(***************************************************************************)
(* u6a_lex: the characters of the source become an array of tokens that    *)
(* doubles when it is full.  Characters are ASCII codes.  fgetc returns    *)
(* EOF at the end of the source and also when reading fails; the code does *)
(* not tell the two apart, so here EOF may come at any character.          *)
(***************************************************************************)
EXTENDS Defs

CONSTANTS Sources,   (* what the input stream may hold                     *)
          InitLen,   (* U6A_TOKEN_INIT_LEN                                 *)
          MaxLen,    (* U6A_TOKEN_MAX_LEN                                  *)
          Junk       (* what a byte of the array may hold before it is set *)

(* InitLen becomes MaxLen when it is doubled often enough.                 *)
ASSUME LensAssumption ==
  /\ InitLen \in Nat \ {0} /\ MaxLen \in Nat
  /\ \E D \in SUBSET (InitLen..MaxLen) :
       /\ InitLen \in D /\ MaxLen \in D
       /\ \A d \in D : d = MaxLen \/ 2 * d \in D

ASSUME SourcesAssumption ==
  /\ Sources \subseteq Seq(0..255)
  /\ Junk \subseteq 0..255 /\ Junk # {}

VARIABLES
  source,      (* input_stream                                             *)
  pos,         (* the number of the character fgetc returns next           *)
  lexed,       (* tokens, up to len                                        *)
  cap,         (* token_arr_size                                           *)
  lex_status   (* "lexing", "ok", or why u6a_lex returned false            *)

lex_vars == <<source, pos, lexed, cap, lex_status>>

(* The characters of the functions that are a token by themselves.         *)
FnChars == [app |-> {96}, s |-> {83, 115}, k |-> {75, 107}, i |-> {73, 105},
            v |-> {86, 118}, c |-> {67, 99}, d |-> {68, 100}, in |-> {64},
            pipe |-> {124}, e |-> {69, 101}]
RChars  == {82, 114}
(* The ones that take the character after them.                            *)
ChFns   == [out |-> {46}, cmp |-> {63}]

LF         == 10
Hash       == 35
IsSpace(c) == c \in (9..13) \cup {32}
IsPrint(c) == c \in 32..126
IsChNoLF(c) == IsPrint(c)
IsCh(c)    == IsPrint(c) \/ c = LF

LexInit ==
  /\ source \in Sources
  /\ pos = 1
  /\ lexed = <<>>
  /\ cap = InitLen
  /\ lex_status = "lexing"

Lexing     == lex_status = "lexing"
Ch         == source[pos]
HasCh      == Lexing /\ pos <= Len(source)
IsToken(c) == ~IsSpace(c) /\ c # Hash

(* u6a_lex frees the array and returns false.                              *)
LexFailed(why) ==
  /\ lex_status' = why
  /\ UNCHANGED <<source, pos, lexed, cap>>

(* The array is doubled before a token that does not fit is looked at, up  *)
(* to a limit.                                                             *)
Full(n)      == n >= cap
TooLongAt(n) == n >= MaxLen
TooLong(n)   == n > MaxLen
HasRoom      == ~(Full(Len(lexed)) /\ TooLong(2 * cap))
Grown        == IF Full(Len(lexed)) THEN 2 * cap ELSE cap

(* The first allocation, or making the array larger, may fail.             *)
LexBadAlloc ==
  /\ Lexing
  /\ \/ pos = 1 /\ lexed = <<>>
     \/ HasCh /\ IsToken(Ch) /\ Full(Len(lexed)) /\ HasRoom
  /\ LexFailed("bad_alloc")

EndOfInput ==
  /\ Lexing
  /\ LexFailed("ok")

SkipSpace ==
  /\ HasCh /\ IsSpace(Ch)
  /\ pos' = pos + 1
  /\ UNCHANGED <<source, lexed, cap, lex_status>>

(* A comment ends with its line or with EOF.                               *)
CommentEndHere(p) == p
CommentEnd(p) == CHOOSE e \in p..(Len(source) + 1) :
                   /\ \/ e = Len(source) + 1
                      \/ source[e] = LF
                   /\ \A q \in p..(e - 1) : source[q] # LF

SkipComment ==
  /\ HasCh /\ Ch = Hash
  /\ LET e == CommentEnd(pos)
     IN  \/ /\ e <= Len(source)
            /\ pos' = e + 1
            /\ UNCHANGED lex_status
         \/ /\ pos' \in (pos + 1)..e
            /\ lex_status' = "ok"
  /\ UNCHANGED <<source, lexed, cap>>

LexTooLong ==
  /\ HasCh /\ IsToken(Ch) /\ ~HasRoom
  /\ LexFailed("too_long")

(* The functions that Ch may begin, with and without a character of their  *)
(* own.                                                                    *)
FnOf(names, c) == {f \in DOMAIN names : c \in names[f]}
PlainFn(c) == {TokCh(f, j) : f \in FnOf(FnChars, c), j \in Junk}
               \cup (IF c \in RChars THEN {TokCh("out", LF)} ELSE {})

(* A function that is one character; its ch is not set, but for r's.       *)
ReadFn ==
  /\ HasCh /\ IsToken(Ch) /\ HasRoom
  /\ \E t \in PlainFn(Ch) : lexed' = Append(lexed, t)
  /\ cap' = Grown
  /\ pos' = pos + 1
  /\ UNCHANGED <<source, lex_status>>

(* READ_CH, with EOF and with characters that are not for printing.        *)
ReadCh ==
  /\ HasCh /\ HasRoom
  /\ \E f \in FnOf(ChFns, Ch) :
       \/ /\ pos < Len(source) /\ IsCh(source[pos + 1])
          /\ lexed' = Append(lexed, TokCh(f, source[pos + 1]))
          /\ pos' = pos + 2
          /\ UNCHANGED lex_status
       \/ /\ pos < Len(source) /\ ~IsCh(source[pos + 1])
          /\ lex_status' = "unprintable"
          /\ UNCHANGED <<pos, lexed>>
       \/ /\ lex_status' = "eof"
          /\ UNCHANGED <<pos, lexed>>
  /\ cap' = Grown
  /\ UNCHANGED source

BadCh ==
  /\ HasCh /\ IsToken(Ch) /\ HasRoom
  /\ PlainFn(Ch) = {} /\ FnOf(ChFns, Ch) = {}
  /\ lex_status' = "bad_ch"
  /\ cap' = Grown
  /\ UNCHANGED <<source, pos, lexed>>

LexNext == \/ LexBadAlloc \/ EndOfInput \/ SkipSpace \/ SkipComment
           \/ LexTooLong \/ ReadFn \/ ReadCh \/ BadCh

LexSpec == LexInit /\ [][LexNext]_lex_vars

-----------------------------------------------------------------------------
(* What the tokens ought to be: the source is cut at the first rule that   *)
(* matches its beginning.  Rejected tells a source with a character that   *)
(* begins nothing, or a . or ? without a character to print.               *)

Printable(c) == c \in (32..126) \cup {10}

NoSource == [ok |-> FALSE, toks |-> <<>>]
AtEnd    == [ok |-> TRUE, toks |-> <<>>]
Then(t, r) == IF r.ok THEN [ok |-> TRUE, toks |-> <<t>> \o r.toks] ELSE r

(* Where the line ends that has the character p.                           *)
Lines(src) ==
  LET line[p \in 1..(Len(src) + 1)] ==
        IF p > Len(src) THEN p ELSE IF src[p] = LF THEN p ELSE line[p + 1]
  IN  line

(* The tokens from the character p on, when from gives them for the places *)
(* behind it.                                                              *)
Rule(src, p, from) ==
  CASE p > Len(src) -> AtEnd
    [] p <= Len(src) /\ IsSpace(src[p]) -> from[p + 1]
    [] p <= Len(src) /\ src[p] = Hash -> from[Lines(src)[p]]
    [] p <= Len(src) /\ src[p] \in RChars ->
         Then(TokCh("out", LF), from[p + 1])
    [] p < Len(src) /\ src[p] = 46 /\ Printable(src[p + 1]) ->
         Then(TokCh("out", src[p + 1]), from[p + 2])
    [] p < Len(src) /\ src[p] = 63 /\ Printable(src[p + 1]) ->
         Then(TokCh("cmp", src[p + 1]), from[p + 2])
    [] p <= Len(src) /\ FnOf(FnChars, src[p]) # {} ->
         Then(Tok(CHOOSE f \in FnOf(FnChars, src[p]) : TRUE), from[p + 1])
    [] OTHER -> NoSource

TokensOf(src) ==
  LET from[p \in 1..(Len(src) + 1)] == Rule(src, p, from) IN from

Reference(src) == TokensOf(src)[1]

(* The ch of the other functions is never looked at.                       *)
SameTok(t, u) == /\ t.fn = u.fn
                 /\ t.fn \in DOMAIN ChFns => t.ch = u.ch
SameToks(s, t) == /\ Len(s) = Len(t)
                  /\ \A n \in DOMAIN s : SameTok(s[n], t[n])

(* The tokens are the ones the language gives the part of the source that  *)
(* was read: comments and white space separate nothing and hide nothing.   *)
LexesSource ==
  lex_status \in {"lexing", "ok"} =>
    LET r == Reference(SubSeq(source, 1, pos - 1))
    IN  r.ok /\ SameToks(lexed, r.toks)

(* A source that the code refuses as malformed is malformed, unless        *)
(* reading failed behind a . or a ?.                                       *)
RefusesRight ==
  lex_status \in {"bad_ch", "unprintable"} => ~Reference(source).ok

(* u6a_lex never writes behind the array it has allocated, and only code   *)
(* of more than U6A_TOKEN_MAX_LEN tokens is refused as too long.           *)
LimitExact ==
  /\ Len(lexed) <= cap
  /\ lex_status = "too_long" => Len(lexed) = MaxLen /\ IsToken(Ch)

(* Why: the size of the array is one of the doubled lengths.               *)
LexInv ==
  /\ source \in Sources /\ pos \in Nat \ {0}
  /\ lexed \in Seq(Token)
  /\ \A D \in SUBSET (InitLen..MaxLen) :
       InitLen \in D /\ (\A d \in D : d = MaxLen \/ 2 * d \in D) => cap \in D
  /\ LimitExact

=============================================================================
