----------------------------- MODULE MCRuntime ------------------------------
(***************************************************************************)
(* Small programs for the interpreter, by theme.                           *)
(***************************************************************************)
EXTENDS Runtime, SmallPrograms

CONSTANTS MaxApps,   (* bound: applications of a program, padding apart    *)
          MaxIoApps  (* the same for programs that read                    *)

A == 1
B == 2
T(fn) == <<Tok(fn)>>
OutA  == <<TokCh("out", A)>>
OutB  == <<TokCh("out", B)>>

(* Programs that read nothing, and programs run on each of some inputs.    *)
On(p, q)      == [ast |-> Array(p), input |-> q]
Silent(ps)    == {On(p, <<>>) : p \in ps}
Reading(ps)   == {On(p, q) : p \in ps, q \in {<<>>, <<A>>, <<B>>}}

(* The parser applies e; identities in front of the program are applied    *)
(* last, which keeps jumps and strings away from the end of the text.      *)
Pad(n) == [i \in 1..(2 * n) |-> IF i % 2 = 1 THEN Tok("app") ELSE Tok("i")]
Padded(ps) == {Pad(4) \o p : p \in ps}

(* ````sXYZW over a set of operands.                                       *)
Fives(args) ==
  {Ap(Ap(Ap(Ap(T("s"), x), y), z), w) : x, y, z, w \in args}

(* Combinators and promises.                                               *)
PureLeaves == {Tok("s"), Tok("k"), Tok("i"), Tok("d"), TokCh("out", A)}
PureArgs   == {T("s"), T("k"), T("i"), T("d"), OutA, Ap(T("k"), T("d")),
               Ap(T("k"), T("s")), Ap(T("d"), Ap(OutA, T("i")))}

(* Strings of prints, alone and as operands.                               *)
String  == Ap(OutA, Ap(OutB, Ap(OutA, Ap(OutB, T("i")))))
Strings == {String, Ap(OutB, String), Ap(Ap(T("d"), String), T("i")),
            Ap(Ap(T("k"), String), Ap(OutA, String))}

(* Continuations.                                                          *)
ContLeaves == {Tok("s"), Tok("i"), Tok("c"), Tok("d"), TokCh("out", A)}
ContArgs   == {T("i"), T("c"), T("d"), OutA, Ap(T("k"), T("c")),
               Ap(T("c"), T("i"))}

(* Nested operands, so that the stack fills a segment and more.            *)
Nest(n, p) == LET q[k \in 0..n] == IF k = 0 THEN p
                                   ELSE Ap(Ap(T("i"), T("i")), q[k - 1])
              IN  q[n]
Nested == {Nest(n, Ap(Ap(f, T("i")), OutA)) :
             n \in 4..7, f \in {T("c"), T("s")}}

(* Input.                                                                  *)
IoLeaves == {Tok("in"), Tok("pipe"), TokCh("cmp", A), Tok("d"), Tok("c"),
             Tok("v"), Tok("i"), TokCh("out", B)}

IoPrograms   == Exprs(IoLeaves, MaxIoApps)
PureOrCont   == Exprs(PureLeaves, MaxApps) \cup Exprs(ContLeaves, MaxApps)
OfFive       == Fives(PureArgs) \cup Fives(ContArgs)

MCPrograms == Silent(Padded(PureOrCont \cup OfFive \cup Strings \cup Nested))
                \cup Reading(Padded(IoPrograms) \cup IoPrograms)
                \cup Silent(Strings)

(* Without padding.                                                        *)
AsWritten == Silent(Exprs(PureLeaves, MaxApps))

=============================================================================
