------------------------------- MODULE MCU6ac -------------------------------
(***************************************************************************)
(* A few programs with every short command line, and many programs with a  *)
(* few command lines: all programs up to a number of applications, over    *)
(* leaves that the generator tells apart, and chains of prints.            *)
(***************************************************************************)
EXTENDS U6ac, SmallPrograms

CONSTANTS MaxOptions,   (* bound: options on a command line                *)
          MaxApps,      (* bound: applications, over all the leaves        *)
          MaxShape,     (* the same over two leaves                        *)
          MaxPrints,    (* bound: the length of a chain                    *)
          LongPrints    (* lengths of chains of one character              *)

Leaf  == {Tok("i"), Tok("d"), TokCh("out", 10), TokCh("out", 32)}
Chain == {TokCh("out", 10), TokCh("out", 97)}

(* Chains of functions applied one after the other, prints for the most    *)
(* part, so that strings get longer.                                       *)
Chains(max) ==
  LET c[n \in 1..max] ==
        IF n = 1 THEN {<<Tok("app"), t, TokCh("cmp", 97)>> : t \in Chain}
        ELSE {<<Tok("app"), t>> \o q : t \in Chain \cup {Tok("d")}, q \in c[n - 1]}
  IN  UNION {c[n] : n \in 1..max}

LongChain(n) ==
  [i \in 1..(2 * n + 1) |->
    CASE i = 2 * n + 1            -> Tok("k")
      [] i <= 2 * n /\ i % 2 = 1 -> Tok("app")
      [] i <= 2 * n /\ i % 4 = 0 -> TokCh("out", 10)
      [] i <= 2 * n /\ i % 4 = 2 -> TokCh("out", 97)]

ManyAsts == {Array(q) : q \in Exprs(Leaf, MaxApps) \cup Chains(MaxPrints)
                                \cup Exprs({Tok("i"), Tok("d")}, MaxShape)
                                \cup {LongChain(n) : n \in LongPrints}}
FewAsts  == {Array(LongChain(n)) : n \in {1, 4}}
MCAsts   == ManyAsts \cup FewAsts

Flag(o) == <<o, "">>
Letters == {Flag(o) : o \in {"p", "S", "v", "s", "H", "V", "?"}}
             \cup {<<"O", "0">>, <<"o", "out">>, <<"o", "src">>, <<"o", "-">>}

Names    == {"src", "src.bc", "src.bc.dump", "out", "-"}
MCWords  == Names \cup {"", "0", "1", "STDOUT"}
Files(h) == [f \in Names |-> IF f = "src" THEN "old" ELSE h]

Job(opts, input, h, a) == [opts |-> opts, input |-> input, files |-> Files(h), ast |-> a]

MCJobs ==
  {Job(opts, i, h, a) : opts \in UNION {[1..k -> Letters] : k \in 0..MaxOptions},
                        i \in {"", "-", "src"}, h \in {"none", "old"}, a \in FewAsts}
  \cup
  {Job(opts, "src", "old", a) : opts \in {<<>>, <<<<"O", "0">>>>, <<Flag("S")>>},
                                a \in ManyAsts}

=============================================================================
