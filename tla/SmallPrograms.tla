--------------------------- MODULE SmallPrograms ----------------------------
(***************************************************************************)
(* Programs to check the compiler and the interpreter with, in prefix      *)
(* notation, and the syntax trees the parser makes of them.                *)
(***************************************************************************)
EXTENDS Defs, FiniteSets

Ap(l, r) == <<Tok("app")>> \o l \o r

(* All expressions with at most max applications.                          *)
Exprs(leaves, max) ==
  LET e[n \in 0..max] ==
        IF n = 0 THEN {<<t>> : t \in leaves}
        ELSE UNION {{Ap(l, r) : l \in e[k], r \in e[n - 1 - k]}
                      : k \in 0..(n - 1)}
  IN  UNION {e[n] : n \in 0..max}

(* The parser's array for the program q, which e is applied to: the right  *)
(* sibling of a left child follows the end of its expression.              *)
Array(q) ==
  LET p == Ap(<<Tok("e")>>, q)
      Apps(m, n) == Cardinality({i \in m..n : IsApp(p[i])})
      EndOf(m) == CHOOSE n \in m..Len(p) :
                    /\ 2 * Apps(m, n) = n - m
                    /\ \A k \in m..(n - 1) : 2 * Apps(m, k) # k - m
  IN  [n \in DOMAIN p |->
         [tok |-> p[n],
          sibling |-> IF n > 1 /\ IsApp(p[n - 1]) THEN EndOf(n) + 1 ELSE 0]]

=============================================================================
