------------------------------ MODULE Counting ------------------------------
(***************************************************************************)
(* Counting the references that sequences hold: the values of a segment,   *)
(* the cells that a pool cell or a worklist refers to.                     *)
(***************************************************************************)
EXTENDS Integers, Sequences, FiniteSets

(* Where x is in the sequence q, and how often.                            *)
Where(x, q)  == {i \in DOMAIN q : q[i] = x}
Copies(x, q) == Cardinality(Where(x, q))

(* The places at which x is in the sequences f[d], for d in D.             *)
Places(x, D, f) == UNION {{d} \X Where(x, f[d]) : d \in D}

(* How often x is in a sequence of sequences.                              *)
PlacesIn(x, f) == Cardinality(Places(x, DOMAIN f, f))

=============================================================================
