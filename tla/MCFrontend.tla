----------------------------- MODULE MCFrontend -----------------------------
(***************************************************************************)
(* Sources over the characters the lexer and the parser tell apart.        *)
(***************************************************************************)
EXTENDS Frontend

CONSTANTS MaxShape,    (* bound: characters, over an application and i     *)
          MaxLeaves,   (* the same with two more tokens                    *)
          MaxChars     (* the same over all the kinds of characters        *)

UpTo(n, chars) == UNION {[1..k -> chars] : k \in 0..n}

(* `i, `ir, and `I.?#, a newline, a blank, x and a byte of a longer        *)
(* character.                                                              *)
MCSources == UpTo(MaxShape, {96, 105}) \cup UpTo(MaxLeaves, {96, 105, 114, 124})
               \cup UpTo(MaxChars, {96, 73, 46, 63, 35, 10, 32, 120, 200})

=============================================================================
