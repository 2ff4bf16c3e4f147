------------------------------- MODULE MCU6a --------------------------------
(***************************************************************************)
(* Command lines of up to MaxOptions options.  A byte has 2 values here    *)
(* instead of 256, so that a number of 32 bits is one of 4, and the limits *)
(* of the sizes are scaled down with it.                                   *)
(***************************************************************************)
EXTENDS U6a

CONSTANTS MaxOptions

MCMin     == [s |-> 3, p |-> 2]
MCMax     == [s |-> 8, p |-> 10]
MCDefault == [s |-> 4, p |-> 5]

(* Numbers below, at and above the limits, one that is in range only when  *)
(* it is cut to 32 bits, and one of more than 64.                          *)
Flags   == {[o |-> o, n |-> 0] : o \in {"i", "f", "H", "V", "?"}}
Numbers == {[o |-> o, n |-> n] : o \in {"s", "p"}, n \in {0, 3, 8, 11, 20, 260}}

MCArgs == UNION {[1..k -> Flags \cup Numbers] : k \in 0..MaxOptions}

(* Program headers that are not read, that end behind the first section's  *)
(* size, in the middle of the second one's, right, and too long.  The text *)
(* is empty, one instruction, or one and a half.  The file ends before the *)
(* program header, in it, in one of the sections, with them and later.     *)
MCFiles ==
  {[found |-> FALSE, same_ver |-> TRUE, prog_header_size |-> 8, bytes |-> 0,
    text_size |-> 0, rodata_size |-> 0]}
  \cup [found : {TRUE}, same_ver : BOOLEAN, prog_header_size : {3, 4, 6, 8, 9},
        bytes : {0, 5, 8, 13, 18, 30}, text_size : {0, 12}, rodata_size : {2}]

=============================================================================
