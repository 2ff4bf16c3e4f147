-------------------------------- MODULE Defs --------------------------------
(***************************************************************************)
(* The data the compiler and the runtime share (defs.h, vm_defs.h).        *)
(* Characters are numbers, 0 is NUL.                                       *)
(***************************************************************************)
EXTENDS Integers, Sequences

NUL == 0

(* struct u6a_token; fn = "" is the placeholder 0, which stands for an     *)
(* empty AST node or an operand that is not there.                         *)
Tok(fn)     == [fn |-> fn, ch |-> NUL]
TokCh(f, c) == [fn |-> f, ch |-> c]
NoTok       == Tok("")

TokenFns == {"k", "s", "i", "v", "c", "d", "e", "in", "pipe", "out", "cmp", "app"}

(* A token of the source.  The character of one that prints or compares    *)
(* can be printed itself.                                                  *)
Token == {t \in [fn : TokenFns, ch : 0..255] :
            t.fn \in {"out", "cmp"} => t.ch \in (32..126) \cup {10}}

IsApp(t) == t.fn = "app"

(* An array of nodes is a tree when its first node is an application, an   *)
(* application has its left child next to it and its right one, which the  *)
(* sibling of the left one names, behind that, every other node is the     *)
(* child of one application, and what begins in a left child ends in it.   *)
Children(a, n) == {n + 1, a[n + 1].sibling}

IsTree(a) ==
  /\ a \in Seq([tok : Token, sibling : Nat])
  /\ a # <<>> /\ IsApp(a[1].tok)
  /\ \A n \in DOMAIN a :
       IsApp(a[n].tok) => n + 1 \in DOMAIN a /\ a[n + 1].sibling \in (n + 2)..Len(a)
  /\ \A m \in DOMAIN a \ {1} :
       \E n \in 1..(m - 1) : IsApp(a[n].tok) /\ m \in Children(a, n)
  /\ \A n, k \in DOMAIN a :
       IsApp(a[n].tok) /\ IsApp(a[k].tok) /\ n # k =>
         Children(a, n) \cap Children(a, k) = {}
  /\ \A n, k \in DOMAIN a :
       IsApp(a[n].tok) /\ IsApp(a[k].tok) /\ k \in (n + 1)..(a[n + 1].sibling - 1) =>
         a[k + 1].sibling < a[n + 1].sibling

(* struct u6a_vm_ins: an opcode, the operands of app, the offset of the    *)
(* others.                                                                 *)
AppIns(a, b)  == [op |-> "app", first |-> a, second |-> b, offset |-> 0]
OpIns(op, n)  == [op |-> op, first |-> NoTok, second |-> NoTok, offset |-> n]

(* The opcodes with U6A_VM_OP_OFFSET.                                      *)
HasOffset(ins) == ins.op \in {"sa", "del", "lc"}

(* htonl and ntohl of a 32-bit number on a little-endian machine.          *)
Swap32(n) == LET b0 == n % 256
                 b1 == (n \div 256) % 256
                 b2 == (n \div 65536) % 256
                 b3 == n \div 16777216
             IN  b0 * 16777216 + b1 * 65536 + b2 * 256 + b3

=============================================================================
