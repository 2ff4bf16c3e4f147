----------------------------- MODULE VmPoolOps ------------------------------
(***************************************************************************)
(* The object pool (vm_pool.h, vm_pool.c) as operators on one record:      *)
(*                                                                         *)
(*   pos     how many cells were ever handed out from the end of the pool; *)
(*           cell c is the code's elems[c - 1]                             *)
(*   holes   the cells given back, the next one to be reused last          *)
(*   v1, v2  the two values of a cell                                      *)
(*   saved   the stack a cell with HOLDS_PTR points to, NULL without it    *)
(*   refcnt  the reference counts                                          *)
(*   fstack  the worklist of u6a_vm_pool_free, next cell last              *)
(*                                                                         *)
(* A value is a record with a field ref, the cell it refers to when its    *)
(* function has the REF flag and 0 when it has not.                        *)
(***************************************************************************)
EXTENDS Integers, Sequences

CONSTANTS PoolLen,   (* ctx->pool_len, the cells of the pool               *)
          NoSaved    (* no stack pointer in a cell                         *)

ASSUME PoolLenAssumption == PoolLen \in Nat

Cell == 1..PoolLen

Last1(q)   == q[Len(q)]
Shorter(q) == SubSeq(q, 1, Len(q) - 1)

NewPool(none) ==
  [pos    |-> 0,
   holes  |-> <<>>,
   v1     |-> [c \in Cell |-> none],
   v2     |-> [c \in Cell |-> none],
   saved  |-> [c \in Cell |-> NoSaved],
   refcnt |-> [c \in Cell |-> 0],
   fstack |-> <<>>]

(* u6a_vm_pool_elem_alloc_: a hole if there is one, else the next cell.    *)
HasRoomTooLong(p) == p.holes # <<>> \/ p.pos <= PoolLen
HasRoom(p) == p.holes # <<>> \/ p.pos < PoolLen
NewCell(p) == IF p.holes = <<>> THEN p.pos + 1 ELSE Last1(p.holes)

(* u6a_vm_pool_alloc1, alloc2 and, with a stack, alloc2_ptr.               *)
Alloc(p, a, b, s) ==
  LET c == NewCell(p)
  IN  [p EXCEPT !.pos       = IF p.holes = <<>> THEN p.pos + 1 ELSE p.pos,
                !.holes     = IF p.holes = <<>> THEN <<>> ELSE Shorter(p.holes),
                !.v1[c]     = a,
                !.v2[c]     = b,
                !.saved[c]  = s,
                !.refcnt[c] = 1]

AddrefNone(p, v) == p

(* u6a_vm_pool_addref, for values with the REF flag only.                  *)
Addref(p, v) == IF v.ref = 0 THEN p
                ELSE [p EXCEPT !.refcnt[v.ref] = p.refcnt[v.ref] + 1]

(* u6a_free_stack_push_.                                                   *)
FreePushNone(fs, v) == fs
FreePush(fs, v) == IF v.ref = 0 THEN fs ELSE Append(fs, v.ref)

(* The body of u6a_vm_pool_free's loop for cell c; a stack pointer is left *)
(* to the caller.                                                          *)
DropsToZero(p, c) == p.refcnt[c] = 1

FreeCellAgain(p, c) ==
  [p EXCEPT !.refcnt[c] = p.refcnt[c] - 1, !.holes = Append(p.holes, c)]

FreeCellDeep(p, c) ==
  [p EXCEPT !.refcnt[c] = p.refcnt[c] - 1,
            !.fstack    = FreePush(FreePush(p.fstack, p.v2[c]), p.v1[c])]

FreeCell(p, c) ==
  LET n == p.refcnt[c] - 1
  IN  IF n # 0
      THEN [p EXCEPT !.refcnt[c] = n]
      ELSE [p EXCEPT !.refcnt[c] = 0,
                     !.holes     = Append(p.holes, c),
                     !.fstack    = IF p.saved[c] # NoSaved THEN p.fstack
                                   ELSE FreePush(FreePush(p.fstack, p.v2[c]),
                                                 p.v1[c])]

=============================================================================
