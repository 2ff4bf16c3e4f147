------------------------------- MODULE VmPool -------------------------------
(***************************************************************************)
(* The object pool driven by the interpreter, which holds counted          *)
(* references in its registers and on its stacks.  u6a_vm_pool_free runs   *)
(* one cell at a time.  Freeing a cell that holds a saved stack calls      *)
(* vm_stack_free, which calls u6a_vm_pool_free again for each reference in *)
(* that stack: the inner calls share the one worklist fstack and the first *)
(* thing they do is to empty it.                                           *)
(***************************************************************************)
EXTENDS VmPoolOps, Counting

CONSTANTS MaxHeld,    (* bound: references to one cell in the interpreter  *)
          MaxSaved,   (* bound: references one saved stack holds           *)
          MaxLost     (* bound: references to one cell that may be lost    *)
                      (* before the interpreter stops                      *)

ASSUME BoundsAssumption == MaxHeld \in Nat /\ MaxSaved \in Nat /\ MaxLost \in Nat

(* NULL is no saved stack.                                                 *)
ASSUME NoSavedAssumption == \A n \in 0..MaxSaved : NoSaved \notin [1..n -> Cell]

NoRef == [ref |-> 0]
Ref(c) == [ref |-> c]
Var == {NoRef} \cup {Ref(c) : c \in Cell}

VARIABLES
  pool,    (* the pool, see VmPoolOps; saved[c] is the sequence of cells   *)
           (* that the stack c points to refers to, in the order           *)
           (* vm_stack_free visits them                                    *)
  held,    (* counted references in registers and active stack, per cell   *)
  pc,      (* "idle"; "elem", "next": in u6a_vm_pool_free, at the loop's   *)
           (* body and condition; "values": in vm_stack_free; "oom"        *)
  elem,    (* the local elem of u6a_vm_pool_free                           *)
  calls,   (* per running vm_stack_free, the references it has yet to free *)
  lost     (* history: references that were in fstack when it was emptied  *)

vars == <<pool, held, pc, elem, calls, lost>>

Live == {c \in Cell : pool.refcnt[c] > 0}

(* Between two operations of the interpreter on the pool.                  *)
Idle == pc = "idle" /\ \A c \in Cell : lost[c] <= MaxLost

(* The interpreter can put a value into a cell if it has it.               *)
Has(v) == v.ref # 0 => held[v.ref] > 0

(* What a cell refers to, 0 for a value that is no reference.              *)
Contents == [d \in Cell |-> IF pool.saved[d] # NoSaved THEN pool.saved[d]
                            ELSE <<pool.v1[d].ref, pool.v2[d].ref>>]

RefersTo(d, c) == Copies(c, Contents[d]) > 0

(* The cells that can be reached from those in S: the ones in every set    *)
(* around S that no reference leads out of.                                *)
Closed(T) == \A d \in T, c \in Cell : RefersTo(d, c) => c \in T

ReachableFrom(S) ==
  {c \in Cell : \A T \in SUBSET Cell : S \subseteq T /\ Closed(T) => c \in T}

Init ==
  /\ pool = NewPool(NoRef)
  /\ held = [c \in Cell |-> 0]
  /\ pc = "idle"
  /\ elem = 0
  /\ calls = <<>>
  /\ lost = [c \in Cell |-> 0]

(* POOL_ALLOC1 and POOL_ALLOC2: the interpreter adds the references the    *)
(* new cell takes first.                                                   *)
AllocPair(a, b) ==
  /\ Idle
  /\ Has(a) /\ Has(b)
  /\ HasRoom(pool)
  /\ pool' = Alloc(Addref(Addref(pool, a), b), a, b, NoSaved)
  /\ held' = [held EXCEPT ![NewCell(pool)] = 1]
  /\ UNCHANGED <<pc, elem, calls, lost>>

(* u6a_vm_stack_save and POOL_ALLOC2_PTR: the copied segment refers to the *)
(* cells in q.                                                             *)
AllocSaved(q) ==
  /\ Idle
  /\ \A c \in Cell : Copies(c, q) > 0 => held[c] > 0
  /\ HasRoom(pool)
  /\ pool' = Alloc([pool EXCEPT !.refcnt =
                      [c \in Cell |-> pool.refcnt[c] + Copies(c, q)]],
                   NoRef, NoRef, q)
  /\ held' = [held EXCEPT ![NewCell(pool)] = 1]
  /\ UNCHANGED <<pc, elem, calls, lost>>

(* vm_stack_free stops at a segment that a saved stack s lies on: what it  *)
(* refers to belongs to s from now on.  It was pushed before s was saved,  *)
(* so it cannot lead to s.                                                 *)
Inherit(s, c) ==
  /\ Idle
  /\ s \in Live /\ pool.saved[s] # NoSaved
  /\ held[c] > 0
  /\ Len(pool.saved[s]) < MaxSaved
  /\ s \notin ReachableFrom({c})
  /\ pool' = [pool EXCEPT !.saved[s] = Append(pool.saved[s], c)]
  /\ held' = [held EXCEPT ![c] = held[c] - 1]
  /\ UNCHANGED <<pc, elem, calls, lost>>

OutOfMemory ==
  /\ Idle
  /\ ~HasRoom(pool)
  /\ pc' = "oom"
  /\ UNCHANGED <<pool, held, elem, calls, lost>>

(* vm_var_fn_addref of a value the interpreter has; the interpreter can    *)
(* also take one out of a cell it has (u6a_vm_pool_get1, get2).            *)
Take(c) ==
  /\ Idle
  /\ held[c] < MaxHeld
  /\ \/ held[c] > 0
     \/ \E d \in Cell : held[d] > 0 /\ Ref(c) \in {pool.v1[d], pool.v2[d]}
  /\ pool' = Addref(pool, Ref(c))
  /\ held' = [held EXCEPT ![c] = held[c] + 1]
  /\ UNCHANGED <<pc, elem, calls, lost>>

(* vm_var_fn_free: u6a_vm_pool_free starts with an empty worklist.         *)
Drop(c) ==
  /\ Idle
  /\ held[c] > 0
  /\ held' = [held EXCEPT ![c] = held[c] - 1]
  /\ pool' = [pool EXCEPT !.fstack = <<>>]
  /\ elem' = c
  /\ pc' = "elem"
  /\ UNCHANGED <<calls, lost>>

(* The loop body.                                                          *)
FreeElem ==
  /\ pc = "elem"
  /\ pool' = FreeCell(pool, elem)
  /\ IF DropsToZero(pool, elem) /\ pool.saved[elem] # NoSaved
     THEN calls' = Append(calls, pool.saved[elem]) /\ pc' = "values"
     ELSE UNCHANGED calls /\ pc' = "next"
  /\ elem' = 0
  /\ UNCHANGED <<held, lost>>

FreeNextStays ==
  /\ pc = "next"
  /\ pool.fstack # <<>>
  /\ elem' = Last1(pool.fstack)
  /\ pool' = [pool EXCEPT !.fstack = Shorter(pool.fstack)]
  /\ pc' = "elem"
  /\ UNCHANGED <<held, calls, lost>>

(* The loop condition: the next cell of the worklist, or back to the       *)
(* caller.                                                                 *)
FreeNext ==
  /\ pc = "next"
  /\ IF pool.fstack # <<>>
     THEN /\ elem' = Last1(pool.fstack)
          /\ pool' = [pool EXCEPT !.fstack = Shorter(pool.fstack)]
          /\ pc' = "elem"
     ELSE /\ UNCHANGED <<elem, pool>>
          /\ pc' = IF calls = <<>> THEN "idle" ELSE "values"
  /\ UNCHANGED <<held, calls, lost>>

(* vm_stack_free: the next value of the segment, or back to the caller.    *)
FreeValue ==
  LET q == Last1(calls)
  IN  /\ pc = "values"
      /\ IF q # <<>>
         THEN /\ elem' = Head(q)
              /\ calls' = Append(Shorter(calls), Tail(q))
              /\ lost' = [c \in Cell |-> lost[c] + Copies(c, pool.fstack)]
              /\ pool' = [pool EXCEPT !.fstack = <<>>]
              /\ pc' = "elem"
         ELSE /\ calls' = Shorter(calls)
              /\ pc' = "next"
              /\ UNCHANGED <<elem, lost, pool>>
      /\ UNCHANGED held

Free == FreeElem \/ FreeNext \/ FreeValue

Next ==
  \/ \E a, b \in Var : AllocPair(a, b)
  \/ \E n \in 0..MaxSaved : \E q \in [1..n -> Cell] : AllocSaved(q)
  \/ \E s, c \in Cell : Inherit(s, c)
  \/ OutOfMemory
  \/ \E c \in Cell : Take(c) \/ Drop(c)
  \/ Free

(* A call of u6a_vm_pool_free runs to its end.                             *)
Spec == Init /\ [][Next]_vars /\ WF_vars(Free)

-----------------------------------------------------------------------------
(* What the pool ought to be.                                              *)

PoolType ==
  [pos    : 0..PoolLen,
   holes  : Seq(Cell),
   v1     : [Cell -> Var],
   v2     : [Cell -> Var],
   saved  : [Cell -> Seq(Cell) \cup {NoSaved}],
   refcnt : [Cell -> Nat],
   fstack : Seq(Cell)]

(* The pool's indices, the hole list and the recursion stack of vm_pool.c  *)
(* keep their ranges whatever is allocated and freed.                      *)
TypeOK ==
  /\ pool \in PoolType
  /\ held \in [Cell -> Nat] /\ lost \in [Cell -> Nat]
  /\ pc \in {"idle", "elem", "next", "values", "oom"}
  /\ elem \in Cell \cup {0}
  /\ calls \in Seq(Seq(Cell))

(* Every reference to c there is, those being dropped included.            *)
FromCells(c) == Cardinality(Places(c, Live, Contents))
FromCalls(c) == PlacesIn(c, calls)

References(c) ==
  held[c] + FromCells(c) + Copies(c, pool.fstack)
  + (IF elem = c THEN 1 ELSE 0) + FromCalls(c) + lost[c]

(* A cell's refcnt is the number of references to it, in the middle of a   *)
(* nested free too: a cell that somebody refers to is never reused, and    *)
(* one that nobody does never stays, but for the references that the       *)
(* emptied worklist forgot.                                                *)
CountsExact == \A c \in Cell : pool.refcnt[c] = References(c)

(* The holes are the cells that were handed out and are free, each once:   *)
(* no two allocations get the same cell.                                   *)
HolesExact ==
  /\ {pool.holes[i] : i \in DOMAIN pool.holes} = (1..pool.pos) \ Live
  /\ \A i, j \in DOMAIN pool.holes : pool.holes[i] = pool.holes[j] => i = j

(* When no free is running and no worklist was forgotten, every cell that  *)
(* is not free can be reached: counting collects everything, since cells   *)
(* refer to older ones only.                                               *)
NoGarbage ==
  pc = "idle" /\ (\A c \in Cell : lost[c] = 0) =>
    Live \subseteq ReachableFrom({c \in Cell : held[c] > 0})

(* The worklist is never longer than the number of free cells plus one.    *)
(* It is the pool that bounds it, and not the length of the program, for   *)
(* which u6a_vm_pool_init allocates it.                                    *)
WorklistBounded == Len(pool.fstack) <= Len(pool.holes) + 1

(* A live cell refers to older ones only, so that in any group of them     *)
(* there is one that none of the group refers to.                          *)
Acyclic ==
  \A S \in SUBSET Live :
    S # {} => \E c \in S : \A d \in S : ~RefersTo(d, c)

(* Where u6a_vm_pool_free and vm_stack_free are, and what is left to do.   *)
Control ==
  /\ elem # 0 <=> pc = "elem"
  /\ pc = "idle" => pool.fstack = <<>> /\ calls = <<>>
  /\ pc = "values" => calls # <<>>
  /\ pc = "elem" => Len(pool.fstack) <= Len(pool.holes)

(* A cell holds two values or a saved stack, and only cells that were      *)
(* handed out are live.                                                    *)
Cells ==
  /\ Live \subseteq 1..pool.pos
  /\ \A d \in Cell : pool.saved[d] # NoSaved =>
       /\ pool.v1[d] = NoRef /\ pool.v2[d] = NoRef
       /\ Len(pool.saved[d]) <= MaxSaved

(* What every step of the pool keeps, the middle of a nested free          *)
(* included.                                                               *)
PoolInv ==
  /\ TypeOK /\ Cells /\ Control
  /\ CountsExact /\ HolesExact /\ Acyclic /\ WorklistBounded

(* Freeing a cell, with all it takes along, comes to an end.               *)
FreeReturns == pc \in {"elem", "next", "values"} ~> pc = "idle"

=============================================================================
