------------------------------ MODULE AbsStack ------------------------------
(***************************************************************************)
(* What the segmented stack promises the interpreter: one stack of values, *)
(* and snapshots of it that stay what they were until they are reinstated  *)
(* or thrown away.  Segments, sharing and copying do not appear.           *)
(***************************************************************************)
EXTENDS Integers, Sequences

CONSTANTS Value, Pushes, Handle

VARIABLES stack,  (* the values, last one on top                           *)
          snap    (* the saved stacks, by handle                           *)

Init == stack = <<>> /\ snap = <<>>

Push == \E vs \in Pushes : stack' = stack \o vs /\ UNCHANGED snap

Pop == /\ stack # <<>>
       /\ stack' = SubSeq(stack, 1, Len(stack) - 1)
       /\ UNCHANGED snap

Xch == /\ Len(stack) >= 2
       /\ \E v \in Value : stack' = [stack EXCEPT ![Len(stack) - 1] = v]
       /\ UNCHANGED snap

Save(h) == /\ h \notin DOMAIN snap
           /\ snap' = [g \in DOMAIN snap \cup {h} |->
                         IF g = h THEN stack ELSE snap[g]]
           /\ UNCHANGED stack

Discard(h) == /\ h \in DOMAIN snap
              /\ snap' = [g \in DOMAIN snap \ {h} |-> snap[g]]
              /\ UNCHANGED stack

(* Reinstating either uses the snapshot up or leaves it for another time.  *)
Resume(h) == /\ h \in DOMAIN snap
             /\ stack' = snap[h]
             /\ \/ snap' = [g \in DOMAIN snap \ {h} |-> snap[g]]
                \/ UNCHANGED snap

Next == \/ Push \/ Pop \/ Xch
        \/ \E h \in Handle : Save(h) \/ Discard(h) \/ Resume(h)

=============================================================================
