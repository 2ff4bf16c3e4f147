----------------------------- MODULE MCVmStack -----------------------------
(***************************************************************************)
(* Model values and bounds for VmStack.                                    *)
(***************************************************************************)
EXTENDS VmStack, TLC

CONSTANTS g1, g2, g3, g4, g5, v1, v2

(* Values: a small stack with values that can be told apart.               *)
MCSeg4     == {g1, g2, g3, g4}
MCValue    == {v1, v2}
MCPushes   == {<<v1>>, <<v2, v1, v1, v2>>}
MCSymmetry4 == Permutations(MCSeg4)

(* Shape: more segments and continuations, values that are all the same.   *)
MCSeg5      == {g1, g2, g3, g4, g5}
MCOneValue  == {v1}
MCOnePushes == {<<v1, v1>>, <<v1, v1, v1, v1>>}
MCSymmetry5 == Permutations(MCSeg5)

(* Behaviours are followed up to their first defect.                       *)
UpToDefect == broken = {}

(* After a defect nothing is allocated any more: what was in use by then   *)
(* is taken apart.                                                         *)
NoGrowth == broken # {} => stk'.live \subseteq stk.live

=============================================================================
