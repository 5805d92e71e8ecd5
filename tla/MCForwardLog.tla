---------------------------- MODULE MCForwardLog ----------------------------
EXTENDS ForwardLog, TLC

CONSTANTS s1, s2

\* One slot on each of two days, or one slot alone.
OneSlotADay == s1 :> 1 @@ s2 :> 2
OneSlot == s1 :> 1

\* The two labels play the same part in every definition.
LabelSymmetry == Permutations(Labels)
=============================================================================
