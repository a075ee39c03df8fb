----------------------------- MODULE MCRealtime -----------------------------
(* Instances of Realtime for TLC. *)
EXTENDS Realtime, TLC

CONSTANTS m1, m2

OnlyAll == {AllMouls}

\* The record is hidden from the members by the change.
Hidings == {[old |-> "members", new |-> "hidden"]}

\* Room for one stream of the user, for two of the address.
Caps == [k \in Slots |-> IF k = "ip" THEN 2 ELSE 1]

Symmetry == Permutations(Streams) \cup Permutations(Publishers)

=============================================================================
