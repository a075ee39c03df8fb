----------------------------- MODULE MCRecords -----------------------------
(* Small instances of Records for TLC: posts, and comments that point to    *)
(* posts and to each other.                                                 *)
EXTENDS Records, TLC

CONSTANTS p1, p2, c1, c2

MoulOfIds == [i \in Ids |-> IF i \in {p1, p2} THEN "posts" ELSE "comments"]
HolderOfFields == [f \in Fields |-> "comments"]
TargetOfFields == [f \in Fields |-> IF f = "post" THEN "posts" ELSE "comments"]

\* Posts that in turn point to comments.
CrossedHolder == [f \in Fields |-> IF f = "post" THEN "comments" ELSE "posts"]

Config(c, d, e, g) == [card |-> [f \in Fields |-> IF f = "post" THEN c ELSE e],
                       onDelete |-> [f \in Fields |-> IF f = "post" THEN d ELSE g]]

\* Cascades along a tree and around its cycles; lists that are rewritten;
\* restrictions through lists; a tree of lists that cascades; and a restriction
\* below a cascade.
Cascading  == Config("1:N", "CASCADE", "1:1", "CASCADE")
Clearing   == Config("1:N", "", "M:N", "SET_NULL")
Restricted == Config("M:N", "RESTRICT", "1:1", "")
Listed     == Config("1:1", "RESTRICT", "M:N", "CASCADE")
Mixed      == Config("1:N", "CASCADE", "1:N", "RESTRICT")

MostlyLive == {Ids, Ids \ {c2}}

EverySchema == {Cascading, Clearing, Restricted, Listed, Mixed}
OnlyMixed == {Mixed}

Symmetry ==
  Permutations(Requests) \cup Permutations(Ids \cap {p1, p2}) \cup Permutations(Ids \cap {c1, c2})

============================================================================
