----------------------------- MODULE MCMoulAdmin -----------------------------
(* Small instances of MoulAdmin for TLC. *)
EXTENDS MoulAdmin, TLC

CONSTANTS ca, cb

\* A unique text; a number beside a text, so that going from one schema to the
\* other changes a type and adds or drops a column; and that text made unique,
\* so that a column with an index is dropped and existing values get an index.
Def(x, y) == [c \in Columns |-> IF c = ca THEN x ELSE y]
ThreeDefinitions == {Def("unique", "none"), Def("number", "text"), Def("none", "unique")}

AdminSymmetry == Permutations(Admins) \cup Permutations(Names)

==============================================================================
