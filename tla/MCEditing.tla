------------------------------ MODULE MCEditing ------------------------------
(***************************************************************************)
(* Editing a row of two columns with two values each.                      *)
(***************************************************************************)
EXTENDS Editing, TLC

CONSTANTS c1, c2, text, options

BothKinds == {Dashboard, Query}
OnlyQuery == {Query}

\* Pages are interchangeable, and so are the columns
Symmetry == { p @@ q : p \in Permutations({c1, c2}), q \in Permutations({text, options}) }
=============================================================================
