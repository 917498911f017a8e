-------------------------- MODULE MCQueryExecution --------------------------
(***************************************************************************)
(* QueryExecution on small instances.                                      *)
(***************************************************************************)
EXTENDS QueryExecution, TLC

\* Queries, keys, threads and tasks are each interchangeable
Symmetry ==
    { p @@ q @@ r @@ s : p \in Permutations(Queries), q \in Permutations(Keys),
                         r \in Permutations(Workers), s \in Permutations(TaskIds) }

\* Any age, always execute, and results up to one tick old
MCMaxAges == {-1, 0, 1}
=============================================================================
