--------------------------- MODULE MCProjectStore ---------------------------
(* Model checking of ProjectStore: processes, identities and keys are       *)
(* interchangeable.                                                        *)
EXTENDS ProjectStore, TLC

\* All but the two that leave one field less than another of them.
MCRecorded ==
    {e \in Observations : CASE e.t = "programmed" -> e.key # None
                            [] e.t = "indeterminate" -> e.key = None
                            [] OTHER -> TRUE}

Symmetry == Permutations(Procs) \cup Permutations(Ids) \cup Permutations(GroupKeys)
=============================================================================
