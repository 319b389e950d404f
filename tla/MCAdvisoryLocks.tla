--------------------------- MODULE MCAdvisoryLocks ---------------------------
(* A small tree for model checking AdvisoryLocks: the root, "/a" and the   *)
(* file "/a/x" in it.                                                      *)
EXTENDS AdvisoryLocks, TLC

MCPaths == {<<>>, <<"a">>, <<"a", "x">>}

Symmetry == Permutations(LockIds)
=============================================================================
