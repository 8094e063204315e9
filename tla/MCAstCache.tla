----------------------------- MODULE MCAstCache -----------------------------
(***************************************************************************)
(* Instance of AstCache: three versions of one source file, two libclangs. *)
(***************************************************************************)
EXTENDS AstCache

CONSTANTS p1, p2

MCVersions == 1..3
MCLibs == {14, 18}
TwoLibs == [p \in Procs |-> IF p = p1 THEN 14 ELSE 18]

\* Each version has a time of its own.
MCMtime == [v \in MCVersions |-> v]

Forward == {<<1, 2>>, <<2, 3>>}
=============================================================================
