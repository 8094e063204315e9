----------------------------- MODULE FreshRead -----------------------------
(***************************************************************************)
(* What a reader of a cached translation unit expects, and the docstring   *)
(* of astcache.is_valid promises ("the cached AST is still fresh"): a call *)
(* returns the AST of a version the source file had during the call, or    *)
(* nothing at all.                                                         *)
(***************************************************************************)
CONSTANTS Procs, Versions, None

VARIABLES
    src,    \* the version of the source file on disk
    call    \* per process: is a call running, what has src been since, the result

vars == <<src, call>>

Init ==
    /\ src \in Versions
    /\ call = [p \in Procs |-> [on |-> FALSE, seen |-> {}, got |-> None]]

Begin(p) ==
    /\ ~call[p].on
    /\ call' = [call EXCEPT ![p] = [on |-> TRUE, seen |-> {src}, got |-> None]]
    /\ UNCHANGED src

Return(p) ==
    /\ call[p].on
    /\ \E v \in call[p].seen \union {None} :
          call' = [call EXCEPT ![p] = [on |-> FALSE, seen |-> {}, got |-> v]]
    /\ UNCHANGED src

Edit ==
    /\ src' \in Versions
    /\ call' = [p \in Procs |-> [call[p] EXCEPT
                    !.seen = IF call[p].on THEN @ \union {src'} ELSE @]]

Next == Edit \/ \E p \in Procs : Begin(p) \/ Return(p)

Spec == Init /\ [][Next]_vars
=============================================================================
