----------------------------- MODULE MCIndexRun -----------------------------
(***************************************************************************)
(* Instance of IndexRun: a library header h1 declares reg and helper and    *)
(* has the inline body run; the backends a1 and b1 each define reg.         *)
(* Mirrors the fixture of project/tests/test_multi_definition.py.           *)
(***************************************************************************)
EXTENDS IndexRun

CONSTANTS p1, p2, a1, b1, h1, v1, v2, reg, run, helper

MCTUs == {a1, b1}
MCHeaders == {h1}
MCContents == {v1, v2}
MCSymbols == {reg, run, helper}

MCFiles == MCTUs \union MCHeaders

\* h1 declares what it calls; b1's second version declares the helper itself.
MCDeclares == [f \in MCFiles |-> [c \in MCContents |->
    CASE f = h1 -> {reg, run}
      [] f = b1 /\ c = v2 -> {helper}
      [] OTHER -> {}]]

\* h1 loses its inline body in v2; a1 gains a definition of the helper.
MCDefines == [f \in MCFiles |-> [c \in MCContents |->
    CASE f = h1 -> IF c = v1 THEN {run} ELSE {}
      [] f = a1 /\ c = v2 -> {reg, helper}
      [] OTHER -> {reg}]]

MCCalls == [f \in MCFiles |-> [c \in MCContents |-> [u \in MCSymbols |->
    CASE f = h1 /\ u = run -> {reg}
      [] f = a1 /\ u = reg -> IF c = v1 THEN {helper} ELSE {reg}
      [] f = b1 /\ u = reg -> IF c = v1 THEN {run} ELSE {}
      [] OTHER -> {}]]]

\* b1's classes mention what h1 declares.
MCMentions == [f \in MCFiles |-> [c \in MCContents |-> IF f = b1 THEN {run} ELSE {}]]

MCIncludes == [f \in MCFiles |-> [c \in MCContents |-> IF f = h1 THEN {} ELSE {h1}]]

MCInitial == [f \in MCFiles |-> v1]

NoFatal == {}
NoSets == {}
B1Fatal == {<<b1, v2>>}

\* Edits that only move forward, edits that may be undone, edits that also
\* remove a file, and edits of one kind of file alone.
Forward == {<<v1, v2>>}
Undo == {<<v1, v2>>, <<v2, v1>>}

EachFile == {{a1}, {b1}, {h1}}
=============================================================================
