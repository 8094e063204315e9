----------------------------- MODULE MCResolve ------------------------------
(***************************************************************************)
(* Instance of Resolve: the header h1 declares base and has an inline run  *)
(* that calls it; mid overrides base and leaf overrides mid; both units    *)
(* define leaf (a1 loses it in v2, b1's calls base).                       *)
(***************************************************************************)
EXTENDS Resolve

CONSTANTS p1, a1, b1, h1, v1, v2, base, mid, leaf, run

MCTUs == {a1, b1}
MCHeaders == {h1}
MCContents == {v1, v2}
MCSymbols == {base, mid, leaf, run}
MCFiles == MCTUs \union MCHeaders

MCDeclares == [f \in MCFiles |-> [c \in MCContents |-> IF f = h1 THEN {base} ELSE {}]]

\* a1 loses its leaf in v2.
MCDefines == [f \in MCFiles |-> [c \in MCContents |->
    CASE f = h1 -> {run}
      [] f = a1 -> IF c = v1 THEN {mid, leaf} ELSE {mid}
      [] OTHER -> {leaf}]]

MCCalls == [f \in MCFiles |-> [c \in MCContents |-> [u \in MCSymbols |->
    CASE f = h1 /\ u = run -> {base}
      [] f = a1 /\ u = mid -> {leaf}
      [] f = b1 /\ u = leaf /\ c = v2 -> {leaf, base}
      [] OTHER -> {}]]]

MCOverrides == [f \in MCFiles |-> [c \in MCContents |->
    CASE f = a1 -> {<<mid, base>>} \union (IF c = v1 THEN {<<leaf, mid>>} ELSE {})
      [] f = b1 -> {<<leaf, mid>>}
      [] OTHER -> {}]]

MCMentions == [f \in MCFiles |-> [c \in MCContents |-> {o[2] : o \in MCOverrides[f][c]}]]

MCIncludes == [f \in MCFiles |-> [c \in MCContents |-> IF f = h1 THEN {} ELSE {h1}]]

\* The other files are in their last version: only a1 is edited.
MCInitial == [f \in MCFiles |-> IF f = a1 THEN v1 ELSE v2]

Forward == {<<v1, v2>>}
Dropped == {{a1}}
NoSets == {}
=============================================================================
