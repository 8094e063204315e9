------------------------------ MODULE PchSurvey ------------------------------
(***************************************************************************)
(* The C++ port's survey for a corpus PCH: threads that take the units one by  *)
(* one, run a compiler on each and add up the headers that it names            *)
(* (survey_headers and scan_one of clangx/pch.cpp, run of util/subprocess.cpp). *)
(*                                                                         *)
(* The two pipes of a run are one here.  Their write ends are not closed on    *)
(* exec, so a compiler that another thread starts while they are open in this  *)
(* process keeps them, and their reader waits for it too.  Time is abstracted  *)
(* to which compilers run past the deadline.                                  *)
(***************************************************************************)
EXTENDS Integers, Sequences, FiniteSets

CONSTANTS
    Corpora,    \* sequences of units: [headers, direct, start], where start is how the
                \* compiler does: "ends", "hangs" past its deadline, or "none" is found
    Jobs        \* how many threads may run

VARIABLES
    tus,        \* the units of the survey
    next,       \* the first that no thread has taken
    thread,     \* for each thread: [pc, tu, found], found being what scan_one returns
    child,      \* for each unit: [alive, ends], ends the units whose pipes it can write to
    survey      \* [freq, directable, lost], lost being the units that were given up

surveyVars == <<tus, next, thread, child, survey>>

Threads == 1..Jobs
NotRun == [alive |-> FALSE, ends |-> {}]
Nothing == [headers |-> {}, direct |-> {}]
Waiting == [pc |-> "take", tu |-> 0, found |-> Nothing]
Empty == [freq |-> << >>, directable |-> {}, lost |-> {}]

\* As many threads as there are units, at most.
SurveyInit ==
    /\ tus \in Corpora
    /\ next = 1
    /\ thread = [t \in Threads |-> [Waiting EXCEPT !.pc = IF t <= Len(tus) THEN "take" ELSE "done"]]
    /\ child = [i \in DOMAIN tus |-> NotRun]
    /\ survey = Empty

-----------------------------------------------------------------------------

\* scan_one: the headers of the tree that the compiler prints, those at its first level apart;
\* files that are no headers or no longer there are not in them.
Scan(i) == [headers |-> tus[i].headers, direct |-> tus[i].direct]

Stands(t, pc) == thread[t].pc = pc
Moves(t, pc) == thread' = [thread EXCEPT ![t].pc = pc]

\* The next unit is taken and its pipes are made; without one the thread ends.
Take(t) ==
    /\ Stands(t, "take")
    /\ IF next <= Len(tus)
       THEN thread' = [thread EXCEPT ![t] = [pc |-> "spawn", tu |-> next, found |-> Nothing]]
       ELSE Moves(t, "done")
    /\ next' = next + 1
    /\ UNCHANGED <<tus, child, survey>>

\* The units whose write ends are open in this process.
OpenHere == {thread[t].tu : t \in {s \in Threads : thread[s].pc \in {"spawn", "close"}}}

\* posix_spawnp: the compiler has its own pipes and every other that is open now.  One that is
\* not found leaves a message that names no header.
Spawn(t) ==
    LET i == thread[t].tu
    IN  /\ Stands(t, "spawn")
        /\ IF tus[i].start = "none"
           THEN Moves(t, "merge") /\ UNCHANGED child
           ELSE /\ child' = [child EXCEPT ![i] = [alive |-> TRUE, ends |-> OpenHere]]
                /\ Moves(t, "close")
        /\ UNCHANGED <<tus, next, survey>>

\* The write ends are closed here, and the deadline begins.
CloseEnds(t) ==
    /\ Stands(t, "close")
    /\ Moves(t, "poll")
    /\ UNCHANGED <<tus, next, child, survey>>

\* Both pipes are at their end when nobody can write to them any more.
ReadToTheEnd(t) ==
    LET i == thread[t].tu
    IN  /\ Stands(t, "poll")
        /\ \A j \in DOMAIN tus : i \notin child[j].ends
        /\ thread' = [thread EXCEPT ![t].pc = "wait", ![t].found = Scan(i)]
        /\ UNCHANGED <<tus, next, child, survey>>

\* The deadline kills nobody (SIGKILL left out).
TimesOutOnly(t) ==
    LET i == thread[t].tu
    IN  /\ Stands(t, "poll")
        /\ \E j \in DOMAIN tus : i \in child[j].ends /\ tus[j].start = "hangs"
        /\ survey' = [survey EXCEPT !.lost = @ \union {i}]
        /\ Moves(t, "wait")
        /\ UNCHANGED <<tus, next, child>>

\* The deadline passes while somebody who runs that long holds the pipes: the own compiler is
\* killed, also when it has ended long since, and what it wrote is dropped.
TimesOut(t) ==
    LET i == thread[t].tu
    IN  /\ Stands(t, "poll")
        /\ \E j \in DOMAIN tus : i \in child[j].ends /\ tus[j].start = "hangs"
        /\ child' = [child EXCEPT ![i] = NotRun]
        /\ survey' = [survey EXCEPT !.lost = @ \union {i}]
        /\ Moves(t, "wait")
        /\ UNCHANGED <<tus, next>>

\* waitpid, which has no deadline.
Reap(t) ==
    /\ Stands(t, "wait")
    /\ ~child[thread[t].tu].alive
    /\ Moves(t, "merge")
    /\ UNCHANGED <<tus, next, child, survey>>

\* What one unit found is added up under the lock.
Merge(t) ==
    LET found == thread[t].found
        Freq(h) == IF h \in DOMAIN survey.freq THEN survey.freq[h] ELSE 0
    IN  /\ Stands(t, "merge")
        /\ survey' = [survey EXCEPT
               !.freq = [h \in DOMAIN @ \union found.headers |->
                            Freq(h) + (IF h \in found.headers THEN 1 ELSE 0)],
               !.directable = @ \union found.direct]
        /\ thread' = [thread EXCEPT ![t] = Waiting]
        /\ UNCHANGED <<tus, next, child>>

\* A compiler ends, and with it its ends of all pipes.
ChildEnds(i) ==
    /\ child[i].alive /\ tus[i].start = "ends"
    /\ child' = [child EXCEPT ![i] = NotRun]
    /\ UNCHANGED <<tus, next, thread, survey>>

SurveyNext ==
    \/ \E t \in Threads :
          \/ Take(t) \/ Spawn(t) \/ CloseEnds(t) \/ ReadToTheEnd(t) \/ TimesOut(t)
          \/ Reap(t) \/ Merge(t)
    \/ \E i \in DOMAIN tus : ChildEnds(i)

\* Every step brings some thread or compiler nearer to its end: weak fairness of all of them
\* together is that of each.
SurveySpec == SurveyInit /\ [][SurveyNext]_surveyVars /\ WF_surveyVars(SurveyNext)

-----------------------------------------------------------------------------

Joined == \A t \in Threads : Stands(t, "done")

\* The survey ends, whatever compilers hang or hold each other's pipes, and counts each unit
\* that was not given up exactly once; when no compiler hangs none is given up.
SurveyCountsEach ==
    <>(/\ Joined
       /\ LET Scanned == {i \in DOMAIN tus : tus[i].start # "none"} \ survey.lost
          IN  /\ DOMAIN survey.freq = UNION {tus[i].headers : i \in Scanned}
              /\ \A h \in DOMAIN survey.freq :
                    survey.freq[h] = Cardinality({i \in Scanned : h \in tus[i].headers})
              /\ survey.directable = UNION {tus[i].direct : i \in Scanned}
       /\ (\A i \in DOMAIN tus : tus[i].start # "hangs") => survey.lost = {})
=============================================================================
