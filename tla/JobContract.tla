----------------------------- MODULE JobContract -----------------------------
(***************************************************************************)
(* What Vcs::Job promises to whoever asks for a command, whatever          *)
(* transports it (vcsprocess.h: class Job, run()): an answer fires at most *)
(* once, never in the step that asks for it, never once the job is         *)
(* cancelled or its context has died, and otherwise always.                *)
(*                                                                         *)
(* JobQueue (one process per job) and HgServerPool (commands on running hg *)
(* servers) are both checked to implement this specification.              *)
(***************************************************************************)
EXTENDS Naturals

CONSTANT Jobs

VARIABLES
    asked,      \* the jobs a caller has asked for
    excused,    \* the jobs that owe no answer: cancelled, or their context is dead
    answers     \* how many times each job's callback has fired

contractVars == <<asked, excused, answers>>

ContractInit ==
    /\ asked = {}
    /\ excused = {}
    /\ answers = [j \in Jobs |-> 0]

Ask(j) ==
    /\ j \notin asked
    /\ asked' = asked \cup {j}
    /\ UNCHANGED <<excused, answers>>

\* A cancellation excuses one job, a context's death all of the context's.
Excuse(S) ==
    /\ excused' = excused \cup S
    /\ UNCHANGED <<asked, answers>>

Answer(j) ==
    /\ j \in asked \ excused
    /\ answers[j] = 0
    /\ answers' = [answers EXCEPT ![j] = 1]
    /\ UNCHANGED <<asked, excused>>

ContractNext ==
    \/ \E j \in Jobs : Ask(j) \/ Answer(j)
    \/ \E S \in SUBSET Jobs : Excuse(S)

ContractSafety == ContractInit /\ [][ContractNext]_contractVars

Contract == ContractSafety /\ \A j \in Jobs : WF_contractVars(Answer(j))
==============================================================================
