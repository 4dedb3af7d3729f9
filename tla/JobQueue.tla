------------------------------- MODULE JobQueue -------------------------------
(***************************************************************************)
(* The process transport: Vcs::run(), ProcessJob and the JobQueue that     *)
(* caps how many processes run at once (vcsprocess.cpp).                   *)
(*                                                                         *)
(* Everything happens on the GUI thread, one event handler at a time.  An  *)
(* action is one handler or one call, run to completion, with one          *)
(* exception: a job's callback is arbitrary application code.  It may call *)
(* run() and cancel(), destroy windows, or open a dialog whose nested      *)
(* event loop delivers any other event, so it is two actions: the handler  *)
(* up to the call (the job is then "answering") and the return from it.    *)
(*                                                                         *)
(* The pending deque is the set of its jobs with the order run() pushed    *)
(* them in (arrival): it is only ever appended to and removed from.        *)
(***************************************************************************)
EXTENDS Arrivals

CONSTANTS
    Jobs,                   \* the commands callers may ask for, each once
    Contexts,               \* the QObjects whose death drops their jobs
    NoContext,              \* the context of a job that has none
    ContextOf,              \* the context each job is asked with
    MaxConcurrentProcesses

ASSUME JobQueueAssumption ==
    /\ IsFiniteSet(Jobs)
    /\ NoContext \notin Contexts
    /\ ContextOf \in [Jobs -> Contexts \cup {NoContext}]
    /\ MaxConcurrentProcesses \in Nat \ {0}

VARIABLES
    pending,    \* JobQueue::pending
    running,    \* JobQueue::running, the count of taken slots
    arrival,    \* the order run() was called in; 0 before that
    phase,      \* where each job is in its life
    cancelled,  \* the jobs with Job::_cancelled set
    tooLarge,   \* the jobs with Job::_outputTooLarge set
    alive,      \* the contexts that still exist
    answers,    \* history: how often each job's callback was called
    outcome     \* history: the ProcessOutcome the callback was given

vars == <<pending, running, arrival, phase, cancelled, tooLarge, alive, answers, outcome>>

(***************************************************************************)
(* The life of a ProcessJob.  "refused": start() has returned without a    *)
(* process and the queued errorOccurred handler is still to run.           *)
(* "doomed": deleteLater() was called.                                     *)
(***************************************************************************)
Phases == {"fresh", "pending", "running", "refused", "answering", "doomed", "deleted"}

Outcomes == {"Exited", "Crashed", "LaunchFailed", "OutputTooLarge"}

Asked == {j \in Jobs : phase[j] # "fresh"}

\* Holding a slot of MaxConcurrentProcesses.
Occupying == {j \in Jobs : phase[j] \in {"running", "refused"}}

\* !_hasContext || _context
HasListener(j) == ContextOf[j] = NoContext \/ ContextOf[j] \in alive

-------------------------------------------------------------------------------

Init ==
    /\ pending = {}
    /\ running = 0
    /\ arrival = [j \in Jobs |-> 0]
    /\ phase = [j \in Jobs |-> "fresh"]
    /\ cancelled = {}
    /\ tooLarge = {}
    /\ alive = Contexts
    /\ answers = [j \in Jobs |-> 0]
    /\ outcome = [j \in Jobs |-> "none"]

\* The jobs of the queue somebody still listens to.
Listened(queue) == {j \in queue : HasListener(j)}

\* Mutant of Started: the queue is served from its back.
StartedNewestFirst(queue, order, room) ==
    FirstServed(Listened(queue), [j \in queue |-> -order[j]], room)

\* Those of them pump() starts: pop_front() of what push_back() appended.
Started(queue, order, room) == FirstServed(Listened(queue), order, room)

\* The others pump() pops: it goes on while a slot is free.
Abandoned(queue, order, room) ==
    {j \in queue \ Listened(queue) : Cardinality(Before(Listened(queue), order, j)) < room}

(***************************************************************************)
(* JobQueue::pump() on a queue with the given slots taken.  Popped jobs    *)
(* nobody listens to any more are discarded unstarted; the OS may refuse   *)
(* to launch any of the others.                                            *)
(***************************************************************************)
Pump(queue, order, taken, life) ==
    LET started   == Started(queue, order, MaxConcurrentProcesses - taken)
        abandoned == Abandoned(queue, order, MaxConcurrentProcesses - taken)
    IN  /\ pending' = queue \ (started \cup abandoned)
        /\ running' = taken + Cardinality(started)
        /\ \E refused \in SUBSET started :
              phase' = [j \in Jobs |->
                          IF j \in refused THEN "refused"
                          ELSE IF j \in started THEN "running"
                          ELSE IF j \in abandoned THEN "doomed"
                          ELSE life[j]]

\* Vcs::run(): the asking code names a context that exists, or none.
Run(j) ==
    /\ phase[j] = "fresh"
    /\ HasListener(j)
    /\ arrival' = [arrival EXCEPT ![j] = Cardinality(Asked) + 1]
    /\ Pump(pending \cup {j}, arrival', running, [phase EXCEPT ![j] = "pending"])
    /\ UNCHANGED <<cancelled, tooLarge, alive, answers, outcome>>

(***************************************************************************)
(* ProcessJob::cancel().  Only a job with no process yet leaves the queue  *)
(* here; one with a process has it killed and keeps its slot until the     *)
(* signal that reports the end (a kill only hastens that end, so it is not *)
(* a state).  A Query may still cancel a job that has been answered or     *)
(* discarded, which changes nothing anyone reads.                          *)
(***************************************************************************)
Cancel(j) ==
    /\ phase[j] \in {"pending", "running", "refused"}
    /\ cancelled' = cancelled \cup {j}
    /\ \/ /\ phase[j] = "pending"
          /\ pending' = pending \ {j}
          /\ phase' = [phase EXCEPT ![j] = "doomed"]
       \/ /\ phase[j] # "pending"
          /\ UNCHANGED <<pending, phase>>
    /\ UNCHANGED <<running, arrival, tooLarge, alive, answers, outcome>>

\* A window closes or a dialog is deleted: its jobs lose their listener.
DestroyContext(c) ==
    /\ c \in alive
    /\ alive' = alive \ {c}
    /\ UNCHANGED <<pending, running, arrival, phase, cancelled, tooLarge, answers, outcome>>

\* collectOutput() passes the limit of a job that has one, and stopProducingOutput()
\* kills the process.
OutputPastLimit(j) ==
    /\ phase[j] = "running"
    /\ j \notin tooLarge
    /\ tooLarge' = tooLarge \cup {j}
    /\ UNCHANGED <<pending, running, arrival, phase, cancelled, alive, answers, outcome>>

\* Mutant of FinishProcess: the queue is pumped only for a job that is still wanted.
FinishProcessPumpsWanted(j, result) ==
    /\ IF j \notin cancelled /\ HasListener(j)
       THEN /\ Pump(pending, arrival, running - 1, [phase EXCEPT ![j] = "answering"])
            /\ answers' = [answers EXCEPT ![j] = @ + 1]
            /\ outcome' = [outcome EXCEPT ![j] = IF j \in tooLarge THEN "OutputTooLarge" ELSE result]
       ELSE /\ running' = running - 1
            /\ phase' = [phase EXCEPT ![j] = "doomed"]
            /\ UNCHANGED <<pending, answers, outcome>>
    /\ UNCHANGED <<arrival, cancelled, tooLarge, alive>>

\* Mutant of FinishProcess: the context is not looked at again before the callback, and
\* the kill's own outcome is reported.
FinishProcessTrustsContext(j, result) ==
    /\ IF j \notin cancelled
       THEN /\ Pump(pending, arrival, running - 1, [phase EXCEPT ![j] = "answering"])
            /\ answers' = [answers EXCEPT ![j] = @ + 1]
            /\ outcome' = [outcome EXCEPT ![j] = result]
       ELSE /\ Pump(pending, arrival, running - 1, [phase EXCEPT ![j] = "doomed"])
            /\ UNCHANGED <<answers, outcome>>
    /\ UNCHANGED <<arrival, cancelled, tooLarge, alive>>

(***************************************************************************)
(* ProcessJob::finishProcess() and Job::finish(): the slot is freed and    *)
(* the queue pumped before the callback, which is skipped once the job is  *)
(* cancelled or its context is dead.                                       *)
(***************************************************************************)
FinishProcess(j, result) ==
    /\ IF j \notin cancelled /\ HasListener(j)
       THEN /\ Pump(pending, arrival, running - 1, [phase EXCEPT ![j] = "answering"])
            /\ answers' = [answers EXCEPT ![j] = @ + 1]
            /\ outcome' = [outcome EXCEPT ![j] = IF j \in tooLarge THEN "OutputTooLarge" ELSE result]
       ELSE /\ Pump(pending, arrival, running - 1, [phase EXCEPT ![j] = "doomed"])
            /\ UNCHANGED <<answers, outcome>>
    /\ UNCHANGED <<arrival, cancelled, tooLarge, alive>>

\* QProcess::finished.  A kill may come too late, the process having exited by then.
ProcessFinished(j) ==
    /\ phase[j] = "running"
    /\ \E result \in {"Exited", "Crashed"} : FinishProcess(j, result)

\* The queued QProcess::errorOccurred(FailedToStart).
LaunchRefused(j) ==
    /\ phase[j] = "refused"
    /\ FinishProcess(j, "LaunchFailed")

\* The callback has returned: Job::finish() calls deleteLater().
CallbackReturned(j) ==
    /\ phase[j] = "answering"
    /\ phase' = [phase EXCEPT ![j] = "doomed"]
    /\ UNCHANGED <<pending, running, arrival, cancelled, tooLarge, alive, answers, outcome>>

DeleteDeferred(j) ==
    /\ phase[j] = "doomed"
    /\ phase' = [phase EXCEPT ![j] = "deleted"]
    /\ UNCHANGED <<pending, running, arrival, cancelled, tooLarge, alive, answers, outcome>>

Next ==
    \/ \E j \in Jobs :
          \/ Run(j)
          \/ Cancel(j)
          \/ OutputPastLimit(j)
          \/ ProcessFinished(j)
          \/ LaunchRefused(j)
          \/ CallbackReturned(j)
          \/ DeleteDeferred(j)
    \/ \E c \in Contexts : DestroyContext(c)

(***************************************************************************)
(* The tools terminate (run() sets no time limit), a posted event is       *)
(* delivered, and a callback returns, its dialogs being closed in the end. *)
(***************************************************************************)
Fairness ==
    \A j \in Jobs :
        /\ WF_vars(ProcessFinished(j))
        /\ WF_vars(LaunchRefused(j))
        /\ WF_vars(CallbackReturned(j))
        /\ WF_vars(DeleteDeferred(j))

Spec == Init /\ [][Next]_vars /\ Fairness

-------------------------------------------------------------------------------

TypeOK ==
    /\ pending \in SUBSET Jobs
    /\ running \in Nat
    /\ arrival \in [Jobs -> Nat]
    /\ phase \in [Jobs -> Phases]
    /\ cancelled \in SUBSET Jobs
    /\ tooLarge \in SUBSET Jobs
    /\ alive \in SUBSET Contexts
    /\ answers \in [Jobs -> Nat]
    /\ outcome \in [Jobs -> Outcomes \cup {"none"}]

(***************************************************************************)
(* No slot leaks and none is freed twice: through cancellations, refused   *)
(* launches, kills and dead contexts, the counter of JobQueue is the       *)
(* number of jobs between start() and the end of their process, and never  *)
(* above the cap.                                                          *)
(***************************************************************************)
SlotAccounting ==
    /\ running = Cardinality(Occupying)
    /\ running <= MaxConcurrentProcesses

(***************************************************************************)
(* A job only waits while every slot is taken: whatever path a process     *)
(* ends on, the queue is pumped (cancelling a queued job frees no slot, so *)
(* cancel() need not pump).                                                *)
(***************************************************************************)
WorkConserving == pending # {} => running >= MaxConcurrentProcesses

\* Both: the slots are counted right, and none idles while a job waits.
SlotsAreUsed == SlotAccounting /\ WorkConserving

\* The queue is what phase says it is: erase() and pump() leave nothing dangling in it.
QueueHoldsPending == pending = {j \in Jobs : phase[j] = "pending"}

(***************************************************************************)
(* First in, first out: no job is started while a job asked for earlier,   *)
(* and still listened to, is left waiting.                                 *)
(***************************************************************************)
NoOvertaking ==
    [][\A j, k \in Jobs :
          /\ phase[j] = "pending" /\ phase'[j] \in {"running", "refused"}
          /\ phase[k] = "pending" /\ arrival[k] < arrival[j] /\ HasListener(k)
          => phase'[k] # "pending"]_vars

(***************************************************************************)
(* The transport keeps the contract of Vcs::Job (vcsprocess.h).            *)
(***************************************************************************)
Promise == INSTANCE JobContract WITH
    asked   <- Asked,
    excused <- cancelled \cup {j \in Jobs : ~HasListener(j)},
    answers <- answers

KeepsContract == Promise!Contract

\* An oversize answer is never passed off as a complete one, whatever the kill made of the process.
OversizeIsNamed ==
    \A j \in Jobs : j \in tooLarge /\ answers[j] > 0 => outcome[j] = "OutputTooLarge"

\* Every job object is deleted in the end, the discarded and the cancelled ones included.
NoJobLeaks == \A j \in Jobs : j \in Asked ~> phase[j] = "deleted"
===============================================================================
