------------------------------ MODULE QueryRound ------------------------------
(***************************************************************************)
(* A set of queries launched together on the process transport, and the    *)
(* function that runs once the last has answered (queryround.h).           *)
(*                                                                         *)
(* The end of a round is a reference count: the launching scope and the    *)
(* callback of every query hold one reference.  A callback lets go of its  *)
(* own when it returns, except where its onResult captured a copy of the   *)
(* round to launch more from (gitrepository.cpp does so for its chained    *)
(* queries): that copy lives until the job object is deleted.              *)
(***************************************************************************)
EXTENDS JobQueue

CONSTANTS
    RoundJobs,  \* the jobs launched by the round; the others compete for the slots
    Capturing,  \* those whose onResult holds a copy of the round
    Scope       \* the launching scope, as a holder of the round's end

ASSUME QueryRoundAssumption ==
    /\ RoundJobs \subseteq Jobs
    /\ Capturing \subseteq RoundJobs
    /\ Scope \notin Jobs

VARIABLES
    holders,    \* who holds a reference to QueryRound::End
    thenRuns    \* how many times ~End() has run `then`

roundVars == <<vars, holders, thenRuns>>

RoundInit ==
    /\ Init
    /\ holders = {Scope}
    /\ thenRuns = 0

\* One reference goes; the last one to go runs `then`.
Release(x) ==
    /\ holders' = holders \ {x}
    /\ thenRuns' = IF holders = {x} THEN thenRuns + 1 ELSE thenRuns

Hold(j) ==
    /\ holders' = holders \cup {j}
    /\ UNCHANGED thenRuns

KeepHolders == UNCHANGED <<holders, thenRuns>>

\* The launching code, and the callback of a query that captured the round.
CanLaunch ==
    \/ Scope \in holders
    \/ \E k \in Capturing : phase[k] = "answering"

\* Mutant of Launch: the callback is given no reference to the round's end.
LaunchUnheld(j) ==
    /\ CanLaunch
    /\ Run(j)
    /\ KeepHolders

\* QueryRound::launch().
Launch(j) ==
    /\ CanLaunch
    /\ Run(j)
    /\ Hold(j)

EndOfScope ==
    /\ Scope \in holders
    /\ Release(Scope)
    /\ UNCHANGED vars

\* The callback returns: end.reset(), unless onResult holds the round itself.
RoundCallbackReturned(j) ==
    /\ CallbackReturned(j)
    /\ IF j \in Capturing THEN KeepHolders ELSE Release(j)

\* Mutant of RoundJobDeleted: only a callback that ran lets go of the round.
RoundJobDeletedSilently(j) ==
    /\ DeleteDeferred(j)
    /\ IF j \in holders /\ answers[j] > 0 THEN Release(j) ELSE KeepHolders

\* The job is deleted, and its callback with it, called or not.
RoundJobDeleted(j) ==
    /\ DeleteDeferred(j)
    /\ IF j \in holders THEN Release(j) ELSE KeepHolders

RoundNext ==
    \/ EndOfScope
    \/ \E j \in RoundJobs :
          \/ Launch(j)
          \/ RoundCallbackReturned(j)
          \/ RoundJobDeleted(j)
    \/ /\ \/ \E j \in Jobs : Cancel(j) \/ OutputPastLimit(j) \/ ProcessFinished(j) \/ LaunchRefused(j)
          \/ \E j \in Jobs \ RoundJobs : Run(j) \/ CallbackReturned(j) \/ DeleteDeferred(j)
          \/ \E c \in Contexts : DestroyContext(c)
       /\ KeepHolders

\* As for the jobs; and the launching scope ends, being a function body.
RoundFairness ==
    /\ WF_roundVars(EndOfScope)
    /\ \A j \in Jobs :
          /\ WF_roundVars(ProcessFinished(j) /\ KeepHolders)
          /\ WF_roundVars(LaunchRefused(j) /\ KeepHolders)
    /\ \A j \in RoundJobs :
          /\ WF_roundVars(RoundCallbackReturned(j))
          /\ WF_roundVars(RoundJobDeleted(j))
    /\ \A j \in Jobs \ RoundJobs :
          /\ WF_roundVars(CallbackReturned(j) /\ KeepHolders)
          /\ WF_roundVars(DeleteDeferred(j) /\ KeepHolders)

RoundSpec == RoundInit /\ [][RoundNext]_roundVars /\ RoundFairness

-------------------------------------------------------------------------------

(***************************************************************************)
(* `then` runs at most once, and not before every query of the round, the  *)
(* ones launched from another's answer included, has answered or been      *)
(* dropped: what it reads is complete.                                     *)
(***************************************************************************)
ThenRunsLast ==
    /\ thenRuns <= 1
    /\ thenRuns = 1 => \A j \in RoundJobs : phase[j] \in {"fresh", "doomed", "deleted"}

(***************************************************************************)
(* The round ends whatever becomes of its queries: refused launches,       *)
(* cancellations and the death of the context included (queryround.h:      *)
(* "`then` also runs when the context dies mid-round").                    *)
(***************************************************************************)
RoundEnds == <>(thenRuns = 1)
===============================================================================
