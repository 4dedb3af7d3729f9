----------------------------- MODULE IncomingCheck -----------------------------
(***************************************************************************)
(* The check for what the upstream has and HEAD lacks: when a commit       *)
(* window starts one (commitwindow.cpp), what a git repository does for it *)
(* beside its refreshes (checkIncoming of gitrepository.cpp), and the      *)
(* dialog that lists a repository's own answer and its submodules'         *)
(* (incomingchangesdialog.cpp).  A count is known by what it was read      *)
(* from, a pair of the tracking ref and HEAD, both counted in commits of   *)
(* the one branch; a submodule's check is only its answer.                 *)
(***************************************************************************)
EXTENDS Integers, Sequences, SequencesExt, FiniteSets

CONSTANTS SubmoduleCount,  \* cloned submodules, in path order
          MaxRemoteCommits, \* bound: commits on the remote's branch
          MaxEvents        \* bound: what users and others do in a behaviour

ASSUME IncomingCheckAssumption ==
    /\ SubmoduleCount \in Nat /\ MaxRemoteCommits \in Nat /\ MaxEvents \in Nat

VARIABLES
    remote, tracking, local, \* commits on the remote's branch, its tracking ref, HEAD
    hasUpstream, \* HEAD's branch has an upstream that is not gone
    state,      \* what is read of Repository::_state
    run,        \* the refresh under way
    again,      \* Repository::_refreshPending
    pushing,    \* Repository::_pushHolder
    check,      \* the window's own check
    window,     \* the window's members of the check
    dialog,     \* _incomingDialog
    fetched,    \* history: the tracking ref as the last check's fetch left it
    events

refs == <<remote, tracking, local, hasUpstream>>
refreshVars == <<state, run, again>>
checkVars == <<refs, refreshVars, pushing, check, window, dialog, fetched, events>>

ClonedSubmodules == 1..SubmoduleCount
Answers == {"upToDate", "incoming", "failed"}
Unread == [tracking |-> 0, local |-> 0]
NoRun == [step |-> "none", ok |-> FALSE, upstream |-> FALSE, behind |-> Unread]
NewRun == [NoRun EXCEPT !.step = "asked"]
NoCheck == [step |-> "none", behind |-> Unread]
NoDialog == [open |-> FALSE, own |-> FALSE, asked |-> FALSE, pending |-> {}, hasRow |-> {}, rows |-> <<>>, upToDate |-> {}]

Event == events < MaxEvents /\ events' = events + 1

incomingCheckPossible(s) == s.upstream

CheckTypeOK ==
    /\ 0 <= local /\ local <= tracking /\ tracking <= remote /\ remote <= MaxRemoteCommits
    /\ hasUpstream \in BOOLEAN /\ again \in BOOLEAN /\ pushing \in BOOLEAN
    /\ run.step \in {"none", "asked", "read"}
    /\ check.step \in {"none", "headRef", "fetch", "wait", "count", "counted", "list"}
    /\ window.outcome \in {"None", "Succeeded", "Failed"}
    /\ dialog.pending \cup dialog.hasRow \cup dialog.upToDate \subseteq ClonedSubmodules
    /\ fetched \in 0..tracking
-----------------------------------------------------------------------------
(* The window. *)

\* startIncomingCheck(), with `_sinceIncomingCheck`: the last began under a minute ago.
startIncomingCheck(w) == [w EXCEPT !.inFlight = TRUE, !.recent = TRUE]

(* startDueIncomingCheck(), of window w over state s. *)
startDueIncomingCheck(w, s) ==
    IF w.due /\ ~w.inFlight /\ ~pushing /\ incomingCheckPossible(s)
    THEN /\ window' = startIncomingCheck([w EXCEPT !.due = FALSE])
         /\ check' = [NoCheck EXCEPT !.step = "headRef"]
    ELSE window' = w /\ UNCHANGED check

(* Repository::refresh() *)
Refresh ==
    IF run.step = "none" THEN run' = NewRun /\ UNCHANGED again
                         ELSE again' = TRUE /\ UNCHANGED run

\* F5
AskRefresh ==
    /\ Event
    /\ window' = [window EXCEPT !.due = TRUE]
    /\ Refresh
    /\ UNCHANGED <<refs, state, pushing, check, dialog, fetched>>

\* changeEvent(), on activation
Activate ==
    /\ Event
    /\ ~window.recent
    /\ IF window.stateWasRead THEN startDueIncomingCheck([window EXCEPT !.due = TRUE], state)
                              ELSE window' = [window EXCEPT !.due = TRUE] /\ UNCHANGED check
    /\ UNCHANGED <<refs, refreshVars, pushing, dialog, fetched>>

\* IncomingCheckIntervalMs pass.
MinutePasses ==
    /\ Event
    /\ window.recent
    /\ window' = [window EXCEPT !.recent = FALSE]
    /\ UNCHANGED <<refs, refreshVars, pushing, check, dialog, fetched>>

\* Ctrl+I; a dialog already open is only activated.
checkForIncomingChanges ==
    /\ Event
    /\ incomingCheckPossible(state)
    /\ ~dialog.open
    /\ dialog' = [NoDialog EXCEPT !.open = TRUE, !.pending = ClonedSubmodules]
    /\ IF window.inFlight THEN UNCHANGED <<window, check>>
                          ELSE /\ window' = startIncomingCheck(window)
                               /\ check' = [NoCheck EXCEPT !.step = "headRef"]
    /\ UNCHANGED <<refs, refreshVars, pushing, fetched>>

PushStarts ==
    /\ Event
    /\ ~pushing
    /\ pushing' = TRUE
    /\ UNCHANGED <<refs, refreshVars, check, window, dialog, fetched>>

\* endPush() and pushEnded, then refreshAfterPush().
PushEnds ==
    /\ pushing
    /\ pushing' = FALSE
    /\ window' = [window EXCEPT !.due = TRUE]
    /\ Refresh
    /\ UNCHANGED <<refs, state, check, dialog, fetched, events>>
-----------------------------------------------------------------------------
(* The repository's refresh. *)

\* The status of the branch, read with the rest of the run.
RefreshReads ==
    /\ run.step = "asked"
    /\ \E ok \in BOOLEAN :
          run' = [step |-> "read", ok |-> ok, upstream |-> hasUpstream,
                  behind |-> [tracking |-> tracking, local |-> local]]
    /\ UNCHANGED <<refs, state, again, pushing, check, window, dialog, fetched, events>>

(* completeRefresh(): the window is told, a pending refresh starts, and    *)
(* who waited for this run goes on.                                        *)
EndRefresh ==
    /\ run.step = "read"
    /\ state' = IF run.ok THEN [upstream |-> run.upstream, behind |-> run.behind] ELSE state
    /\ run' = IF again THEN NewRun ELSE NoRun
    /\ again' = FALSE
    /\ LET w == [window EXCEPT !.stateWasRead = @ \/ run.ok]
       IN  IF check.step = "wait" THEN window' = w /\ check' = [check EXCEPT !.step = "count"]
                                  ELSE startDueIncomingCheck(w, state')
    /\ UNCHANGED <<refs, pushing, dialog, fetched, events>>

\* The watch reports a change made outside.
RefreshIsDue ==
    /\ run.step = "none"
    /\ state.upstream # hasUpstream \/ state.behind # [tracking |-> tracking, local |-> local]
    /\ Refresh
    /\ UNCHANGED <<refs, state, pushing, check, window, dialog, fetched, events>>
-----------------------------------------------------------------------------
(* The check. *)

\* Mutant of AnswerCheck: a failure is told to the header only.
AnswerCheckUntold(outcome) ==
    /\ check' = NoCheck
    /\ window' = [window EXCEPT !.inFlight = FALSE, !.outcome = outcome]
    /\ dialog' = IF dialog.open /\ outcome = "Succeeded" THEN [dialog EXCEPT !.own = TRUE] ELSE dialog

\* The window's callback: the answer ends the check and the open dialog takes it, once.
AnswerCheck(outcome) ==
    /\ check' = NoCheck
    /\ window' = [window EXCEPT !.inFlight = FALSE, !.outcome = outcome]
    /\ dialog' = IF dialog.open THEN [dialog EXCEPT !.own = TRUE] ELSE dialog

CheckGoesOn(step) == check' = [check EXCEPT !.step = step] /\ UNCHANGED <<window, dialog>>

HeadRefAnswers ==
    /\ check.step = "headRef"
    /\ \/ CheckGoesOn("fetch")
       \/ AnswerCheck("Failed")
    /\ UNCHANGED <<refs, refreshVars, pushing, fetched, events>>

\* Mutant of afterCurrentRefresh: the count is taken beside a refresh that may end after it.
afterNothing == "count"

\* runAfterCurrentRefresh()
afterCurrentRefresh == IF run.step = "none" THEN "count" ELSE "wait"

FetchAnswers ==
    /\ check.step = "fetch"
    /\ \/ /\ tracking' = remote
          /\ fetched' = remote
          /\ CheckGoesOn(afterCurrentRefresh)
       \/ AnswerCheck("Failed") /\ UNCHANGED <<tracking, fetched>>
    /\ UNCHANGED <<remote, local, hasUpstream, refreshVars, pushing, events>>

\* `rev-list --count` reads the refs
CountReads ==
    /\ check.step = "count"
    /\ check' = [step |-> "counted", behind |-> [tracking |-> tracking, local |-> local]]
    /\ UNCHANGED <<refs, refreshVars, pushing, window, dialog, fetched, events>>

\* setBehindCount(), without a refresh
CountAnswers ==
    /\ check.step = "counted"
    /\ \/ state' = [state EXCEPT !.behind = check.behind] /\ CheckGoesOn("list")
       \/ AnswerCheck("Failed") /\ UNCHANGED state
    /\ UNCHANGED <<refs, run, again, pushing, fetched, events>>

ListAnswers ==
    /\ check.step = "list"
    /\ \E outcome \in {"Succeeded", "Failed"} : AnswerCheck(outcome)
    /\ UNCHANGED <<refs, refreshVars, pushing, fetched, events>>
-----------------------------------------------------------------------------
(* The dialog's submodules.  rows holds those with a row of their own;     *)
(* 0 stands for the row of those up to date, the last.                     *)

insertRow(d, i) == InsertAt(d.rows, 1 + Cardinality({j \in d.hasRow : j < i}), i)

\* recordSubmoduleAnswer()
recordSubmoduleAnswer(d, i, answer) ==
    IF answer = "upToDate"
    THEN [d EXCEPT !.pending = @ \ {i}, !.upToDate = @ \cup {i},
                   !.rows = IF d.upToDate = {} THEN Append(@, 0) ELSE @]
    ELSE [d EXCEPT !.pending = @ \ {i}, !.hasRow = @ \cup {i}, !.rows = insertRow(d, i)]

\* startSubmoduleChecks(): without the branches every submodule has failed.
BranchesAnswer ==
    /\ dialog.open /\ ~dialog.asked /\ SubmoduleCount > 0
    /\ \E ok \in BOOLEAN :
          dialog' = LET asked == [dialog EXCEPT !.asked = TRUE]
                        fail(d, i) == recordSubmoduleAnswer(d, i, "failed")
                    IN  IF ok THEN asked ELSE FoldLeft(fail, asked, [i \in ClonedSubmodules |-> i])
    /\ UNCHANGED <<refs, refreshVars, pushing, check, window, fetched, events>>

SubmoduleAnswers ==
    /\ dialog.open /\ dialog.asked
    /\ \E i \in dialog.pending, answer \in Answers : dialog' = recordSubmoduleAnswer(dialog, i, answer)
    /\ UNCHANGED <<refs, refreshVars, pushing, check, window, fetched, events>>

\* Closing drops the submodule checks still running; the window's own goes on.
CloseDialog ==
    /\ Event
    /\ dialog.open
    /\ dialog' = NoDialog
    /\ UNCHANGED <<refs, refreshVars, pushing, check, window, fetched>>
-----------------------------------------------------------------------------
(* Others push to the remote, pull here, or give the branch its upstream.  *)
Others ==
    /\ Event
    /\ \/ remote < MaxRemoteCommits /\ remote' = remote + 1 /\ UNCHANGED <<tracking, local, hasUpstream>>
       \/ tracking' = remote /\ local' = remote /\ UNCHANGED <<remote, hasUpstream>>
       \/ hasUpstream' = ~hasUpstream /\ UNCHANGED <<remote, tracking, local>>
    /\ UNCHANGED <<refreshVars, pushing, check, window, dialog, fetched>>

CheckInit ==
    /\ remote \in 0..MaxRemoteCommits /\ tracking = 0 /\ local = 0
    /\ hasUpstream \in BOOLEAN
    /\ state = [upstream |-> FALSE, behind |-> Unread]
    /\ run = NewRun /\ again = FALSE
    /\ pushing = FALSE
    /\ check = NoCheck
    /\ window = [due |-> TRUE, inFlight |-> FALSE, recent |-> FALSE, stateWasRead |-> FALSE, outcome |-> "None"]
    /\ dialog = NoDialog
    /\ fetched = 0
    /\ events = 0

UserActions == AskRefresh \/ Activate \/ MinutePasses \/ checkForIncomingChanges \/ PushStarts \/ CloseDialog
RefreshSteps == RefreshReads \/ EndRefresh
CheckSteps == HeadRefAnswers \/ FetchAnswers \/ CountReads \/ CountAnswers \/ ListAnswers
DialogSteps == BranchesAnswer \/ SubmoduleAnswers

CheckNext == UserActions \/ PushEnds \/ RefreshSteps \/ RefreshIsDue \/ CheckSteps \/ DialogSteps \/ Others

(* Every command ends, so every query is answered and every push ends.     *)
Fairness == /\ WF_checkVars(RefreshSteps) /\ WF_checkVars(RefreshIsDue)
            /\ WF_checkVars(CheckSteps) /\ WF_checkVars(DialogSteps) /\ WF_checkVars(PushEnds)
CheckSpec == CheckInit /\ [][CheckNext]_checkVars /\ Fairness
-----------------------------------------------------------------------------
(* Where the last check succeeded, the count is of the refs as its fetch   *)
(* left them or newer: no refresh that read them before the fetch          *)
(* overwrites it (gitrepository.cpp: "A refresh already running may have   *)
(* read the refs from before the fetch, and would overwrite the count").   *)
FetchedCountStands ==
    window.outcome = "Succeeded" /\ ~window.inFlight => state.behind.tracking >= fetched

(* Submodules with something to pull, or that failed, are listed in path   *)
(* order whatever order they answer in, the ones up to date below them.    *)
RowsInPathOrder ==
    LET own == SelectSeq(dialog.rows, LAMBDA i : i # 0)
    IN  /\ own = SetToSortSeq(dialog.hasRow, <)
        /\ dialog.rows = own \o IF dialog.upToDate = {} THEN <<>> ELSE <<0>>

(* An open dialog comes to show everyone's answer, the repository's own    *)
(* from a check that was in flight when it opened too.                     *)
EveryoneAnswers == dialog.open ~> (~dialog.open \/ (dialog.own /\ dialog.pending = {}))
=============================================================================
