# A TLA+ model of GoodGit

GoodGit is a commit GUI over the command lines of git and Mercurial: every operation is a subprocess, nearly
everything happens on the GUI thread, and what is hard about it is order. Answers, file system events, timers,
dialogs with event loops of their own and other programs interleave; state is read before a dialog and used
after it; a commit is several commands any of which may fail; one lock is shared by every window. These modules
model that part of the program, and the pure algorithms it shows its answers with, from the code in `src/app/src`.

- [What the system is](#what-the-system-is): the inventory
- [The modules](#the-modules): what models what, and how to read them against the code
- [The runs](#the-runs): what TLC checks, the bounds, the fairness, the mutants
- [The proofs](#the-proofs): what TLAPS proves, and how
- [Where the code and its own words part](#where-the-code-and-its-own-words-part): thirteen counterexamples
- [What is not modelled](#what-is-not-modelled), and [what is left](#what-is-left)

## What the system is

From the bottom of `doc/ARCHITECTURE.md`'s layers to the top. "Correct" is what a property should say of it.

| Component | State | Operations | Hard because | Correct when |
|---|---|---|---|---|
| Process transport, `vcsprocess` | a queue of jobs, a counter of running processes; per job: its process, context, `_cancelled`, `_outputTooLarge` | `run`, `cancel`, process signals, the output limit | a job is cancelled, killed, refused or orphaned at any point; callbacks run arbitrary code inside the handlers | slots are accounted for and never idle while a job waits, order holds, a callback comes at most once and never after `cancel()` |
| `QueryRound` | a shared reference to the round's end | `launch`, the end of the scope, the destruction of callbacks | a callback may launch more; a context may die mid-round | `then` runs once, last, always |
| hg command-server pool, `hgcommandserver` | servers (hello, command, retiring, dying, dead, deadline), a queue, two failure latches, counts of open repositories | `run`, `dispatch`, hello, result, death, cancel and its grace period, settings changes, openings and closings, `shutdown` | callbacks run between a result and the reuse of the server; timers race answers; failures must be blamed on the right cause | one server per command, no idle server while a job waits, closed repositories let go of, only the condemned jobs failed, the same contract as a process job |
| Change watch, `repositorywatcher` | subscriptions, roots, one watch per root, arms in flight, `_rearming`, `_rootsMissing`, `_trusted` | subscribe, unsubscribe, the roots query, arming on the thread pool, events, stops | arms answer late; subscriptions change meanwhile; a watch may stop or be on a volume that reports only some changes | while trusted, no change is missed; every window becomes ready |
| `RefreshScheduler` | `_pending`, two timers, `_ready` | activation, deactivation, a reported change, the end of a write | a refresh waits for the window to be active and nothing to write | an active window catches up |
| `Repository` | the state and files last read, `_refreshing`, `_refreshPending`, callbacks of this run and the next, the mutation and push lock, a generation | `refresh`, `completeRefresh`, `stateStamp`, `beginMutation`, `beginPush` and their ends | refreshes coalesce; callbacks belong to one run or the next | a flow that asks for a refresh gets one that began after it asked |
| Backends, `gitrepository`, `hgrepository` | the refresh round in flight, caches | every `Repository` operation as processes | several processes make one answer or one write, any of which fails, and the disk moves between them | rows are what is on disk, a commit is what was checked, a failure leaves nothing behind |
| Write flows, `commitwindow`, `writeflow` | where each flow is, its stamp, the rows it took | commit, reattach, undo, continue, abort, discard, delete, discard inside a submodule | each may ask in a dialog whose event loop delivers anything | two writes never meet, what was confirmed is what is written, every lock comes free |
| File list, `changedfilesmodel` | rows, check states, the policy for new rows | refreshes, checks, a merge's forced rows | check states are carried over by path | what the user unchecked stays out |
| `PushPane`, `planPush` | its steps, the submodules it locked | plan, confirm, steps, the offer to set an upstream | the plan recurses over submodules; it locks other repositories, whose windows may be in a dialog | what is published can be fetched; no write meets a push |
| Incoming check, `incomingchangesdialog` | a fetch and its verdict, a queue of submodules | start, answer, cancel | a push or a refresh outdates it | the header claims no more than was checked |
| `HistoryWindow`, `historymodels` | listing, fingerprint, searches, the reveal asked for | reload, load more, scope changes, reveal, search, checkout, push up to a commit | queries in flight are replaced | the listing shown is of the last query asked for, and the reader stays where he was |
| `repositoryfactory`, `repositorywindows` | one object per repository on disk, the open windows | open, share, drop | two spellings of a directory; a scan has its own event loop | one object for one repository |
| `recentrepositories`, its panel | a stored list; which rows are expanded | read, add, remove, filter | two windows or instances change it | no entry lost to a stale list |
| Algorithms: `commitgraph`, `textdiff`, `movedblocks`, `unifieddiff`, the revset of a Mercurial push | none | pure functions | boundary cases | equal to a reference definition |
| `changefilter`, parsers, message editor | none, or one text field | pure functions | formats | - |
| Views, themes, settings, update check, start-up | presentation | - | no protocol of their own | - |

How they interact: windows call `Repository` and are called back; `Repository` calls a backend; a backend runs
commands through `Vcs::run` or the pool, which hands commands on to `Vcs::run` when it cannot serve. A command's
context is the object that shows the answer: once it dies the callback is skipped. The watch reports to the
schedulers, a scheduler calls its window's refresh, and a refresh first reads what the watch has queued. The
lock belongs to the `Repository`, which all windows on one repository share, and a push locks the submodules it
publishes. A refresh gives the file list its rows, a commit takes the checked ones.

`PROJECT.json` lists every hazard at its line, with the properties that would catch it, or why there is none.

## The modules

| Module | Models | Extends, uses |
|---|---|---|
| `Arrivals` | a deque as a set of jobs and the order they came in | - |
| `JobContract` | what `Vcs::Job` promises, whatever the transport: the abstract specification of both transports | - |
| `JobQueue` | `vcsprocess.cpp` | `Arrivals`; implements `JobContract` |
| `QueryRound` | `queryround.h`, composed with the transport that runs its queries | `JobQueue` |
| `HgServerPool` | `hgcommandserver.cpp` | `Arrivals`; implements `JobContract` |
| `ChangeWatch` | `repositorywatcher.cpp`, `refreshscheduler.cpp` and `Repository::refresh`, which call each other | - |
| `WriteFlows` | the flows of `commitwindow.cpp`, `historywindow.cpp` and `pushpane.cpp` over the lock, the stamp and the refreshes of `repository.cpp` | - |
| `WorkingTree`, `GitWorkTree`, `HgWorkTree` | what a repository has on disk, and the effect of each command run on it (external) | the last two extend the first |
| `RefreshCycle` | `Repository::refresh` and `completeRefresh` around either backend's run | `WorkingTree` |
| `GitRefresh`, `HgRefresh` | a refresh of `gitrepository.cpp`, of `hgrepository.cpp` | `RefreshCycle`, the system's work tree |
| `ChangedFiles` | `changedfilesmodel.cpp`: rows, check states, pathspecs | `RefreshCycle` |
| `RowFlows` | which rows each flow of `commitwindow.cpp` takes, and how it ends | `ChangedFiles` |
| `GitFlows`, `HgFlows` | those flows command by command, in either backend | `RowFlows`, the system's refresh |
| `GitPush` | `planPush` of `gitrepository.cpp` over nested submodules, and `PushPane` | - |
| `CommitGraph`, `HgPush` | `commitgraph.cpp`; the plan of a Mercurial push | `HgPush` extends `CommitGraph` |
| `TextDiff`, `MovedBlocks`, `UnifiedDiff` | the files of the same names | each extends the one before |
| `Algorithms` | all inputs of the five above, up to a size | `UnifiedDiff`, `HgPush` |
| `HistoryListing` | the list of `historywindow.cpp` over `historymodels.cpp` | - |
| `RecentRepositories` | the operations of `recentrepositories.cpp` on a list | - |
| `RepositoryWindows` | registry, windows, the scan and the panel, of several instances of the program over one stored list | `RecentRepositories` |
| `IncomingCheck` | the window's check, the dialog and its submodules, beside refreshes and pushes | - |
| `ArrivalsProofs`, `HgServerPoolProofs`, `ChangeWatchProofs`, `GitFlowsProofs` | the proofs | the module each is named after |
| `HgFlowsProofs` | the proofs of `HgFlows`, and of `HgPush` and `CommitGraph` over any listing of `Algorithms` | `HgFlows`, `Algorithms`, `ArrivalsProofs` |
| `QueryRoundProofs` | the proofs of `JobQueue` and `QueryRound` | both |
| `WindowProofs` | the proofs of `WriteFlows` and `HistoryListing` | both, `ArrivalsProofs` |
| `RemoteProofs` | the proofs of `GitPush`, `IncomingCheck` and `RepositoryWindows` | all three, `ArrivalsProofs` |
| `MC*` | constants of the instances TLC checks | the module they are named after |

**An action is one handler.** The GUI thread runs one handler at a time, so a handler is one action, calls
included: `JobQueue!FinishProcess` frees the slot, pumps and goes on to the callback, as `finishProcess()` does;
every action of `HgServerPool` that calls `dispatch()` contains `Dispatch`. A handler is only split where it
leaves the thread to something else:

- A job's callback is arbitrary code. In `JobQueue` and `HgServerPool` the handler is one action up to the
  callback and another from its return. In between anything callable may be called; events are delivered only
  while the callback has a dialog open, which in the pool is counted (`MaxDialogs`).
- A flow's dialog. `WriteFlows` keeps the stack of nested event loops: only the innermost is answered, and no
  window takes input while one is up, since the dialogs are application-modal. Answers of commands, refreshes
  and other programs come in any of them.
- The thread pool. `ChangeWatch!ArmExecuted` is the arm on its thread, `ArmAnswered` its posted answer.
- A subprocess. In `GitFlows`, `HgFlows`, `GitRefresh`, `HgRefresh`, `GitPush` and `IncomingCheck` each command is an
  action of its own, in which it reads or changes the disk at one moment, so that a refresh reads a state no moment had,
  and another tool acts between any two commands of a flow.

**`JobQueue`.** `pending` and `arrival` are `JobQueue::pending`, a deque only ever appended to and erased from;
`running` the counter; `phase` a job's life, of which "refused" is the time between a refused launch and the queued
handler that reports it. `Pump` is `pump()`: it starts jobs in order into the free slots and drops those nobody
listens to that it meets on the way. `answers` and `outcome` are history variables.

**`QueryRound`.** `_end` is a shared pointer, so the model is its set of holders: the scope, and each query whose
callback has neither returned nor been destroyed. `then` runs in the step that empties the set.

**`HgServerPool`.** One record per server in `_servers`. `frames` is the stack of handlers suspended in a callback,
with the server each belongs to, or none once that server is deleted. `place` is a job's place in the deque;
`Assignments` is which idle server takes which job, left open where the code takes the first of equals.
A command handed to the process transport is tracked only by that transport's contract (`FallbackEnds`), which
`JobQueue` implements.

**`ChangeWatch`.** `unseen` is the truth the watch approximates: the windows in whose scope something changed since
the read they show began. A commit window refreshes the shared `Repository`, a history window reads by itself. A watch is
what its handle has queued, whether it stopped and whether its volume may miss changes. `Settle` is the part of
`finishArming()` after arming is done. The signals `changed()` and `trustLost()` run their slots in the same step
(`MarkPending`), as direct connections do; `ready()` is queued. `lapsed` records that one of the two losses of finding 8
has happened.

**`WriteFlows`.** `stage` says where a flow is; the guards of the starting actions are the conditions of the button,
shortcut, menu entry or slot. A stamp is modelled by what it is compared for: `stale` is the set of flows since
whose stamp the state was replaced or HEAD moved. `refreshing`, `refreshPending` and `waiting` are the two callback
lists of `Repository::refresh` for the one flow that waits in them, undo. `external`, `reading`, `shown` and `clicked`
count changes made outside: all of them, those the running refresh is sure to read, those the state shows, those
before undo was asked for.

**`WorkingTree`, `GitWorkTree`, `HgWorkTree`.** The disk, path by path: `log` is the history of HEAD, `work` what is on
disk, then git's `index`, or Mercurial's dirstate (`tracked`, `source`) and mergestate. A submodule's content is the
commit it is on, and `inside` what its own status says. The operators are what each command the backends run
does there (`AfterReset`, `AfterAddRemove`, `AfterCommit`, ...), external and taken from how the callers use them.

**`RefreshCycle`, `GitRefresh`, `HgRefresh`.** `run` is the refresh under way with what its queries have answered; `again` is
`_refreshPending`, `state` and `files` the members of the same names. `GitRefresh` has git's two rounds: the status and
HEAD's files, then the diff and the submodules' own status, which depend on the first. `FinishRefresh` makes
rows of the answers as `filesFromRun()` does. `HgRefresh` has one round of status, `resolve --list` and the subrepositories.
A failed query discards the run or, where the code carries on without, leaves its part out.

**`ChangedFiles`, `RowFlows`, `GitFlows`, `HgFlows`.** `setEntries` carries the check states over, `checkedPathspec`
and its kin are what a flow gives the backend. `RowFlows` has the start of each flow, the rows it takes and the
end (`mutationDone()`), the backends' modules the commands in between: `GitFlows!ListStaged`, `ResetOthers`, `AddChecked`,
`RunCommit`, `RestoreStaging` and `RollBackAdd` are `commit()` of `gitrepository.cpp`, with `plannedIndexChange` its plan.
`before` and the last fields of `flow` are history: the disk and the list when the flow began, and what others touched since.
The lock and the dialogs are left to `WriteFlows`, so one flow runs at a time here.

**`GitPush`.** Each repository of a tree of submodules is a line of commits, each recording a commit of every child.
`push.asked` is the round of queries in flight: `AnswerQuery` is what each answer asks next (`gitlinks` of a tree, whether a
recorded commit is `unpublished`, the `branch` and its upstream). The rest is `PushPane`: `lockPushedSubmodules`, `Confirm`,
one action per step, `offerUpstreamThenRetry`, `EndPush`. A window of a submodule may write unless its lock is taken.

**`CommitGraph`, `HgPush`, `TextDiff`, `MovedBlocks`, `UnifiedDiff`, `Algorithms`.** The functions under their own names, as
operators and recursive functions; a mutable loop state of the code is a record passed along (`placeNode`, `classify`).
`Algorithms` grows every history child by child and every diff line by line as git prints it; its properties are
invariants, hence checked on each input met. Reference definitions there say what the result promises, by
quantifiers and not by another algorithm: a lane reaches a parent, the matched lines outweigh every other alignment,
every line read is shown once.

**`HistoryListing`.** `w` is the window's members. A repository's history is a version, `walkAt` what a listing of it holds,
and a query in flight reads one
between its start and its answer. `Answers` has the log, the fingerprint, the check of a
change and the branch tips; `FallBack` is the scope left because its branch went. `gap`, `raced` and `failed` are
history: a change between the two reads of one listing, a "load more" that cancelled a reload, a failed reading.

**`RecentRepositories`, `RepositoryWindows`.** A list operation of `recentrepositories.cpp` reads the stored list in one step
and writes it in another (`doing`, `save`), in between which another instance may do both. A root is a spelling:
`Directory` is the directory it leads to, `PassesThrough` what has to be on disk for that - the directory, those it lies in, the
links on the way - and `Canonical` what the tool calls it. `resolves` is `directoryIdentity()`: the identity of a path is asked of the
path, so one that leads nowhere is the same as nothing but itself, though its directory may be there by another. A link that comes to lead
elsewhere is left out. `scanning` is `scanFolderForRepositories`; its answers go with the window it was started from. `registry` maps
the live objects to the roots they were made for, numbered in the order they were made: `sharedRepository` takes the first that is on the directory
asked for. A window is the object it holds, and composes the roots of its submodules from that object's (`nestedRoots`). `borrowed` are the submodules' objects that a
push (`lockPushedSubmodules`) or the incoming dialog holds for a window. `cutOff` is history: the live objects whose root has led nowhere at some time
since they were made. Histories of single files, which hold the object of a window's repository, are left out. `panel` is the rows, their unfolding and the filter; `chosen` what the
user last did by hand.

**`IncomingCheck`.** A count is known by the refs it was read from. `run` and `again` are the refresh as in `RefreshCycle`,
reduced to the refs; `check` is the fetch and the read after it; `dialog` has the
submodules that have not answered, in any order.

## The runs

| Run | Properties | Distinct states |
|---|---|---|
| `query_round` | `SlotsAreUsed`, `NoOvertaking`, `ThenRunsLast`, `RoundEnds`, and `KeepsContract`: it implements `JobContract` | 171 thousand |
| `hg_server_pool` | `JobsFindServers`, `FailuresAreDeserved`, `ServersLetGo`, and `KeepsContract`, the same contract | 92 thousand |
| `change_watch` | `NoMiss`, `TrustCovers`, `WindowsCatchUp` | 156 thousand |
| `write_flows` | `WriteHoldsLock`, `UndoIsDecidedRight`, `ConfirmedStateStands`, `LocksComeFree` | 91 thousand |
| `git_flows` | `RowsTellTheTruth`, `CommitIsTheCheckedRows`, `StagingSurvives`, `FailedCommitTracksNothing`, `UnchosenIsLeftAlone` | 642 thousand |
| `hg_flows` | `RowsTellTheTruth`, `CommitAddsOnlyCopies`, `FailedCommitTracksNothing` | 484 thousand |
| `copied_file` | `CommitIsTheCheckedRows`, violated: finding 1 | - |
| `git_push` | `TipsAreFetchable`, `PushExcludesWrites`, `EndsAsAsked` | 1059 thousand |
| `incoming_check` | `FetchedCountStands`, `EveryoneAnswers` | 98 thousand |
| `history_listing` | `RevealIsDecidedOnce`, `ListingCatchesUp`, `ShownRowsStand`, `ComesToRest` | 119 thousand |
| `repository_windows` | `OneRepositoryWhileReached`, `ExpansionSurvives`, `ListKeepsItsEntries` | 643 thousand |
| `algorithms` | `GraphTellsTheTruth`, `ChangesAreMatched`, `ShowsTheDiff`, `PushesAddNoHead` | 15 thousand |

Run one with `tlc -config QueryRound.cfg MCQueryRound`; `PROJECT.json` pairs configurations and modules. Each takes less
than five minutes on two workers. In short, what they show:

- **Transports.** However a command is cancelled, refused, killed or orphaned, both transports keep one contract, no slot or
  server stands idle while a command waits, a round ends once and last, and no server is held for nobody.
- **Watch.** A trusted watch covers what the windows show; a change is missed in two known ways and no other (finding 8).
- **Flows.** No two writes meet, except through the one flow of finding 12; what a dialog described is what is written;
  the commit is the rows that were checked, other tools' staging survives it, and its failure at any step leaves
  no file tracked, but for the exceptions the properties name.
- **Push, incoming check.** What is published can be fetched, whatever is nested; no write runs in a repository being
  pushed; a count on display is never older than the last fetch.
- **Windows.** One object per directory under any spelling, as long as the spellings lead there (divergence 13); the history comes to rest on the history there is.
- **Algorithms.** On every input in bounds, the result promised.

### Bounds, and why they are enough

- `query_round`: three jobs and one slot (`MaxConcurrentProcesses`; the program has more): a round of two queries, one of
  which launches the other, and a command beside it. With one slot every start depends on a finish, and three jobs give one
  running, one waiting and one arriving between them. The proofs lift its safety to any number of jobs and slots.
- `hg_server_pool`: `MaxServers` = 2 (the program has 4), two commands for two repositories, one nested in the other, so a
  server of the right repository, of another and of none are all met; two executables, one of which does not launch;
  one settings change or one opening besides the repository open from the start (`MaxChanges`), while closings need no
  bound. `MaxDialogs` = 0: callbacks call into the pool but open no dialog, which finding 9 is about. `GoneRoots` is empty:
  with a repository whose directory was deleted a launch refused for the directory latches the
  executable, and `FailuresAreDeserved` does not hold (a hazard in `PROJECT.json`). The proofs lift the safety to any numbers, that of dialogs included.
- `change_watch`: a commit window and a history window, opened twice between them (`MaxOpenings`), one failure
  (`MaxFailures`: a query or an arm failing, a watch stopping), a state directory inside the tree, so the tree's watch takes
  over from the directory's and back, the tree possibly of partial coverage (`MayBePartial`). Changes are
  unbounded: what a handle has queued is a set of places. The proofs lift its safety to any number of windows, volumes and failures.
- `write_flows`: every flow but the discard inside a submodule (`LockedFlows`), two flows started (`MaxStarts`) and two changes
  from outside (`MaxExternal`). Two is what it takes to meet; a third start was checked once and showed nothing more. A push has
  one upstream offer and its steps are one stage. The proofs lift its safety to any numbers.
- `git_flows`, `hg_flows`: two files and a submodule of two contents, two writes, a change from outside and a failing
  command, three of all these together (`MaxEvents`). A commit after a failed or disturbed commit is among them. The
  system's interesting states are pairs of paths - one checked and one not, one renamed into the other - so two
  files do; `MaxPaths` bounds how many are in use at once. Files and contents are interchangeable, and the properties, invariants
  all, do not tell them apart. In `hg_flows` other tools also move, copy and merge.
  The proofs lift all of `git_flows`, and all of `hg_flows`, to any numbers. `DirstateV2` is off: with it on, only what a failed status leaves differs.
- `git_push`: a submodule nested in a submodule, which is the depth the plan recurses over; lines of up to three
  commits; one push, one change or failure.
- `incoming_check`: two submodules, one commit on the remote, three acts of users or others: two checks may overlap a refresh and a push.
- `history_listing`: three scopes, one change of the history - a branch rebased and renamed, so rows come, go and stay; a
  batch of one row and a maximum of two (`InitialCommitBatch`, `HistoryMaxCommits`), so the second reading and "load
  more" both extend a list; two acts, one failure.
- `repository_windows`: five roots, of which one is a submodule of another, one a junction to a third; a list of at most three
  (`MaxRecent`, the program has more); five events. One instance of the program, since with two `ListKeepsItsEntries` does not hold
  (finding 4). The first root's directory may go and come back (`Removable`), and takes the roots under it along while the junction's target
  stays, so that a directory loses one of its spellings with windows, pushes and dialogs on either.
- `algorithms`: histories of four commits of up to three parents and five edges in all, with parents the listing lacks: a fork, a
  merge, an octopus, a criss-cross and two roots. Diffs in four vocabularies, each for a feature: edits and ends of lines; moves and
  their copies; edited and indented lines in a move; moves between two files. The program's thresholds are
  scaled with the widths of tokens so that both sides of each are met. Diffs end where git could print no more within the vocabulary.

`CHECK_DEADLOCK FALSE` is set where the system may stop: every job answered and every window closed, a bound reached, or
all input grown. `change_watch` and `write_flows` are checked for deadlock.

### Fairness, and why the code justifies it

- `JobQueue`, `QueryRound`: processes end, queued handlers run, callbacks return, deferred deletions happen; the scope ends, being a C++ scope.
  Callers need not call.
- `HgServerPool`: a server's progress - its hello, a command that was not cancelled, its timers, the exit after a
  kill or at the end of its input. A cancelled command is *not* assumed to end, so `ServersLetGo` rests on the grace period.
- `ChangeWatch`: the event loop delivers notifiers, timers and posted answers; the thread pool finishes an arm; processes
  answer. Users, writes and the file system owe nothing.
- `WriteFlows`: the user answers a dialog or closes a menu, commands answer, refreshes end, a superproject's push
  ends. Starting a flow is never owed.
- `HistoryListing`: while a query runs or the watch has a change to report, one of them, whichever, answers at some time. Users need do nothing.
- `IncomingCheck`: queries answer, posted calls run, a push ends. Users need do nothing.

All of it is weak fairness of a handler whose event is due. Where a command hangs for ever nothing in the
program promises anything, and no property says so. `GitFlows`, `HgFlows`, `GitPush`, `RepositoryWindows` and `Algorithms` have
safety properties only and state none.

### Mutants

Every property has a mutant beside the definition it is a mutant of (`Cancel` and `CancelFreesSlot`, say): the definition with a plausible
bug, under which TLC finds the property violated on the run's own configuration. `PROJECT.json` pairs them.

## The proofs

All assume only the named assumptions of the modules they are about, which TLC evaluates in the runs, and what is said below.

**`QueryRoundProofs`, of `JobQueue`**, for every finite set of jobs, every assignment of contexts and every cap: `TypeCorrect`, `SlotsAccounted`,
`WorkConserved`, `FirstInFirstOut`, `OversizeNamed`, and `KeepsContractSafety`, the safety part of `JobContract`. The safety properties are not
inductive one by one, so they are proved from `IndInv`:

- `TypeOK` and `SlotAccounting`: `running` is the number of occupying jobs and at most the cap.
- `WorkConserving`: with a job waiting, no slot is free. A step that frees a slot or queues a job ends in `Pump`, so it is
  enough to prove what `Pump` leaves behind: it takes as many listened-to jobs as there is room for, and where
  it takes fewer the queue is empty.
- `QueueHoldsPending`: the queue is exactly the jobs in phase "pending"; without it a job could be started twice.
- `ArrivalsDistinct`: no two jobs that were asked for arrived together; without it "the first" is not one job.

`ArrivalsProofs` holds the lemmas about `FirstServed` this rests on: that a finite set with an order without ties has
a first and a last member (`FirstOf`, `LastOf`), that the first `n` are at most `n` (`ServedFit`) and that, where any are left,
they are `n` (`ServedFill`). It also holds what every proof about lists needs: induction up to a number, and sequences joined by
`FlattenSeq` (`FlattenWithin`, `FlattenHas`, `FlattenBegins`). `PumpKeepsBooks` carries them to `Pump`. `FirstInFirstOut` is an action property and follows from `IndInv` and what
`Pump` starts. `OversizeNamed` and `KeepsContractSafety` need one fact more, that a job not yet reported has
not been answered (`NotYetAnswered`), which with `IndInv` makes `AnswerInv`. The refinement maps every step to `Ask`, `Excuse`,
`Answer` or a stutter, one case per action.

**`QueryRoundProofs`, of `QueryRound`**: every step of a round is a step of `JobQueue`, so `RoundsUseSlots`, `RoundsTakeTurns` and `RoundsKeepContract` follow from the
same invariants. `ThenIsLast`, that a round's end runs once at most and with every query settled, is about the
reference count: whoever may still launch a query holds a reference - the scope, or a capturing callback - and
so does every query until it is settled. The count comes to zero once, and launches end with it.

**`WindowProofs`, of `WriteFlows`**, for every set of flows, any number of starts and of changes from outside: `WritesNeverMeet`, `UndoDecidedRight`
and `ConfirmedStands`. The first two assume `"discardSubmodule" \notin Flows`, which finding 12 makes necessary; the third does not.
The invariant `LockInv` is `LocksRight` - a flow in a locking stage is the holder of its lock, no push begins beside an undo
or a commit that pushes, and the refresh undo waits for begins after it was asked for - and `LoopsRight`: a menu or a
question asked before the lock is the outermost event loop and nobody holds the lock under it, so what
was free when it opened is free when it is answered. One lemma per kind of step. `ConfirmedStands` needs only the stages' types: every way from a question to a write compares the stamp.

**`RemoteProofs`, of `GitPush`**, for any tree of submodules, any lines of commits and any number of pushes and failures: `WritesExcluded`. `ExclusionInv` relates
the push's stage to the locks: while it works, from its plan's answer to its end, `locked` is the submodules its steps push and
none of them is writing; at any other time nothing is locked. `Shape` and `Asking` bound what a plan's queries may hold, one lemma per answer.

`TipsFetchable` and `EndsHoldAsked` need what the steps are, and those are a recursion over the tree of submodules, joined with a recursion over
sequences. The library's induction theorems cannot be used, but the least counterexample can: `LeastUpTo` of `ArrivalsProofs` finds it, and `InductUpTo`, the
induction it gives, proves that both recursions have a solution (`JoinsExist`, `StepsExist`, by depth: `GitPushAssumption` says that no submodule is inside
itself) and that the solution puts each submodule after those nested in it (`PushStepsOrdered`). `PushInv` follows the push from there:

- `PlanCovers`: every submodule commit that what is pushed references is published, or a query about it is in flight, or its submodule is pushed
  from a branch that has it (`Covered`). `AnswerOutcome` says what one answer settles, and that it brings its own questions with it.
- `StepsAsPlanned`: the steps are the plan's, the root's last, and its commits in the order they were made, each after what is published.
- `StepsFetchable`: the steps done left tips that can be fetched, which a later step, and git's own on-demand push, only adds to.

The attempt corrected the property: it spoke of what the remote has of any repository, which is false of a second push after a first that
was planned blind; it now speaks of what the steps of this push left there (`Pushed`).

**`RemoteProofs`, of `IncomingCheck`**, for any number of submodules, commits and events: `CountOutlivesRefresh`. `FetchedCountStands` says what is shown
once a check is over; `CheckInv` adds who may still write the count before that (`FreshCounts`): a refresh that has read the refs from before the fetch is under way only
while the check waits for it, and what the check counted is of the fetched refs, which only grow (`RefsInOrder`). That a check that
waits has a refresh to wait for is `OneCheck`.

**`RemoteProofs`, of `RepositoryWindows`**, for any roots, spellings, lists, filters and instances of the program: `OneObjectPerDirectory` and `ChoicesSurvive`;
for one instance, `ListStands`.
`OneObjectPerDirectory` assumes nothing of the disk, whose directories and links come and go: its property, `OneRepositoryWhileReached`, is of the objects
whose roots have always led to their directory, and divergence 13 is why it says no more. `RegistryInv` adds that `cutOff` has forgotten none
(`RegistrySound`: an object outside it leads to its directory now, and has it alone), and that whatever a window, a history, a push or a dialog
holds is live: what `expired` drops nobody holds. A step of the registry shares one object or loses some (`RegistryMoves`): sharing finds the object of the directory if there
is one that leads there (`SharingKeeps`), and losing objects, or cutting them off, leaves fewer to speak of (`FewerKeep`).
`ExpansionInv` relates what is unfolded, or remembered of it under a filter, to the user's choices; one lemma says what a
rebuild or a new filter keeps of it.

`ListStands` is about any number of operations, scans and entries, and about what each makes of the list (`LosesNone`, `JoinsAlone`): the sort is a bijection of places, since
no two entries have as many sooner ones (`PlacesDiffer`, `SortedKeeps`); a scan's merge is followed one candidate at a time
(`MergesKeep`); what a refresh drops is declared by the entry it keeps (`SubmodulesKeep`); and only a list that is full is cut (`CappedKeeps`). `ListInv`
carries it to the steps: what an operation read is still what is stored when it writes. Two instances break that, which is
divergence 4, hence the assumption `Instances = {one}`.

**`WindowProofs`, of `HistoryListing`**, for any history and any number of changes, commits, failures and steps of the reader: `ListingFollows`, `RevealsAreDecided` and `ShownStand`, the
first two from one invariant, `HistoryInv`. Both properties are about the window at rest, so the invariant is what each query in flight still owes:

- `CatchUpInv`: while the fingerprint is being read, the listing and it are both of the present version, or a change fell between the two
  (`gap`). Afterwards either the listing still is, or the change has yet to be reported, or the check of it
  began at a version after every one the fingerprint can be of and so must find another (`Noticed`). An unread fingerprint is below all of them.
- `RevealInv`: a window not loaded has a listing on its way or its first check, a deepening is of a window loaded, and
  one that is loaded and reads nothing has no reveal left (`Decides`); where a walk has been made for a reveal, the scope is every ref and the
  reload spent (`Spent`).

`SelectLoadedDecides` is the lemma both turn on: a listing shown decides the reveal, waits for the full depth, or begins the one more walk. `ListingShows`
and `DeeperShows` carry it to the two answers of the log.

`ShownStand` is about every step: either the model is reset, or `canExtend` found the rows shown to be those the longer list begins with. Under a search
that is a claim about two filtered lists, and the rest of the longer one only adds to its end (`FlattenBegins`).

**`HgServerPoolProofs`**, for any jobs, roots, executables, servers and bounds: `CommandsFindServers`, `FailuresDeserved`, `OldServersRetire`,
`ServersRetireOnTime`, `PoolTypeCorrect` and `PoolKeepsContractSafety`. `PoolInv` has three parts, all of which hold in the middle of a handler too, which is
what a callback's dialog and the actions under it need:

- `Coherent`: a running job is on exactly one server (`Carried`), a server of an old executable is retiring and one still
  starting or dead has no job (`Sound`), the deque's places are distinct (`InLine`), the jobs a suspended handler answers and has still to fail are its own
  (`StackSound`), and with no handler suspended a command that is listened to waits only while every server is up to something (`Attended`). Without
  `StackSound` a nested handler could fail a job twice.
- `Books`: who was told what, and how often.
- `Deserved`: the latch and the failures told, or still to be told by a suspended handler, are due to the executable. It needs
  `GoneRoots = {}`, as the theorem states: the code takes a launch refused for a missing directory for one of the executable, a hazard `PROJECT.json` lists.

The lemma `Dispatches` says what `dispatch()` makes of any pool in the middle of a handler, by induction on nothing: the deque's order is a bijection, so what it
serves, spawns for and leaves waiting are sets. `Handled` carries every handler that answers, `Dispatches` included, to `PoolInv`.

**`ChangeWatchProofs`**, for any windows, volumes, failures and changes: `WatchTypeCorrect`, `TrustedWatchCovers` and `NoChangeMissed`. `WatchInv` adds to the types and
`NoMiss` that, while trusted, the watches without a partial one cover what a window shows as soon as its `ready()` is queued (`ServedCovered`):
`TrustCovers`, which is about windows that are ready, is not inductive, since the first refresh of a window runs in between. `NeededCover` is about the
roots a set of windows needs, `FinishArming` establishes the cover, and one lemma per step says which changes it hides from whom. `NoMiss` is
proved with its `lapsed`, the two cases of divergence 8.

**`GitFlowsProofs`**, for any finite set of files, any submodules and contents, and any number of flows, failures and changes from outside:

- `GitTypeCorrect`; `Typed` is stronger than `TypeOK`: a flow is at a stage of its kind, and a run's answers are those its round asked for.
- `CommitsCheckedRows`, `StagingGivenBack` and `NothingLeftTracked`. `CommitInv` follows each path nobody else touched through the steps of a commit (`CommitStage`,
  `MergeStage`): as found, reset to HEAD, added from the disk, given back, and what the plan says of it (`Planned`). Each of the three theorems reads it at the report.
- `RowsAreTrue`. `Standing` is what a submodule may be: on disk, in the index and in every commit at once or in none of them, never in conflict, and a row at its
  path is one of a submodule. `RunTruth` says that what a run has read so far is what the disk holds, as long as nothing
  was marked as changed since it began, and `RowsRead` carries that to the rows. That the rows then name every
  difference and no other is `RowsOfTruth`, about the pairing of renames, whichever it is.
- `NothingNewIsLost`: `NewFilesStayOnDisk`, the half of `UnchosenIsLeftAlone` about the disk. A list read while nothing changed offers to restore, of what HEAD lacks, only new names
  of renames (`RestorableWasCommitted`, which needs that conflicts are of an operation in progress, `Unfinished`), and `DiscardInv` keeps that to the report: HEAD stays,
  and so do the rows a flow begun on an up-to-date list was taken from.
- `UnchosenLeftAlone`, with `DeclinedStaysOut` the whole of `UnchosenIsLeftAlone`. `DeclinedOut` says of every state what the property says of a commit: nothing declined
  is in `checkedPathspec`, since a new list checks a path's row again only where it had none, kept one checked, or has it as Added (`TakeRowsDeclines`). The attempt corrected the
  property, which the run's bounds had protected: a path may be committed though its own row was declined, as the old name of a checked rename, as the other of two rows it has
  (deleted and untracked, once the commit that removed it is undone), or because a merge forced its row and the list after the merge remembers that. `StillDeclined` and
  `UserChecks` name these.

**`HgFlowsProofs`**, for any finite set of files, any subrepositories and contents, and any number of flows, failures and changes from outside:

- `HgTypeCorrect`; here too `Typed` is stronger, and says that a subrepository whose own status is not read yet is still asked for it (`Rounds`).
- `CommitsCheckedRows` and `NothingLeftTracked`. `CommitInv` says of each path nobody else touched what every stage of a commit has of it (`Commitment`): on
  disk as found; tracked as found, then as `addremove`, or `hg add` before a merge's commit, leaves it. `CommitHolds` reads from that what the commit has of the path,
  and that a merge goes on until its commit is part of it: hg commits no merge path by path and none with a file missing.
- `RowsAreTrue`. As for git, `RunTruth` says that a run's answers are what the disk holds while nothing moved. It needs two facts of hg's own state
  (`DiskHeld`): a file not tracked has no source, or the removed old name of a rename could be left out of the list by a row that is left out too; and without a
  mergestate nothing is unresolved, since a run that finds none does not ask. `ReadWellMeans` makes the list of the answers, from `FileRows` and `SubrepoRows`.

**`HgFlowsProofs`, of `HgPush`**, for any history of any length, any phases that rise towards the tips, and wherever the working directory is:

- `StepsAddNoHead`. `Listing` is the invariant of what `Algorithms` grows: names oldest first, each parent listed further down or not at all. That the two
  recursions of `HgPush` have solutions is `ReachesExist` and `ComesDownExists`, each by the least row that would have none; from there only what they say of a row is used
  (`Ancestry`, `LineShape`). `Candidates` is the key: what `pushCandidates` selects holds a draft that is the only parent of one it holds, so the line stops at a merge
  only or above what is public. `HeadsReplaced` and `AllPublished` are the two halves. Assumes that a sha names one commit (`NamesAssumption`).

**`HgFlowsProofs`, of `CommitGraph`**, for any listing: any number of commits, of parents and of parents it does not hold:

- `DiagramIsTrue`, the whole of `GraphTellsTheTruth`: lines, chains, marks and searches. Assumes besides that no sha is empty, as an empty one stands for a free lane, and
  that a commit's parents differ, as `Listing` has it of what `AddCommit` lists.
  - *One row.* `Sound` is what a row leaves to the next: no two lanes wait for one commit, none has another's chain, and each waits for a commit further down
    or outside the listing. `Passing` is the same within a row, once some of the parents are passed: where each lane came from (`Origins`), which segments lead into and
    out of the row so far, and what was marked. A node placed in its lane has it (`PlacedPasses`); a line opened, taken or joined keeps it (`NewLinePasses`,
    `TakeLinePasses`, `JoinLinePasses`). `RowComes` sums it up: each lane that waited goes on or ends at the node, and each that waits was drawn.
  - *All rows.* `GraphIsDrawn` makes the diagram a sequence of `Sound` states. A line's end is found from the last row upwards, and is the row of what its lane waits for
    (`LineEnds`, hence `RowsReach`). A chain's next commit is the one its line waits for, in the same lane (`ChainsStand`). What runs down a line is found from the
    first row downwards, and a lane is marked where all of that is new (`MarksAreNew`); `AheadIsDescending` and `DescendantsFound` show that
    `commitsAboveCurrent` and the reference mean the same by new, both being `Below` of `HgPush`. A search's rows ascend (`AscendingRows`), and two of a chain are joined
    (`JoinsMeet`).
  - The recursions of the diagram have solutions by `StepsExist`, where each value comes of the one before.

The proofs asked three things of the model: that files be finitely many, or a largest pairing of renames need not
exist; that `None` be no path; and that the settings a behaviour begins with be settings. All hold of the code.

**Only model-checked**, and why:

- Every liveness property (`RoundEnds`, `ServersLetGo`, `WindowsCatchUp`, `LocksComeFree`, `ComesToRest`, `EveryoneAnswers` and the liveness in
  `JobContract`): the prover has no fairness.
- `ChangesAreMatched` and `ShowsTheDiff` of `Algorithms`. Their functions fold over the lines of a hunk, each with an invariant of its own, the reference
  definitions enumerate pairings, and both select and sort with operators that the prover cannot expand.
- `CommitIsTheCheckedRows` of `HgFlows`, which divergence 1 contradicts. `CommitAddsOnlyCopies` excepts just that case, and is proved.
- `ListKeepsItsEntries` of more than one instance of the program: it does not hold (divergence 4).

## Where the code and its own words part

What was met while modelling. Each says how to reproduce it; `PROJECT.json` quotes the words. Only the first has a run, the
others being properties kept beside those that hold.

1. **A copy is committed as a rename** (`copied_file`, `CommitIsTheCheckedRows`; `hgparsers.cpp:164`). Another tool runs `hg cp p q`. The list has `q`
   as renamed from `p`, which is still tracked, and a commit of `q` is given both names: `p`'s own edit is committed, though its
   row is unchecked.
2. **A commit made for an operation it does not see** (`OperationTakesEverything`; `commitwindow.cpp:1126`). The mode of a commit is that of the
   state last read, so a merge begun in a shell since is committed path by path. In `git_flows`' instance.
3. **Submodules of earlier commits** (`StepsPushWhatIsReferenced`; `gitrepository.cpp:487`). A push one by one scans HEAD's tree for
   submodules; a commit before it may record an unpublished one that HEAD's does not, and its step is refused. In `git_push`'s instance with
   `Modes = {"OneByOne"}` and no outside or failures.
4. **Two instances, one list** (`OnlyAskedRemovals`; `recentrepositories.cpp:58`). Each reads the stored list and stores it whole: an entry may be lost, not only its
   place. In `repository_windows`' instance with `Instances = {"one", "two"}` and `MaxActs = 4`.
5. **Expansions undone by the menu** (`ExpansionIsTheUsers`; `recentrepositoriespanel.cpp:431`). Expanding from the menu rebuilds the rows without remembering what
   the user unfolded by hand. In `repository_windows`' instance; `ExpansionSurvives` leaves the menu out.
6. **A refresh that moves the reader** (`RefreshKeepsTheReader`; `historywindow.cpp:558`). A row selected while the listing is read is left for the one
   selected when it began. In `history_listing`'s instance with `MaxFailures = 0`.
7. **Marked above a commit that is not listed** (`UnlistedMarksNothing`; `commitgraph.cpp:58`). Where the checked-out commit is just below the last one
   listed, its children are marked as above it all the same. In `algorithms`' instance.
8. **Trust restored without a report** (`NeverMisses`; `repositorywatcher.cpp:342`). A stopped watch is set up again by another window's coming or going, or a
   partial one replaced, without `_rearming`: the trust returns and nobody is told that changes may have been missed. A released watch's
   unread events are dropped likewise (`repositorywatcher.cpp:321`). `NoMiss` says that there is no third way. Beside it, `UntrustedActivationRefreshes`
   (`refreshscheduler.cpp:66`): a window that became ready while inactive has no refresh pending, so its activation under an untrusted watch does not refresh. Both in
   `change_watch`'s instance.
9. **A dialog in a callback frees the server under its handler** (`NoHandlerOnFreedServer`; `hgcommandserver.cpp:272`).
   `handleChunk()` starts the idle deadline and calls the callback; the callback opens a dialog; the deadline
   fires in its event loop, the server exits, `serverDied()` posts its deletion, and the same loop carries it out. The
   dialog closes and `handleChunk()` goes on with `_pool.serverFreed(this)`. One job, one server, `MaxDialogs = 1`.
10. **A second root makes a new head** (`UnrelatedRootsToo`; `hgrepository.cpp:88`). The revset of a push one by one has the draft roots whatever is public, where its comment says
    while nothing is. In `algorithms`' instance; `PushesAddNoHead` excepts just this.
11. **An abort beside a push** (`HistoryChangesWaitForPush`; `commitwindow.cpp:1360`). The push of the superproject takes
    this repository's push lock while the abort's confirmation is up. Reattaching HEAD has the same shape. `Flows <- RewritingFlows`, one start.
12. **A mutation begun over another** (`WriteHoldsLock`; `commitwindow.cpp:1754`). The discard inside a submodule
    queries its plan without the lock; a commit is started; the plan answers and the discard begins. `Flows <- SubmoduleFlows`, two starts.
13. **Two objects for one directory** (`OneRepositoryPerDirectory`; `repositoryfactory.cpp:204`). `sharedRepository()` compares
    paths by what they lead to at the moment. While a live object's path leads nowhere - its link, drive or parent is gone - the directory, which may
    be there all along, gets a second object by another path, and so a second write lock; both remain when the first path leads there again. `doc/repositories.md:23` has one
    repository on disk as one object. `repository_windows`' instance as it is: a parent is opened, then the history of a submodule that is a junction; the
    parent goes; the junction's target is opened.

Some behaviours the properties except are no finding, since nothing in the repository promises otherwise:

- git's index lists a path removed from it but kept on disk twice, as deleted and as untracked; committing the untracked
  row commits the deletion. A merge forces its rows checked, and the next list remembers them as checked.
- After an undo and before its refresh, discarding a row still listed as modified deletes a file that HEAD now lacks. An un-add that fails
  in the middle of a deletion, or a failed reattachment, does not refresh.
- hg's failed `resolve --list` is silent (`run.blind`). hg aborts the commit of a merge with a missing file, and the
  program has nothing to end it with.
- A plan of a push takes a failed `ls-tree` or `rev-list` for nothing to push (`blind`), and locks submodules once it has scanned them
  (`moved`); git's `--recurse-submodules=check` is its backstop.
- A count of incoming changes read before an outside pull and answered after a newer refresh shows until the next.
- A list of recent repositories matches entries by spelling, except where a window is looked for.

## What is not modelled

- Data: messages, output bytes and encodings, formats and their parsers; a file's content is one of a few values.
  The marks inside the lines of an edited move are left out of the diff views, and so is `ChangeSetDiff::fileIndex`.
- The sharing of non-recursive watches between repositories, and the exclusion lists (`ChangeWatch` is one repository's watch).
- The lifetimes of the pool's jobs: a job freed by `deleteLater()` inside a callback's dialog is not told apart from a
  finished one.
- Timeouts as durations: a timer may fire at any moment once started.
- Drafts of messages, the diff pane, blame, the menus and file lists of the history window, and the queries behind them: each
  is one query whose answer is shown or, its context gone, dropped, which is the transports' contract.
- Undoing a Mercurial commit that moved a subrepository's pointer, and the refusals of a push that only differ in their words.
- The change filter (a classification of paths by name), the message editor, views, themes, settings, the update check and
  start-up: no protocol and no shared state of their own, and what there is of data their unit tests reach.

## What is left

- `HgServerPool` with directories that are gone, once the code has settled what it promises there (the hazard at
  `hgcommandserver.cpp:482`), and a dialog that frees the server under its handler (finding 9).
- The drafts of messages, as a composition of `RefreshCycle` with the settings store.
