----------------------------- MODULE HgServerPool -----------------------------
(***************************************************************************)
(* The command-server transport of Mercurial (hgcommandserver.cpp): jobs   *)
(* queue for up to MaxServers `hg serve` processes, each bound to the      *)
(* repository of the job that caused it to be spawned.                     *)
(*                                                                         *)
(* Everything happens on the GUI thread.  An action is one event handler   *)
(* or one call, run to completion, dispatch() included; but a handler that *)
(* reaches a job's callback, arbitrary application code, is suspended      *)
(* there and resumed by another action.  `frames` is the stack of the      *)
(* suspended handlers.  A callback may call into the pool; events are only *)
(* delivered while every suspended callback has a dialog open, of which    *)
(* MaxDialogs nest.                                                        *)
(*                                                                         *)
(* A command the pool passes on to the process transport is tracked here   *)
(* only by that transport's contract (module JobContract, which JobQueue   *)
(* implements): it is answered in the end unless nobody wants the answer.  *)
(***************************************************************************)
EXTENDS Arrivals, Sequences

CONSTANTS
    Jobs,               \* the commands asked for, each once
    Contexts,           \* the QObjects whose death drops their jobs
    NoContext,
    ContextOf,          \* the context each job is asked with
    Roots,              \* the repositories: working directories of jobs
    RootOf,             \* the repository each job is for
    Inside,             \* <<path, root>>: isInsideRoot(path, root)
    Executables,        \* values of the executable path setting
    BadExecutables,     \* those the OS refuses to launch
    GoneRoots,          \* the working directories that no longer exist
    FirstSetting,
    FirstOpen,          \* the repositories open at first
    NoJob,
    MaxServers,
    MaxDialogs,         \* bound: dialogs open at once inside callbacks
    MaxChanges          \* bound: settings changes and repositories opened later, together

ASSUME PoolAssumption ==
    /\ IsFiniteSet(Jobs) /\ NoJob \notin Jobs
    /\ NoContext \notin Contexts /\ ContextOf \in [Jobs -> Contexts \cup {NoContext}]
    /\ RootOf \in [Jobs -> Roots]
    /\ Inside \subseteq Roots \X Roots /\ \A r \in Roots : <<r, r>> \in Inside
    /\ BadExecutables \subseteq Executables /\ FirstSetting \in Executables
    /\ GoneRoots \subseteq Roots /\ FirstOpen \subseteq Roots
    /\ MaxServers \in Nat \ {0} /\ MaxDialogs \in Nat
    /\ MaxChanges \in Nat

VARIABLES
    servers,        \* HgServerPool::_servers: a record for each server in it
    phase,          \* where each job is in its life
    place,          \* the place of each job in the deque, 0 if it has none
    tool,           \* Job::_tool.executable of each job
    cancelled,      \* the jobs with Job::_cancelled set
    alive,          \* the contexts that still exist
    frames,         \* the handlers suspended in a job's callback, innermost last
    unavailable,    \* HgServerPool::_unavailable
    failedRoots,    \* HgServerPool::_failedRoots
    openCounts,     \* HgServerPool::_openRepositoryCounts, 0 where it has no entry
    setting,        \* the configured executable
    down,           \* HgServerPool::_shutDown
    answers,        \* history: how often each job's callback was called
    toldUnlaunched, \* history: the jobs whose callback was told LaunchFailed
    changes         \* history: for the bound

jobVars  == <<place, tool, cancelled, alive, answers, toldUnlaunched>>
poolVars == <<unavailable, failedRoots, openCounts, setting, down, changes>>
vars == <<servers, phase, frames, jobVars, poolVars>>

ServerIds == 1..MaxServers

(***************************************************************************)
(* What is left of a server: its _bindRoot, _executable, _currentJob and   *)
(* _retiring, the deadline _retireTimer runs to, and its stage:            *)
(*   "refused"   the OS refused to launch it, the handler still to run     *)
(*   "starting"  the hello is still to come                                *)
(*   "up"        _helloSeen                                                *)
(*   "dying"     killServer() ran, the finished signal is still to come    *)
(*   "dead"      died() has run up to the callback of its job              *)
(* helloSeen outlives "up": it tells a crash from a failed start.          *)
(***************************************************************************)
Stages == {"refused", "starting", "up", "dying", "dead"}
Deadlines == {"off", "idle", "closed"}

Server == [root: Roots, exe: Executables, job: Jobs \cup {NoJob}, timer: Deadlines,
           stage: Stages, helloSeen: BOOLEAN, retiring: BOOLEAN]

(***************************************************************************)
(* "stranded": erased from the queue by serverDied(), still to be failed.  *)
(* "handedOver": passed to Vcs::run().                                     *)
(***************************************************************************)
Phases == {"fresh", "queued", "running", "stranded", "answering", "handedOver", "done"}

Asked == {j \in Jobs : phase[j] # "fresh"}
Queue == {j \in Jobs : phase[j] = "queued"}
Pool == DOMAIN servers

HasListener(j) == ContextOf[j] = NoContext \/ ContextOf[j] \in alive

\* Mutant of Wanted: the context is not looked at again before the callback.
WantedTrustsContext(j) == j \notin cancelled

\* Job::finish() calls the callback of these.
Wanted(j) == j \notin cancelled /\ HasListener(j)

InsideOpen(r) == \E o \in Roots : openCounts[o] > 0 /\ <<r, o>> \in Inside

\* HgCommandServer::idle().
IsIdle(s) == s.stage = "up" /\ ~s.retiring /\ s.job = NoJob

\* Code that is not in a callback's way: the event loop, or a dialog's.
InEventLoop == ~down /\ Len(frames) <= MaxDialogs

\* It delivers a signal of this server.
Signalled(i) == InEventLoop /\ i \in Pool

-------------------------------------------------------------------------------

Init ==
    /\ servers = <<>>
    /\ phase = [j \in Jobs |-> "fresh"]
    /\ place = [j \in Jobs |-> 0]
    /\ tool = [j \in Jobs |-> FirstSetting]
    /\ cancelled = {}
    /\ alive = Contexts
    /\ frames = <<>>
    /\ unavailable = FALSE
    /\ failedRoots = {}
    /\ openCounts = [r \in Roots |-> IF r \in FirstOpen THEN 1 ELSE 0]
    /\ setting = FirstSetting
    /\ down = FALSE
    /\ answers = [j \in Jobs |-> 0]
    /\ toldUnlaunched = {}
    /\ changes = 0

\* A server just constructed: start() is synchronous, its signals are not.
NewServer(root, exe) ==
    [root |-> root, exe |-> exe, job |-> NoJob, timer |-> "off",
     stage |-> IF exe \in BadExecutables \/ root \in GoneRoots THEN "refused" ELSE "starting",
     helloSeen |-> FALSE, retiring |-> FALSE]

\* HgCommandServer::execute(): a closed root's deadline keeps running.
Execute(s, j) == [s EXCEPT !.job = j, !.timer = IF InsideOpen(s.root) THEN "off" ELSE @]

(***************************************************************************)
(* Which idle server takes which of the served jobs: each job, in order,   *)
(* prefers one bound to its repository, then takes any.                    *)
(***************************************************************************)
Assignments(served, idle, srv, order) ==
    {a \in [served -> idle] :
        \A j \in served :
            LET taken == {a[k] : k \in Before(served, order, j)}
            IN  /\ a[j] \notin taken
                /\ (\E i \in idle \ taken : srv[i].root = RootOf[j]) => srv[a[j]].root = RootOf[j]}

\* The places of the jobs the deque still holds; the stranded ones keep the order they had.
Places(life, order) ==
    LET queued == {j \in Jobs : life[j] = "queued"}
    IN  [j \in Jobs |-> IF j \in queued THEN Cardinality(Before(queued, order, j)) + 1
                        ELSE IF life[j] = "stranded" THEN order[j] ELSE 0]

(***************************************************************************)
(* HgServerPool::dispatch(), on a queue and a pool: the first of the jobs  *)
(* somebody listens to go to the idle servers, those before them nobody    *)
(* listens to are discarded, and if any is left a server is spawned for    *)
(* each, up to the cap, bound to the repository of the first.              *)
(***************************************************************************)
Dispatch(life, srv, order, exes) ==
    LET queued    == {j \in Jobs : life[j] = "queued"}
        wanted    == {j \in queued : HasListener(j)}
        idle      == {i \in DOMAIN srv : IsIdle(srv[i])}
        served    == FirstServed(wanted, order, Cardinality(idle))
        abandoned == {j \in queued \ wanted :
                        Cardinality(Before(wanted, order, j)) <= Cardinality(idle)}
        left      == queued \ (served \cup abandoned)
        new       == FirstServed(ServerIds \ DOMAIN srv, [i \in ServerIds |-> i], Cardinality(left))
    IN  \E a \in Assignments(served, idle, srv, order) :
          /\ servers' = [i \in DOMAIN srv \cup new |->
                           IF i \in new
                           THEN LET front == CHOOSE j \in left : Before(left, order, j) = {}
                                IN  NewServer(RootOf[front], exes[front])
                           ELSE IF \E j \in served : a[j] = i
                           THEN Execute(srv[i], CHOOSE j \in served : a[j] = i)
                           ELSE srv[i]]
          /\ phase' = [j \in Jobs |->
                         IF j \in served THEN "running"
                         ELSE IF j \in abandoned THEN "done"
                         ELSE life[j]]
          /\ place' = Places(phase', order)

(***************************************************************************)
(* HgServerPool::run().  What the latches know not to work, and what the   *)
(* queue would only fail, goes through plain processes.                    *)
(***************************************************************************)
Run(j) ==
    /\ ~down
    /\ phase[j] = "fresh" /\ HasListener(j)
    /\ IF unavailable \/ RootOf[j] \in failedRoots
       THEN /\ phase' = [phase EXCEPT ![j] = "handedOver"]
            /\ UNCHANGED <<servers, place, tool>>
       ELSE /\ tool' = [tool EXCEPT ![j] = setting]
            /\ Dispatch([phase EXCEPT ![j] = "queued"], servers,
                        [place EXCEPT ![j] = Cardinality(Queue) + 1], tool')
    /\ UNCHANGED <<frames, cancelled, alive, answers, toldUnlaunched, poolVars>>

(***************************************************************************)
(* The frame of a handler suspended in the callback of `job`.              *)
(*   "completed"  handleChunk(), on `server`, to go on with serverFreed()  *)
(*   "died"       died(), on `server`, to go on with serverDied()          *)
(*   "stranded"   serverDied(), to go on failing `rest`                    *)
(* NoServer: the server was deleted meanwhile (or, "stranded", before).    *)
(***************************************************************************)
NoServer == 0

Frame == [kind: {"completed", "died", "stranded"}, server: ServerIds \cup {NoServer},
          job: Jobs, rest: SUBSET Jobs, outcome: {"Exited", "Crashed", "LaunchFailed"}]

\* Job::finish(), for a job somebody wants: into its callback.
EnterCallback(j, result, frame, stack) ==
    /\ frames' = Append(stack, frame)
    /\ answers' = [answers EXCEPT ![j] = @ + 1]
    /\ toldUnlaunched' = IF result = "LaunchFailed" THEN toldUnlaunched \cup {j} ELSE toldUnlaunched

SkipCallback(stack) ==
    /\ frames' = stack
    /\ UNCHANGED <<answers, toldUnlaunched>>

\* A deleted server is only a dangling pointer to the handlers suspended on it.
Forget(stack, i) ==
    [d \in DOMAIN stack |-> IF stack[d].server = i THEN [stack[d] EXCEPT !.server = NoServer]
                            ELSE stack[d]]

\* The loop of serverDied() over the stranded jobs, up to the next callback, or its end.
FailStranded(rest, result, life, srv, stack) ==
    LET owed == {j \in rest : Wanted(j)}
    IN  \/ /\ owed = {}
           /\ Dispatch([j \in Jobs |-> IF j \in rest THEN "done" ELSE life[j]], srv, place, tool)
           /\ SkipCallback(stack)
        \/ \E next \in owed :
              /\ Before(owed, place, next) = {}
              /\ LET skipped == Before(rest, place, next)
                 IN  /\ EnterCallback(next, result,
                          [kind |-> "stranded", server |-> NoServer, job |-> next,
                           rest |-> rest \ (skipped \cup {next}), outcome |-> result], stack)
                     /\ phase' = [j \in Jobs |-> IF j = next THEN "answering"
                                                 ELSE IF j \in skipped THEN "done" ELSE life[j]]
              /\ servers' = srv
              /\ place' = Places(phase', place)

(***************************************************************************)
(* HgServerPool::serverDied().  A death before the hello is latched: a     *)
(* launch failure against the executable, a crash against the repository;  *)
(* the queued jobs that condemns are failed.                               *)
(***************************************************************************)
ServerDied(i, result, life, stack) ==
    LET s == servers[i]
        others == [k \in Pool \ {i} |-> servers[k]]
    IN  \/ /\ s.helloSeen \/ s.retiring
           /\ Dispatch(life, others, place, tool)
           /\ SkipCallback(Forget(stack, i))
           /\ UNCHANGED <<unavailable, failedRoots>>
        \/ /\ ~s.helloSeen /\ ~s.retiring
           /\ unavailable' = (unavailable \/ result = "LaunchFailed")
           /\ failedRoots' = IF result = "LaunchFailed" THEN failedRoots ELSE failedRoots \cup {s.root}
           /\ LET stranded == {j \in Jobs : life[j] = "queued" /\ (unavailable' \/ RootOf[j] = s.root)}
              IN  FailStranded(stranded, result,
                    [j \in Jobs |-> IF j \in stranded THEN "stranded" ELSE life[j]],
                    others, Forget(stack, i))

\* HgCommandServer::died(): the command in flight fails, then the pool is told.
Died(i, result) ==
    LET j == servers[i].job
    IN  \/ /\ j # NoJob /\ Wanted(j)
           /\ servers' = [servers EXCEPT ![i].stage = "dead", ![i].job = NoJob]
           /\ UNCHANGED place
           /\ phase' = [phase EXCEPT ![j] = "answering"]
           /\ EnterCallback(j, result,
                [kind |-> "died", server |-> i, job |-> j, rest |-> {}, outcome |-> result], frames)
           /\ UNCHANGED <<unavailable, failedRoots>>
        \/ /\ ~(j # NoJob /\ Wanted(j))
           /\ ServerDied(i, result, [k \in Jobs |-> IF k = j THEN "done" ELSE phase[k]], frames)

DiedLeavesAlone ==
    UNCHANGED <<tool, cancelled, alive, openCounts, setting, down, changes>>

\* QProcess::finished: a crash, the exit of a retiring server, or a kill.
ProcessExits(i) ==
    /\ Signalled(i)
    /\ servers[i].stage \in {"starting", "up", "dying"}
    /\ Died(i, "Crashed")
    /\ DiedLeavesAlone

\* The queued QProcess::errorOccurred(FailedToStart).
LaunchRefused(i) ==
    /\ Signalled(i)
    /\ servers[i].stage = "refused"
    /\ Died(i, "LaunchFailed")
    /\ DiedLeavesAlone

\* Mutant of Hello: the pool is not told.
HelloUnannounced(i) ==
    /\ Signalled(i)
    /\ servers[i].stage = "starting"
    /\ servers' = [servers EXCEPT ![i].stage = "up", ![i].helloSeen = TRUE,
                     ![i].timer = IF InsideOpen(servers[i].root) THEN "idle" ELSE "closed"]
    /\ UNCHANGED <<phase, frames, jobVars, poolVars>>

\* readHello(): retired or not, the server is up.
Hello(i) ==
    /\ Signalled(i)
    /\ servers[i].stage = "starting"
    /\ LET up == [servers[i] EXCEPT !.stage = "up", !.helloSeen = TRUE,
                    !.timer = IF InsideOpen(servers[i].root) THEN "idle" ELSE "closed"]
       IN  Dispatch(phase, [servers EXCEPT ![i] = up], place, tool)
    /\ UNCHANGED <<frames, tool, cancelled, alive, answers, toldUnlaunched, poolVars>>

(***************************************************************************)
(* A result on the 'r' channel.  One read before a kill may still arrive   *)
(* after it.  The deadline is set before the callback, which may start the *)
(* server's next command.                                                  *)
(***************************************************************************)
CommandCompletes(i) ==
    /\ Signalled(i)
    /\ servers[i].job # NoJob
    /\ servers[i].stage \in {"up", "dying"}
    /\ LET j == servers[i].job
           freed == [servers EXCEPT ![i].job = NoJob,
                                    ![i].timer = IF InsideOpen(servers[i].root) THEN "idle" ELSE @]
       IN  \/ /\ Wanted(j)
              /\ servers' = freed
              /\ UNCHANGED place
              /\ phase' = [phase EXCEPT ![j] = "answering"]
              /\ EnterCallback(j, "Exited",
                   [kind |-> "completed", server |-> i, job |-> j, rest |-> {}, outcome |-> "Exited"],
                   frames)
           \/ /\ ~Wanted(j)
              /\ Dispatch([phase EXCEPT ![j] = "done"], freed, place, tool)
              /\ SkipCallback(frames)
    /\ UNCHANGED <<tool, cancelled, alive, poolVars>>

\* The innermost callback returns, its dialog being closed, and its handler goes on.
CallbackReturned ==
    /\ frames # <<>>
    /\ LET f == frames[Len(frames)]
           below == SubSeq(frames, 1, Len(frames) - 1)
           life == [phase EXCEPT ![f.job] = "done"]
       IN  \/ /\ f.kind = "completed" /\ f.server # NoServer
              /\ Dispatch(life, servers, place, tool)
              /\ SkipCallback(below)
              /\ UNCHANGED <<unavailable, failedRoots>>
           \/ /\ f.kind = "died"
              /\ ServerDied(f.server, f.outcome, life, below)
           \/ /\ f.kind = "stranded"
              /\ FailStranded(f.rest, f.outcome, life, servers, below)
              /\ UNCHANGED <<unavailable, failedRoots>>
    /\ DiedLeavesAlone

\* killServer(): a hello without runcommand, a desynced or malformed stream.
StreamFails(i) ==
    /\ Signalled(i)
    /\ servers[i].stage \in {"starting", "up"}
    /\ servers' = [servers EXCEPT ![i].stage = "dying"]
    /\ UNCHANGED <<phase, frames, jobVars, poolVars>>

\* Mutant of GraceExpires: the server is killed if it has gone on to another command.
GraceExpiresForOthers(i) ==
    /\ Signalled(i)
    /\ servers[i].stage = "up"
    /\ cancelled # {} /\ servers[i].job \notin cancelled
    /\ servers' = [servers EXCEPT ![i].stage = "dying"]
    /\ UNCHANGED <<phase, frames, jobVars, poolVars>>

\* The single shot of ServerJob::cancel(): the command has overstayed its grace period.
GraceExpires(i) ==
    /\ Signalled(i)
    /\ servers[i].stage = "up"
    /\ servers[i].job \in cancelled
    /\ servers' = [servers EXCEPT ![i].stage = "dying"]
    /\ UNCHANGED <<phase, frames, jobVars, poolVars>>

\* retire(), from _retireTimer.
RetireTimerFires(i) ==
    /\ Signalled(i)
    /\ servers[i].timer # "off"
    /\ servers' = [servers EXCEPT ![i].timer = "off", ![i].retiring = TRUE]
    /\ UNCHANGED <<phase, frames, jobVars, poolVars>>

\* ServerJob::cancel(): a queued job is dropped, the delivery of one in flight suppressed.
Cancel(j) ==
    /\ ~down
    /\ j \notin cancelled
    /\ phase[j] \in {"queued", "running", "stranded", "handedOver"}
    /\ cancelled' = cancelled \cup {j}
    /\ phase' = [phase EXCEPT ![j] = IF @ = "queued" THEN "done" ELSE @]
    /\ place' = Places(phase', place)
    /\ UNCHANGED <<servers, frames, tool, alive, answers, toldUnlaunched, poolVars>>

DestroyContext(c) ==
    /\ ~down
    /\ c \in alive
    /\ alive' = alive \ {c}
    /\ UNCHANGED <<servers, phase, frames, place, tool, cancelled, answers, toldUnlaunched, poolVars>>

\* The process transport ends a job it was handed.
FallbackEnds(j) ==
    /\ InEventLoop
    /\ phase[j] = "handedOver"
    /\ phase' = [phase EXCEPT ![j] = "done"]
    /\ answers' = [answers EXCEPT ![j] = IF Wanted(j) THEN @ + 1 ELSE @]
    /\ UNCHANGED <<servers, frames, place, tool, cancelled, alive, toldUnlaunched, poolVars>>

\* Mutant of SettingsChanged: only the servers that are up are retired.
SettingsChangedSparesStarting(e) ==
    /\ InEventLoop
    /\ changes < MaxChanges
    /\ changes' = changes + 1
    /\ setting' = e
    /\ unavailable' = FALSE
    /\ failedRoots' = {}
    /\ tool' = [j \in Jobs |-> IF j \in Queue THEN e ELSE tool[j]]
    /\ servers' = [i \in Pool |-> IF servers[i].exe = e \/ ~servers[i].helloSeen THEN servers[i]
                                  ELSE [servers[i] EXCEPT !.retiring = TRUE]]
    /\ UNCHANGED <<phase, frames, place, cancelled, alive, answers, toldUnlaunched,
                   openCounts, down>>

\* The settings hook of the pool's constructor: the latches are reset, and the servers of
\* another executable retired.
SettingsChanged(e) ==
    /\ InEventLoop
    /\ changes < MaxChanges
    /\ changes' = changes + 1
    /\ setting' = e
    /\ unavailable' = FALSE
    /\ failedRoots' = {}
    /\ tool' = [j \in Jobs |-> IF j \in Queue THEN e ELSE tool[j]]
    /\ servers' = [i \in Pool |-> IF servers[i].exe = e THEN servers[i]
                                  ELSE [servers[i] EXCEPT !.retiring = TRUE]]
    /\ UNCHANGED <<phase, frames, place, cancelled, alive, answers, toldUnlaunched,
                   openCounts, down>>

\* bindRootOpened() for the servers inside a repository of which the first object appears.
RepositoryOpened(r) ==
    /\ ~down
    /\ changes < MaxChanges
    /\ changes' = changes + 1
    /\ openCounts' = [openCounts EXCEPT ![r] = @ + 1]
    /\ servers' = [i \in Pool |->
                     IF openCounts[r] > 0 \/ <<servers[i].root, r>> \notin Inside THEN servers[i]
                     ELSE [servers[i] EXCEPT !.timer = IF servers[i].job = NoJob THEN "idle" ELSE "off"]]
    /\ UNCHANGED <<phase, frames, jobVars, unavailable, failedRoots, setting, down>>

\* bindRootClosed() for the servers inside no repository any more.
RepositoryClosed(r) ==
    /\ ~down
    /\ openCounts[r] > 0
    /\ openCounts' = [openCounts EXCEPT ![r] = @ - 1]
    /\ servers' = [i \in Pool |->
                     IF openCounts'[r] > 0 \/ <<servers[i].root, r>> \notin Inside
                        \/ \E o \in Roots : openCounts'[o] > 0 /\ <<servers[i].root, o>> \in Inside
                     THEN servers[i]
                     ELSE [servers[i] EXCEPT !.timer = "closed"]]
    /\ UNCHANGED <<phase, frames, jobVars, unavailable, failedRoots, setting, down,
                   changes>>

\* shutdown(): the event loop has returned, and nothing is delivered any more.
Shutdown ==
    /\ ~down
    /\ frames = <<>>
    /\ down' = TRUE
    /\ servers' = <<>>
    /\ phase' = [j \in Jobs |-> IF j \in Asked THEN "done" ELSE phase[j]]
    /\ place' = [j \in Jobs |-> 0]
    /\ UNCHANGED <<frames, tool, cancelled, alive, answers, toldUnlaunched, unavailable, failedRoots,
                   openCounts, setting, changes>>

Next ==
    \/ \E i \in ServerIds :
          \/ ProcessExits(i) \/ LaunchRefused(i) \/ Hello(i) \/ CommandCompletes(i)
          \/ StreamFails(i) \/ GraceExpires(i) \/ RetireTimerFires(i)
    \/ \E j \in Jobs : Run(j) \/ Cancel(j) \/ FallbackEnds(j)
    \/ \E c \in Contexts : DestroyContext(c)
    \/ \E e \in Executables : SettingsChanged(e)
    \/ \E r \in Roots : RepositoryOpened(r) \/ RepositoryClosed(r)
    \/ CallbackReturned
    \/ Shutdown

\* What a server does unless it hangs: commands end on their own, which is not assumed of a
\* cancelled one, and a process exits once it is killed, or idle with its input closed.
Progress(i) ==
    /\ i \in Pool
    /\ \/ Hello(i) \/ LaunchRefused(i) \/ RetireTimerFires(i) \/ GraceExpires(i)
       \/ servers[i].job \notin cancelled /\ CommandCompletes(i)
       \/ /\ servers[i].stage = "dying" \/ (servers[i].retiring /\ servers[i].job = NoJob)
          /\ ProcessExits(i)

\* Also, callbacks return, their dialogs being closed, and the process transport keeps its contract.
Fairness ==
    /\ \A i \in ServerIds : WF_vars(Progress(i))
    /\ WF_vars(\E j \in Jobs : FallbackEnds(j))
    /\ WF_vars(CallbackReturned)

Spec == Init /\ [][Next]_vars /\ Fairness

-------------------------------------------------------------------------------

TypeOK ==
    /\ Pool \subseteq ServerIds
    /\ \A i \in Pool : servers[i] \in Server
    /\ phase \in [Jobs -> Phases]
    /\ place \in [Jobs -> 0..Cardinality(Jobs)]
    /\ tool \in [Jobs -> Executables]
    /\ cancelled \subseteq Asked /\ toldUnlaunched \subseteq Asked
    /\ alive \subseteq Contexts
    /\ \A d \in DOMAIN frames : frames[d] \in Frame
    /\ unavailable \in BOOLEAN /\ down \in BOOLEAN
    /\ failedRoots \subseteq Roots
    /\ openCounts \in [Roots -> Nat]
    /\ setting \in Executables
    /\ answers \in [Jobs -> Nat]
    /\ changes \in 0..MaxChanges

(***************************************************************************)
(* Every command in flight is on exactly one server, which knows it: a     *)
(* result is delivered to the job that asked for it, through reassignments *)
(* from callbacks, crashes and respawns.                                   *)
(***************************************************************************)
OneServerPerJob ==
    \A j \in Jobs :
        Cardinality({i \in Pool : servers[i].job = j}) = IF phase[j] = "running" THEN 1 ELSE 0

(***************************************************************************)
(* In the event loop, a queue somebody waits in has a server on its way to *)
(* it, and none that is idle: no event is missed that should dispatch.     *)
(***************************************************************************)
NoIdleWhileQueued ==
    frames = <<>> /\ (\E j \in Queue : HasListener(j)) =>
        Pool # {} /\ \A i \in Pool : ~IsIdle(servers[i])

\* Both: a command waits while it must, and is then in one place.
JobsFindServers == OneServerPerJob /\ NoIdleWhileQueued

(***************************************************************************)
(* The deadlines of the class comment: a server up inside an open          *)
(* repository is to retire once idle for long, one inside none soon,       *)
(* commands or not; whatever the order of commands, openings and closings. *)
(***************************************************************************)
RetireTimerDiscipline ==
    \A i \in Pool :
        servers[i].stage = "up" /\ ~servers[i].retiring =>
            servers[i].timer =
                IF ~InsideOpen(servers[i].root) THEN "closed"
                ELSE IF servers[i].job = NoJob THEN "idle" ELSE "off"

\* A server of an executable that is no longer configured takes no more jobs, and none is spawned.
ServersRunConfiguredExecutable ==
    \A i \in Pool : servers[i].exe # setting => servers[i].retiring

(***************************************************************************)
(* The pool is only latched out of use while the configured executable     *)
(* does not launch: the late death of a server started before the settings *)
(* were fixed does not latch it again.                                     *)
(***************************************************************************)
UnavailableHasCause == unavailable => setting \in BadExecutables

(***************************************************************************)
(* "Only the jobs the cause diagnoses are failed" (hgcommandserver.cpp,    *)
(* serverDied()): a job told that its launch failed could not have been    *)
(* launched.                                                               *)
(***************************************************************************)
OnlyDiagnosedJobsFail ==
    \A j \in toldUnlaunched : tool[j] \in BadExecutables \/ RootOf[j] \in GoneRoots

\* Both: what is latched, and what is failed for it, could not have been launched.
FailuresAreDeserved == UnavailableHasCause /\ OnlyDiagnosedJobsFail

(***************************************************************************)
(* "Called from the server's own signal handler, so it is deleted from the *)
(* event loop" (hgcommandserver.cpp, serverDied()): no handler is          *)
(* suspended on a server that has been deleted.                            *)
(***************************************************************************)
NoHandlerOnFreedServer ==
    \A d \in DOMAIN frames : frames[d].kind # "stranded" => frames[d].server # NoServer

\* The contract of Vcs::Job; what the end of the program leaves undelivered is excused.
Promise == INSTANCE JobContract WITH
    asked   <- Asked,
    excused <- IF down THEN Jobs ELSE cancelled \cup {j \in Jobs : ~HasListener(j)}

KeepsContract == Promise!Contract

\* A cancelled command gives its server up, be it one that never ends.
CancelledLetsGo == \A j \in Jobs : j \in cancelled ~> phase[j] # "running"

\* A repository that stays closed is let go of, whatever was queued for it.
ClosedRootIsLetGo ==
    \A r \in Roots : <>[](~InsideOpen(r)) => <>[](\A i \in Pool : servers[i].root # r)

\* Both: no server is held for ever by what nobody waits for any more.
ServersLetGo == CancelledLetsGo /\ ClosedRootIsLetGo
===============================================================================
