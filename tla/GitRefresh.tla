------------------------------ MODULE GitRefresh ------------------------------
(***************************************************************************)
(* GitRepository's refresh: two rounds of parallel queries, each reading   *)
(* the disk at a moment of its own, from which the state and the rows of   *)
(* the file list are put together.  The queries that only lengthen the     *)
(* answer (line counts, the unpushed subjects) are left out, but for the   *)
(* one that tells undo whether there is a commit to go back to.            *)
(***************************************************************************)
EXTENDS GitWorkTree, RefreshCycle

\* "status" stands also for the queries of the git directory and the submodules,
\* without which no state can be established either, and for HEAD's log, whose
\* answer nothing but undo reads, on a run made when nothing else happens.
FirstRound == {"status", "tracked"}

NoRun == [round |-> 0, asked |-> {}, subs |-> {}, failed |-> FALSE, trackedError |-> FALSE, unborn |-> FALSE,
          parents |-> 0, submodules |-> {}, untracked |-> {}, conflicted |-> {}, diff |-> {}, content |-> <<>>]

TrackedEntry == [path : Paths, was : Paths \cup {None}, type : {"Added", "Deleted", "Modified", "Renamed"}]

-------------------------------------------------------------------------------
(* What each query reads, at the moment it runs.                             *)

NameStatus ==
    LET paired == UNION {{r[1], r[2]} : r \in Renames}
    IN  {[path |-> r[2], was |-> r[1], type |-> "Renamed"] : r \in Renames}
        \cup {[path |-> p, was |-> None,
               type |-> IF head[p] = None THEN "Added" ELSE IF InTree(p) = None THEN "Deleted" ELSE "Modified"]
                : p \in Differing \ paired}

Answered(q, r) == [r EXCEPT !.asked = @ \ {q}]

StatusRead(r) == [r EXCEPT !.unborn = (log = <<>>), !.parents = parentCount,
                           !.submodules = {s \in Submodules : Tracked(s)},
                           !.untracked = {p \in Paths : IsUntracked(p)},
                           !.conflicted = {p \in Paths : index[p] = Unmerged}]

\* A query of the first round answers.  HEAD's diff fails on an unborn branch, by design.
AnswerFirst(q, ok) ==
    /\ run.round = 1
    /\ q \in run.asked
    /\ ok => log # <<>> \/ q # "tracked"
    /\ LET r == Answered(q, run)
       IN  run' = CASE q = "status"  -> IF ok THEN StatusRead(r) ELSE [r EXCEPT !.failed = TRUE]
                    [] q = "tracked" -> IF ok THEN [r EXCEPT !.diff = NameStatus] ELSE [r EXCEPT !.trackedError = TRUE]

\* startDependentQueries(): the empty tree stands in for an unborn HEAD; each submodule is asked inside.
\* NameStatus needs no other form for it: an unborn head holds nothing.
StartDependentQueries ==
    /\ run.round = 1
    /\ run.asked = {}
    /\ run' = [run EXCEPT !.round = 2,
                          !.asked = IF run.unborn THEN {"emptyTree"} ELSE {}, !.subs = run.submodules]

AnswerEmptyTree(ok) ==
    /\ run.round = 2
    /\ "emptyTree" \in run.asked
    /\ LET r == Answered("emptyTree", run)
       IN  run' = IF ok THEN [r EXCEPT !.diff = NameStatus, !.trackedError = FALSE]
                        ELSE [r EXCEPT !.trackedError = TRUE]

AnswerInside(s, ok) ==
    /\ s \in run.subs
    /\ run' = [run EXCEPT
                 !.subs = @ \ {s},
                 !.content = [q \in DOMAIN @ \cup {s} |-> IF q = s THEN (IF ok THEN inside[s] ELSE "Unknown") ELSE @[q]]]

-------------------------------------------------------------------------------
(* The rows.                                                                 *)

\* A row of the tracked changes; at a submodule's path it is a moved pointer, and
\* only the unmerged entries tell a conflict from an edit.
diffRow(d, r) ==
    LET sub == d.path \in r.submodules
    IN  [path |-> d.path, was |-> d.was, sub |-> sub, nested |-> FALSE, pointerMoved |-> sub,
         type |-> IF d.path \in r.conflicted /\ ~sub THEN "Conflicted" ELSE d.type,
         content |-> IF sub THEN r.content[d.path] ELSE "Clean"]

\* An untracked directory with a repository of its own is listed, never committed.
plainRow(p, t) == [path |-> p, was |-> None, sub |-> FALSE, nested |-> t = "Untracked" /\ p \in Submodules,
                   pointerMoved |-> FALSE, type |-> t, content |-> "Clean"]

\* An unmoved submodule earns a row only by content that blocks its pointer.
contentRows(S, r) ==
    {e \in [path : S, was : {None}, sub : {TRUE}, nested : {FALSE}, pointerMoved : {FALSE}, type : {"Modified"},
            content : {"DirtyTracked", "Unknown"}] : e.content = r.content[e.path]}

\* Mutant of filesFromRun: a conflict is looked for among the diff's rows only.
filesFromRunByDiff(r) ==
    {diffRow(d, r) : d \in r.diff}
    \cup {plainRow(p, "Untracked") : p \in r.untracked}
    \cup contentRows(r.submodules \ {d.path : d \in r.diff}, r)

\* A conflict that leaves the working tree as HEAD is in no diff.
filesFromRun(r) ==
    LET listed == {d.path : d \in r.diff}
    IN  {diffRow(d, r) : d \in r.diff}
        \cup {plainRow(p, "Conflicted") : p \in r.conflicted \ listed}
        \cup {plainRow(p, "Untracked") : p \in r.untracked}
        \cup contentRows(r.submodules \ listed, r)

\* finishRefresh() and stateFromRun().  The operation is read from its marker now.
FinishRefresh ==
    /\ run.round = 2
    /\ run.asked = {}
    /\ run.subs = {}
    /\ Establish(~run.failed /\ ~run.trackedError,
                 [known |-> TRUE, merging |-> merging, unborn |-> run.unborn, parents |-> run.parents],
                 filesFromRun(run))

NewRun == [NoRun EXCEPT !.round = 1, !.asked = FirstRound]

\* A failure by design, of HEAD's diff where there is none, is not counted.
AnswerQuery ==
    /\ \/ \E q \in run.asked \cap FirstRound, ok \in BOOLEAN :
             /\ AnswerFirst(q, ok)
             /\ IF log = <<>> /\ q = "tracked" THEN UNCHANGED failures ELSE MayFail(ok)
       \/ \E ok \in BOOLEAN : AnswerEmptyTree(ok) /\ MayFail(ok)
       \/ \E s \in Submodules, ok \in BOOLEAN : AnswerInside(s, ok) /\ MayFail(ok)
       \/ StartDependentQueries /\ UNCHANGED failures
    /\ UNCHANGED <<again, state, files, moved>>

RefreshTypeOK ==
    /\ CycleTypeOK
    /\ run.round \in 0..2
    /\ run.diff \subseteq TrackedEntry
===============================================================================
