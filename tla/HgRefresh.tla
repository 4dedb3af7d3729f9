------------------------------- MODULE HgRefresh ------------------------------
(***************************************************************************)
(* HgRepository's refresh: one round of parallel queries, each reading the *)
(* disk at a moment of its own (every hg invocation pays Python's start,   *)
(* so nothing waits for another).  Only a mergestate that exists when the  *)
(* round begins is asked for its conflicts.  The queries that only         *)
(* lengthen the answer (counts, paths, the unpushed) are left out; "wdir"  *)
(* stands for both logs, of the working directory and of its parent.       *)
(***************************************************************************)
EXTENDS HgWorkTree, RefreshCycle

CONSTANT DirstateV2   \* the dirstate is of version 2, whose parents the app cannot read
ASSUME HgRefreshAssumption == DirstateV2 \in BOOLEAN

\* recorded: _subrepoNodes, read before the round; asked, subs: the queries out;
\* blind (history): the last run's `resolve --list` failed, which is no failure of it.
NoRun == [round |-> 0, asked |-> {}, subs |-> {}, failed |-> FALSE, blind |-> FALSE, recorded |-> <<>>, changes |-> {},
          unborn |-> FALSE, parents |-> 0, merging |-> FALSE, conflicted |-> {}, content |-> <<>>, nodes |-> <<>>]

NewRun == [NoRun EXCEPT !.round = 1, !.recorded = [s \in Submodules |-> head[s]],
                        !.asked = {"status", "wdir"} \cup (IF mergestate THEN {"resolve"} ELSE {}),
                        !.subs = [of : Submodules, what : {"content", "node"}]]

ChangeType(p) ==
    CASE IsMissing(p) -> "Deleted"
      [] IsAdded(p)   -> IF source[p] = None THEN "Added" ELSE "Renamed"
      [] IsModified(p) -> "Modified"
      [] IsUnknown(p) -> "Untracked"
      [] IsRemoved(p) -> "Deleted"

\* The removed old name of a rename is the rename's row.
parseStatus ==
    LET listed == {p \in Files : ChangedFile(p)}
        renameSources == {source[p] : p \in listed}
    IN  {[path |-> p, was |-> source[p], type |-> ChangeType(p)]
           : p \in {q \in listed : ~(IsRemoved(q) /\ q \in renameSources)}}

\* A query answers; only the first two fail the run.
AnswerQuery(q, ok) ==
    LET r == [run EXCEPT !.asked = @ \ {q}]
    IN  /\ q \in run.asked
        /\ run' = CASE q = "status"  -> IF ok THEN [r EXCEPT !.changes = parseStatus] ELSE [r EXCEPT !.failed = TRUE]
                    [] q = "wdir"    -> IF ok THEN [r EXCEPT !.merging = merging, !.parents = parentCount, !.unborn = (log = <<>>)]
                                              ELSE [r EXCEPT !.failed = TRUE]
                    [] q = "resolve" -> IF ok THEN [r EXCEPT !.conflicted = unresolved] ELSE [r EXCEPT !.blind = TRUE]

\* Of a subrepo: its own status, or its parent changeset.
AnswerSubrepo(q, ok) ==
    LET s == q.of
        r == [run EXCEPT !.subs = @ \ {q}]
        with(f, v) == [t \in DOMAIN f \cup {s} |-> IF t = s THEN v ELSE f[t]]
    IN  /\ q \in run.subs
        /\ run' = CASE q.what = "content" -> [r EXCEPT !.content = with(@, IF ok THEN inside[s] ELSE "Unknown")]
                    [] q.what = "node"    -> IF ok THEN [r EXCEPT !.nodes = with(@, work[s])] ELSE r

\* A change, which only the mergestate can tell to be a conflict.
statusRow(c, r) ==
    [path |-> c.path, was |-> c.was, sub |-> FALSE, nested |-> FALSE, pointerMoved |-> FALSE,
     type |-> IF c.path \in r.conflicted THEN "Conflicted" ELSE c.type, content |-> "Clean"]

\* A conflict that leaves the file as its parent has it is in no status.
conflictRow(p) ==
    [path |-> p, was |-> None, sub |-> FALSE, nested |-> FALSE, pointerMoved |-> FALSE,
     type |-> "Conflicted", content |-> "Clean"]

\* Where its node could not be read, whether the pointer moved is unknown.
subrepoRow(s, r) ==
    LET known == s \in DOMAIN r.nodes
        content == r.content[s]
    IN  [path |-> s, was |-> None, sub |-> TRUE, nested |-> FALSE, type |-> "Modified",
         pointerMoved |-> known /\ r.nodes[s] # r.recorded[s],
         content |-> IF ~known /\ content \in {"Clean", "Untracked"} THEN "Unknown" ELSE content]

\* Mutant of filesFromRun: a conflict is looked for in the status only.
filesFromRunByStatus(r) ==
    {statusRow(c, r) : c \in r.changes}
    \cup {e \in {subrepoRow(s, r) : s \in Submodules} : e.pointerMoved \/ contentBlocksPointer(e)}

filesFromRun(r) ==
    {statusRow(c, r) : c \in r.changes}
    \cup {conflictRow(p) : p \in r.conflicted \ {c.path : c \in r.changes}}
    \cup {e \in {subrepoRow(s, r) : s \in Submodules} : e.pointerMoved \/ contentBlocksPointer(e)}

\* finishRefresh() and stateFromRun(): the operation is read from its marker now, and
\* from the run where the marker cannot be read.
FinishRefresh ==
    /\ run.round = 1
    /\ run.asked = {}
    /\ run.subs = {}
    /\ Establish(~run.failed,
                 [known |-> TRUE, merging |-> run.merging \/ (merging /\ ~DirstateV2),
                  unborn |-> run.unborn, parents |-> run.parents],
                 filesFromRun(run))

RefreshTypeOK ==
    /\ CycleTypeOK
    /\ run.round \in 0..1
    /\ run.changes \subseteq [path : Files, was : Files \cup {None},
                              type : {"Added", "Deleted", "Modified", "Renamed", "Untracked"}]
===============================================================================
