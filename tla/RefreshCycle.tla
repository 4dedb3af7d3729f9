----------------------------- MODULE RefreshCycle -----------------------------
(***************************************************************************)
(* Repository's refresh, whichever system answers it (repository.cpp): one *)
(* run at a time and one more after it where it was asked meanwhile, and   *)
(* what a run that failed leaves.  The run itself is GitRefresh's or       *)
(* HgRefresh's.                                                            *)
(***************************************************************************)
EXTENDS WorkingTree

CONSTANT MaxFailures   \* bound: how many commands fail in a behaviour

VARIABLES
    run,      \* RefreshRun; its "round" is 0 while none is under way
    again,    \* Repository::_refreshPending
    state,    \* Repository::_state, what is read of it here
    files,    \* Repository::_files
    moved,    \* history: the disk has changed since the last run began
    failures  \* how many commands have failed

refreshVars == <<run, again, state, files, moved, failures>>

FileEntry == [path : Paths, was : Paths \cup {None}, sub : BOOLEAN, nested : BOOLEAN, pointerMoved : BOOLEAN,
              type : {"Added", "Deleted", "Modified", "Renamed", "Conflicted", "Untracked"},
              content : {"Clean", "Untracked", "DirtyTracked", "Unknown"}]

contentBlocksPointer(e) == e.content \in {"DirtyTracked", "Unknown"}
committable(e) == ~e.nested /\ (e.sub => e.pointerMoved /\ ~contentBlocksPointer(e))

\* Repository::refresh()
Refresh(new) ==
    IF run.round = 0
    THEN run' = new /\ moved' = FALSE /\ UNCHANGED again
    ELSE again' = TRUE /\ UNCHANGED <<run, moved>>

\* completeRefresh(): a run that failed leaves everything but readFailure as it was.
Establish(known, read, rows) ==
    IF known THEN state' = read /\ files' = rows
             ELSE state' = [state EXCEPT !.known = FALSE] /\ UNCHANGED files

\* The end of completeRefresh(): the pending refresh starts.
RestartIfAsked(new, none) ==
    IF again THEN run' = new /\ moved' = FALSE /\ again' = FALSE
             ELSE run' = none /\ UNCHANGED <<again, moved>>

\* The command fails, or it does what it should.
MayFail(ok) ==
    /\ ok \/ failures < MaxFailures
    /\ failures' = IF ok THEN failures ELSE failures + 1

FirstState == [known |-> TRUE, merging |-> FALSE, unborn |-> FALSE, parents |-> 0]

CycleTypeOK ==
    /\ again \in BOOLEAN
    /\ state \in [known : BOOLEAN, merging : BOOLEAN, unborn : BOOLEAN, parents : 0..2]
    /\ files \subseteq FileEntry
    /\ moved \in BOOLEAN
===============================================================================
