----------------------------- MODULE ChangedFiles -----------------------------
(***************************************************************************)
(* The commit window's file list (changedfilesmodel.cpp): which rows are   *)
(* checked, kept from one refresh to the next, and the pathspecs a commit  *)
(* is made from.  A row is its FileEntry.                                  *)
(***************************************************************************)
EXTENDS RefreshCycle

VARIABLES
    rows,      \* ChangedFilesModel::_rows, the entries
    checked,   \* those whose box is checked
    mergeMode, \* the rows were set for a merge commit: the tracked ones are forced
    policy     \* Settings::NewRowCheckPolicyKey

listVars == <<rows, checked, mergeMode, policy>>

Policies == {"all", "none", "allButUntracked"}

ListTypeOK ==
    /\ rows \subseteq FileEntry
    /\ checked \subseteq rows
    /\ mergeMode \in BOOLEAN
    /\ policy \in Policies

newRowChecked(type) ==
    \/ type = "Added"
    \/ policy = "all"
    \/ policy = "allButUntracked" /\ type # "Untracked"

\* The rows remembered by path: an unchecked row that could not be committed was not
\* a choice.  Where a path has two rows the later one, the untracked, is remembered.
previousRows(p) ==
    LET same == {e \in rows : e.path = p /\ committable(e)}
    IN  IF \E e \in same : e.type = "Untracked" THEN {e \in same : e.type = "Untracked"} ELSE same

\* The check state of one row of a new list.
StartsChecked(e, merge) ==
    LET previous == previousRows(e.path)
        kept == \E f \in previous : f \in checked
        becameAdded == e.type = "Added" /\ \A f \in previous : f.type # "Added"
    IN  IF merge THEN e.type # "Untracked" \/ kept
        ELSE committable(e) /\ IF previous = {} THEN newRowChecked(e.type) ELSE kept \/ becameAdded

setEntries(entries, merge) ==
    /\ rows' = entries
    /\ mergeMode' = merge
    /\ checked' = {e \in entries : StartsChecked(e, merge)}

isUserCheckable(e) == committable(e) /\ ~(mergeMode /\ e.type # "Untracked")

\* setRowsChecked(), and setRowChecked() for one row.
setRowsChecked(R, on) ==
    LET open == {e \in R : isUserCheckable(e)}
    IN  checked' = IF on THEN checked \cup open ELSE checked \ open

\* setAllChecked() and checkAllExceptUntracked()
applyChecked(wanted) ==
    checked' = {e \in rows : IF isUserCheckable(e) THEN e \in wanted ELSE e \in checked}

\* Mutant of checkedPathspec: a rename's new name only.
checkedNewNames == {e.path : e \in checked}

\* Both names of a rename, or the deletion of the old one is lost.
checkedPathspec == {e.path : e \in checked} \cup {e.was : e \in {f \in checked : f.was # None}}
checkedUntrackedPaths == {e.path : e \in {f \in checked : f.type = "Untracked"}}
unresolvedConflictPaths == {e.path : e \in {f \in rows : f.type = "Conflicted"}}
===============================================================================
