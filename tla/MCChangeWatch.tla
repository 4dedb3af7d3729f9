---------------------------- MODULE MCChangeWatch ----------------------------
(***************************************************************************)
(* Instances of ChangeWatch for TLC: a commit window, alone or with a      *)
(* history window, on a repository with one state directory, in its tree   *)
(* (an ordinary repository) or outside (a linked worktree).                *)
(***************************************************************************)
EXTENDS ChangeWatch
================================================================================
