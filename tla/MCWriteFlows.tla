----------------------------- MODULE MCWriteFlows -----------------------------
(***************************************************************************)
(* Instances of WriteFlows for TLC: every flow but the discard inside a    *)
(* submodule, and small sets of flows that meet.                           *)
(***************************************************************************)
EXTENDS WriteFlows

LockedFlows == (Mutations \ {"discardSubmodule"}) \cup Pushes
SubmoduleFlows == {"commit", "discardSubmodule"}
RewritingFlows == {"abort"}
================================================================================
