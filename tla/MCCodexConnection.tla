-------------------------- MODULE MCCodexConnection --------------------------
(* Small instances of CodexConnection for TLC.                             *)
EXTENDS CodexConnection

\* A run has the last of the asks or the last of the faults, not both.
AskOrFault == asks + faults < MaxAsks + MaxFaults
=============================================================================
