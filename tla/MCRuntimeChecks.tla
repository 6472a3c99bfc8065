--------------------------- MODULE MCRuntimeChecks ---------------------------
(***************************************************************************)
(* RuntimeChecks for TLC, from the start of MCSimulator!LedSpec: the checks *)
(* have seen the leader of term 1, and nothing has been applied yet.       *)
(***************************************************************************)
EXTENDS RuntimeChecks, MCSimulator

CheckedLedSpec ==
    /\ LedInit
    /\ seen_leaders = leaders_now /\ committed_entries = {} /\ verdict = "Ok"
    /\ [][CheckedNext]_checkedVars
==============================================================================
