---------------------------- MODULE RuntimeChecks ----------------------------
(***************************************************************************)
(* raft-sim/src/invariants.rs: the checks the simulator runs on its nodes, *)
(* with the memory they keep between calls.  Simulator::step calls         *)
(* verify_safety once per tick; here it runs after every single delivery,  *)
(* tick, crash and proposal inside a tick, so that what it overlooks is    *)
(* overlooked by the checks and not by their rhythm.  The first check that *)
(* fails ends the run, as in the tests that call it.                       *)
(***************************************************************************)
EXTENDS Simulator

VARIABLES seen_leaders,         \* SafetyInvariants::term_leaders
          committed_entries,    \* SafetyInvariants::committed_entries
          verdict               \* "Ok", or the check that returned an error

checkedVars == <<vars, seen_leaders, committed_entries, verdict>>

leaders_now == {<<current_term[n], n>> : n \in {p \in alive : role[p] = "Leader"}}

check_election_safety(seen, now) ==
    \A a \in now, b \in seen \cup now : a[1] = b[1] => a[2] = b[2]

\* Mutant: the entry a snapshot stands for is compared as well.
check_log_matching_at_base ==
    \A n, p \in alive :
        \A i \in 1..Min2(last_index(log[n]), last_index(log[p])) :
            (/\ term_at(log[n], i) # None
             /\ term_at(log[n], i) = term_at(log[p], i)) =>
                entry_at(log[n], i).command = entry_at(log[p], i).command

\* Terms are compared index by index; entries below one that matches are not
\* looked at when their own terms differ.
check_log_matching ==
    \A n, p \in alive :
        \A i \in 1..Min2(last_index(log[n]), last_index(log[p])) :
            (/\ term_at(log[n], i) # None
             /\ term_at(log[n], i) = term_at(log[p], i)
             /\ i > first_index(log[n]) /\ i > first_index(log[p])) =>
                entry_at(log[n], i).command = entry_at(log[p], i).command

check_leader_append_only == TRUE

\* What the logs hold up to last_applied, no-ops and snapshot bases aside.
applied_commands ==
    UNION {{e \in {entry_at(log[n], i) : i \in 1..last_applied[n]} \ {None} :
                e.command # Noop} : n \in alive}

check_state_machine_safety(seen, now) ==
    \A a \in now, b \in seen \cup now : a.index = b.index => a = b

\* The checks come in this order; each one that passes has stored what it saw.
verify_safety ==
    LET elections == check_election_safety(seen_leaders, leaders_now')
        logs      == check_log_matching' /\ check_leader_append_only
        machines  == check_state_machine_safety(committed_entries, applied_commands')
    IN  /\ verdict' = IF ~elections THEN "Election Safety"
                      ELSE IF ~logs THEN "Log Matching"
                      ELSE IF ~machines THEN "State Machine Safety"
                      ELSE "Ok"
        /\ seen_leaders' = IF elections THEN seen_leaders \cup leaders_now'
                           ELSE seen_leaders
        /\ committed_entries' = IF verdict' = "Ok"
                                THEN committed_entries \cup applied_commands'
                                ELSE committed_entries

ChecksInit == seen_leaders = {} /\ committed_entries = {} /\ verdict = "Ok"

CheckedNext == verdict = "Ok" /\ Next /\ verify_safety

CheckedSpec == Init /\ ChecksInit /\ [][CheckedNext]_checkedVars

------------------------------------------------------------------------------
\* invariants.rs:59: no false alarm.  When a check fails, one of the
\* properties it stands for is really lost, whatever has been compacted,
\* restarted or overwritten in between.
NoFalseAlarm ==
    verdict # "Ok" => ~(/\ ElectionSafety /\ LogMatching
                        /\ StateMachineSafety /\ LeaderCompleteness)

\* README.md:42 and :47: the tick after which two state machines have applied
\* different entries at one index does not end with Ok.
DivergenceIsReported == ~StateMachineSafety => verdict # "Ok"
==============================================================================
