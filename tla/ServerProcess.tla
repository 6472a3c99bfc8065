---------------------------- MODULE ServerProcess ----------------------------
(***************************************************************************)
(* raft-server/src/main.rs: one server process on its DurableDisk.  It     *)
(* carries out the Actions of its node one by one (process_actions), and   *)
(* may be killed between any two of them and in the middle of a            *)
(* truncate_and_append.  The rest of the cluster is an environment: some   *)
(* candidate asks for a vote, some leader of a term sends entries, never   *)
(* two leaders in one term.  Of the node only what decides on Actions is   *)
(* kept.                                                                   *)
(***************************************************************************)
EXTENDS DurableDisk

CONSTANTS Id,         \* this node
          Ids,        \* all NodeIds of the cluster
          Lengths,    \* the lengths of commands, in words
          MaxTerm, MaxLog, MaxBatch, MaxCrashes   \* bounds

ASSUME ProcessAssumption ==
    /\ Id \in Ids /\ Ids \subseteq Nat
    /\ None \notin Nat /\ None \notin [term : Nat, voted : Nat]   \* no Some(x)
    /\ Lengths \subseteq Nat
    /\ MaxTerm \in Nat /\ MaxLog \in Nat /\ MaxBatch \in Nat /\ MaxCrashes \in Nat

VARIABLES up, role, term, vote, log,  \* the process: gone when it is killed
          queue,      \* the Actions still to be carried out
          freed,      \* the contents of the log buffer freed last
          hs, wal,    \* the two files
          crashes,
          head,       \* history: the entries of the first write of the file
          torn,       \* history: killed in the middle of a truncate_and_append
          promised,   \* history: <<term, candidate>> of every vote that was sent
          owed,       \* history: the log this process has answered for
          firm        \* history: as far of it as lay in the file's first write

memory  == <<up, role, term, vote, log>>
history == <<head, torn, promised, owed, firm>>
vars    == <<memory, queue, freed, hs, wal, crashes, history>>

Init ==
    /\ up = TRUE /\ role = "Follower" /\ term = 0 /\ vote = None /\ log = new_log
    /\ queue = << >> /\ freed = << >> /\ hs = None /\ wal = << >>
    /\ crashes = 0 /\ head = << >> /\ torn = FALSE /\ promised = {}
    /\ owed = << >> /\ firm = << >>

Persist(t, v)    == [type |-> "PersistHardState", term |-> t, voted_for |-> v]
AppendAction(es) == [type |-> "AppendEntries", entries |-> es]
Truncate(i, es)  == [type |-> "TruncateAndAppend", from_index |-> i, entries |-> es]
Rewrite(es)      == [type |-> "Rewrite", entries |-> es]
SendVote(t, c)   == [type |-> "SendVote", vote |-> <<t, c>>]
SendLog          == [type |-> "SendLog"]

Commands == UNION {[1..k -> {7}] : k \in Lengths}
entry(i, t, c) == [index |-> i, term |-> t, command |-> c]
------------------------------------------------------------------------------
(* The node: one event, and the Actions it answers with.  The next event    *)
(* comes when they have all been carried out.                               *)

Idle == up /\ queue = << >>

\* A newer term is stored before anything else is done about it.
Observed(t) == IF t > term THEN <<Persist(t, None)>> ELSE << >>

\* Mutant: the answer leaves before the vote is stored.
granted_before_persisted(t, c) == <<SendVote(t, c), Persist(t, c)>>

granted(t, c) == <<Persist(t, c), SendVote(t, c)>>

request_vote(t, c) ==
    /\ Idle /\ t >= term
    /\ t = term => vote \in {None, c}
    /\ role' = (IF t > term THEN "Follower" ELSE role)
    /\ term' = t /\ vote' = c
    /\ queue' = Observed(t) \o granted(t, c)
    /\ UNCHANGED <<up, log, freed, hs, wal, crashes, history>>

\* The log or the lease speaks against it: only the term is taken.
refuse_vote(t) ==
    /\ Idle /\ t > term
    /\ role' = "Follower" /\ term' = t /\ vote' = None
    /\ queue' = Observed(t)
    /\ UNCHANGED <<up, log, freed, hs, wal, crashes, history>>

start_real_election ==
    /\ Idle /\ role # "Leader" /\ term < MaxTerm
    /\ role' = "Candidate" /\ term' = term + 1 /\ vote' = Id
    /\ queue' = granted(term + 1, Id)
    /\ UNCHANGED <<up, log, freed, hs, wal, crashes, history>>

\* become_leader with its no-op, and propose.
lead(c) ==
    LET e == entry(last_index(log) + 1, term, c)
    IN  /\ Idle /\ Len(log) <= MaxLog
        /\ \/ role = "Candidate" /\ c = << >>
           \/ role = "Leader"
        /\ role' = "Leader"
        /\ log' = Append(log, e)
        /\ queue' = <<AppendAction(<<e>>), SendLog>>
        /\ UNCHANGED <<up, term, vote, freed, hs, wal, crashes, history>>

\* The leader of term t has the same entry before i, and other entries from i
\* on, of its own term or of older ones.  Being told so ends what this node owes
\* from i on.
append_entries(t, i, new) ==
    LET es == [k \in DOMAIN new |-> entry(i + k - 1, new[k].term, new[k].command)]
        before == IF i = 1 THEN 1 ELSE term_at(log, i - 1)
        up_to(l) == SelectSeq(l, LAMBDA e : e.index < i)
    IN  /\ Idle /\ t >= term /\ i + Len(es) - 1 <= MaxLog
        /\ t = term => role # "Leader"
        /\ before \in 1..t /\ es[1].term >= before
        /\ \A k \in 2..Len(es) : es[k].term >= es[k - 1].term
        /\ term_at(log, i) \notin {t, es[1].term}
        /\ role' = "Follower" /\ term' = t
        /\ vote' = (IF t > term THEN None ELSE vote)
        /\ log' = truncate_and_append(log, i, es)
        /\ queue' = Observed(t) \o <<Truncate(i, es), SendLog>>
        /\ owed' = up_to(owed) /\ firm' = up_to(firm)
        /\ UNCHANGED <<up, freed, hs, wal, crashes, head, torn, promised>>
------------------------------------------------------------------------------
(* process_actions                                                          *)

Doing(type) == up /\ queue # << >> /\ queue[1].type = type

\* How far two sequences of entries agree.
Common(a, b) ==
    SubSeq(a, 1, Max({k \in 0..Len(a) : k <= Len(b) /\ \A j \in 1..k : a[j] = b[j]}))

persist_hard_state ==
    /\ Doing("PersistHardState")
    /\ hs' = write_hard_state(queue[1].term, queue[1].voted_for)
    /\ queue' = Tail(queue)
    /\ UNCHANGED <<memory, freed, wal, crashes, history>>

\* append_log_entries: one write at the end of the file, or none.
append_log_entries ==
    LET es == queue[1].entries
    IN  /\ Doing("AppendEntries") \/ Doing("Rewrite")
        /\ queue' = Tail(queue)
        /\ IF es = << >> THEN UNCHANGED <<wal, freed, head>>
           ELSE \E b \in buffers(payload(es), freed) :
                    /\ wal' = wal \o b
                    /\ freed' = b
                    /\ head' = IF wal = << >> THEN es ELSE head
        /\ UNCHANGED <<memory, hs, crashes, torn, promised, owed, firm>>

\* truncate_and_append up to its ftruncate; the two appends follow.
truncate_wal ==
    /\ Doing("TruncateAndAppend")
    /\ wal' = << >> /\ head' = << >>
    /\ queue' = <<Rewrite(preserved(wal, queue[1].from_index)),
                  Rewrite(queue[1].entries)>> \o Tail(queue)
    /\ UNCHANGED <<memory, freed, hs, crashes, torn, promised, owed, firm>>

send_vote ==
    /\ Doing("SendVote")
    /\ promised' = promised \cup {queue[1].vote}
    /\ queue' = Tail(queue)
    /\ UNCHANGED <<memory, freed, hs, wal, crashes, head, torn, owed, firm>>

\* An AppendEntries, a success answer or a ClientResponse: whoever reads it
\* counts on the log of this node.
send_log ==
    /\ Doing("SendLog")
    /\ owed' = Tail(log) /\ firm' = Common(Tail(log), head)
    /\ queue' = Tail(queue)
    /\ UNCHANGED <<memory, freed, hs, wal, crashes, head, torn, promised>>
------------------------------------------------------------------------------
crash ==
    /\ up /\ crashes < MaxCrashes
    /\ up' = FALSE /\ crashes' = crashes + 1
    /\ role' = "Follower" /\ term' = 0 /\ vote' = None /\ log' = new_log
    /\ torn' = (torn \/ Doing("Rewrite"))
    /\ queue' = << >> /\ freed' = << >>
    /\ UNCHANGED <<hs, wal, head, promised, owed, firm>>

\* main: the files are opened and read, and RaftNode::restore starts from them.
restart ==
    LET read == read_hard_state(hs)
    IN  /\ ~up /\ up' = TRUE
        /\ term' = read.term /\ vote' = read.voted_for
        /\ log' = recovered_log(wal)
        /\ UNCHANGED <<role, queue, freed, hs, wal, crashes, history>>

Next ==
    \/ \E t \in 1..MaxTerm :
           \/ \E c \in Ids \ {Id} : request_vote(t, c)
           \/ refuse_vote(t)
           \/ \E n \in 1..MaxBatch, i \in 1..Len(log) :
                  \E new \in [1..n -> [term : 1..t, command : Commands]] :
                      append_entries(t, i, new)
    \/ start_real_election
    \/ \E c \in Commands : lead(c)
    \/ persist_hard_state \/ append_log_entries \/ truncate_wal
    \/ send_vote \/ send_log
    \/ crash \/ restart

Spec == Init /\ [][Next]_vars
------------------------------------------------------------------------------
\* README.md:35, "Persistent Hard State": once a vote has been sent, a restart
\* finds that vote or a later term, whenever the process was killed.
VotePromisesKept ==
    \A p \in promised :
        LET read == read_hard_state(hs)
        IN  \/ read.term > p[1]
            \/ read.term = p[1] /\ read.voted_for = p[2]

\* README.md:20, "Production Durability", and main.rs:42: a restart replays every
\* entry this server has answered for.  A kill in the middle of a
\* truncate_and_append is the next property's, and left out of this one.
AcknowledgedSurvives ==
    torn \/ Doing("Rewrite") \/ IsPrefix(owed, replay_wal(wal))

\* As above for every kill, but only for the entries that lay in the first write
\* of the file when the server answered for them: the padding of a sector comes
\* after them, and replay_wal is sure to reach them.
FirstWriteSurvives == ~up => IsPrefix(firm, replay_wal(wal))

\* Nothing but a kill in the middle of truncate_and_append can lose these.
FirstWriteSurvivesUntorn ==
    torn \/ Doing("Rewrite") \/ IsPrefix(firm, replay_wal(wal))
==============================================================================
