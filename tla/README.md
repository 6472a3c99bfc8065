# A TLA+ model of Raft-₹

Raft-₹ is a Raft implementation in Rust: a consensus kernel without I/O
(`raft-core`), a deterministic simulator that runs a cluster of kernels on
simulated disks and a simulated network (`raft-sim`), and a TCP server with a
write-ahead log (`raft-server`) with its client (`raft-client`). This directory
holds specifications of the kernel as the simulator runs it, of the simulated
network, of the timers, of the runtime checks, and of the server with its files,
its connections and its clients; the TLC runs that check them on small
instances; and TLAPS proofs for clusters of any size.

## The system

| Part | State | Operations |
| --- | --- | --- |
| Log (`raft-core/src/log.rs`) | `entries`: a sentinel or snapshot base, then entries that carry their own index | `term_at`, `entries_from`, `append`, `truncate_and_append`, `compact`, `install_snapshot`, `restore` |
| Node (`raft-core/src/node.rs`, `message.rs`, `types.rs`) | role, term, vote, log, commit and apply index, progress maps, votes, leader, timers | `tick`, `step` (eight messages), `propose`, `compact_logs`; all return a list of Actions |
| Simulated disk (`raft-sim/src/storage.rs`) | hard state, entries, snapshot metadata | `write_hard_state`, `append_entries`, `truncate_and_append`, `write_snapshot` |
| Simulated network (`raft-sim/src/network.rs`) | messages with a due tick, partitions | `send` (drop, delay, duplicate), `drain_due`, `partition`, `heal_all` |
| Simulator (`raft-sim/src/simulator.rs`) | nodes, disks, network | `step`, `process_actions`, `propose_command`, `crash_node`, `spawn_node` |
| Runtime checks (`raft-sim/src/invariants.rs`) | `term_leaders`, `committed_entries` | four checks after every simulator step |
| Server (`raft-server/src/main.rs`) | one node, sockets, WAL | poll loop, client requests |
| WAL (`raft-server/src/storage.rs`) | metadata file, log file | the disk operations on O_DIRECT sectors, replay |
| Codec (`raft-server/src/codec.rs`) | what is left of a stream | length-prefixed frames over non-blocking sockets |
| Client (`raft-client/src/main.rs`) | - | one request, one answer |

A node never performs I/O. It returns Actions (Send, PersistHardState,
AppendEntries, TruncateAndAppend, PersistSnapshot, Apply), and its driver carries
them out in order. The simulator does this to the end before any other node
runs, so a handler together with its Actions is one atomic step of the cluster.
Nodes interact through messages only; a crash drops everything but the disk.

What is hard here: messages that are lost, duplicated, reordered or late by a
whole term; two candidates at once; a crash between any two steps, with a
restart from a disk that other code than the in-memory log cuts and compacts;
answers that do not say what they answer (`AppendEntriesResponse` carries no
index, `InstallSnapshotResponse` no snapshot); offsets relative to a base that
moves with compaction; and progress, which depends on terms catching up. The
`hazards` of `PROJECT.json` list each one at its line.

The server adds its own: its process can be killed between any two Actions and
inside one of them; a file is written in sectors and read in records; frames are
cut wherever the network and the socket buffers like.

What makes each part correct: the node elects at most one leader per term, never
takes back a vote, keeps logs matching, never rewrites a leader's log, and
applies the same entry everywhere; the disk can always rebuild what the node
holds, and no assert fires; under fair scheduling replication completes and
elections make progress; a leader that is heard stays leader; the network hands
over nothing that was not sent, and nothing more often than it may; a frame that
is cut costs no more than its connection; the runtime checks stay silent as long
as nothing is wrong, and report what is; a server keeps what it has promised and
acknowledged over a kill; a client is told the truth.

## Modules

| Module | Models | Role |
| --- | --- | --- |
| `RaftLog` | `log.rs` | operators on logs |
| `StableDisk` | `raft-sim/src/storage.rs` | operators on the disk record |
| `RaftNode` | `node.rs`, messages, the effect of `process_actions` | the state of all nodes, one action per handler |
| `Simulator` | `simulator.rs` | Init, Next, fairness, the properties of the cluster |
| `MCSimulator` | - | symmetry and start states for TLC |
| `DiskLoop` | the loop of `append_entries` in `raft-sim/src/storage.rs` | reference for the closed form in `StableDisk` |
| `RuntimeChecks`, `MCRuntimeChecks` | `invariants.rs` | the four checks as code, run after every step of `Simulator` |
| `LeaderLease` | the timers of `node.rs` | tick by tick, what `RaftNode` abstracts to `lease_fresh` |
| `LossyNetwork` | - | abstract: what nodes may rely on from a network |
| `SimNetwork` | `network.rs` | due ticks, partitions, duplicates; implements `LossyNetwork` with two copies |
| `FramedStream` | `codec.rs` | operators on the cells of a stream |
| `PeerLink` | connections and the poll loop of `raft-server/src/main.rs` | header and payload written one after the other, streams cut and reopened; implements `LossyNetwork` with one copy |
| `DurableDisk` | `raft-server/src/storage.rs` | operators on the words of the two files |
| `ServerProcess` | `process_actions` of `raft-server/src/main.rs` | one process, its files, and kills |
| `ServerCluster`, `MCServerCluster` | client requests, `raft-client`, the peer list of a server | the nodes of `Simulator` with clients, their answers, and restarts through `replay_wal` |
| `SimulatorProofs`, `DurabilityProofs` | - | lemmas about logs and disks; types, elections and durability of `Simulator` |
| `ClusterProofs` | - | matching logs of `Simulator` and of `ServerCluster`; elections and leader hints of `ServerCluster` |
| `SafetyProofs` | - | safety of commits and the answers of `ServerCluster`, the checks of `RuntimeChecks` |
| `LeaseProofs`, `ProcessProofs` | - | the timers of `LeaderLease`; votes of `ServerProcess` |
| `NetworkProofs`, `PeerLinkProofs` | - | `SimNetwork`, `PeerLink` and their refinements |

How they compose. `Simulator` extends `RaftNode`, which uses `RaftLog` and
`StableDisk`. `RuntimeChecks` extends `Simulator` by what watches it.
`ServerCluster` takes the nodes, the network and the properties of `Simulator` and
replaces its driver: clients instead of `propose_command`, `restart_server`
instead of `spawn_node`, no compaction. `PeerLink` extends `FramedStream` and
`ServerProcess` extends `DurableDisk`; the cluster around them is an
environment that may do whatever a correct one may. `RaftNode` lets any message
in flight arrive late, out of order, never, or (with `Duplicates`) again, which
is what `LossyNetwork` allows; `SimNetwork` and `PeerLink` are shown to
implement `LossyNetwork` through `INSTANCE ... WITH` (`ImplementsLossyNetwork`).
`CONSTANT SelfInPeers` says how the driver fills the peer list: `FALSE` in the
simulator, `TRUE` in the server, whose `main.rs:54` leaves the node's own entry in.

Definitions keep the names of the code. A variable such as `log` or `role` is a
function from servers to the field of that name in `RaftNode`; `disk[n]` is the
`StableDisk` of node n; `in_flight` is `SimNetwork::in_flight`. Variables in
`histVars`, and `applied`, record history for the properties and are read by no
guard; so do the variables marked history in the other modules.

Abstractions, and why they lose nothing the properties are about:

- **Time.** `election_elapsed` is compared with the base timeout (the leader
  lease) and with a randomised timeout in base..2*base-1. `lease_fresh` stands
  for the first comparison, and a timeout may fire at any time, which includes
  every schedule of real timers. `tick_lease_lapses` is taken only by nodes that
  know a leader or are candidates: for any other node the lease is not read
  before it is reset. Heartbeats may come at any time.
- **Batches.** `Simulator::step` delivers all due messages, ticks all nodes and
  then compacts. Each of these is a step of its own here, in any order: which
  messages are due in a batch depends on random delays, so every order within
  and between batches can occur. The compaction pass may also come late.
- **Network.** A message in flight may be delivered at any time, with
  `Duplicates` any number of times, or never. Loss and partitions are messages
  that are not delivered; `drop_message` makes a loss definite where liveness
  needs it. A message of a term its receiver has left can have no effect any
  more (the early return of `step()`, or a refused or uncounted pre-vote) and
  is removed at once (`Live`), as are refused votes, which the candidate's
  handlers ignore.
- **Data.** Commands are model values, a no-op is `Noop`, snapshot bytes are
  left out: nothing reads them. `InstallSnapshot` is always one complete chunk.
- **Panics.** An assert or panic sets `panicked`; the disk is then left as it
  was and the run is judged by `NoPanic`.
- **Clients.** `raft-client` asks one node once, prints the answer and ends, so a
  command is asked for once, whatever the answer.
- **Timers** (`LeaderLease`). The election timeout is drawn from base..2*base-1;
  which value it was need not be known before `election_elapsed` gets there, so
  it is drawn lazily: a node may fire from base on and must at 2*base-1. All logs
  are equal there, the case in which a stray node gets the most votes. `Init`
  takes the two extremes of what the election has left in `election_elapsed`, and
  starts when nothing is in flight any more. A copy made by the network comes one
  to three ticks behind its original, `MaxCopies` of them in a behaviour; a copy
  that is due in the same step as its original is not told from it.
- **Restarts of a server** (`ServerCluster`). What `replay_wal` gives back is what
  was written up to some place, and then nothing or what the padding reads as
  (`Padding`). Which of these it is depends on the words of the file, which
  `DurableDisk` and `ServerProcess` have; here it is any. A kill falls between two
  events. A kill inside one is that event, its messages lost, and a file that
  lacks what was not yet written; only the kill between two writes of the hard
  state is left to `ServerProcess`. `misread` records that a server has come back
  with another log than it had.
- **Files** (`DurableDisk`). The unit is a word of four bytes; a command is a
  number of words. A sector is 16 words where the code has 1024: the model keeps
  the remainder modulo the six words of a record without a command (4 for both),
  which decides how the reader gets out of step. A hard state fits a sector and
  is written at once. Memory of a buffer that nobody cleared
  (`AlignedBuffer::new`) is a choice between zeros, junk, and the contents of a
  buffer of that size that was freed before.
- **Frames** (`FramedStream`). A header of two cells and a payload of two, the
  least in which either can be cut. They are written one after the other, with
  anything the receiver or TCP does in between; a segment ends at any cell, and a
  write takes what fits into the `Window`. Bytes that are no header are read as
  some length; a payload that is none decodes to nothing or to some message.
- A node that is down keeps its last in-memory values until `spawn_node`
  replaces all of them.

## Runs

Cluster bounds are named in `Simulator` and `RaftNode`: `MaxTerm` (no election
starts above it), `MaxTimeouts`, `MaxHeartbeats`, `MaxCrashes`, `MaxLosses`, and
`CompactAbove`, the log length that triggers compaction (15 in the code, 1 where
a run is about compaction, so that three entries suffice).

| Run | Instance | Shows |
| --- | --- | --- |
| `elections` | 3 nodes, term 1, two timeouts, one crash, duplicates | `TypeOK`; `ElectionSafety`; `VotesAreFinal`: two candidates compete in every interleaving while a voter crashes and comes back |
| `overtaken_leader` | 3 nodes, a deposed leader still leading in term 1, a leader of term 2, one more election up to term 3, a crash, duplicates | `LogMatching`, `LeaderCompleteness`, `StateMachineSafety` while conflicting suffixes are replaced |
| `checked_cluster` | 2 nodes, two terms, a command, compaction, InstallSnapshot, a crash, the runtime checks after every step | `NoPanic`, `LogIsDurable`, `LogMatching`, `LeaderAppendOnly`; `NoFalseAlarm`: the checks stay silent under compaction and restart |
| `client_answers` | 3 servers, a client, a change of leader, a kill; ends with the first misread file | `MatchingWhileReadBack`, `SafeWhileReadBack`, `AnsweredIsKeptOnceHeld`, `HintWasElected` |
| `replication_completes` | 2 nodes, a command, a lost message, compaction, unbounded heartbeats | `ReplicationCompletes` |
| `leader_lease` | base 5, heartbeat 2, delay 1, one heartbeat lost in a row, one message of any kind duplicated, links of the stray node repaired at any time | `LeaderUndisturbed`, `FollowerStays`, `StrayRejoins` |
| `sim_network` | 2 nodes, 2 messages, delays up to 1, 6 ticks | `NothingOverdue`, `CutLinkFallsSilent`, `ImplementsLossyNetwork` |
| `peer_link` | 3 messages, 1 kill of either process, segments that end anywhere, a buffer of a frame and a half | `DamageIsConfined`, `OnceAndInOrder`, `LinkRecovers`, `ImplementsLossyNetwork` |
| `server_process` | 2 terms, 2 entries, batches of 2, a kill | `VotePromisesKept`, `FirstWriteSurvivesUntorn` |
| `pipelined_client`, `split_terms`, `lost_writes` | see Findings | violations |

The assumption `ClosedFormIsLoop` of `DiskLoop`, evaluated in every run of an MC
module, compares the closed form of `append_entries` with the loop of the code
for all disks and calls of up to 3 entries and 2 terms.

The other `.cfg` files are variations to be run by hand, with the module named
here. Each changes a few constants, or the start, of a run above:

| Configuration | Module | Result |
| --- | --- | --- |
| `snapshots` | `MCSimulator` | pass: the log properties with three nodes, one term, a crash |
| `unanimous_server` | `MCServerCluster` | pass: `AnsweredIsKept` with three servers that count themselves twice, one restarted with the log it had |
| `one_node_down` | `MCSimulator` | pass: `ElectionsProgress`, two of three nodes, the peer list as the core expects it |
| `killed_twice` | `PeerLink` | pass: `peer_link` with two kills |
| `longer_delays` | `LeaderLease` | pass: `leader_lease` with base 6, delays of 1 or 2 that reorder messages, and no duplicates |
| `server_majority` | `MCSimulator` | `ElectionsProgress` violated |
| `stuck_node` | `MCSimulator` | `LaggardsCatchUp` violated |
| `snapshot_forgets` | `MCSimulator` | `SafeWhileSupported` violated |
| `stale_disk` | `MCSimulator` | `LogMatching` violated |
| `answered_lost` | `MCServerCluster` | `AnsweredIsKept` violated |
| `blind_checks` | `MCRuntimeChecks` | `DivergenceIsReported` violated |
| `slow_winner` | `LeaderLease` | `LeaderUndisturbed` violated |
| `torn_truncate`, `node_zero` | `ServerProcess` | `FirstWriteSurvives`, `VotePromisesKept` violated |

Two terms are the least in which entries conflict, three nodes the least in
which a majority is not everybody, one crash the least in which a vote can be
forgotten, two appends the least in which a reader meets the padding of a
sector, three messages the least in which one is cut, one is lost with it, and
one shows whether the link has recovered; with a buffer of six cells the second
frame no longer fits behind an unread first one, and is cut between header and
payload.

In `client_answers` the server that is killed has up to three entries in its
file, which may give back all of them, some or none, and an entry of zeros
behind. `CONSTRAINT UntilMisread` goes no further once a server is back with
another log: three of the four properties say nothing from there on, and
`HintWasElected` is proved without that end (`HintsNameLeaders`). One command is
enough for a commit that comes too early: the next leader may append it behind
its no-op, whose acknowledgements are still on their way.

In two nodes a lagging one still has to be sent a snapshot: after a change of
leader, and because the leader commits too early.

Symmetry of servers is used where no liveness is checked; the specification
never names a server. Bounded behaviours end, so deadlock is not checked: a
cluster whose bounds are spent has nothing left to do.

The start states of `MCSimulator` (`LedSpec`, `OvertakenSpec`, `ProposedSpec`,
`InstalledSpec`, `OneDownSpec`) and of `MCServerCluster` are states an empty
cluster reaches: all nodes having voted for one leader of term 1; after that
leader was cut off, the others for a second one in term 2; the first leader with
its no-op committed, and then a command appended; a node that has just installed a
snapshot; and a node that has crashed. The elections that lead there are covered
by `elections`; the start states let the other runs go deeper.

`leader_lease` is set at the edge: with K heartbeats lost in a row a follower
hears nothing for (K + 1) * heartbeat + delay - 1 ticks at worst, which has to
be below the base (here 4 and 5). A copied heartbeat only helps it; the leader
and the stray node may hear a pre-vote, or an answer to one, when its round is
over. By the same count the simulator's 15, 4 and 3 ticks tolerate two losses
and not three. The leader's own lease counts as well: it refuses the stray node
with the `election_elapsed` its election has left it, so a round trip has to
stay below the base (see `slow_winner`).

`unanimous_server` shows a side effect of the peer list: three servers need all
three votes, so that no leader is elected without the node that has the command,
and nothing that was answered is lost as long as disks keep it. It is no general
remedy: with four servers (`answered_lost`) three votes suffice.

**Fairness.** `Simulator::step` ticks every live node and delivers every message
that is due, for ever. `FairDelivery` therefore makes every leader's heartbeat
weakly fair, and delivery weakly fair per link, kind and term: a message that
stays in flight reaches its due tick. `FairTimeouts` makes election timeouts
weakly fair: a timer that is never reset runs out. Messages may still be lost, up
to `MaxLosses` times. `ElectionSpec` and
`OneDownSpec` assume both.

`LeaderLease!FairSpec` only says that the simulator's loop goes on;
`StrayRejoins` is about behaviours in which the links do get repaired.
`PeerLink!FairSpec` assumes that both poll loops run, that TCP delivers what was
written to an open stream, that a connection attempt is repeated (the loop tries
again in every round), and that a process that was killed is started again.

**SafeWhileSupported** says where safety is lost, and, without snapshots, that it
is lost nowhere else: as long as every commit of a leader was covered by what a
majority had really acknowledged (`Supported`, computed from `acked`, not from
`match_index`), no two nodes apply different entries at an index and the latest
leader holds everything that was applied. With snapshots an acknowledged entry
can be forgotten, and then it is violated too (`snapshot_forgets`). For
raft-servers it is stated up to the first restart that misreads the file
(`SafeWhileReadBack`): what a server has acknowledged is gone after that
(`lost_writes`), and with it everything that rests on acknowledgements.

**ImplementsLossyNetwork.** The refinement maps `sent` to the calls of `send`,
`flying` to the copies on the heap or to the streams that hold the end of the
message or are about to get it (`OnItsWay`), and `delivered` to what came out. For
`PeerLink` it speaks of the messages the nodes send and of nothing else: a reader
out of step may also make a message, `Bogus`, out of the middle of others, and
this the refinement neither excludes nor counts. `DamageIsConfined` says when it
cannot happen, namely on a stream on which no write fell short and no poll found
part of a frame; on such a stream nothing is lost either.

## Findings

The first three are runs of their own; the last is seen in `peer_link`; the others
are reproduced with the configurations of the second table.

- `pipelined_client`, `node.rs:587`. A success answer sets `match_index` to the
  leader's last index at that moment. The answer to the no-op, arriving after a
  client's command was appended, counts for the command too. It is committed
  and applied while only the leader holds it, and the next leader applies
  another entry at its index: `StateMachineSafety` (README.md:47) is violated.
- `split_terms`, `node.rs:392`. The answer to a pre-vote carries the voter's own
  term and is counted only if it equals the candidate's. After one lost
  RequestVote two nodes in different terms grant each other pre-votes that
  neither counts: no further election starts.
- `lost_writes`, `raft-server/src/storage.rs:219`. Writes are padded to whole
  sectors, and replay reads the padding as records. What the second append wrote
  is not read back, even after a clean stop. The server goes on with what it was
  given, and may be elected and commit with it.
- `stuck_node`, `node.rs:164`. Messages of an older term are dropped without an
  answer, so a leader never learns of a node that is ahead of it, and that
  node's pre-votes are answered with a term it does not count. After one lost
  RequestVote it receives nothing for ever.
- `snapshot_forgets`, `node.rs:659`. `handle_install_snapshot` replaces the whole
  log by the snapshot's base. A snapshot that arrives after entries which follow
  it makes a node forget entries it has acknowledged, and a restart of the
  leader then lets a node without them win.
- `stale_disk`, `node.rs:659` and `raft-sim/src/storage.rs:81`. The same snapshot
  leaves the entries after its base on disk, though they need not continue it. A
  restart reads them back behind a base they never followed, the node can win an
  election with them, and its AppendEntries then join two histories: two nodes
  hold the same entry 4 and different entries 2, against README.md:45. This takes
  a commit that was too early (`node.rs:587`), five nodes and some sixty steps
  from an empty cluster; `InstalledSpec` starts fourteen steps before the end.
- `answered_lost`, `node.rs:173`. A client is told success, and prints
  "TRANSACTION COMMITTED", when its command is appended. The next leader need not
  have it.
- `server_majority`, `raft-server/src/main.rs:54`. The peer list contains the node
  itself, so that three servers need three votes: with one down there is never a
  leader. `one_node_down` is the same run with the list as the core expects it.
- `blind_checks`, `invariants.rs:92`. The runtime checks do not notice the
  behaviour of `pipelined_client`: `check_state_machine_safety` skips no-ops, and
  the entry that replaces the command is one. `check_leader_append_only` is an
  empty function.
- `slow_winner`, `node.rs:345`. `become_leader` keeps `election_elapsed`. A leader
  whose election took as long as the base timeout never refuses a pre-vote, and
  a node that was cut off deposes it.
- `torn_truncate`, `storage.rs:198`. The file is emptied before the preserved
  entries are written again, by every AppendEntries a follower accepts.
- `node_zero`, `storage.rs:83`. No vote is stored as a vote for node 0.
- `codec.rs:24` and `raft-server/src/main.rs:168`. `read_exact` and `write_all` on
  non-blocking sockets lose the part of a frame they have dealt with, and header
  and payload are two writes; the stream is out of step afterwards, and what it
  carries is lost or misread. `peer_link` shows that the damage stays on that
  stream (`DamageIsConfined`, where `cut` lists such streams) and heals
  (`LinkRecovers`): a frame that does not decode closes the stream, and a new
  one is opened.

The properties here are stated in the strength the project's README gives them.

## Proofs

The theorems hold for every finite set of at least two servers, every set of
commands, both peer lists (`SelfInPeers`) and every value of the bounds. What is
assumed of the constants: `ServerAssumption`, `CommandAssumption`,
`NoneAssumption`, `BoundAssumption` (in `RaftNode`) and `SimulatorAssumption` (in
`Simulator`) say that `None` is no server, no number and no snapshot metadata,
`Noop` is no command, and the bounds are numbers or absent; `SimNetworkAssumption`,
`PeerLinkAssumption` and `ProcessAssumption` say the same of the constants of
`SimNetwork`, `PeerLink` and `ServerProcess`, `PaddingAssumption` that a padding reads as
entries, and `TimerAssumption` is the `assert!` of `RaftNode::new`.

`Simulator`, one lemma per action:

- `TypeCorrect`: `Spec => []TypeOK`. `TypeOK` is inductive by itself. What it
  says beyond shapes is that no log, in memory or on disk, is ever empty and no
  index leaves the naturals, though indices are computed by subtraction and logs
  are cut relative to a moving base. `SimulatorProofs` first shows this of each operator
  (`TruncateAndAppendType`, `AppendToType`, `CompactType`, `RestoreType`,
  `BacktrackedType`, ...).
- `AtMostOneLeaderPerTerm`: `Spec => []ElectionSafety`. `ElectionSafety` alone is
  not inductive: it does not say how a leader came about. `ElectionInv` follows
  a vote along its way: the hard state on disk is that of the node, so a restart
  changes neither (`HardStateOnDisk`); a voter has not gone back behind a vote
  it cast (`BallotsKept`), and so has cast one per term (`OneBallotPerTerm`); a
  granting answer in flight stands for a vote cast (`GrantsWereCast`), and so
  does every vote a candidate counts (`CountedWereCast`); each leader has a
  quorum (`LeadersWereElected`). Two quorums meet, and the voter they share voted
  once. The steps fall into three kinds: quiet ones (`QuietStep`), which cast no
  vote; two that cast one (`VotingStep`: a candidacy, a granted request); and
  the one that elects.
- `VotesNeverChange`: `Spec => VotesAreFinal`, from the same invariant.
- `NeverPanics`: `Spec => []NoPanic`, and `NothingHeldIsLost`:
  `Spec => []LogIsDurable`. The log in memory and the disk change by different
  code (`truncate_and_append` in the log, the loop of `append_entries` on disk),
  and after `install_snapshot` the disk may hold more than the log. `DurabilityInv`
  says that the disk's entries are contiguous from the snapshot's base and begin
  with the log (`DiskMirrorsLog`). That alone is not inductive: the no-op of a
  new leader is appended behind the log, where the longer disk already has an
  entry, and replaces it only if the terms differ. They do, because every entry
  was made by a listed leader of its term (`EntriesWereLed`, `SentInOrder` for
  those in messages) and a candidate's term has had none yet (`CandidatesAreNew`,
  which rests on `ElectionSafety` and `LeadersKept`).
- `LeadersOnlyAppend`: `Spec => LeaderAppendOnly`. A leader never accepts entries of
  its own term: messages with entries come from listed leaders
  (`SentInOrder`), and its term has no other one.
- `LogsMatch`: `Spec /\ RestartsAsBefore => []LogMatching`. An entry is seen with
  its predecessor, as a link. `MatchInv` says that over all logs and all
  messages in flight an entry of one index and term has one link (`OneLink`), so
  that equality at an index goes down the logs; and that no link of a leader's
  term reaches beyond its log (`LeadersAhead`), so that what it appends is new.
  `RestartsAsBefore` is a condition on the behaviour: a node that comes back has
  the log it had when it went down. It cannot be dropped: a disk that kept what
  a snapshot replaced breaks the property (`stale_disk`).

`ServerCluster`, whose nodes are those of `Simulator` but whose restarts are not:

- `ServersElectOne`: `ClusterSpec => []ElectionSafety`, and `HintsNameLeaders`:
  `ClusterSpec => []HintWasElected`. These two hold whatever a server reads back from
  its log file, since term and vote are in a file of their own (for node ids
  other than 0, see `node_zero`). `ElectionInv` is kept by `restart_server` as it is.
  `HintInv` adds to it that whoever sends entries or a snapshot led that term
  (`LeadersSend`), that a node's `leader_id` was elected in its term or earlier
  (`HeardOfLeaders`: it survives a change of term in some handlers), and that
  term 0 has no leader or candidate (`TermsAreReal`).
- `ServerLogsMatch`: `ClusterSpec => []MatchingWhileReadBack`. Logs match up to the
  first restart that gives a server another log than it had. Nothing is said from
  then on, and with a padding of zeros nearly every restart of a server that has
  logged anything is of that kind: what is proved here is what the node code does
  with the log it is given, not that a raft-server is durable (`lost_writes`). No
  server calls `compact_logs`, and `WholeInv` (bases are 0, the disk is as long as
  the log, no `next_index` is below 1, no snapshot is in flight) shows that until
  then every step is one of `Simulator` without its compaction (`Uncompacted`), for
  which `LogsMatch` needs no condition.
- `SupportedCommitsAreSafe`: `ClusterSpec => []SafeWhileReadBack`.
  `StateMachineSafety` and `LeaderCompleteness` are false of the code; this is what
  is true of it, and it names two causes: a server that misreads its file
  (`misread`), and a leader that commits what no majority has acknowledged
  (`unsupported`, `node.rs:587`). An answer does not say what it answers, so the
  argument cannot go by `match_index`. It goes by marks instead: a mark is a term
  and an index, how far an AppendEntries of that term reaches or an
  acknowledgement of one, and marks are ordered as `is_log_up_to_date` orders the
  ends of logs. `MarkInv` says that what a node acknowledged is not above the end
  of its log (it holds it, or has moved on to a later term), that a vote cast
  carries this over to the candidate it was for, and that a log that reaches a
  mark of its term has the leader's entry there. A candidate with a majority of
  votes therefore starts above every mark a majority acknowledged. `CommitInv`
  follows what is committed: a commit index in a log or in a message is backed
  by such a mark as long as no leader committed without one (`CommitHeld`,
  `SentBacked`), and so is what was applied (`AppliedChosen`).
- `HeldAnswersAreKept`: `ClusterSpec => []AnsweredIsKeptOnceHeld`, again up to the
  first misread file. `AnswerInv` ties an answer to the entry the leader made for
  it; once a majority has acknowledged an index at or above it in that term, the
  same marks keep the entry in the log of every latest leader. No condition on
  commits is needed.

`RuntimeChecks`:

- `SupportedClustersPass`: `CheckedSpec /\ NeverCompacts` implies that while commits
  are supported every check passes, and therefore `NoFalseAlarm`. The checks
  remember: `CheckInv` says that `committed_entries` only holds what was applied,
  that the leaders they have seen are listed ones, and that an apply index never
  runs ahead of a commit index. It combines `ElectionInv`, `MatchInv` and
  `CommitInv`, one for each check.

The other components:

- `LeaderIsUndisturbed`, `FollowerNeverFires`: `Margins` implies
  `Spec => []LeaderUndisturbed` and `Spec => []FollowerStays` of `LeaderLease`, for all
  timers. `Margins` is what a configuration has to provide:
  `(LossesInARow + 1) * heartbeat_interval + delay <= election_timeout_base`, and a
  round trip below the base. It is tight: `leader_lease` is the case of equality,
  with a base of 4 `FollowerStays` is violated, and `slow_winner` breaks the other
  half. The simulator's 15, 4 and 3 ticks give it for up to two losses in a row.
  `LeaseInv` bounds how long the follower has heard nothing by the leader's
  timers: either a heartbeat is under way and comes in time (`HelpIsComing`), or
  the silence is no longer than the intervals lost so far and the ticks since the
  last heartbeat (`HeardLately`). So neither the follower's timeout nor either
  lease runs out, every pre-vote is refused (`Expected` lists all that is ever in
  flight, copies included), and the stray node never gets a newer term to depose
  anyone with.
- `NothingStaysOverdue`, `CutLinksFallSilent`: `Spec => []NothingOverdue` and
  `Spec => []CutLinkFallsSilent` of `SimNetwork`. `NetInv` says when every copy on
  the heap was sent and is due at the latest (`Timely`: a tick hands over all
  that is due, the heap's order being by due tick), and that what a cut link still
  carries was sent before the cut (`SentBeforeCut`).
- `NetworkRefinement`: `Spec => ImplementsLossyNetwork`. The initial state and each
  step map to one of `LossyNetwork` or to a stutter; `TwoCopies` bounds what is
  on the heap and what came out together, so that no third delivery is possible.
- `LinkRefinement`: `Spec => ImplementsLossyNetwork` of `PeerLink`, with segments
  that end anywhere and buffers of any size. `LinkInv` says that what is in a
  stream was sent on it and frames end in the order of their messages
  (`StreamsInOrder`), that what was handed over is older than all that is left in
  its stream (`TakenInOrder`), and that a payload still to be written belongs to
  the last message, whose end is nowhere yet (`RestIsLast`); so a message is on its
  way, or handed over, once. `send` maps to a Send; `send_rest`, a poll and a kill
  of either process to a Pass or a stutter, everything else to a stutter.
- `OrderIsKept`: `Spec => []OnceAndInOrder`, and no message twice over all streams,
  from the same invariant. Both are what a reader out of step cannot break; the
  codec is used only through two facts: a write puts no end of a frame into a
  stream but its own, as its last cell (`WritesIs`), and `recv_framed_msg` hands
  over a message only along with that cell (`RecvFramedIs`).
- `VotesSurviveKills`: `0 \notin Ids` implies `Spec => []VotePromisesKept` of
  `ServerProcess`. A kill may come between any two disk actions. `ProcessInv` lists the
  five shapes the queue of pending actions can have, and for each what is on
  disk already and what the process has said; in each of them the vote is
  written before it is sent. With a node 0 the theorem is false (`node_zero`).

`ElectionInv`, `DurabilityInv`, `MatchInv`, `MarkInv`, `CommitInv`, `AnswerInv`, `CheckInv`,
`LeaseInv` and `ProcessInv` were checked with TLC before they were proved, on the
instances of `elections`, `checked_cluster`, `snapshots`, `overtaken_leader`,
`client_answers`, `leader_lease` and `server_process` (those of `SafetyProofs` without
compaction).

Only model-checked:

- `LeaderCompleteness` and `StateMachineSafety` as they stand, which the code does
  not have in general (`pipelined_client`) but within the bounds of
  `overtaken_leader`, where no command is proposed. What is proved of them is
  `SupportedCommitsAreSafe`.
- `NoFalseAlarm` with compaction, or once commits are no longer supported. In
  `checked_cluster` no check fails, so the run says that compaction and restarts
  do not make one fail, and not that a failing one is right.
- `DamageIsConfined`, whose statement filters and flattens sequences with recursive
  operators.
- `FirstWriteSurvivesUntorn`: `replay_wal` is a recursion over the file, and what
  a recursive definition computes cannot be proved by induction here. The same
  goes for the agreement of `append_to` with the loop of the code (`DiskLoop`).
- Liveness (`ReplicationCompletes`, `StrayRejoins`, `LinkRecovers`): the prover handles
  neither fairness nor `ENABLED`.

## Not modelled

- The one-node cluster: the branches of `node.rs` for an empty peer list. No
  message is ever sent there.
- Parsing of arguments, printing, seeds.
- System calls that fail: they end the process, which kills cover. A sector is
  written at once or not at all.
- Commands whose length is no multiple of four bytes, which only put the reader
  of `replay_wal` out of step in more ways.
- bincode, `crc32fast` and TCP are external: what the code relies on is in
  `FramedStream`, `DurableDisk` and `PeerLink`.
- Tests and benchmark, which fix schedules the model quantifies over.
