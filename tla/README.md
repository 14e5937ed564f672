# A verification of the Raft key-value store

TLA+ modules, TLC configurations and TLAPS proofs for the distributed key-value
store in `src/`: a Raft node in Go (`src/raft`, `src/storage`, `src/api`), a
gateway in front of a cluster of nodes (`src/gateway`) and a dashboard. Every
definition is translated from the source; `PROJECT.json` names, for each of
them, the lines it stands for.

- [The system](#the-system)
- [The modules](#the-modules)
- [The runs](#the-runs)
- [The proofs](#the-proofs)
- [Disagreements found](#disagreements-found)
- [Known limits](#known-limits)
- [Plan](#plan)
- [What is not modelled](#what-is-not-modelled)

To repeat the checks: `tlc -config election.cfg MCRaft` (the table of runs gives
the module of each configuration), and `tlapm RaftCommitProofs.tla` for the
proofs of a module.

## The system

A node is one process with a mutex `r.mu`. Its loop `run` takes timers, RPCs,
RPC responses, client commands and configuration changes one by one, each
handler runs to its end under the mutex, and whatever is sent is sent by
goroutines that have read the node's state before. A client's request reaches a
node over HTTP, usually through the gateway, which tells the leader from its
polls; the node proposes a command, waits on a channel, and answers when the
command has been applied or the node has lost its leadership.

| Component | State | Operations | Talks to |
|---|---|---|---|
| Elections and pre-vote (`raft.go`) | `state`, `currentTerm`, `votedFor`, vote counts | timer, `processPreVote`, `processRequestVote`, their responses, `transitionTo…` | peers by RPC; WAL (`AppendState`) |
| Replication and commit (`raft.go`) | `log`, `commitIndex`, `lastApplied`, `nextIndex`, `matchIndex` | `replicateToPeer`, `processAppendEntries` and its response, `checkCommitMajority`, `applyLogs` | peers; WAL (`AppendEntry`, `AppendTruncate`); proposals |
| Client proposals (`raft.go`) | `proposals`, response channels | `handleClientCommand`, completion in `applyLogs`, cancellation in `transitionToFollower` | API |
| Configuration (`config.go`) | members of C_old and C_new, joint flag | `HasMajority`, `BuildJointConfig`, `BuildFinalConfig` | every quorum test |
| Membership change (`raft.go`) | `clusterConfig`, `pendingConfig` | `handleConfigChange`, `applyConfigEntry`, second phase on commit | replication, configuration |
| Write-ahead log (`wal.go`) | a file of records | append state, entry, truncate marker; `Replay`; `Reset` | raft |
| Compaction and snapshot file (`raft.go`, `snapshot.go`) | snapshot file, `lastIncludedIndex` | `takeSnapshot`, `SaveSnapshot`, `loadState`, `restoreSnapshot` | WAL, log |
| InstallSnapshot (`raft.go`) | chunks received so far | send chunks, handle chunk, handle response | peers, snapshot file |
| Reads (`raft.go`) | lease, read index | `Get`, `confirmLeaderQuorum`, `waitForAppliedIndex` | peers |
| State machine (`raft.go`) | `kv`, `dedupTable` | `applyCommand` | applied entries |
| HTTP API (`api.go`) | rate limiter | put, get, delete, redirect, membership | raft |
| Gateway (`gateway.go`) | view of the cluster, `reqIDCounter` | poll, proxy, server-sent events | API of the nodes, clients |

Hard behaviours, and what makes each part correct:

- **Elections.** Grants and votes arrive late, twice, or after a restart. Only
  votes are written to the WAL, not terms that were merely learnt, so a restart
  takes a node's term back; `processAppendEntries` overwrites `votedFor` in
  memory; pre-vote grants carry no round. Correct means: one leader per term.
- **Replication.** Requests are built under the lock and delivered at any later
  time, in any order. Correct means: logs agree up to a common entry, a leader
  never loses an entry, match indexes are true, what is committed stays on a
  majority, and no two nodes apply different commands at one index.
- **Proposals.** Each response channel holds one value; a second send blocks the
  loop with the mutex held. Correct means: one answer, and success only for
  what is durable.
- **Disk.** The process may end between two writes of one handler or inside a
  write. Correct means: a restart finds every acknowledged entry and the last
  vote, and brings back nothing that was truncated.
- **Snapshots.** A heartbeat starts a transfer until the first is answered, so
  several run at once, and appends overtake them. Correct means: what a follower
  applies is what the leader has, what is committed is really replicated, and a
  follower catches up.
- **Membership.** The leader uses a configuration when it appends it, everybody
  else when it is committed, and the loop that commits changes the majority it
  counts with. Correct means: one change at a time, both phases by both
  majorities, every change ends, also the leader's own removal, and every member
  learns what it is a member of.
- **Reads.** A read gives up the lock three times; the leader may be replaced in
  between. Correct means: a safe read misses nothing that was acknowledged or
  read before it began, and what was read is not lost.
- **Requests.** A request that timed out may still be committed, after its
  retry or its successor. Correct means: in order, at most once, and an answer
  only for what was applied.
- **Gateway.** Polls run side by side, nodes answer at different times, two may
  call themselves leader, and event channels are full. Correct means: once one
  leader stays, the gateway and the browsers settle on it.

The complete list of what is hard to test, with the line where it bites and the
property that watches it, is `hazards` in `PROJECT.json`.

## The modules

```
   ClusterConfig        <-- ClusterConfigProofs (quorums, and what all proofs share)
     ^   ^   ^
     |   |   Membership <-- MembershipProofs
     |   CatchUp        <-- CatchUpProofs
     Raft               <-- RaftProofs <-- RaftCommitProofs <-- ReadsProofs
     ^  ^                                                          |
     |  Reads  <---------------------------------------------------+
     |  ^
   MCRaft <-- MCReads          Storage  <-- StorageProofs
                               Requests <-- RequestsProofs
                               |            (implements ExactlyOnce)
                               ExactlyOnce           Gateway
```

`ClusterConfig` has operators only. The others are state machines of one layer
each, and they meet in assumptions that are stated here and checked there:

- `Raft` restarts a node with its log and its last vote, which is what `Storage`
  examines; `Storage` admits only requests that do not conflict with committed
  entries, which is what `Raft` examines;
- `Reads` is composed with `Raft`: all of its steps happen between those of a
  read, and its probes go through the same handler;
- `CatchUp` and `Membership` look at one leader in its term, which by
  `ElectionSafe` is the only one; `CatchUp` adds compaction and snapshots to
  replication, `Membership` the change of the configuration;
- `Requests` applies committed writes in one order, which is
  `StateMachineSafety` of `Raft`;
- `Gateway` lets the roles of the nodes change at will, and two lead at once.

### ClusterConfig

`raft/config.go`. The Go type holds maps from ids to addresses; only the ids
matter to the protocol, so a configuration is two sets and a flag. `HasMajority`
counts as the code does: the maps already contain the node itself, and it is
added once more to both the count and the total. Of N nodes it accepts
(N + 1) ÷ 2: a majority when N is odd, half when N is even.

### Raft

`raft/raft.go` for a fixed membership with compaction off
(`snapshotThreshold = 0`). The variables carry the names of the fields of
`struct Raft`; `applied` is the sequence of entries applied to `kv` (its length
is `lastApplied`), `wal` is the last record written by `AppendState`, and
`replies` is what the client of each command has been told. `ballots` and
`elections` are history that no guard reads.

| Action | Code |
|---|---|
| `ElectionTimeout` | the timer in `run`, `startPreVote`; clusters of two and more, a node without peers is in `Membership` |
| `HandlePreVote`, `HandlePreVoteReply` | `processPreVote`, `processPreVoteResponse` |
| `HandleRequestVote`, `HandleVoteReply` | `processRequestVote`, `processRequestVoteResponse`, `transitionToLeader` |
| `ReplicateToPeer` | `replicateToPeer`, from the ticker, after a proposal or a refusal |
| `HandleAppendEntries`, `HandleAppendReply` | `processAppendEntries`, `processAppendEntriesResponse`, `applyLogs` |
| `ClientCommand`, `RejectCommand` | `handleClientCommand` |
| `Restart`, `CrashWhileAppending` | the process ends between two handlers, or inside `processAppendEntries` with some records written; `NewRaft`, `loadState` |

`msgs` is the set of all messages ever sent. A handler may pick any of them, at
any time and again, which covers delay, reordering, duplication and loss (and the
fault injection of `checkNetworkFault`, which drops or delays). A response
belongs to the incarnation of the node that made the call: after a restart nobody
waits for it. Simplifications that do not change a reachable state of the
receiver: a refused pre-vote, and a refused vote with no newer term, are dropped
by the sender of the request, so they are not sent. Timer durations are left out:
a timer may fire at any time.

A success response always reports an index that covers the leader's no-op entry,
because a request carries the whole rest of the log and the no-op is appended in
the handler that wins the election. An entry of an earlier term is therefore never
on a counted majority without one of the leader's own term, and the term test in
`processAppendEntriesResponse` decides nothing in a reachable state of this model;
it is translated all the same.

### Reads

`Get` in its three modes, on top of `Raft`. `read` is the read under way: `Get`
takes the commit index as read index and gives up the lock, `AskPeers` sends the
probes of `confirmLeaderQuorum`, `HandleProbe` is `processAppendEntries` at a
peer with a request that has no entries, `ConfirmLeaderQuorum` counts the
majority and starts the lease, `Finish` is the final check after
`waitForAppliedIndex`; `Refuse` is every way to fail. A local read, or one under a
lease, is answered by `Get` itself. The result is the set of commands the state
machine has seen; `floor` is history: what had been acknowledged or read before.
A lease ends at any time (`LeaseEnds`): 250 ms of one clock say nothing about
another node's.

### CatchUp

A leader that compacts and one of its two peers; the other peer is one number, how
far it has acknowledged. Each slot of `calls` is a goroutine of the leader with its
outstanding RPC, so calls overtake one another, and one that timed out may still
arrive (`awaited = FALSE`). `ReplicateToPeer` decides between entries and a
snapshot; a snapshot travels in `Chunks` pieces. The follower starts with any prefix
of the leader's old entries and up to `MaxStale` entries of a leader that lost.
`sendSnapshotToPeer` takes the lock once more and reads the snapshot a moment after
`replicateToPeer` has decided to send one; the model does both in one step, so a
snapshot is the leader's at the time of the decision. The follower's handlers are
functions on the record `f` of its fields: `AppendEntries`, `InstallSnapshot` with
`Buffered` and `restoreSnapshot`, `applyLogs` with its compaction; what
`restoreSnapshot` does to the disk is in `Storage`. `kv[c]` is the index of the last
entry that piece `c` of the state reflects, so a state put together from two
snapshots can be told from a sound one. After such a restore, or one of an older
snapshot, the follower's log may have a hole, and the model follows it no further
(`Sound`, `Running`); that nothing else leads there is `OnlyOldSnapshots`.

### Membership

One leader, from its election (alone, if it has no peers) until it has removed
itself. `AddNode` and `RemoveNode` are the two requests of the API with
`handleConfigChange`; `AdvanceCommit` is the commit loop, in which `CommitJoint`
appends the second phase and `CommitFinal` disconnects peers and may depose the
leader, while the loop goes on. Other nodes are prefixes of the leader's log, so
their length is enough. A message is delivered once, in any order, or never.
A node outside the cluster may have been started as joining or not: `NewRaft` leaves
`isJoining` false and `main.go` never calls `SetJoining`, while the tests of the
repository call it for the nodes they add, so `Init` has every combination.

### Storage

One node's disk: the WAL of `storage/wal.go`, the snapshot file of
`storage/snapshot.go`, and the handlers of `raft.go` that write to them. A
handler changes memory at once (it holds `r.mu`) and leaves its disk operations
in `todo`; each is a `DiskStep`, in between `Crash` may come, also inside the
write of a record (a cut length header or a cut body). `Replay` goes over the
records with `ReplayRecord`; `loadState` is the start of the process, with the compaction that
`applyLogs` makes at its end. Handlers are `CastVote`, `LearnTerm`, `AppendOwn`,
`CommitOwn`, `ReceiveEntry`, `ReceiveChunk` and `restoreSnapshot`; each does to memory and disk what the code does,
and which of them happens, with which request, is left open. The snapshot
threshold is chosen in the initial state. A leader's snapshot may be newer or older
than the node's own; of its content only the index matters to the disk. The entry that
`getEntry` makes up for the index an older log started from has the term of the node's
own snapshot; the model does not keep that term and lets it be any one up to the
current, which allows more than the code. `acked`, `voted`, `cleared`, `unwritten` and
`holed` are history: what the node has answered for, the last vote synced, whether the
WAL was emptied since, the entries that a compaction or an installed snapshot took from
what a restart finds, and whether a log was loaded or restored in which an index is
missing. In such a log `getEntry` finds the wrong entry at a position, and
`processAppendEntries` cuts memory by position and the WAL by index; `LostOnlyBySnapshots`
speaks of the time before that, the other properties of all times.

### Requests and ExactlyOnce

A write from a client, through `proxyRequest` of the gateway or directly, and
`handlePut` or `handleDelete` of a node to `applyCommand`. A client issues one
write after the other, tries again after a failure or goes on; attempts that
failed may still be on their way. The clients in `Numbering` send both headers.
The others send one or none, and the gateway fills in the address they share and
its counter, or a node leaves the ids empty and does not deduplicate.

`ExactlyOnce` says what the clients in `Numbering` are promised: writes take effect
at most once and in order, and are acknowledged afterwards. `Requests` implements
it under the mapping `Promise`: `done` is the set of writes applied, `store` the
state machine, both as far as these clients are concerned.

### Gateway

`role` and `up` are the cluster. A poll asks the nodes one by one
(`FetchNodeStatus`), takes the last that calls itself leader (`Found`), sets
`leaderAddr`, gives up the lock and pushes the event; several polls run at once,
one of the ticker and those that failed requests start. A stream registers its
channel, sends what is known, then reads the channel; an event for a full channel
is dropped. A request goes to `leaderAddr`; a node that does not lead redirects it.

## The runs

| Run | Module | What it checks |
|---|---|---|
| `election` | `MCRaft` | `TypeOK`, `VoteInv`, `ElectionSafety`: three nodes, two terms, one restart of each node, two different rounds of pre-votes, from the initial state |
| `rivals` | `MCRaft` | `LogMatching`, `LeaderAppendOnly`, `MatchIndexSound`, `CommittedOnQuorum`, `AckedIsCommitted`: two nodes lead, in terms 1 and 2, with conflicting logs and a command; restarts, also inside an append |
| `contested` | `MCRaft` | `StateMachineSafety`, `LeaderCompleteness`, `AnsweredOnce`: conflicting logs of two terms, a command and a third election |
| `reads` | `MCReads` | `SafeReadsFresh`, `ReadsDurable`: two reads in any mode at a leader that is being replaced, with two commands |
| `catch_up` | `CatchUp` | `FollowerAgrees`, `CommitReplicatedUnlessKept`, `OnlyOldSnapshots`, and the liveness property `EventuallyCaughtUp`: two overlapping calls, a snapshot in two pieces, up to two entries of a lost leader, one failure |
| `membership` | `Membership` | `ChangesInTurn`, `CommittedByBoth`, `SuccessorReady`, and the liveness properties `ChangesComplete`, `ProposalsAnswered`, `MembersLearn`: two changes and a command on a cluster of one, two or three, the nodes outside started as joining or not |
| `storage` | `Storage` | `LostOnlyBySnapshots`, `VoteKept`, `NoResurrection`, `RecoveredOrdered`: with and without compaction, newer and older snapshots of a leader, torn writes and two crashes |
| `requests` | `Requests` | `AppliedInOrder`, `AckedIsApplied`, `ReadsLatest`, and that `ExactlyOnce` is implemented: two clients, one with its own numbers, four requests in all, a restart of the gateway |
| `gateway` | `Gateway` | the liveness properties `LeaderFound`, `BrowsersFollow`, `RequestsEnd`: two nodes, a second poll beside the ticker's, a browser with a channel for one event |
| `restart_term`, `compaction_tail`, `phantom_match` | | one disagreement each, see below |

Each of the passing runs about a module also checks its type invariant.

**Start states.** Two elections and a replication from the initial state are too
many states for one run. `SpecContested`, `SpecRivals`, `SpecFive` in `MCRaft` and
`SpecReplaced` in `MCReads` start behind elections that have taken place: a state
that `Spec` reaches, less the messages of those elections. Each of their
behaviours is one of `Spec` in which those messages are in `msgs` and are not
picked again. Which nodes won is chosen by a quantifier. The initial states of
`CatchUp` are those of a leader just elected and a follower with a log that some
earlier leader gave it.

**Bounds.** Every constant named `Max...`, and `Capacity`, `Chunks` and the sets of
slots and polls, is a bound that appears in guards. Two different rounds of
pre-vote requests and two terms are what overlapping elections need; a third term
lets each of two conflicting logs win; two crashes are what it takes for a first
recovery to leave something behind that a second one misreads, and four records and
two indexes hold a vote, an entry, its truncation and its replacement, let a leader's
snapshot be newer or older than the node's, and let a
restart load a log with a hole (that more is lost behind one takes three indexes and a
threshold of 2). `MaxRecords` is tested where a handler starts; `takeSnapshot` and
`restoreSnapshot` empty the WAL and are not held back by it. Four requests let
a late attempt arrive behind two later ones while the other client takes an id;
two slots and two pieces let a snapshot be interrupted by another, and two
entries of a lost leader let one stay behind the snapshot; two changes let a node
be removed and added again, or the leader remove itself from what it has just
built. `MaxAppends` counts *different* requests of a leader in a term; each may be
delivered any number of times. A channel for one event is full as soon as one is
waiting. That the bounds do not hide the interesting cases is shown by the mutants
in `PROJECT.json`: for each property of each passing run, a plausible slip in
the code that the run detects.

**Symmetry.** Node ids and commands are interchangeable in `MCRaft` and `MCReads`,
except with `SpecFive`, which chooses its nodes and uses none. Only safety
properties are checked with symmetry, for which it is sound.

**Deadlock** is not checked (`CHECK_DEADLOCK FALSE`) where the model may really
stop: a disk that is full or a node that cannot be started again, clients that
have issued all their writes, a leader that has removed itself or has met a later
term. In `MCRaft` some old message can always be delivered again, and the gateway
never stops polling.

**Fairness.** It is weak, and only for what the code goes on doing by itself:

- `CatchUp`: the ticker of the leader starts a call every 50 ms; a call that is not
  lost is delivered, and its goroutine handles the reply. Client commands, losses
  and later terms are not fair. `EventuallyCaughtUp` adds a hypothesis, `<>[]Calm`:
  from some time on a call ends before the next one starts. Without it the
  transfers of a snapshot of several pieces can restart one another for ever, which
  the code does nothing to prevent.
- `Membership`: the ticker, and that of the messages to and from a peer some are
  always delivered in the end; a particular message may be overtaken for ever.
- `Gateway`: the ticker; each call of a poll ends, with an answer or after 3 s;
  `handleSSE` reads its channel while the client is connected. What the nodes do is
  not fair: `LeaderFound` and `BrowsersFollow` say what happens *if* one leader
  stays.

That an election succeeds is not claimed: it depends on the durations of timers.

## The proofs

For every finite set of nodes, every set of commands or clients and every value
of the bounds:

| Theorem | Statement |
|---|---|
| `RaftProofs!TypeCorrect` | `Spec => []TypeOK` |
| `RaftProofs!ClientsAnsweredOnce` | `Spec => AnsweredOnce` |
| `RaftProofs!VotesAccounted` | `Spec => []VoteInv` |
| `RaftProofs!ElectionSafe` | `Spec => []ElectionSafety`, odd |
| `RaftProofs!LeaderLogGrows` | `Spec => LeaderAppendOnly`, odd |
| `RaftCommitProofs!LogsFromLedger` | `Spec => []LogInv`, odd |
| `RaftCommitProofs!LogsMatch` | `Spec => []LogMatching`, odd |
| `RaftCommitProofs!CommitsAccounted` | `Spec /\ TermsKept => []CommitInv`, odd |
| `RaftCommitProofs!StateMachinesAgree` | `Spec /\ TermsKept => []StateMachineSafety`, odd |
| `RaftCommitProofs!LeadersComplete` | `Spec /\ TermsKept => []LeaderCompleteness`, odd |
| `RaftCommitProofs!CommittedOnMajority` | `Spec /\ TermsKept => []CommittedOnQuorum`, odd |
| `RaftCommitProofs!AckedStaysCommitted` | `Spec /\ TermsKept => []AckedIsCommitted`, odd |
| `RaftCommitProofs!MatchesHold` | `Spec /\ TermsKept => []MatchIndexSound`, odd |
| `ReadsProofs!ReadsTypeCorrect` | `SpecReads => []ReadsTypeOK` |
| `ReadsProofs!ReadsAccounted` | `SpecReads /\ TermsKept => []ReadInv` (with the types and `VoteInv`), odd |
| `ReadsProofs!SafeReadsAreFresh` | `SpecReads /\ TermsKept => []SafeReadsFresh`, odd |
| `ReadsProofs!ReadsStayDurable` | `SpecReads /\ TermsKept => []ReadsDurable`, odd |
| `RequestsProofs!RequestsTypeCorrect` | `Spec => []TypeOK` of `Requests` |
| `RequestsProofs!WritesInOrder` | `Spec => []AppliedInOrder` |
| `RequestsProofs!AcksAreApplied` | `Spec => []AckedIsApplied` |
| `RequestsProofs!ReadsSeeLatest` | `Spec => []ReadsLatest` |
| `RequestsProofs!RequestsRefine` | `Spec => ImplementsExactlyOnce` |
| `StorageProofs!StorageAccounted` | `Spec => []StorageInv` |
| `StorageProofs!StorageTypeCorrect` | `Spec => []TypeOK` of `Storage` |
| `StorageProofs!LossesAreSnapshots` | `Spec => []LostOnlyBySnapshots` |
| `StorageProofs!VotesKept` | `Spec => []VoteKept` |
| `StorageProofs!NothingResurrected` | `Spec => []NoResurrection` |
| `StorageProofs!RecoveryOrdered` | `Spec => []RecoveredOrdered` |
| `MembershipProofs!ChangesAccounted` | `Spec => []MembershipInv` |
| `MembershipProofs!MembershipTypeCorrect` | `Spec => []TypeOK` of `Membership` |
| `MembershipProofs!ChangesTakeTurns` | `Spec => []ChangesInTurn` |
| `MembershipProofs!BothMajoritiesHold` | `Spec => []CommittedByBoth` |
| `MembershipProofs!SuccessorLeft` | `Spec => []SuccessorReady` |
| `CatchUpProofs!CatchUpAccounted` | `Spec => []CatchUpInv` |
| `CatchUpProofs!CatchUpTypeCorrect` | `Spec => []TypeOK` of `CatchUp` |
| `CatchUpProofs!FollowerStaysWithLeader` | `Spec => []FollowerAgrees` |
| `CatchUpProofs!CommitsAreReplicated` | `Spec => []CommitReplicatedUnlessKept` |
| `CatchUpProofs!OnlyOldSnapshotsHarm` | `Spec => OnlyOldSnapshots` |
| `ClusterConfigProofs!SteadyQuorumsIntersect` | two sets that `HasMajority` accepts, counted by any two nodes of a configuration of odd size, share a voter |
| `ClusterConfigProofs!EvenHalvesAccepted` | for an even number of nodes, a half that holds the asking node is accepted, and so is the other half |
| `ClusterConfigProofs!JointQuorumsIntersect` | while one node is added or removed, two sets that the joint configuration accepts share a voter, for any size |

### Assumptions

Those declared in `Raft`: `Server` is finite and has more than one node
(`ServerAssumption`), `Nil` is no node (`NilAssumption`), `Noop` is no command
(`NoopAssumption`), the bounds are natural numbers (`BoundsAssumption`); those
of `Requests` on its clients and bounds; and `StorageAssumption`, `CatchUpAssumption`
and those of `Membership`, which say that `Nil` is no node, sets are finite, the leader
is a member of the cluster it starts with, and bounds are natural numbers; a snapshot
has at least one piece and a new leader at least one entry to inherit, and in `CatchUp`
compaction is on. "Odd" in the table is the hypothesis
`Odd(Cardinality(Server))`; `EvenHalvesAccepted` shows why it is needed.

`TermsKept` is a hypothesis on the behaviour: no step takes a node back to an
older term, and a node that crashes inside `processAppendEntries` restarts in the
term of the request. The code does not guarantee it, since `transitionToFollower`
writes no term to the WAL, and without it the commit properties are false: that is
what the run `restart_term` shows. `TermsKept` holds of every behaviour in which
nobody restarts, and of every one in which each node restarts in a term whose vote
it has written; messages may be lost, repeated and reordered at will. It is what
the code would guarantee if `transitionToFollower` wrote the new term with
`AppendState`. Type correctness, `VoteInv`,
`ElectionSafety`, `LeaderAppendOnly`, `LogMatching` and `AnsweredOnce` need no such
hypothesis.

### Types and elections

`TypeOK` includes `IndexOK`: a node that is not a follower has a term above 0, so
no entry has term 0, which `getEntryTerm` returns for "no entry"; and `nextIndex`
of a leader is at least 1 for its peers, so `PrevLogIndex` never falls below 0.
Without these facts the type of messages and entries is not inductive.

`ElectionSafety` is not inductive. The invariant is `TypeOK /\ VoteInv`, with

- `BallotsPersisted`: the first vote of a node in a term is unique, its term is at
  most the term in the WAL, which is at most the node's current term, and a node
  that has voted in its term has a `votedFor`, in memory and in the WAL. This is
  what makes the loss of a learnt term in a restart harmless to elections;
- `VotesJustified`: each vote in memory, in the WAL, on the wire or in a count is
  the first vote of its node in that term, or one for a node that has already
  *won* the term. The second case is needed because `processAppendEntries`
  overwrites `votedFor` and a late request of the winner is then granted: a node
  may indeed vote for two candidates in one term;
- `LeadersElected`: every election was won with a majority of first votes; who
  leads was elected; a candidate was not; requests to append come from an
  elected node.

Two winners of a term have majorities of first votes, which share a node by
`OddMajoritiesIntersect`, and a node's first vote is unique. `LeaderAppendOnly`
follows: a leader that accepts a request of its own term would have been
replaced by another winner of that term, and it sends none to itself. Every
induction step has one case per action; `QuietStep`, `CandidateStep`,
`GrantStep` and `WinStep` are the four kinds of steps that actions are reduced
to.

`AnsweredOnce` follows from `ProposalsPending`: the client of a pending proposal
has no answer yet, and no two proposals of the cluster are of one client. The
second half is what a step that answers some proposals needs for the others.

### Logs

`LogMatching` says nothing of the requests on the wire, and a node that has lost
its term may accept one from a leader of long ago. The invariant `LogInv` says that
there is a *ledger* `LL`, one log for each term, from which everything is taken:
the log of a term is empty unless somebody was elected in it; who leads has the log
of its term; a log that has an entry of term t at index n is equal to `LL[t]` up to
n, and so are the logs of the ledger themselves; a request to append carries a
piece of the log of its term. The ledger is quantified in the invariant, not a
variable of the model: a step that wins an election or takes a command extends it
(`LedgerGrowth`), every other step keeps it. `Matched` and `Written` are what
`processAppendEntries` does to a log of the ledger.

### Commits

`CommitInv` adds to the ledger what commits rest on (`CommitOK`):

- `Ordered`, `TermsReached`: terms do not decrease in a log, a leader's log ends in
  its own term, and no entry is of a later term than its node;
- `Kept`: an entry of the leader's term that a node has acknowledged is in its log,
  or a later leader without it has been elected (`Overruled`);
- `Voted`: who votes in a term, and is counted, has kept what it acknowledged
  earlier, and the candidate's last entry is at least as far; `Candidacies` ties what
  a request for votes says to the log the candidate has, also after it has won;
- `Requested`, `Replied`, `Leading`: what is on the wire and in `nextIndex` and
  `matchIndex` is about entries the leader has. A request always ends with an entry
  of its own term, because the no-op entry of a leader is appended in the handler
  that wins the election, and a request carries all the rest of the log. A success
  may report more than the request carried, namely the whole length of the
  follower's log, and this is sound because that log then ends in the same term;
- `Committed`, `AppliedIs`, `Proposed`, `Told`: what is committed, applied, waited
  for or told to a client is a chosen entry. `Chosen` means that a majority has
  acknowledged it to the leader of its term.

The key lemma is `ChosenKept`: a chosen entry is in the log of every later leader.
The first leader without it would have been elected by a node that had acknowledged
it and kept it, for a candidate whose last entry is at least as far; and such a
candidate has the entry, since all leaders between have it. `ChosenSame` and
`ChosenHeld` turn this into equal prefixes and into logs of a majority, from which
the five properties follow. TLC checked `CommitOK` for the ledger of a run before
the proof was written.

### Reads

The proof is about `SpecReads`, so every step of `Raft` and of the probes is in it;
a probe changes a peer without being a message, and `ProbeCalm`, `ProbeCommit` and
`ProbeAnnounced` show that it disturbs nothing of `VoteInv` and `CommitOK`. `ReadInv`
adds to the ledger of `CommitInv`

- `CommitsAnnounced`, `RequestsAnnounced`: what a node, a request or a probe has as
  commit index was committed by the leader of some term, no later than its own
  (`Announced`: chosen, and within the commit index of that leader while it leads).
  `Chosen` alone is too weak here: an entry may be on a majority before its leader
  knows it, and a read index taken then would not cover it;
- `AnswersServed`: what clients were told and reads have returned is among these;
- `Probing`: a probe is a request of an elected leader and ends with an entry of its
  term, so a peer that matches it has a beginning of the leader's log;
- `Fresh`: each command that the read must return is at or below the read index in
  the log of the read's term, or a majority that has not acknowledged the probe has
  left that term (`Overtaken`). The second case is over when a majority has
  acknowledged, since two majorities share a node.

That `Fresh` holds when a read begins is `BegunFresh`, and the place where the entry
of the own term is needed: what a leader of an earlier term committed is in the new
leader's log before its own first entry, so its commit index is above it as soon as
it has committed one entry of its own. Without that, `SafeReadsAlwaysFresh` fails.

### Requests

`RequestsInv` relates the dedup table to the order of application: for a client that
numbers its writes the table holds the number of its last applied write, no attempt
on its way carries a number that the client has not reached, and an answer is only
given for a write that has been applied. The refinement maps the history of
application and of answers, restricted to those clients, to `ExactlyOnce`; a step of
`Requests` is `Apply`, `Acknowledge` or a stutter there.

### Storage

A WAL changes at its end only, or is emptied, so what `Replay` reads need not be
known for a whole file: `ReplayEmpty` and `ReplayAppend` say what the empty file and
one more record give. They, and the like for the filters of `Replay` and `loadState`,
are proved by looking at the first turn of the loop at which they would fail, a
least element of a set of numbers, because an induction principle cannot be used.

`StorageInv` has parts that always hold: what a readable WAL gives has rising indexes
(`DiskOK`); no entry in memory stands behind the position where `getEntry` looks for
it, and each stands there unless a log with a hole was loaded (`MemoryOK`); until then
what has been acknowledged and not truncated is in memory, in the snapshot file, or in
`unwritten` (`AckedInMemory`). `lastIncludedIndex` and the index of the snapshot file
are two cases there: an older snapshot of a leader is in memory before its file is in
place.
The rest depends on where the running handler stands, which `todo` tells: `PhaseOK`
has one case for each list of disk operations a handler can still have before it,
with and without a compaction at its end. While an entry is still to be written, the
WAL holds nothing at or above its index; between `SaveSnapshot` and `Reset` it may
hold what the snapshot covers; after `Reset` it is empty, `unwritten` has what was
dropped and `cleared` is set until the term and vote are written. `restoreSnapshot` has
the operations of a compaction, but the snapshot may be older and what stays in memory
is found by position (`EntriesAboveIs`). A crash keeps the WAL and forgets `todo`; a record cut short makes the WAL
unreadable, now or with the next record, and nothing is said of it.

### Membership

`AdvanceCommit` commits entry by entry and changes the configuration it counts with,
so the invariant `MInv(s, f, M)` is stated of any record `s` of the leader's fields,
function `f` of the peers' and set `M` of messages, and shown to hold after every turn
of the loop; again a turn at which it fails first cannot exist. Its parts:

- `InPhase`: no change is under way and all changes in the log are committed
  (`Steady`), or C_old,new is in the log and not committed (`FirstPhase`), or it is and
  C_new is the one change that is not (`SecondPhase`). `pendingConfig`, `currentConfig`
  and the log tell the same phase;
- `InTurn`, `ByBoth`: the two properties, of the log `s.log`. That a majority is of
  nodes that hold the entry needs `matchIndex[p] <= lastLogIndex` of the peer, also for
  the replies in `M` (`Wire`);
- `Covers`: who has C_new in its log, or is sent it, is told a commit index that covers
  C_old,new. This is why a successor that has only applied the first phase no longer
  has `isJoining` set (`Joining`), and the leader can leave;
- `Removed`: when the leader has stepped down, a member of what is left holds all it has
  committed. It was counted for C_new, and only members of C_new and the leader are.

### CatchUp

While its state machine is sound, the follower's log is the leader's up to some index
`a` and the lost leader's from there on (`Split`). `a` is quantified in the invariant;
every step keeps it or makes it larger, so what was true of it for a delayed reply
remains true. Then

- an append is accepted only if its `PrevLogIndex` is at most `a` (`Accepted`): a prev
  that is no longer in the leader's log goes out with term 0, which no entry has. What
  it carries replaces everything behind `a`, or is all there already
  (`AppendedSplit`), because a request carries the rest of the leader's log and so at
  least one entry of its term;
- a restored snapshot that leaves the state machine sound moves `a` to the snapshot's
  index or leaves it (`RestoreSplit`); every other one is old or mixed, which is
  `OnlyOldSnapshots`;
- `f.commitIndex <= a`, from which `FollowerAgrees` follows;
- unless `keptTail`: entries of the lost leader are left only while nothing is
  committed at the follower and `a` is among the old entries (`Clean`), so the last
  index that a success reports is `a` (`Kept`), and `matchIndex` and `commitIndex`
  are inherited, up to `a`, or at the other peer (`Backed`). A snapshot that is booked
  although it did not decode is harmless, since the leader's snapshot is never ahead of
  its commit index, which is backed already.

TLC checked `StorageInv`, `MembershipInv` and `CatchUpInv` on small instances before
they were proved.

### Only model-checked

The liveness properties: `EventuallyCaughtUp`, `ChangesComplete`, `ProposalsAnswered`,
`MembersLearn`, `LeaderFound`, `BrowsersFollow` and `RequestsEnd`; liveness under fairness and `ENABLED`
are out of the prover's reach. Of `Gateway`, all that is checked is liveness and its
types, and nothing is proved. Every other property of a passing run is a theorem. The
three disagreements are counterexamples, found by TLC.

## Disagreements found

Each is a run that TLC refutes.

- `restart_term`: `transitionToFollower` does not persist the term it adopts
  (`raft.go:640`). Elections stay safe, as proved, but an acknowledgement does not:
  of five nodes, one that has acknowledged an entry in term 2 without having voted
  there restarts in an older term, where a delayed heartbeat of the deposed leader
  truncates the entry. In two terms of three nodes the majority that acknowledges has
  voted in the term, so `rivals` passes with restarts; with a third term three nodes
  are no safer than five. `AckedStaysCommitted` proves that a lost term is the only
  cause.
- `compaction_tail`: `takeSnapshot` resets the WAL and does not write back the
  entries above the snapshot (`raft.go:1659`), and `restoreSnapshot` does the same
  (`raft.go:1721`). `LostOnlyBySnapshots` says that these, and the entries of a
  snapshot file that an older one replaces, are all that is lost, until a log with a
  hole is loaded or restored. Between `Reset` and `AppendState` the term and vote are
  on no disk either, which `VoteKept` says.
- `phantom_match`: `restoreSnapshot` keeps the entries above the snapshot whatever
  history they belong to (`raft.go:1703`), and the next success reports the whole
  last index as `MatchIndex`. The leader counts the follower for an entry of its own
  that the follower does not hold, and commits an entry that is nowhere else.
  `CommitReplicatedUnlessKept` says that this is the only way.

## Known limits

Where the code does less than its documentation says and no run is kept for it. A
definition and a configuration are named where one exists to see it.

- An even number of nodes: `HasMajority` counts the node itself twice
  (`config.go:131`), so two of four nodes are enough, and a term can have two leaders
  (`ElectionSafety` with four servers; `EvenHalvesAccepted` proves the count).
  README.md:165 says changes happen "without risk of split-brain elections".
- A record cut short by a crash makes `Replay`, and so every later start, fail
  (`wal.go:118`): `Restartable` under `storage.cfg`.
- With the ids the gateway injects, a write overtaken by another one from the same
  address is skipped as a duplicate and answered with `ok` (`gateway.go:403`), and a
  retry gets a new id: `AppliedInOrder` and `AckedIsApplied` hold for `Numbering` only.
- A safe read at a new leader that has not committed in its term takes too low a
  read index (`raft.go:460`): `SafeReadsAlwaysFresh` under `reads.cfg`. A lease or
  local read may miss what another leader has acknowledged; `ReadsDurable` is what
  remains true of them. README.md:8 promises linearizable reads.
- `OnlyOldSnapshots` has a premise that happens: a delayed snapshot does take the
  state machine back.
- The removal of the only member is accepted (`config.go:209`) and nothing can be
  committed afterwards (`Orphaned`).
- A removed follower is disconnected before it learns of it, and goes on starting
  elections, against the comment at `raft.go:1403`.
- README.md:166 of the repository says "New nodes start in `isJoining` mode to prevent
  election storms". `NewRaft` leaves `isJoining` false and `main.go` never calls
  `SetJoining`; only tests do. An added node therefore runs its election timer from its
  start, before any change that adds it is committed (`raft.go:601`). `Membership` has
  the initial states of both, and claims nothing about a node that is not yet a member.

## Plan

Done: `ClusterConfig`, `Raft`, `Reads`, `CatchUp`, `Membership`, `Storage`, `Requests`
with the abstract specification it implements, and the proofs of their safety
properties; `Gateway`, model-checked.

Next, in this order:

1. **Composition** of `Membership` with `Raft`: a leader that is replaced in the
   middle of a change, with `pendingConfig` and the configuration in memory as they
   are then.
2. **Storage** with errors of the disk, where memory and WAL part.
3. **Storage under Raft**: that a node of `Storage` without compaction implements the
   disk that `Restart` of `Raft` takes for granted, as a refinement.

## What is not modelled

- Metrics, flags and start-up, the dashboard, benchmark, deployment files and
  generated protocol code hold no state of the protocol. Certificates and
  credentials of the gRPC transport are library calls.
- The rate limiter counts in floating point against the clock; in `Gateway` and
  `Requests` a request may be refused at any time. Authentication is a comparison of
  strings. Addresses are node ids, so that a replicated configuration carries
  `localhost:self` for the node that built it (`config.go:250`) is not seen.
- `Stop`, and the goroutines of the HTTP server that wait for an answer without a
  time-out (`raft.go:307`).
- Errors of the disk: every handler but two logs them and goes on as if the record
  were written.
- Durations: timers fire at any time, leases end at any time.

Components and hazards in `PROJECT.json` carry a note on each.
