-------------------------------- MODULE Raft --------------------------------
(***************************************************************************)
(* The consensus core of raft/raft.go for a cluster of more than one node  *)
(* whose membership does not change and whose compaction is off            *)
(* (snapshotThreshold = 0): pre-vote, election, log replication, commit,   *)
(* apply, client proposals and restart from the write-ahead log.           *)
(*                                                                         *)
(* Each handler of the Go code runs to its end under r.mu, so each is one  *)
(* action.  An RPC is three steps of three actors: the goroutine that      *)
(* builds the request, the handler at the receiver, and the handler of the *)
(* response at the sender; anything may happen in between.                 *)
(*                                                                         *)
(* msgs is the set of all messages ever sent.  A message is delivered      *)
(* whenever a handler picks it, in any order and any number of times: the  *)
(* ticker repeats an unchanged heartbeat every 50 ms and the election      *)
(* timer an unchanged pre-vote, so equal messages are in flight together.  *)
(* A message that was lost, or whose call timed out, is one that is never  *)
(* picked.                                                                 *)
(***************************************************************************)
EXTENDS ClusterConfig, Sequences, FiniteSetsExt

CONSTANTS
    Server,       \* the node ids
    Command,      \* client commands, each proposed once through one channel
    Nil,          \* the empty votedFor string
    Noop,         \* the payload of the no-op entry of a new leader
    MaxTerm,      \* bound: no election is started beyond this term
    MaxRestarts,  \* bound: restarts of each node
    MaxPreVotes,  \* bound: different pre-vote requests sent in all
    MaxAppends    \* bound: different append requests a leader sends in a term

\* A node without peers elects itself and commits alone: see module Membership.
ASSUME ServerAssumption  == IsFiniteSet(Server) /\ Cardinality(Server) > 1
ASSUME NilAssumption     == Nil \notin Server
ASSUME NoopAssumption    == Noop \notin Command
ASSUME BoundsAssumption  ==
    {MaxTerm, MaxRestarts, MaxPreVotes, MaxAppends} \subseteq Nat

VARIABLES
    \* the fields of struct Raft with these names
    state, currentTerm, votedFor, votesReceived, preVoteVotesReceived,
    log, commitIndex, nextIndex, matchIndex, proposals,
    applied,      \* the entries applied to kv so far; lastApplied is its length
    wal,          \* the last term and vote written with AppendState
    msgs,         \* the messages sent so far
    incarnation,  \* how often each node has restarted
    replies,      \* what the client of each command has been told
    \* history, never read by an action's guard
    ballots,      \* the first vote of each node in each term
    elections     \* the elections won: leader, term and the votes counted

nodeVars   == <<state, currentTerm, votedFor, wal>>
voteVars   == <<votesReceived, preVoteVotesReceived>>
logVars    == <<log, commitIndex, applied>>
leaderVars == <<nextIndex, matchIndex>>
clientVars == <<proposals, replies>>
history    == <<ballots, elections>>
vars == <<nodeVars, voteVars, logVars, leaderVars, clientVars, msgs,
          incarnation, history>>
-----------------------------------------------------------------------------
(***************************************************************************)
(* Types.                                                                  *)
(***************************************************************************)
Entry == [term : Nat \ {0}, cmd : Command \cup {Noop}]

\* The header of every message: the node that called the RPC is the one
\* whose incarnation `inc` is carried, and only that incarnation is still
\* waiting for the response.
PreVoteMsg == [type : {"PreVote"}, from : Server, to : Server, inc : Nat,
               term : Nat, lastIndex : Nat, lastTerm : Nat]
PreVoteReplyMsg == [type : {"PreVoteReply"}, from : Server, to : Server, inc : Nat]
RequestVoteMsg == [type : {"RequestVote"}, from : Server, to : Server, inc : Nat,
                   term : Nat, lastIndex : Nat, lastTerm : Nat]
VoteReplyMsg == [type : {"VoteReply"}, from : Server, to : Server, inc : Nat,
                 term : Nat, granted : BOOLEAN]
AppendEntriesMsg == [type : {"AppendEntries"}, from : Server, to : Server,
                     inc : Nat, term : Nat, prevIndex : Nat, prevTerm : Nat,
                     entries : Seq(Entry), leaderCommit : Nat]
AppendReplyMsg == [type : {"AppendReply"}, from : Server, to : Server, inc : Nat,
                   term : Nat, success : BOOLEAN, match : Nat]
Message == PreVoteMsg \cup PreVoteReplyMsg \cup RequestVoteMsg
           \cup VoteReplyMsg \cup AppendEntriesMsg \cup AppendReplyMsg

Proposal == [index : Nat, term : Nat, cmd : Command]
Ballot   == [voter : Server, term : Nat, cand : Server]
Election == [leader : Server, term : Nat, voters : SUBSET Server]

\* What keeps every term of an entry above 0, the answer of getEntryTerm for an
\* entry that is not there, and every index that is sent a natural number.
IndexOK ==
    /\ \A i \in Server : state[i] # "Follower" => currentTerm[i] >= 1
    /\ \A i, j \in Server : state[i] = "Leader" /\ j # i => nextIndex[i][j] >= 1
    /\ \A m \in msgs : m.type = "AppendEntries" /\ m.prevIndex = 0
                           => m.prevTerm = 0

TypeOK ==
    /\ state \in [Server -> {"Follower", "Candidate", "Leader"}]
    /\ currentTerm \in [Server -> Nat]
    /\ votedFor \in [Server -> Server \cup {Nil}]
    /\ wal \in [Server -> [term : Nat, votedFor : Server \cup {Nil}]]
    /\ votesReceived \in [Server -> SUBSET Server]
    /\ preVoteVotesReceived \in [Server -> SUBSET Server]
    /\ log \in [Server -> Seq(Entry)]
    /\ commitIndex \in [Server -> Nat]
    /\ applied \in [Server -> Seq(Entry)]
    /\ nextIndex \in [Server -> [Server -> Nat]]
    /\ matchIndex \in [Server -> [Server -> Nat]]
    /\ proposals \in [Server -> SUBSET Proposal]
    /\ replies \in [Command -> {"none", "pending", "success", "failure"}]
    /\ msgs \subseteq Message
    /\ incarnation \in [Server -> Nat]
    /\ ballots \subseteq Ballot
    /\ elections \subseteq Election
    /\ IndexOK
-----------------------------------------------------------------------------
(***************************************************************************)
(* Helpers of the Go code.                                                 *)
(***************************************************************************)
Config(i) == ConfigFromPeers(Server \ {i}, i)
effectivePeers(i) == AllNodeGRPC(Config(i), i)

\* getEntryTerm: 0 for index 0 and for an index beyond the log.
getEntryTerm(lg, n) == IF n \in 1..Len(lg) THEN lg[n].term ELSE 0
lastLogTerm(lg) == getEntryTerm(lg, Len(lg))

\* Mutated LogOK: the longer log wins, whatever its last term.
LogOKByLength(m, lg) == m.lastIndex >= Len(lg)

\* The logOK test of processPreVote and processRequestVote.
LogOK(m, lg) ==
    \/ m.lastTerm > lastLogTerm(lg)
    \/ m.lastTerm = lastLogTerm(lg) /\ m.lastIndex >= Len(lg)

\* The incarnation that made the call is still there to receive the response.
Awaited(m) == m.inc = incarnation[m.to]

\* Mutated Answer: a cancelled proposal is reported as a success.
AnswerCancelled(ok, failed) ==
    replies' = [c \in Command |->
                   IF \E p \in ok \cup failed : p.cmd = c THEN "success"
                   ELSE replies[c]]

\* The response channels of the proposals in ok and in failed are answered.
Answer(ok, failed) ==
    replies' = [c \in Command |->
                   IF \E p \in ok : p.cmd = c THEN "success"
                   ELSE IF \E p \in failed : p.cmd = c THEN "failure"
                   ELSE replies[c]]

\* Mutated CancelProposals: the list of proposals is not cleared.
CancelKeeping(i) == Answer({}, proposals[i]) /\ UNCHANGED proposals

\* The effect of transitionToFollower(term) on the waiting clients.
CancelProposals(i) ==
    /\ proposals' = [proposals EXCEPT ![i] = {}]
    /\ Answer({}, proposals[i])

\* transitionToFollower(term).  The new term is not written to the WAL.
transitionToFollower(i, term) ==
    /\ state' = [state EXCEPT ![i] = "Follower"]
    /\ currentTerm' = [currentTerm EXCEPT ![i] = term]
    /\ votedFor' = [votedFor EXCEPT ![i] = Nil]
    /\ CancelProposals(i)

\* applyLogs after the log and the commit index of i became lg and n: applies
\* the newly committed entries, then answers the proposals up to n.  props is
\* {} when transitionToFollower has just cancelled all proposals of i.
applyLogs(i, lg, n, props) ==
    /\ commitIndex' = [commitIndex EXCEPT ![i] = n]
    /\ applied' = [applied EXCEPT
                      ![i] = @ \o SubSeq(lg, Len(@) + 1, n)]
    /\ proposals' = [proposals EXCEPT ![i] = {p \in props : p.index > n}]
    /\ LET done == {p \in proposals[i] : p \in props => p.index <= n}
       IN  Answer({p \in done \cap props : p.term = getEntryTerm(lg, p.index)},
                  done)
-----------------------------------------------------------------------------
Init ==
    /\ state = [i \in Server |-> "Follower"]
    /\ currentTerm = [i \in Server |-> 0]
    /\ votedFor = [i \in Server |-> Nil]
    /\ wal = [i \in Server |-> [term |-> 0, votedFor |-> Nil]]
    /\ votesReceived = [i \in Server |-> {}]
    /\ preVoteVotesReceived = [i \in Server |-> {}]
    /\ log = [i \in Server |-> << >>]
    /\ commitIndex = [i \in Server |-> 0]
    /\ applied = [i \in Server |-> << >>]
    /\ nextIndex = [i \in Server |-> [j \in Server |-> 0]]
    /\ matchIndex = [i \in Server |-> [j \in Server |-> 0]]
    /\ proposals = [i \in Server |-> {}]
    /\ replies = [c \in Command |-> "none"]
    /\ msgs = {}
    /\ incarnation = [i \in Server |-> 0]
    /\ ballots = {}
    /\ elections = {}
-----------------------------------------------------------------------------
(***************************************************************************)
(* Elections.                                                              *)
(***************************************************************************)
\* The first vote of node i in term t is remembered; a later vote in the
\* same term leaves it.
RecordBallot(i, t, c) ==
    ballots' = IF \E b \in ballots : b.voter = i /\ b.term = t
               THEN ballots
               ELSE ballots \cup {[voter |-> i, term |-> t, cand |-> c]}

\* The election timer of a follower or candidate fires: startPreVote.
ElectionTimeout(i) ==
    /\ state[i] \in {"Follower", "Candidate"}
    /\ currentTerm[i] < MaxTerm
    /\ preVoteVotesReceived' = [preVoteVotesReceived EXCEPT ![i] = {i}]
    /\ msgs' = msgs \cup
          {[type |-> "PreVote", from |-> i, to |-> j, inc |-> incarnation[i],
            term |-> currentTerm[i] + 1, lastIndex |-> Len(log[i]),
            lastTerm |-> lastLogTerm(log[i])] : j \in effectivePeers(i)}
    /\ Cardinality({m \in msgs' : m.type = "PreVote"}) <= MaxPreVotes
    /\ UNCHANGED <<nodeVars, votesReceived, logVars, leaderVars, clientVars,
                   incarnation, history>>

\* processPreVote.  The lease test of the code never refuses, because nothing
\* assigns lastLeaderHeartbeat.  processPreVoteResponse drops a refusal
\* without looking at its term, and it does not look at the term of a grant
\* either, so a refusal sends nothing and a grant carries no term.
HandlePreVote(m) ==
    LET grant == /\ m.term > currentTerm[m.to]
                 /\ ContainsNode(Config(m.to), m.from)
                 /\ LogOK(m, log[m.to])
    IN
    /\ m.type = "PreVote"
    /\ \/ /\ grant
          /\ msgs' = msgs \cup {[type |-> "PreVoteReply", from |-> m.to,
                                 to |-> m.from, inc |-> m.inc]}
       \/ /\ ~grant
          /\ UNCHANGED msgs
    /\ UNCHANGED <<nodeVars, voteVars, logVars, leaderVars, clientVars,
                   incarnation, history>>

\* Mutated AppendState: nothing, or only the term, is written.
AppendNothing(i, term, vote) == UNCHANGED wal
AppendTermOnly(i, term, vote) ==
    wal' = [wal EXCEPT ![i] = [term |-> term, votedFor |-> Nil]]

\* wal.AppendState: the term and the vote reach the disk before the handler
\* goes on.
AppendState(i, term, vote) ==
    wal' = [wal EXCEPT ![i] = [term |-> term, votedFor |-> vote]]

\* transitionToCandidate: a new term, a vote for itself, both persisted.
transitionToCandidate(i) ==
    LET term == currentTerm[i] + 1 IN
    /\ currentTerm[i] < MaxTerm
    /\ currentTerm' = [currentTerm EXCEPT ![i] = term]
    /\ votedFor' = [votedFor EXCEPT ![i] = i]
    /\ AppendState(i, term, i)
    /\ votesReceived' = [votesReceived EXCEPT ![i] = {i}]
    /\ RecordBallot(i, term, i)

\* startElection at node i, already in its new term.
RequestVotes(i, term) ==
    msgs' = msgs \cup
        {[type |-> "RequestVote", from |-> i, to |-> j, inc |-> incarnation[i],
          term |-> term, lastIndex |-> Len(log[i]),
          lastTerm |-> lastLogTerm(log[i])] : j \in effectivePeers(i)}

\* Mutated transitionToLeader: nextIndex starts at the last entry.
transitionToLeaderLow(i, term, voters) ==
    /\ state' = [state EXCEPT ![i] = "Leader"]
    /\ log' = [log EXCEPT ![i] = Append(@, [term |-> term, cmd |-> Noop])]
    /\ nextIndex' = [nextIndex EXCEPT ![i] = [j \in Server |-> Len(log[i])]]
    /\ matchIndex' = [matchIndex EXCEPT ![i] = [j \in Server |-> 0]]
    /\ elections' = elections \cup
          {[leader |-> i, term |-> term, voters |-> voters]}

\* transitionToLeader: replication state for every peer, and a no-op entry
\* of the new term.
transitionToLeader(i, term, voters) ==
    /\ state' = [state EXCEPT ![i] = "Leader"]
    /\ log' = [log EXCEPT ![i] = Append(@, [term |-> term, cmd |-> Noop])]
    /\ nextIndex' = [nextIndex EXCEPT ![i] =
          [j \in Server |-> IF j \in effectivePeers(i)
                            THEN Len(log[i]) + 1 ELSE @[j]]]
    /\ matchIndex' = [matchIndex EXCEPT ![i] =
          [j \in Server |-> IF j \in effectivePeers(i) THEN 0 ELSE @[j]]]
    /\ elections' = elections \cup
          {[leader |-> i, term |-> term, voters |-> voters]}

\* processPreVoteResponse counts a grant; any grant that arrives while the
\* count is a majority starts a new election, so a second one starts another.
HandlePreVoteReply(m) ==
    LET i == m.to
        granted == preVoteVotesReceived[i] \cup {m.from}
    IN
    /\ m.type = "PreVoteReply"
    /\ Awaited(m)
    /\ state[i] \in {"Follower", "Candidate"}
    /\ preVoteVotesReceived' = [preVoteVotesReceived EXCEPT ![i] = granted]
    /\ \/ /\ ~HasMajority(Config(i), i, granted)
          /\ UNCHANGED <<nodeVars, votesReceived, msgs, ballots>>
       \/ /\ HasMajority(Config(i), i, granted)
          /\ state' = [state EXCEPT ![i] = "Candidate"]
          /\ transitionToCandidate(i)
          /\ RequestVotes(i, currentTerm[i] + 1)
    /\ UNCHANGED <<logVars, leaderVars, clientVars, incarnation, elections>>

\* A refusal that carries no term newer than the request's changes nothing at
\* the candidate, so it is not sent in the model.
VoteReply(m, term, granted) ==
    msgs' = IF granted \/ term > m.term
            THEN msgs \cup {[type |-> "VoteReply", from |-> m.to,
                             to |-> m.from, inc |-> m.inc, term |-> term,
                             granted |-> granted]}
            ELSE msgs

\* processRequestVote: a stale request is refused, a newer term is adopted,
\* and the vote is given once per term to a candidate with a fresh enough log.
HandleRequestVote(m) ==
    LET i == m.to
        newer == m.term > currentTerm[i]
        vote == IF newer THEN Nil ELSE votedFor[i]
        grant == vote \in {Nil, m.from} /\ LogOK(m, log[i])
    IN
    /\ m.type = "RequestVote"
    /\ \/ /\ m.term < currentTerm[i] \/ ~ContainsNode(Config(i), m.from)
          /\ VoteReply(m, currentTerm[i], FALSE)
          /\ UNCHANGED <<nodeVars, clientVars, ballots>>
       \/ /\ m.term >= currentTerm[i]
          /\ ContainsNode(Config(i), m.from)
          /\ IF newer THEN /\ state' = [state EXCEPT ![i] = "Follower"]
                           /\ CancelProposals(i)
                      ELSE UNCHANGED <<state, clientVars>>
          /\ currentTerm' = [currentTerm EXCEPT ![i] = m.term]
          /\ VoteReply(m, m.term, grant)
          /\ \/ /\ grant
                /\ votedFor' = [votedFor EXCEPT ![i] = m.from]
                /\ AppendState(i, m.term, m.from)
                /\ RecordBallot(i, m.term, m.from)
             \/ /\ ~grant
                /\ votedFor' = [votedFor EXCEPT ![i] = vote]
                /\ UNCHANGED <<wal, ballots>>
    /\ UNCHANGED <<voteVars, logVars, leaderVars, incarnation, elections>>

\* processRequestVoteResponse.
HandleVoteReply(m) ==
    LET i == m.to
        votes == votesReceived[i] \cup {m.from}
    IN
    /\ m.type = "VoteReply"
    /\ Awaited(m)
    /\ \/ /\ m.term > currentTerm[i]
          /\ transitionToFollower(i, m.term)
          /\ UNCHANGED <<votesReceived, log, leaderVars, elections>>
       \/ /\ m.term = currentTerm[i]
          /\ m.granted
          /\ state[i] = "Candidate"
          /\ votesReceived' = [votesReceived EXCEPT ![i] = votes]
          /\ IF HasMajority(Config(i), i, votes)
             THEN transitionToLeader(i, m.term, votes)
             ELSE UNCHANGED <<state, log, leaderVars, elections>>
          /\ UNCHANGED <<currentTerm, votedFor, clientVars>>
    /\ UNCHANGED <<wal, preVoteVotesReceived, commitIndex, applied, msgs,
                   incarnation, ballots>>
-----------------------------------------------------------------------------
(***************************************************************************)
(* Log replication.                                                        *)
(***************************************************************************)
\* replicateToPeer, run by the ticker, after a proposal and after a refused
\* append: everything from nextIndex on, read under the lock and sent later.
ReplicateToPeer(i, j) ==
    LET prev == nextIndex[i][j] - 1 IN
    /\ state[i] = "Leader"
    /\ j \in effectivePeers(i)
    /\ msgs' = msgs \cup
          {[type |-> "AppendEntries", from |-> i, to |-> j,
            inc |-> incarnation[i], term |-> currentTerm[i],
            prevIndex |-> prev, prevTerm |-> getEntryTerm(log[i], prev),
            entries |-> SubSeq(log[i], prev + 1, Len(log[i])),
            leaderCommit |-> commitIndex[i]]}
    /\ Cardinality({m \in msgs' : /\ m.type = "AppendEntries"
                                   /\ m.from = i
                                   /\ m.term = currentTerm[i]}) <= MaxAppends
    /\ UNCHANGED <<nodeVars, voteVars, logVars, leaderVars, clientVars,
                   incarnation, history>>

\* Mutated NewEntries: an entry that conflicts with the log is not noticed.
NewBeyond(lg, m) == {k \in 1..Len(m.entries) : m.prevIndex + k > Len(lg)}

\* The loop over req.Entries.  Up to the first entry that is new or has
\* another term nothing changes; that entry and all after it then replace
\* whatever the log held from there on.
NewEntries(lg, m) ==
    {k \in 1..Len(m.entries) :
        getEntryTerm(lg, m.prevIndex + k) # m.entries[k].term}

FirstNew(lg, m) == Min(NewEntries(lg, m))

\* Mutated AppendedLog: a conflict overwrites entries but truncates nothing.
OverwrittenLog(lg, m) ==
    SubSeq(lg, 1, m.prevIndex) \o m.entries
    \o SubSeq(lg, m.prevIndex + Len(m.entries) + 1, Len(lg))

AppendedLog(lg, m) ==
    IF NewEntries(lg, m) = {} THEN lg
    ELSE SubSeq(lg, 1, m.prevIndex + FirstNew(lg, m) - 1)
         \o SubSeq(m.entries, FirstNew(lg, m), Len(m.entries))

\* Mutated PrevMatches: the term of the preceding entry is not compared.
PrevPresent(lg, m) == m.prevIndex <= Len(lg)

\* The log matches the entry that precedes the request's entries.
PrevMatches(lg, m) ==
    /\ m.prevIndex <= Len(lg)
    /\ getEntryTerm(lg, m.prevIndex) = m.prevTerm

AppendReply(m, term, success, match) ==
    msgs' = msgs \cup {[type |-> "AppendReply", from |-> m.to, to |-> m.from,
                        inc |-> m.inc, term |-> term, success |-> success,
                        match |-> match]}

\* Mutated StepsDown: a leader that meets a newer term stays leader.
CandidateStepsDown(m, i) == state[i] = "Candidate"

\* The two conditions under which processAppendEntries calls
\* transitionToFollower.
StepsDown(m, i) == m.term > currentTerm[i] \/ state[i] = "Candidate"

\* processAppendEntries.  A node of the same term adopts the sender as
\* votedFor without writing it to the WAL; a leader of the same term does
\* not step down.
HandleAppendEntries(m) ==
    LET i == m.to
        stepDown == StepsDown(m, i)
        props == IF stepDown THEN {} ELSE proposals[i]
        lg == AppendedLog(log[i], m)
        commit == IF m.leaderCommit > commitIndex[i]
                  THEN Min({m.leaderCommit, Len(lg)}) ELSE commitIndex[i]
        \* the reply's MatchIndex when the previous entry does not match
        hint == IF m.prevIndex > Len(log[i]) THEN Len(log[i]) ELSE m.prevIndex - 1
    IN
    /\ m.type = "AppendEntries"
    /\ \/ /\ m.term < currentTerm[i]
          /\ AppendReply(m, currentTerm[i], FALSE, 0)
          /\ UNCHANGED <<nodeVars, logVars, clientVars>>
       \/ /\ m.term >= currentTerm[i]
          /\ state' = [state EXCEPT ![i] = IF stepDown THEN "Follower" ELSE @]
          /\ currentTerm' = [currentTerm EXCEPT ![i] = m.term]
          /\ votedFor' = [votedFor EXCEPT ![i] = m.from]
          /\ \/ /\ ~PrevMatches(log[i], m)
                /\ AppendReply(m, m.term, FALSE, hint)
                /\ IF stepDown THEN CancelProposals(i) ELSE UNCHANGED clientVars
                /\ UNCHANGED logVars
             \/ /\ PrevMatches(log[i], m)
                /\ log' = [log EXCEPT ![i] = lg]
                /\ IF m.leaderCommit > commitIndex[i]
                   THEN applyLogs(i, lg, commit, props)
                   ELSE /\ IF stepDown THEN CancelProposals(i)
                                       ELSE UNCHANGED clientVars
                        /\ UNCHANGED <<commitIndex, applied>>
                /\ AppendReply(m, m.term, TRUE, Len(lg))
          /\ UNCHANGED wal
    /\ UNCHANGED <<voteVars, leaderVars, incarnation, history>>

\* Mutated checkCommitMajority: off by one in the match index.
checkCommitMajorityEarly(i, mi, n) ==
    HasMajority(Config(i), i, {i} \cup {j \in Server : mi[j] >= n - 1})

\* checkCommitMajority(n), with the match indexes mi of the leader.
checkCommitMajority(i, mi, n) ==
    HasMajority(Config(i), i, {i} \cup {j \in Server : mi[j] >= n})

\* The commit index the loop of processAppendEntriesResponse arrives at: the
\* last entry of the current term that a majority holds.
CommitTo(i, mi) ==
    Max({commitIndex[i]} \cup
        {n \in (commitIndex[i] + 1)..Len(log[i]) :
            /\ getEntryTerm(log[i], n) = currentTerm[i]
            /\ checkCommitMajority(i, mi, n)})

\* processAppendEntriesResponse.  The retry that a refusal starts is
\* ReplicateToPeer, which a leader may take at any time; the clamp of
\* nextIndex at 1 never acts, because a MatchIndex is a natural number.
HandleAppendReply(m) ==
    LET i == m.to
        mi == [matchIndex[i] EXCEPT ![m.from] = m.match]
    IN
    /\ m.type = "AppendReply"
    /\ Awaited(m)
    /\ \/ /\ m.term > currentTerm[i]
          /\ transitionToFollower(i, m.term)
          /\ UNCHANGED <<logVars, leaderVars>>
       \/ /\ m.term = currentTerm[i]
          /\ state[i] = "Leader"
          /\ nextIndex' = [nextIndex EXCEPT ![i][m.from] = m.match + 1]
          /\ \/ /\ m.success
                /\ matchIndex' = [matchIndex EXCEPT ![i] = mi]
                /\ IF CommitTo(i, mi) > commitIndex[i]
                   THEN applyLogs(i, log[i], CommitTo(i, mi), proposals[i])
                   ELSE UNCHANGED <<commitIndex, applied, clientVars>>
             \/ /\ ~m.success
                /\ UNCHANGED <<matchIndex, commitIndex, applied, clientVars>>
          /\ UNCHANGED <<log, state, currentTerm, votedFor>>
    /\ UNCHANGED <<wal, voteVars, msgs, incarnation, history>>
-----------------------------------------------------------------------------
(***************************************************************************)
(* Clients and restarts.                                                   *)
(***************************************************************************)
\* handleClientCommand at a node that does not lead.
RejectCommand(i, c) ==
    /\ state[i] # "Leader"
    /\ replies[c] = "none"
    /\ replies' = [replies EXCEPT ![c] = "failure"]
    /\ UNCHANGED <<nodeVars, voteVars, logVars, leaderVars, proposals, msgs,
                   incarnation, history>>

\* handleClientCommand at the leader.  Only a node without peers would commit
\* the entry at once.
ClientCommand(i, c) ==
    LET lg == Append(log[i], [term |-> currentTerm[i], cmd |-> c])
        p == [index |-> Len(lg), term |-> currentTerm[i], cmd |-> c]
    IN
    /\ state[i] = "Leader"
    /\ replies[c] = "none"
    /\ log' = [log EXCEPT ![i] = lg]
    /\ proposals' = [proposals EXCEPT ![i] = @ \cup {p}]
    /\ replies' = [replies EXCEPT ![c] = "pending"]
    /\ UNCHANGED <<nodeVars, voteVars, commitIndex, applied, leaderVars, msgs,
                   incarnation, history>>

\* What a node knows after NewRaft and loadState have run on a WAL that
\* replays to the term and vote wal[i] and to the log lg.
loadState(i, lg) ==
    /\ incarnation[i] < MaxRestarts
    /\ incarnation' = [incarnation EXCEPT ![i] = @ + 1]
    /\ state' = [state EXCEPT ![i] = "Follower"]
    /\ currentTerm' = [currentTerm EXCEPT ![i] = wal[i].term]
    /\ votedFor' = [votedFor EXCEPT ![i] = wal[i].votedFor]
    /\ votesReceived' = [votesReceived EXCEPT ![i] = {}]
    /\ preVoteVotesReceived' = [preVoteVotesReceived EXCEPT ![i] = {}]
    /\ log' = [log EXCEPT ![i] = lg]
    /\ commitIndex' = [commitIndex EXCEPT ![i] = 0]
    /\ applied' = [applied EXCEPT ![i] = << >>]
    /\ nextIndex' = [nextIndex EXCEPT ![i] = [j \in Server |-> 0]]
    /\ matchIndex' = [matchIndex EXCEPT ![i] = [j \in Server |-> 0]]
    /\ proposals' = [proposals EXCEPT ![i] = {}]
    /\ UNCHANGED <<wal, replies, msgs, history>>

\* Mutated Restart: the entries of the WAL are not replayed.
RestartEmpty(i) == loadState(i, << >>)

\* The process ends between two handlers and starts again.  Every change of
\* r.log is written to the WAL by the handler that makes it, so the WAL
\* replays to the log; the clients of its proposals are never answered.
Restart(i) == loadState(i, log[i])

\* The process ends inside processAppendEntries, after the truncate marker
\* and the first n of the new entries reached the WAL.
CrashWhileAppending(m) ==
    LET i == m.to
        k == FirstNew(log[i], m)
    IN
    /\ m.type = "AppendEntries"
    /\ m.term >= currentTerm[i]
    /\ PrevMatches(log[i], m)
    /\ NewEntries(log[i], m) # {}
    /\ \E n \in 0..(Len(m.entries) - k) :
          loadState(i, SubSeq(log[i], 1, m.prevIndex + k - 1)
                       \o SubSeq(m.entries, k, k + n - 1))
-----------------------------------------------------------------------------
Next ==
    \/ \E i \in Server : ElectionTimeout(i)
    \/ \E i, j \in Server : ReplicateToPeer(i, j)
    \/ \E i \in Server, c \in Command : RejectCommand(i, c)
    \/ \E i \in Server, c \in Command : ClientCommand(i, c)
    \/ \E i \in Server : Restart(i)
    \/ \E m \in msgs : HandlePreVote(m)
    \/ \E m \in msgs : HandlePreVoteReply(m)
    \/ \E m \in msgs : HandleRequestVote(m)
    \/ \E m \in msgs : HandleVoteReply(m)
    \/ \E m \in msgs : HandleAppendEntries(m)
    \/ \E m \in msgs : HandleAppendReply(m)
    \/ \E m \in msgs : CrashWhileAppending(m)

Spec == Init /\ [][Next]_vars
-----------------------------------------------------------------------------
(***************************************************************************)
(* Properties.                                                             *)
(***************************************************************************)
\* At most one node is ever elected in a term, whatever is restarted and
\* whatever pre-vote rounds and delayed votes overlap (transitionToLeader).
ElectionSafety ==
    \A e, f \in elections : e.term = f.term => e.leader = f.leader

Elected(c, t) == \E e \in elections : e.leader = c /\ e.term = t
FirstVote(v, t, c) == [voter |-> v, term |-> t, cand |-> c] \in ballots

\* A vote that the code casts or remembers: the first of the node in its term,
\* or one for a node that already won the term (processAppendEntries makes
\* votedFor the leader, and a late RequestVote of that leader is granted).
Justified(v, t, c) == FirstVote(v, t, c) \/ Elected(c, t)

\* A node's ballots never outrun its WAL, nor the WAL the current term; a node
\* that has voted in its term remembers it, also across loadState.
BallotsPersisted ==
    /\ \A b, d \in ballots : b.voter = d.voter /\ b.term = d.term => b.cand = d.cand
    /\ \A i \in Server : wal[i].term <= currentTerm[i]
    /\ \A b \in ballots :
          /\ b.term <= wal[b.voter].term
          /\ b.term = wal[b.voter].term => wal[b.voter].votedFor # Nil
          /\ b.term = currentTerm[b.voter] => votedFor[b.voter] # Nil

\* Every vote in memory, in the WAL, on the wire and in a count is justified.
VotesJustified ==
    /\ \A i \in Server :
          /\ votedFor[i] # Nil => Justified(i, currentTerm[i], votedFor[i])
          /\ wal[i].votedFor # Nil => Justified(i, wal[i].term, wal[i].votedFor)
    /\ \A m \in msgs : m.type = "VoteReply" /\ m.granted
          => Justified(m.from, m.term, m.to)
    /\ \A i \in Server : state[i] = "Candidate" =>
          \A v \in votesReceived[i] : Justified(v, currentTerm[i], i)

\* Who leads has been elected, by a majority of first votes; a candidate has
\* not been; requests to append come from the elected node only.
LeadersElected ==
    /\ \A e \in elections :
          /\ e.term <= wal[e.leader].term
          /\ HasMajority(Config(e.leader), e.leader, e.voters)
          /\ \A v \in e.voters : FirstVote(v, e.term, e.leader)
    /\ \A i \in Server :
          /\ state[i] = "Leader" => Elected(i, currentTerm[i])
          /\ state[i] = "Candidate" => /\ ~Elected(i, currentTerm[i])
                                      /\ wal[i].term = currentTerm[i]
    /\ \A m \in msgs : m.type = "AppendEntries"
          => m.from # m.to /\ Elected(m.from, m.term)

\* Why an election is safe although a restart may take a node's term back to
\* that of its last vote and a node may vote twice in a term.
VoteInv == BallotsPersisted /\ VotesJustified /\ LeadersElected

\* Two logs that hold an entry of the same term at the same index are equal
\* up to it (the prev check and the truncation in processAppendEntries).
LogMatching ==
    \A i, j \in Server :
        \A n \in 1..Min({Len(log[i]), Len(log[j])}) :
            log[i][n].term = log[j][n].term
                => SubSeq(log[i], 1, n) = SubSeq(log[j], 1, n)

\* A node that stays leader through a step keeps every entry of its log,
\* although processAppendEntries never checks whether the receiver leads.
LeaderAppendOnly ==
    [][\A i \in Server :
          state[i] = "Leader" /\ state'[i] = "Leader"
             => /\ Len(log'[i]) >= Len(log[i])
                /\ SubSeq(log'[i], 1, Len(log[i])) = log[i]]_vars

\* The MatchIndex a follower reports is its whole last log index; for a
\* follower still in the leader's term the leader indeed holds those entries.
MatchIndexSound ==
    \A i, j \in Server :
        state[i] = "Leader" /\ currentTerm[j] = currentTerm[i]
           => \A n \in 1..matchIndex[i][j] :
                 n <= Len(log[i]) /\ n <= Len(log[j]) /\ log[i][n] = log[j][n]

\* What any node believes committed is in the logs of a majority.
CommittedOnQuorum ==
    \A i \in Server : \A n \in 1..commitIndex[i] :
        /\ n <= Len(log[i])
        /\ 2 * Cardinality({j \in Server : n <= Len(log[j])
                                              /\ log[j][n] = log[i][n]})
             > Cardinality(Server)

\* No two nodes apply different entries at the same index of kv's history.
StateMachineSafety ==
    \A i, j \in Server :
        \A n \in 1..Min({Len(applied[i]), Len(applied[j])}) :
            applied[i][n] = applied[j][n]

\* A leader whose term is at least that of another node holds everything
\* that node has applied.
LeaderCompleteness ==
    \A i, j \in Server :
        state[i] = "Leader" /\ currentTerm[i] >= currentTerm[j]
           => /\ Len(applied[j]) <= Len(log[i])
              /\ \A n \in 1..Len(applied[j]) : log[i][n] = applied[j][n]

\* A command whose client was told success (applyLogs) stays in the logs of a
\* majority, whatever is elected, truncated or restarted afterwards.
AckedIsCommitted ==
    \A c \in Command : replies[c] = "success" =>
        2 * Cardinality({j \in Server :
                           \E n \in 1..Len(log[j]) : log[j][n].cmd = c})
          > Cardinality(Server)

\* A client is answered at most once: each response channel holds one value,
\* and a second send would block the node's loop while it holds r.mu.
AnsweredOnce ==
    [][\A c \in Command :
          replies[c] \in {"success", "failure"} => replies'[c] = replies[c]]_vars
=============================================================================
