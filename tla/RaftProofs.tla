----------------------------- MODULE RaftProofs -----------------------------
(***************************************************************************)
(* Type correctness of Raft, for every number of nodes, commands, terms    *)
(* and restarts, and the facts about logs and indexes it rests on.         *)
(***************************************************************************)
EXTENDS Raft, ClusterConfigProofs

LEMMA getEntryTermType ==
    ASSUME NEW lg \in Seq(Entry), NEW n
    PROVE  /\ getEntryTerm(lg, n) \in Nat
           /\ n \in 1..Len(lg) <=> getEntryTerm(lg, n) # 0
<1>1. CASE n \in 1..Len(lg)
  <2>1. lg[n] \in Entry
    BY <1>1, ElementOfSeq
  <2> QED
    BY <1>1, <2>1 DEF getEntryTerm, Entry
<1>2. CASE n \notin 1..Len(lg)
  BY <1>2 DEF getEntryTerm
<1> QED
  BY <1>1, <1>2

\* With all of Server as its configuration a node counts every other as a peer.
LEMMA Peers ==
    ASSUME NEW i \in Server
    PROVE  /\ effectivePeers(i) = Server \ {i}
           /\ Config(i) = [old |-> {}, new |-> Server, joint |-> FALSE]
           /\ \A j \in Server : ContainsNode(Config(i), j)
<1>1. Config(i) = [old |-> {}, new |-> Server, joint |-> FALSE]
  BY DEF Config, ConfigFromPeers
<1> QED
  BY <1>1 DEF effectivePeers, AllNodeGRPC, ContainsNode, Members

\* The type of a message is decided by its tag.
LEMMA MessageKinds ==
    ASSUME NEW m \in Message
    PROVE  /\ m.type = "PreVote" => m \in PreVoteMsg
           /\ m.type = "PreVoteReply" => m \in PreVoteReplyMsg
           /\ m.type = "RequestVote" => m \in RequestVoteMsg
           /\ m.type = "VoteReply" => m \in VoteReplyMsg
           /\ m.type = "AppendEntries" => m \in AppendEntriesMsg
           /\ m.type = "AppendReply" => m \in AppendReplyMsg
           /\ m.from \in Server /\ m.to \in Server /\ m.inc \in Nat
  BY DEF Message, PreVoteMsg, PreVoteReplyMsg, RequestVoteMsg, VoteReplyMsg,
         AppendEntriesMsg, AppendReplyMsg

\* Where the loop of processAppendEntries starts to write: inside the request,
\* and at most one past the end of the log.
LEMMA FirstNewBounds ==
    ASSUME NEW lg \in Seq(Entry), NEW m \in AppendEntriesMsg,
           PrevMatches(lg, m), NewEntries(lg, m) # {}
    PROVE  /\ FirstNew(lg, m) \in 1..Len(m.entries)
           /\ m.prevIndex + FirstNew(lg, m) - 1 <= Len(lg)
           /\ \A k \in 1..(FirstNew(lg, m) - 1) :
                 getEntryTerm(lg, m.prevIndex + k) = m.entries[k].term
<1> DEFINE N == NewEntries(lg, m)
           f == FirstNew(lg, m)
<1>1. /\ m.prevIndex \in Nat /\ m.entries \in Seq(Entry)
      /\ Len(m.entries) \in Nat /\ Len(lg) \in Nat /\ m.prevIndex <= Len(lg)
  BY LenProperties DEF AppendEntriesMsg, PrevMatches
<1>2. N \subseteq Nat /\ N \subseteq 1..Len(m.entries)
  BY <1>1 DEF NewEntries
<1>3. f \in N /\ \A k \in N : f <= k
  BY <1>2, MinOfNats DEF FirstNew
<1>4. f \in 1..Len(m.entries)
  BY <1>2, <1>3
<1>5. \A k \in 1..(f - 1) : k \in 1..Len(m.entries) /\ k \notin N
  BY <1>1, <1>3, <1>4
<1>6. \A k \in 1..(f - 1) : getEntryTerm(lg, m.prevIndex + k) = m.entries[k].term
  BY <1>5 DEF NewEntries
<1>7. m.prevIndex + f - 1 <= Len(lg)
  <2>1. CASE f = 1
    BY <1>1, <2>1
  <2>2. CASE f # 1
    <3> DEFINE k == f - 1
    <3>1. k \in 1..(f - 1) /\ k \in 1..Len(m.entries)
      BY <1>1, <1>4, <2>2
    <3>2. m.entries[k] \in Entry
      BY <1>1, <3>1, ElementOfSeq
    <3>3. getEntryTerm(lg, m.prevIndex + k) # 0
      BY <1>6, <3>1, <3>2 DEF Entry
    <3>4. m.prevIndex + k \in 1..Len(lg)
      BY <3>3, getEntryTermType
    <3> QED
      BY <1>1, <1>4, <3>4
  <2> QED
    BY <2>1, <2>2
<1> QED
  BY <1>4, <1>6, <1>7

\* The log that processAppendEntries builds is a log.
LEMMA AppendedLogType ==
    ASSUME NEW lg \in Seq(Entry), NEW m \in AppendEntriesMsg, PrevMatches(lg, m)
    PROVE  AppendedLog(lg, m) \in Seq(Entry)
<1>1. CASE NewEntries(lg, m) = {}
  BY <1>1 DEF AppendedLog
<1>2. CASE NewEntries(lg, m) # {}
  <2> DEFINE f == FirstNew(lg, m)
  <2>1. /\ f \in 1..Len(m.entries)
        /\ m.prevIndex + f - 1 <= Len(lg)
    BY <1>2, FirstNewBounds
  <2>2. m.prevIndex \in Nat /\ m.entries \in Seq(Entry)
    BY DEF AppendEntriesMsg
  <2>3. Len(m.entries) \in Nat /\ Len(lg) \in Nat
    BY <2>2, LenProperties
  <2> HIDE DEF f
  <2>4. m.prevIndex + f - 1 \in Int
    BY <2>1, <2>2, <2>3
  <2>5. SubSeq(lg, 1, m.prevIndex + f - 1) \in Seq(Entry)
    BY <2>1, <2>4, SubSeqType
  <2>6. SubSeq(m.entries, f, Len(m.entries)) \in Seq(Entry)
    BY <2>1, <2>2, <2>3, SubSeqType
  <2> QED
    BY <1>2, <2>5, <2>6, ConcatProperties DEF AppendedLog, f
<1> QED
  BY <1>1, <1>2

\* The commit index the leader arrives at is its old one or an index of its log.
LEMMA CommitToType ==
    ASSUME TypeOK, NEW i \in Server, NEW mi
    PROVE  /\ CommitTo(i, mi) \in Nat
           /\ CommitTo(i, mi) >= commitIndex[i]
           /\ CommitTo(i, mi) > commitIndex[i] => CommitTo(i, mi) <= Len(log[i])
<1> DEFINE c == commitIndex[i]
           n == Len(log[i])
           S == {c} \cup {k \in (c + 1)..n :
                            /\ getEntryTerm(log[i], k) = currentTerm[i]
                            /\ checkCommitMajority(i, mi, k)}
<1>1. c \in Nat /\ n \in Nat
  BY LenProperties DEF TypeOK
<1>2. /\ S \subseteq Nat /\ S # {} /\ \A k \in S : k <= c + n
      /\ c \in S /\ \A k \in S : k > c => k <= n
  BY <1>1
<1>3. CommitTo(i, mi) = Max(S)
  BY DEF CommitTo
<1> HIDE DEF S, c, n
<1>4. c + n \in Nat
  BY <1>1
<1>5. Max(S) \in S /\ \A k \in S : Max(S) >= k
  BY <1>2, <1>4, MaxOfNats
<1>6. Max(S) \in Nat /\ Max(S) >= c /\ (Max(S) > c => Max(S) <= n)
  BY <1>1, <1>2, <1>5
<1> QED
  BY <1>3, <1>6 DEF c, n

-----------------------------------------------------------------------------
(***************************************************************************)
(* The helpers that several handlers share keep the types of what they     *)
(* assign.                                                                 *)
(***************************************************************************)
LEMMA AnswerType ==
    ASSUME TypeOK, NEW ok, NEW failed, Answer(ok, failed)
    PROVE  replies' \in [Command -> {"none", "pending", "success", "failure"}]
  BY DEF TypeOK, Answer

LEMMA CancelProposalsType ==
    ASSUME TypeOK, NEW i \in Server, CancelProposals(i)
    PROVE  /\ proposals' \in [Server -> SUBSET Proposal]
           /\ replies' \in [Command -> {"none", "pending", "success", "failure"}]
  BY AnswerType DEF TypeOK, CancelProposals

LEMMA applyLogsType ==
    ASSUME TypeOK, NEW i \in Server, NEW lg \in Seq(Entry), NEW n \in Nat,
           n <= Len(lg), NEW props \in SUBSET Proposal, applyLogs(i, lg, n, props)
    PROVE  /\ commitIndex' \in [Server -> Nat]
           /\ applied' \in [Server -> Seq(Entry)]
           /\ proposals' \in [Server -> SUBSET Proposal]
           /\ replies' \in [Command -> {"none", "pending", "success", "failure"}]
<1>1. commitIndex' \in [Server -> Nat]
  BY DEF TypeOK, applyLogs
<1>2. applied' \in [Server -> Seq(Entry)]
  <2>1. applied[i] \in Seq(Entry) /\ Len(applied[i]) \in Nat
    BY LenProperties DEF TypeOK
  <2>2. SubSeq(lg, Len(applied[i]) + 1, n) \in Seq(Entry)
    BY <2>1, SubSeqType
  <2>3. applied[i] \o SubSeq(lg, Len(applied[i]) + 1, n) \in Seq(Entry)
    BY <2>1, <2>2, ConcatProperties
  <2> QED
    BY <2>3 DEF TypeOK, applyLogs
<1>3. proposals' \in [Server -> SUBSET Proposal]
  BY DEF TypeOK, applyLogs
<1>4. replies' \in [Command -> {"none", "pending", "success", "failure"}]
  BY AnswerType DEF applyLogs
<1> QED
  BY <1>1, <1>2, <1>3, <1>4

LEMMA RecordBallotType ==
    ASSUME TypeOK, NEW i \in Server, NEW t \in Nat, NEW c \in Server,
           RecordBallot(i, t, c)
    PROVE  ballots' \subseteq Ballot
<1>1. [voter |-> i, term |-> t, cand |-> c] \in Ballot
  BY DEF Ballot
<1> QED
  BY <1>1 DEF TypeOK, RecordBallot

LEMMA transitionToLeaderType ==
    ASSUME TypeOK, NEW i \in Server, NEW t \in Nat, t >= 1,
           NEW V \in SUBSET Server, transitionToLeader(i, t, V)
    PROVE  /\ state' \in [Server -> {"Follower", "Candidate", "Leader"}]
           /\ log' \in [Server -> Seq(Entry)]
           /\ nextIndex' \in [Server -> [Server -> Nat]]
           /\ matchIndex' \in [Server -> [Server -> Nat]]
           /\ elections' \subseteq Election
           /\ \A k, j \in Server : state'[k] = "Leader" /\ j # k
                                       => nextIndex'[k][j] >= 1
<1>1. Len(log[i]) \in Nat /\ log[i] \in Seq(Entry)
  BY LenProperties DEF TypeOK
<1>2. [term |-> t, cmd |-> Noop] \in Entry
  BY DEF Entry
<1>3. log' \in [Server -> Seq(Entry)]
  <2>1. Append(log[i], [term |-> t, cmd |-> Noop]) \in Seq(Entry)
    BY <1>1, <1>2, AppendProperties
  <2> QED
    BY <2>1 DEF TypeOK, transitionToLeader
<1>4. nextIndex' \in [Server -> [Server -> Nat]]
  BY <1>1 DEF TypeOK, transitionToLeader
<1>5. matchIndex' \in [Server -> [Server -> Nat]]
  BY DEF TypeOK, transitionToLeader
<1>6. elections' \subseteq Election
  BY DEF TypeOK, transitionToLeader, Election
<1>7. state' \in [Server -> {"Follower", "Candidate", "Leader"}]
  BY DEF TypeOK, transitionToLeader
<1>8. ASSUME NEW k \in Server, NEW j \in Server, state'[k] = "Leader", j # k
      PROVE  nextIndex'[k][j] >= 1
  <2>1. CASE k = i
    <3>1. j \in effectivePeers(i)
      BY <1>8, <2>1, Peers
    <3>2. nextIndex'[k][j] = Len(log[i]) + 1
      BY <2>1, <3>1 DEF TypeOK, transitionToLeader
    <3> QED
      BY <1>1, <3>2
  <2>2. CASE k # i
    <3>1. state[k] = "Leader" /\ nextIndex'[k] = nextIndex[k]
      BY <1>8, <2>2 DEF TypeOK, transitionToLeader
    <3> QED
      BY <1>8, <3>1 DEF TypeOK, IndexOK
  <2> QED
    BY <2>1, <2>2
<1> QED
  BY <1>3, <1>4, <1>5, <1>6, <1>7, <1>8

-----------------------------------------------------------------------------
(***************************************************************************)
(* One lemma per group of handlers: each keeps TypeOK.                     *)
(***************************************************************************)
LEMMA ElectionTypeOK ==
    ASSUME TypeOK,
           \/ \E i \in Server : ElectionTimeout(i)
           \/ \E m \in msgs : HandlePreVote(m)
           \/ \E m \in msgs : HandlePreVoteReply(m)
           \/ \E m \in msgs : HandleRequestVote(m)
           \/ \E m \in msgs : HandleVoteReply(m)
    PROVE  TypeOK'
<1> USE DEF nodeVars, voteVars, logVars, leaderVars, clientVars, history
<1>0. /\ \A i \in Server : Len(log[i]) \in Nat /\ lastLogTerm(log[i]) \in Nat
      /\ \A i \in Server : currentTerm[i] \in Nat /\ incarnation[i] \in Nat
      /\ msgs \subseteq Message
  BY LenProperties, getEntryTermType DEF TypeOK, lastLogTerm
<1>1. CASE \E i \in Server : ElectionTimeout(i)
  <2> PICK i \in Server : ElectionTimeout(i)
    BY <1>1
  <2>1. ASSUME NEW m \in msgs', m \notin msgs
        PROVE  m \in PreVoteMsg /\ m.type = "PreVote"
    BY <2>1, <1>0, Peers DEF ElectionTimeout, PreVoteMsg
  <2>2. msgs' \subseteq Message
    BY <2>1, <1>0 DEF Message
  <2> QED
    BY <2>1, <2>2 DEF ElectionTimeout, TypeOK, IndexOK
<1>3. CASE \E m \in msgs : HandlePreVote(m)
  <2> PICK m \in msgs : HandlePreVote(m)
    BY <1>3
  <2>1. m \in PreVoteMsg
    BY <1>0, MessageKinds DEF HandlePreVote
  <2>2. [type |-> "PreVoteReply", from |-> m.to, to |-> m.from, inc |-> m.inc]
           \in PreVoteReplyMsg
    BY <2>1 DEF PreVoteMsg, PreVoteReplyMsg
  <2>3. msgs' \subseteq Message /\ \A n \in msgs' \ msgs : n.type = "PreVoteReply"
    BY <2>2, <1>0 DEF Message, HandlePreVote
  <2> QED
    BY <2>3 DEF HandlePreVote, TypeOK, IndexOK
<1>4. CASE \E m \in msgs : HandlePreVoteReply(m)
  <2> PICK m \in msgs : HandlePreVoteReply(m)
    BY <1>4
  <2> DEFINE i == m.to
             t == currentTerm[i] + 1
  <2>1. m \in PreVoteReplyMsg /\ i \in Server /\ m.from \in Server
    BY <1>0, MessageKinds DEF HandlePreVoteReply
  <2>2. preVoteVotesReceived' \in [Server -> SUBSET Server]
    <3>1. preVoteVotesReceived' = [preVoteVotesReceived EXCEPT
                                      ![i] = preVoteVotesReceived[i] \cup {m.from}]
      BY DEF HandlePreVoteReply
    <3> QED
      BY <2>1, <3>1 DEF TypeOK
  <2>3. CASE UNCHANGED <<nodeVars, votesReceived, msgs, ballots>>
    BY <2>2, <2>3 DEF HandlePreVoteReply, TypeOK, IndexOK
  <2>4. CASE /\ state' = [state EXCEPT ![i] = "Candidate"]
             /\ transitionToCandidate(i)
             /\ RequestVotes(i, t)
    <3>1. t \in Nat /\ t >= 1
      BY <2>1, <1>0
    <3>2. ballots' \subseteq Ballot
      BY <2>1, <2>4, <3>1, RecordBallotType DEF transitionToCandidate
    <3>3. /\ currentTerm' \in [Server -> Nat]
          /\ votedFor' \in [Server -> Server \cup {Nil}]
          /\ wal' \in [Server -> [term : Nat, votedFor : Server \cup {Nil}]]
          /\ votesReceived' \in [Server -> SUBSET Server]
          /\ state' \in [Server -> {"Follower", "Candidate", "Leader"}]
      BY <2>1, <2>4, <3>1 DEF transitionToCandidate, AppendState, TypeOK
    <3>4. ASSUME NEW n \in msgs', n \notin msgs
          PROVE  n \in RequestVoteMsg /\ n.type = "RequestVote"
      BY <2>1, <2>4, <3>1, <3>4, <1>0, Peers DEF RequestVotes, RequestVoteMsg
    <3>5. msgs' \subseteq Message
      BY <3>4, <1>0 DEF Message
    <3>6. /\ \A k \in Server : state'[k] # "Follower" => currentTerm'[k] >= 1
          /\ \A k \in Server : state'[k] = "Leader" => state[k] = "Leader"
      BY <2>1, <2>4, <3>1 DEF transitionToCandidate, TypeOK, IndexOK
    <3> QED
      BY <2>2, <3>2, <3>3, <3>4, <3>5, <3>6 DEF HandlePreVoteReply, TypeOK, IndexOK
  <2> QED
    BY <2>3, <2>4 DEF HandlePreVoteReply
<1>5. CASE \E m \in msgs : HandleRequestVote(m)
  <2> PICK m \in msgs : HandleRequestVote(m)
    BY <1>5
  <2> DEFINE i == m.to
  <2>1. /\ m \in RequestVoteMsg /\ i \in Server /\ m.from \in Server
        /\ m.term \in Nat /\ m.inc \in Nat
    BY <1>0, MessageKinds DEF HandleRequestVote, RequestVoteMsg
  <2>2. ASSUME NEW term \in Nat, NEW granted \in BOOLEAN, VoteReply(m, term, granted)
        PROVE  msgs' \subseteq Message /\ \A n \in msgs' \ msgs : n.type = "VoteReply"
    <3>1. [type |-> "VoteReply", from |-> m.to, to |-> m.from, inc |-> m.inc,
           term |-> term, granted |-> granted] \in VoteReplyMsg
      BY <2>1 DEF VoteReplyMsg
    <3> QED
      BY <2>2, <3>1, <1>0 DEF VoteReply, Message
  <2>3. msgs' \subseteq Message /\ \A n \in msgs' \ msgs : n.type = "VoteReply"
    BY <2>1, <2>2, <1>0 DEF HandleRequestVote
  <2>4. /\ proposals' \in [Server -> SUBSET Proposal]
        /\ replies' \in [Command -> {"none", "pending", "success", "failure"}]
    <3>1. CancelProposals(i) \/ UNCHANGED clientVars
      BY DEF HandleRequestVote
    <3> QED
      BY <2>1, <3>1, CancelProposalsType DEF TypeOK
  <2>5. ballots' \subseteq Ballot
    <3>1. RecordBallot(i, m.term, m.from) \/ UNCHANGED ballots
      BY DEF HandleRequestVote
    <3> QED
      BY <2>1, <3>1, RecordBallotType DEF TypeOK
  <2>6. /\ currentTerm' \in [Server -> Nat]
        /\ votedFor' \in [Server -> Server \cup {Nil}]
        /\ wal' \in [Server -> [term : Nat, votedFor : Server \cup {Nil}]]
        /\ state' \in [Server -> {"Follower", "Candidate", "Leader"}]
        /\ \A k \in Server :
              /\ state'[k] # "Follower" => currentTerm'[k] >= 1
              /\ state'[k] = "Leader" => state[k] = "Leader"
    <3>1. CASE UNCHANGED nodeVars
      BY <3>1 DEF TypeOK, IndexOK
    <3>2. CASE ~UNCHANGED nodeVars
      <4>1. /\ m.term >= currentTerm[i]
            /\ currentTerm' = [currentTerm EXCEPT ![i] = m.term]
            /\ \E s \in {"Follower", state[i]} : state' = [state EXCEPT ![i] = s]
        BY <2>1, <3>2 DEF HandleRequestVote, AppendState, TypeOK
      <4>2. \E v \in {Nil, votedFor[i], m.from} :
               votedFor' = [votedFor EXCEPT ![i] = v]
        BY <3>2 DEF HandleRequestVote
      <4>3. \E w \in {wal[i], [term |-> m.term, votedFor |-> m.from]} :
               wal' = [wal EXCEPT ![i] = w]
        BY <2>1, <3>2 DEF HandleRequestVote, AppendState, TypeOK
      <4>4. /\ currentTerm' \in [Server -> Nat]
            /\ state' \in [Server -> {"Follower", "Candidate", "Leader"}]
        <5>1. currentTerm' \in [Server -> Nat]
          BY <2>1, <4>1 DEF TypeOK
        <5>2. state' \in [Server -> {"Follower", "Candidate", "Leader"}]
          <6> PICK s \in {"Follower", state[i]} : state' = [state EXCEPT ![i] = s]
            BY <4>1
          <6> QED
            BY <2>1 DEF TypeOK
        <5> QED
          BY <5>1, <5>2
      <4>5. votedFor' \in [Server -> Server \cup {Nil}]
        BY <2>1, <4>2 DEF TypeOK
      <4>6. wal' \in [Server -> [term : Nat, votedFor : Server \cup {Nil}]]
        <5> PICK w \in {wal[i], [term |-> m.term, votedFor |-> m.from]} :
                    wal' = [wal EXCEPT ![i] = w]
          BY <4>3
        <5>1. wal[i] \in [term : Nat, votedFor : Server \cup {Nil}]
          BY <2>1 DEF TypeOK
        <5>2. [term |-> m.term, votedFor |-> m.from]
                 \in [term : Nat, votedFor : Server \cup {Nil}]
          BY <2>1
        <5>3. w \in [term : Nat, votedFor : Server \cup {Nil}]
          BY <5>1, <5>2
        <5> QED
          BY <5>3 DEF TypeOK
      <4>7. ASSUME NEW k \in Server
            PROVE  /\ state'[k] # "Follower" => currentTerm'[k] >= 1
                   /\ state'[k] = "Leader" => state[k] = "Leader"
        <5>1. CASE k = i
          BY <2>1, <1>0, <4>1, <5>1 DEF TypeOK, IndexOK
        <5>2. CASE k # i
          BY <2>1, <4>1, <5>2 DEF TypeOK, IndexOK
        <5> QED
          BY <5>1, <5>2
      <4> QED
        BY <4>4, <4>5, <4>6, <4>7
    <3> QED
      BY <3>1, <3>2
  <2> QED
    BY <2>3, <2>4, <2>5, <2>6 DEF HandleRequestVote, TypeOK, IndexOK
<1>6. CASE \E m \in msgs : HandleVoteReply(m)
  <2> PICK m \in msgs : HandleVoteReply(m)
    BY <1>6
  <2> DEFINE i == m.to
             votes == votesReceived[i] \cup {m.from}
  <2>1. /\ m \in VoteReplyMsg /\ i \in Server /\ m.from \in Server
        /\ m.term \in Nat
    BY <1>0, MessageKinds DEF HandleVoteReply, VoteReplyMsg
  <2>2. CASE m.term > currentTerm[i]
    <3>1. transitionToFollower(i, m.term) /\ UNCHANGED <<votesReceived, log, leaderVars, elections>>
      BY <2>1, <2>2, <1>0 DEF HandleVoteReply
    <3>2. /\ proposals' \in [Server -> SUBSET Proposal]
          /\ replies' \in [Command -> {"none", "pending", "success", "failure"}]
      BY <2>1, <3>1, CancelProposalsType DEF transitionToFollower
    <3>3. /\ state' = [state EXCEPT ![i] = "Follower"]
          /\ currentTerm' = [currentTerm EXCEPT ![i] = m.term]
          /\ votedFor' = [votedFor EXCEPT ![i] = Nil]
      BY <3>1 DEF transitionToFollower
    <3>4. /\ state' \in [Server -> {"Follower", "Candidate", "Leader"}]
          /\ currentTerm' \in [Server -> Nat]
          /\ votedFor' \in [Server -> Server \cup {Nil}]
      BY <2>1, <3>3 DEF TypeOK
    <3>5. ASSUME NEW k \in Server
          PROVE  /\ state'[k] # "Follower" => currentTerm'[k] >= 1
                 /\ state'[k] = "Leader" => state[k] = "Leader"
      BY <2>1, <3>3 DEF TypeOK, IndexOK
    <3> QED
      BY <3>1, <3>2, <3>4, <3>5 DEF HandleVoteReply, TypeOK, IndexOK
  <2>3. CASE ~(m.term > currentTerm[i])
    <3>1. /\ m.term = currentTerm[i] /\ state[i] = "Candidate"
          /\ votesReceived' = [votesReceived EXCEPT ![i] = votes]
          /\ \/ transitionToLeader(i, m.term, votes)
             \/ UNCHANGED <<state, log, leaderVars, elections>>
          /\ UNCHANGED <<currentTerm, votedFor, clientVars>>
      BY <2>1, <2>3, <1>0 DEF HandleVoteReply
    <3>2. m.term >= 1 /\ votes \in SUBSET Server
      BY <2>1, <3>1 DEF TypeOK, IndexOK
    <3>3. votesReceived' \in [Server -> SUBSET Server]
      BY <2>1, <3>1, <3>2 DEF TypeOK
    <3>4. CASE UNCHANGED <<state, log, leaderVars, elections>>
      BY <3>1, <3>3, <3>4 DEF HandleVoteReply, TypeOK, IndexOK
    <3>5. CASE transitionToLeader(i, m.term, votes)
      <4>1. /\ log' \in [Server -> Seq(Entry)]
            /\ state' \in [Server -> {"Follower", "Candidate", "Leader"}]
            /\ nextIndex' \in [Server -> [Server -> Nat]]
            /\ matchIndex' \in [Server -> [Server -> Nat]]
            /\ elections' \subseteq Election
            /\ \A k, j \in Server : state'[k] = "Leader" /\ j # k
                                        => nextIndex'[k][j] >= 1
        BY <2>1, <3>2, <3>5, transitionToLeaderType
      <4>2. \A k \in Server : state'[k] # "Follower" => currentTerm'[k] >= 1
        BY <2>1, <3>1, <3>2, <3>5 DEF transitionToLeader, TypeOK, IndexOK
      <4> QED
        BY <3>1, <3>3, <4>1, <4>2 DEF HandleVoteReply, TypeOK, IndexOK
    <3> QED
      BY <3>1, <3>4, <3>5
  <2> QED
    BY <2>2, <2>3
<1> QED
  BY <1>1, <1>3, <1>4, <1>5, <1>6

LEMMA ReplicationTypeOK ==
    ASSUME TypeOK,
           \/ \E i, j \in Server : ReplicateToPeer(i, j)
           \/ \E m \in msgs : HandleAppendEntries(m)
           \/ \E m \in msgs : HandleAppendReply(m)
    PROVE  TypeOK'
<1> USE DEF nodeVars, voteVars, logVars, leaderVars, clientVars, history
<1>0. /\ \A i \in Server : /\ log[i] \in Seq(Entry) /\ Len(log[i]) \in Nat
                             /\ currentTerm[i] \in Nat /\ commitIndex[i] \in Nat
                             /\ incarnation[i] \in Nat
      /\ msgs \subseteq Message
  BY LenProperties DEF TypeOK
<1>1. CASE \E i, j \in Server : ReplicateToPeer(i, j)
  <2> PICK i \in Server, j \in Server : ReplicateToPeer(i, j)
    BY <1>1
  <2> DEFINE prev == nextIndex[i][j] - 1
             new == [type |-> "AppendEntries", from |-> i, to |-> j,
                     inc |-> incarnation[i], term |-> currentTerm[i],
                     prevIndex |-> prev, prevTerm |-> getEntryTerm(log[i], prev),
                     entries |-> SubSeq(log[i], prev + 1, Len(log[i])),
                     leaderCommit |-> commitIndex[i]]
  <2>1. prev \in Nat
    <3>1. state[i] = "Leader" /\ j # i
      BY Peers DEF ReplicateToPeer
    <3>2. nextIndex[i][j] \in Nat /\ nextIndex[i][j] >= 1
      BY <3>1 DEF TypeOK, IndexOK
    <3> QED
      BY <3>2
  <2>2. getEntryTerm(log[i], prev) \in Nat
    BY <1>0, getEntryTermType
  <2>3. prev = 0 => getEntryTerm(log[i], prev) = 0
    BY <1>0 DEF getEntryTerm
  <2>4. SubSeq(log[i], prev + 1, Len(log[i])) \in Seq(Entry)
    <3> HIDE DEF prev
    <3> QED
      BY <1>0, <2>1, SubSeqType
  <2>5. msgs' = msgs \cup {new}
    BY DEF ReplicateToPeer
  <2>6. new \in AppendEntriesMsg
    <3> HIDE DEF prev
    <3> QED
      BY <1>0, <2>1, <2>2, <2>4 DEF AppendEntriesMsg
  <2>7. new.prevIndex = prev /\ new.prevTerm = getEntryTerm(log[i], prev)
    OBVIOUS
  <2> HIDE DEF new, prev
  <2>8. msgs' \subseteq Message
    BY <1>0, <2>5, <2>6 DEF Message
  <2>9. IndexOK'
    BY <2>3, <2>5, <2>7 DEF ReplicateToPeer, TypeOK, IndexOK
  <2> QED
    BY <2>8, <2>9 DEF ReplicateToPeer, TypeOK
<1>2. CASE \E m \in msgs : HandleAppendEntries(m)
  <2> PICK m \in msgs : HandleAppendEntries(m)
    BY <1>2
  <2> DEFINE i == m.to
             lg == AppendedLog(log[i], m)
             stepDown == StepsDown(m, i)
             props == IF stepDown THEN {} ELSE proposals[i]
             commit == IF m.leaderCommit > commitIndex[i]
                       THEN Min({m.leaderCommit, Len(lg)}) ELSE commitIndex[i]
             hint == IF m.prevIndex > Len(log[i]) THEN Len(log[i]) ELSE m.prevIndex - 1
  <2>1. m \in AppendEntriesMsg
    BY <1>0, MessageKinds DEF HandleAppendEntries
  <2>2. /\ i \in Server /\ m.from \in Server /\ m.term \in Nat /\ m.inc \in Nat
        /\ m.leaderCommit \in Nat /\ m.prevIndex \in Nat
    BY <2>1 DEF AppendEntriesMsg
  <2>3. ASSUME NEW term \in Nat, NEW success \in BOOLEAN, NEW match \in Nat,
               AppendReply(m, term, success, match)
        PROVE  msgs' \subseteq Message /\ \A n \in msgs' \ msgs : n.type = "AppendReply"
    <3>1. [type |-> "AppendReply", from |-> m.to, to |-> m.from, inc |-> m.inc,
           term |-> term, success |-> success, match |-> match] \in AppendReplyMsg
      BY <2>2 DEF AppendReplyMsg
    <3> QED
      BY <2>3, <3>1, <1>0 DEF AppendReply, Message
  <2>4. CASE /\ AppendReply(m, currentTerm[i], FALSE, 0)
             /\ UNCHANGED <<nodeVars, logVars, clientVars>>
    <3>1. msgs' \subseteq Message /\ \A n \in msgs' \ msgs : n.type = "AppendReply"
      BY <1>0, <2>2, <2>3, <2>4
    <3> QED
      BY <2>4, <3>1 DEF HandleAppendEntries, TypeOK, IndexOK
  <2>5. CASE m.term >= currentTerm[i] /\ UNCHANGED wal
             /\ ~(AppendReply(m, currentTerm[i], FALSE, 0)
                    /\ UNCHANGED <<nodeVars, logVars, clientVars>>)
    <3>1. /\ state' = [state EXCEPT ![i] = IF stepDown THEN "Follower" ELSE @]
          /\ currentTerm' = [currentTerm EXCEPT ![i] = m.term]
          /\ votedFor' = [votedFor EXCEPT ![i] = m.from]
      BY <2>5 DEF HandleAppendEntries
    <3>2. /\ state' \in [Server -> {"Follower", "Candidate", "Leader"}]
          /\ currentTerm' \in [Server -> Nat]
          /\ votedFor' \in [Server -> Server \cup {Nil}]
      BY <2>2, <3>1 DEF TypeOK
    <3>3. ASSUME NEW k \in Server
          PROVE  /\ state'[k] # "Follower" => currentTerm'[k] >= 1
                 /\ state'[k] = "Leader" => state[k] = "Leader"
      <4>1. CASE k = i
        <5>1. currentTerm'[i] = m.term /\ state'[i] \in {"Follower", state[i]}
          BY <2>2, <3>1 DEF TypeOK
        <5>2. state[i] # "Follower" => m.term >= 1
          <6>1. state[i] # "Follower" => currentTerm[i] >= 1
            BY <2>2 DEF TypeOK, IndexOK
          <6>2. m.term >= currentTerm[i]
            BY <2>5
          <6> QED
            BY <1>0, <2>2, <6>1, <6>2
        <5> QED
          BY <4>1, <5>1, <5>2
      <4>2. CASE k # i
        BY <2>2, <3>1, <4>2 DEF TypeOK, IndexOK
      <4> QED
        BY <4>1, <4>2
    <3>4. CASE ~PrevMatches(log[i], m)
      <4>1. /\ AppendReply(m, m.term, FALSE, hint)
            /\ CancelProposals(i) \/ UNCHANGED clientVars
            /\ UNCHANGED logVars
        BY <2>5, <3>4 DEF HandleAppendEntries
      <4>2. hint \in Nat
        <5>1. CASE m.prevIndex = 0
          <6>1. m.prevTerm = 0
            BY <5>1 DEF HandleAppendEntries, TypeOK, IndexOK
          <6>2. getEntryTerm(log[i], 0) = 0
            BY <1>0, <2>2 DEF getEntryTerm
          <6> QED
            BY <1>0, <2>2, <3>4, <5>1, <6>1, <6>2 DEF PrevMatches
        <5>2. CASE m.prevIndex # 0
          BY <1>0, <2>2, <5>2
        <5> QED
          BY <5>1, <5>2
      <4>3. msgs' \subseteq Message /\ \A n \in msgs' \ msgs : n.type = "AppendReply"
        <5> HIDE DEF hint
        <5> QED
          BY <2>2, <2>3, <4>1, <4>2
      <4>4. /\ proposals' \in [Server -> SUBSET Proposal]
            /\ replies' \in [Command -> {"none", "pending", "success", "failure"}]
        BY <2>2, <4>1, CancelProposalsType DEF TypeOK
      <4> QED
        BY <2>5, <3>2, <3>3, <4>1, <4>3, <4>4 DEF HandleAppendEntries, TypeOK, IndexOK
    <3>5. CASE PrevMatches(log[i], m)
      <4>1. /\ log' = [log EXCEPT ![i] = lg]
            /\ AppendReply(m, m.term, TRUE, Len(lg))
            /\ \/ m.leaderCommit > commitIndex[i] /\ applyLogs(i, lg, commit, props)
               \/ /\ CancelProposals(i) \/ UNCHANGED clientVars
                  /\ UNCHANGED <<commitIndex, applied>>
        BY <2>5, <3>5 DEF HandleAppendEntries
      <4>2. lg \in Seq(Entry)
        BY <1>0, <2>1, <2>2, <3>5, AppendedLogType
      <4>3. Len(lg) \in Nat
        BY <4>2, LenProperties
      <4> HIDE DEF lg
      <4>4. msgs' \subseteq Message /\ \A n \in msgs' \ msgs : n.type = "AppendReply"
        BY <2>2, <2>3, <4>1, <4>3
      <4>5. log' \in [Server -> Seq(Entry)]
        BY <2>2, <4>1, <4>2 DEF TypeOK
      <4>6. /\ commitIndex' \in [Server -> Nat]
            /\ applied' \in [Server -> Seq(Entry)]
            /\ proposals' \in [Server -> SUBSET Proposal]
            /\ replies' \in [Command -> {"none", "pending", "success", "failure"}]
        <5>1. CASE m.leaderCommit > commitIndex[i] /\ applyLogs(i, lg, commit, props)
          <6>1. commit \in {m.leaderCommit, Len(lg)} /\ commit <= Len(lg)
            BY <2>2, <4>3, <5>1, MinOfNats
          <6>2. commit \in Nat
            BY <2>2, <4>3, <6>1
          <6>3. props \in SUBSET Proposal
            BY <2>2 DEF TypeOK
          <6> HIDE DEF props, commit
          <6> QED
            BY <2>2, <4>2, <5>1, <6>1, <6>2, <6>3, applyLogsType
        <5>2. CASE /\ CancelProposals(i) \/ UNCHANGED clientVars
                   /\ UNCHANGED <<commitIndex, applied>>
          BY <2>2, <5>2, CancelProposalsType DEF TypeOK
        <5> QED
          BY <4>1, <5>1, <5>2
      <4> QED
        BY <2>5, <3>2, <3>3, <4>4, <4>5, <4>6 DEF HandleAppendEntries, TypeOK, IndexOK
    <3> QED
      BY <3>4, <3>5
  <2> QED
    BY <2>4, <2>5 DEF HandleAppendEntries
<1>3. CASE \E m \in msgs : HandleAppendReply(m)
  <2> PICK m \in msgs : HandleAppendReply(m)
    BY <1>3
  <2> DEFINE i == m.to
             mi == [matchIndex[i] EXCEPT ![m.from] = m.match]
  <2>1. m \in AppendReplyMsg
    BY <1>0, MessageKinds DEF HandleAppendReply
  <2>2. /\ i \in Server /\ m.from \in Server /\ m.term \in Nat /\ m.match \in Nat
    BY <2>1 DEF AppendReplyMsg
  <2>3. CASE m.term > currentTerm[i]
    <3>1. transitionToFollower(i, m.term) /\ UNCHANGED <<logVars, leaderVars>>
      BY <1>0, <2>2, <2>3 DEF HandleAppendReply
    <3>2. /\ proposals' \in [Server -> SUBSET Proposal]
          /\ replies' \in [Command -> {"none", "pending", "success", "failure"}]
      BY <2>2, <3>1, CancelProposalsType DEF transitionToFollower
    <3>3. /\ state' = [state EXCEPT ![i] = "Follower"]
          /\ currentTerm' = [currentTerm EXCEPT ![i] = m.term]
          /\ votedFor' = [votedFor EXCEPT ![i] = Nil]
      BY <3>1 DEF transitionToFollower
    <3>4. /\ state' \in [Server -> {"Follower", "Candidate", "Leader"}]
          /\ currentTerm' \in [Server -> Nat]
          /\ votedFor' \in [Server -> Server \cup {Nil}]
      BY <2>2, <3>3 DEF TypeOK
    <3>5. ASSUME NEW k \in Server
          PROVE  /\ state'[k] # "Follower" => currentTerm'[k] >= 1
                 /\ state'[k] = "Leader" => state[k] = "Leader"
      BY <2>2, <3>3 DEF TypeOK, IndexOK
    <3> QED
      BY <3>1, <3>2, <3>4, <3>5 DEF HandleAppendReply, TypeOK, IndexOK
  <2>4. CASE ~(m.term > currentTerm[i])
    <3>1. /\ nextIndex' = [nextIndex EXCEPT ![i][m.from] = m.match + 1]
          /\ \/ matchIndex' = [matchIndex EXCEPT ![i] = mi]
             \/ UNCHANGED matchIndex
          /\ \/ /\ CommitTo(i, mi) > commitIndex[i]
                /\ applyLogs(i, log[i], CommitTo(i, mi), proposals[i])
             \/ UNCHANGED <<commitIndex, applied, clientVars>>
          /\ UNCHANGED <<log, state, currentTerm, votedFor>>
      BY <1>0, <2>2, <2>4 DEF HandleAppendReply
    <3>2. /\ nextIndex' \in [Server -> [Server -> Nat]]
          /\ \A k, j \in Server : nextIndex'[k][j] = nextIndex[k][j]
                                     \/ nextIndex'[k][j] >= 1
      <4> DEFINE ni == [nextIndex[i] EXCEPT ![m.from] = m.match + 1]
      <4>1. nextIndex' = [nextIndex EXCEPT ![i] = ni]
        BY <3>1
      <4>2. /\ ni \in [Server -> Nat]
            /\ \A j \in Server : ni[j] = nextIndex[i][j] \/ ni[j] >= 1
        <5>0. m.match + 1 \in Nat /\ m.match + 1 >= 1
          BY <2>2
        <5>1. nextIndex[i] \in [Server -> Nat]
          BY <2>2 DEF TypeOK
        <5>2. ni \in [Server -> Nat]
          BY <2>2, <5>0, <5>1
        <5>3. ASSUME NEW j \in Server PROVE ni[j] = nextIndex[i][j] \/ ni[j] >= 1
          BY <2>2, <5>0, <5>1
        <5> QED
          BY <5>2, <5>3
      <4> HIDE DEF ni
      <4> QED
        BY <2>2, <4>1, <4>2 DEF TypeOK
    <3>3. matchIndex' \in [Server -> [Server -> Nat]]
      <4>1. mi \in [Server -> Nat]
        BY <2>2 DEF TypeOK
      <4> HIDE DEF mi
      <4> QED
        BY <2>2, <3>1, <4>1 DEF TypeOK
    <3>4. /\ commitIndex' \in [Server -> Nat]
          /\ applied' \in [Server -> Seq(Entry)]
          /\ proposals' \in [Server -> SUBSET Proposal]
          /\ replies' \in [Command -> {"none", "pending", "success", "failure"}]
      <4> HIDE DEF mi
      <4>1. CASE /\ CommitTo(i, mi) > commitIndex[i]
                 /\ applyLogs(i, log[i], CommitTo(i, mi), proposals[i])
        <5>1. CommitTo(i, mi) \in Nat /\ CommitTo(i, mi) <= Len(log[i])
          BY <2>2, <4>1, CommitToType
        <5>2. proposals[i] \in SUBSET Proposal
          BY <2>2 DEF TypeOK
        <5> QED
          BY <1>0, <2>2, <4>1, <5>1, <5>2, applyLogsType
      <4>2. CASE UNCHANGED <<commitIndex, applied, clientVars>>
        BY <4>2 DEF TypeOK
      <4> QED
        BY <3>1, <4>1, <4>2
    <3> QED
      BY <3>1, <3>2, <3>3, <3>4 DEF HandleAppendReply, TypeOK, IndexOK
  <2> QED
    BY <2>3, <2>4
<1> QED
  BY <1>1, <1>2, <1>3

\* loadState gives node i the type of a node that starts with the log lg.
LEMMA loadStateTypeOK ==
    ASSUME TypeOK, NEW i \in Server, NEW lg \in Seq(Entry), loadState(i, lg)
    PROVE  TypeOK'
<1>1. wal[i].term \in Nat /\ wal[i].votedFor \in Server \cup {Nil}
  BY DEF TypeOK
<1>2. /\ state' \in [Server -> {"Follower", "Candidate", "Leader"}]
      /\ currentTerm' \in [Server -> Nat]
      /\ votedFor' \in [Server -> Server \cup {Nil}]
      /\ votesReceived' \in [Server -> SUBSET Server]
      /\ preVoteVotesReceived' \in [Server -> SUBSET Server]
  BY <1>1 DEF loadState, TypeOK
<1>3. /\ log' \in [Server -> Seq(Entry)]
      /\ commitIndex' \in [Server -> Nat]
      /\ incarnation' \in [Server -> Nat]
      /\ proposals' \in [Server -> SUBSET Proposal]
  BY DEF loadState, TypeOK
<1>4. applied' \in [Server -> Seq(Entry)]
  BY EmptySeq DEF loadState, TypeOK
<1>5. /\ nextIndex' \in [Server -> [Server -> Nat]]
      /\ matchIndex' \in [Server -> [Server -> Nat]]
  BY DEF loadState, TypeOK
<1>6. ASSUME NEW k \in Server, state'[k] # "Follower"
      PROVE  /\ state[k] = state'[k] /\ currentTerm'[k] = currentTerm[k]
             /\ nextIndex'[k] = nextIndex[k]
  BY <1>6 DEF loadState, TypeOK
<1>7. IndexOK'
  BY <1>6 DEF loadState, TypeOK, IndexOK
<1> QED
  BY <1>2, <1>3, <1>4, <1>5, <1>7 DEF loadState, TypeOK, history

LEMMA ClientAndRestartTypeOK ==
    ASSUME TypeOK,
           \/ \E i \in Server, c \in Command : RejectCommand(i, c)
           \/ \E i \in Server, c \in Command : ClientCommand(i, c)
           \/ \E i \in Server : Restart(i)
           \/ \E m \in msgs : CrashWhileAppending(m)
    PROVE  TypeOK'
<1> USE DEF nodeVars, voteVars, logVars, leaderVars, clientVars, history
<1>1. CASE \E i \in Server, c \in Command : RejectCommand(i, c)
  BY <1>1 DEF RejectCommand, TypeOK, IndexOK
<1>2. CASE \E i \in Server, c \in Command : ClientCommand(i, c)
  <2> PICK i \in Server, c \in Command : ClientCommand(i, c)
    BY <1>2
  <2> DEFINE e == [term |-> currentTerm[i], cmd |-> c]
             lg == Append(log[i], e)
             p == [index |-> Len(lg), term |-> currentTerm[i], cmd |-> c]
  <2>1. currentTerm[i] \in Nat /\ currentTerm[i] >= 1 /\ log[i] \in Seq(Entry)
    BY DEF ClientCommand, TypeOK, IndexOK
  <2>2. e \in Entry
    BY <2>1 DEF Entry
  <2>3. lg \in Seq(Entry) /\ Len(lg) \in Nat
    <3> HIDE DEF e
    <3> QED
      BY <2>1, <2>2, AppendProperties, LenProperties
  <2>4. /\ log' = [log EXCEPT ![i] = lg]
        /\ proposals' = [proposals EXCEPT ![i] = @ \cup {p}]
        /\ replies' = [replies EXCEPT ![c] = "pending"]
    BY DEF ClientCommand
  <2> HIDE DEF lg
  <2>5. p \in Proposal
    BY <2>1, <2>3 DEF Proposal
  <2> HIDE DEF p
  <2>6. log' \in [Server -> Seq(Entry)]
    BY <2>3, <2>4 DEF TypeOK
  <2>7. proposals' \in [Server -> SUBSET Proposal]
    <3>1. proposals[i] \cup {p} \in SUBSET Proposal
      BY <2>5 DEF TypeOK
    <3> QED
      BY <2>4, <3>1 DEF TypeOK
  <2>8. replies' \in [Command -> {"none", "pending", "success", "failure"}]
    BY <2>4 DEF TypeOK
  <2> QED
    BY <2>6, <2>7, <2>8 DEF ClientCommand, TypeOK, IndexOK
<1>3. CASE \E i \in Server : Restart(i)
  BY <1>3, loadStateTypeOK DEF Restart, TypeOK
<1>4. CASE \E m \in msgs : CrashWhileAppending(m)
  <2> PICK m \in msgs : CrashWhileAppending(m)
    BY <1>4
  <2> DEFINE i == m.to
             k == FirstNew(log[i], m)
  <2>1. m \in AppendEntriesMsg
    BY MessageKinds DEF CrashWhileAppending, TypeOK
  <2>2. /\ i \in Server /\ m.prevIndex \in Nat /\ m.entries \in Seq(Entry)
        /\ Len(m.entries) \in Nat
    BY <2>1, LenProperties DEF AppendEntriesMsg
  <2>3. log[i] \in Seq(Entry) /\ Len(log[i]) \in Nat
    BY <2>2, LenProperties DEF TypeOK
  <2>4. k \in 1..Len(m.entries) /\ m.prevIndex + k - 1 <= Len(log[i])
    BY <2>1, <2>3, FirstNewBounds DEF CrashWhileAppending
  <2>5. PICK n \in 0..(Len(m.entries) - k) :
          loadState(i, SubSeq(log[i], 1, m.prevIndex + k - 1)
                       \o SubSeq(m.entries, k, k + n - 1))
    BY DEF CrashWhileAppending
  <2> HIDE DEF k
  <2>6. m.prevIndex + k - 1 \in Int /\ k + n - 1 \in Int /\ k + n - 1 <= Len(m.entries)
    BY <2>2, <2>4
  <2>7. SubSeq(log[i], 1, m.prevIndex + k - 1) \in Seq(Entry)
    BY <2>3, <2>4, <2>6, SubSeqType
  <2>8. SubSeq(m.entries, k, k + n - 1) \in Seq(Entry)
    BY <2>2, <2>4, <2>6, SubSeqType
  <2>9. SubSeq(log[i], 1, m.prevIndex + k - 1) \o SubSeq(m.entries, k, k + n - 1)
          \in Seq(Entry)
    BY <2>7, <2>8, ConcatProperties
  <2> QED
    BY <2>2, <2>5, <2>9, loadStateTypeOK
<1> QED
  BY <1>1, <1>2, <1>3, <1>4

LEMMA InitTypeOK == Init => TypeOK
<1> SUFFICES ASSUME Init PROVE TypeOK
  OBVIOUS
<1>1. applied \in [Server -> Seq(Entry)] /\ log \in [Server -> Seq(Entry)]
  BY EmptySeq DEF Init
<1> QED
  BY <1>1 DEF Init, TypeOK, IndexOK

LEMMA NextTypeOK == TypeOK /\ [Next]_vars => TypeOK'
<1> SUFFICES ASSUME TypeOK, [Next]_vars PROVE TypeOK'
  OBVIOUS
<1>1. CASE Next
  BY <1>1, ElectionTypeOK, ReplicationTypeOK, ClientAndRestartTypeOK DEF Next
<1>2. CASE UNCHANGED vars
  BY <1>2 DEF TypeOK, IndexOK, vars, nodeVars, voteVars, logVars, leaderVars,
              clientVars, history
<1> QED
  BY <1>1, <1>2

\* Every state the nodes and the network of raft.go get into is well typed; in
\* particular no index that a handler computes or sends is negative and no
\* slice bound is out of range, whatever was delayed, repeated or restarted.
THEOREM TypeCorrect == Spec => []TypeOK
<1>1. Init => TypeOK
  BY InitTypeOK
<1>2. TypeOK /\ [Next]_vars => TypeOK'
  BY NextTypeOK
<1> QED
  BY <1>1, <1>2, PTL DEF Spec
-----------------------------------------------------------------------------
(***************************************************************************)
(* A client is answered once.                                              *)
(***************************************************************************)
\* The client of a pending proposal has not been answered, and no two proposals
\* of the cluster are of one client.
ProposalsPending ==
    \A i \in Server : \A p \in proposals[i] :
        /\ replies[p.cmd] = "pending"
        /\ \A j \in Server : \A q \in proposals[j] : q.cmd = p.cmd => j = i /\ q = p

AnsweredOnceStep ==
    \A c \in Command : replies[c] \in {"success", "failure"} => replies'[c] = replies[c]

\* Node i takes the proposals of done off its list and answers no others.
LEMMA DoneAnswered ==
    ASSUME TypeOK, ProposalsPending, NEW i \in Server, NEW done, done \subseteq proposals[i],
           proposals'[i] \subseteq proposals[i] \ done,
           \A j \in Server \ {i} : proposals'[j] = proposals[j],
           \A c \in Command : (\A p \in done : p.cmd # c) => replies'[c] = replies[c]
    PROVE  ProposalsPending' /\ AnsweredOnceStep
<1>1. \A j \in Server : proposals'[j] \subseteq proposals[j]
  OBVIOUS
<1>2. ASSUME NEW j \in Server, NEW p \in proposals'[j] PROVE replies'[p.cmd] = "pending"
  <2>1. p \in proposals[j] /\ p \notin done
    BY <1>1 DEF ProposalsPending
  <2>2. p.cmd \in Command
    BY <2>1 DEF TypeOK, Proposal
  <2>3. \A q \in done : q.cmd # p.cmd
    BY <2>1 DEF ProposalsPending
  <2> QED
    BY <2>1, <2>2, <2>3 DEF ProposalsPending
<1>3. ProposalsPending'
  BY <1>1, <1>2 DEF ProposalsPending
<1>4. AnsweredOnceStep
  <2> SUFFICES ASSUME NEW c \in Command, replies[c] \in {"success", "failure"}
               PROVE  \A p \in done : p.cmd # c
    BY DEF AnsweredOnceStep
  <2> QED
    BY DEF ProposalsPending
<1> QED
  BY <1>3, <1>4

LEMMA CancelAnswers ==
    ASSUME TypeOK, ProposalsPending, NEW i \in Server, CancelProposals(i)
    PROVE  ProposalsPending' /\ AnsweredOnceStep
<1>1. /\ proposals'[i] = {} /\ \A j \in Server \ {i} : proposals'[j] = proposals[j]
      /\ \A c \in Command : (\A p \in proposals[i] : p.cmd # c) => replies'[c] = replies[c]
  BY DEF CancelProposals, Answer, TypeOK
<1> QED
  BY <1>1, DoneAnswered

LEMMA applyLogsAnswers ==
    ASSUME TypeOK, TypeOK', ProposalsPending, NEW i \in Server, NEW lg, NEW n, NEW props,
           props \subseteq proposals[i], applyLogs(i, lg, n, props)
    PROVE  ProposalsPending' /\ AnsweredOnceStep
<1> DEFINE done == {p \in proposals[i] : p \in props => p.index <= n}
<1>1. /\ proposals'[i] = {p \in props : p.index > n}
      /\ \A j \in Server \ {i} : proposals'[j] = proposals[j]
  BY DEF applyLogs, TypeOK
<1>2. \A c \in Command : (\A p \in done : p.cmd # c) => replies'[c] = replies[c]
  BY DEF applyLogs, Answer
<1>3. proposals'[i] \subseteq proposals[i] \ done
  <2>1. commitIndex \in [Server -> Nat] /\ commitIndex' \in [Server -> Nat]
    BY DEF TypeOK
  <2>2. n \in Nat
    BY <2>1 DEF applyLogs
  <2>3. \A p \in proposals[i] : p.index \in Nat
    BY DEF TypeOK, Proposal
  <2> QED
    BY <1>1, <2>2, <2>3
<1> QED
  BY <1>1, <1>2, <1>3, DoneAnswered

\* What a step does to the proposals and the clients.
LEMMA ClientSteps ==
    ASSUME TypeOK, [Next]_vars
    PROVE  \/ UNCHANGED clientVars
           \/ \E i \in Server : CancelProposals(i)
           \/ \E i \in Server : \E lg, n, props : /\ props \subseteq proposals[i]
                                                  /\ applyLogs(i, lg, n, props)
           \/ \E i \in Server, c \in Command : RejectCommand(i, c) \/ ClientCommand(i, c)
           \/ \E i \in Server : proposals' = [proposals EXCEPT ![i] = {}] /\ replies' = replies
<1> USE DEF clientVars
<1>1. CASE \/ UNCHANGED vars
           \/ \E i \in Server : ElectionTimeout(i)
           \/ \E i, j \in Server : ReplicateToPeer(i, j)
           \/ \E m \in msgs : HandlePreVote(m)
           \/ \E m \in msgs : HandlePreVoteReply(m)
  BY <1>1 DEF vars, ElectionTimeout, ReplicateToPeer, HandlePreVote, HandlePreVoteReply
<1>2. \A m \in msgs : m.to \in Server
  BY MessageKinds DEF TypeOK
<1>3. ASSUME NEW m \in msgs, HandleRequestVote(m)
      PROVE  UNCHANGED clientVars \/ CancelProposals(m.to)
  BY <1>3 DEF HandleRequestVote
<1>4. ASSUME NEW m \in msgs, HandleVoteReply(m)
      PROVE  UNCHANGED clientVars \/ CancelProposals(m.to)
  BY <1>4 DEF HandleVoteReply, transitionToFollower
<1>5. ASSUME NEW m \in msgs, HandleAppendEntries(m)
      PROVE  \/ UNCHANGED clientVars
             \/ CancelProposals(m.to)
             \/ \E lg, n, props : props \subseteq proposals[m.to] /\ applyLogs(m.to, lg, n, props)
  <2>1. \/ UNCHANGED clientVars
        \/ CancelProposals(m.to)
        \/ \E lg, n : applyLogs(m.to, lg, n, {}) \/ applyLogs(m.to, lg, n, proposals[m.to])
    BY <1>5, Zenon DEF HandleAppendEntries
  <2> QED
    BY <2>1, Zenon
<1>6. ASSUME NEW m \in msgs, HandleAppendReply(m)
      PROVE  \/ UNCHANGED clientVars
             \/ CancelProposals(m.to)
             \/ \E lg, n, props : props \subseteq proposals[m.to] /\ applyLogs(m.to, lg, n, props)
  <2>1. \/ UNCHANGED clientVars
        \/ CancelProposals(m.to)
        \/ \E lg, n : applyLogs(m.to, lg, n, proposals[m.to])
    BY <1>6, Zenon DEF HandleAppendReply, transitionToFollower
  <2> QED
    BY <2>1, Zenon
<1>7. ASSUME NEW i \in Server, Restart(i)
      PROVE  proposals' = [proposals EXCEPT ![i] = {}] /\ replies' = replies
  BY <1>7 DEF Restart, loadState
<1>8. ASSUME NEW m \in msgs, CrashWhileAppending(m)
      PROVE  proposals' = [proposals EXCEPT ![m.to] = {}] /\ replies' = replies
  BY <1>8 DEF CrashWhileAppending, loadState
<1> QED
  BY <1>1, <1>2, <1>3, <1>4, <1>5, <1>6, <1>7, <1>8, Zenon DEF Next

LEMMA NextAnswers ==
    ASSUME TypeOK, ProposalsPending, [Next]_vars
    PROVE  ProposalsPending' /\ AnsweredOnceStep
<1>0. TypeOK'
  BY NextTypeOK
<1>1. \A j \in Server : \A p \in proposals[j] : p.cmd \in Command
  BY DEF TypeOK, Proposal
<1>2. CASE UNCHANGED clientVars
  BY <1>2 DEF clientVars, ProposalsPending, AnsweredOnceStep
<1>3. ASSUME NEW i \in Server, NEW c \in Command, RejectCommand(i, c)
      PROVE  ProposalsPending' /\ AnsweredOnceStep
  <2>1. /\ replies[c] = "none" /\ proposals' = proposals
        /\ \A d \in Command \ {c} : replies'[d] = replies[d]
    BY <1>3 DEF RejectCommand, TypeOK
  <2>2. \A j \in Server : \A p \in proposals[j] : p.cmd \in Command /\ p.cmd # c
    BY <1>1, <2>1 DEF ProposalsPending
  <2> QED
    BY <2>1, <2>2 DEF ProposalsPending, AnsweredOnceStep
<1>4. ASSUME NEW i \in Server, NEW c \in Command, ClientCommand(i, c)
      PROVE  ProposalsPending' /\ AnsweredOnceStep
  <2>1. /\ replies[c] = "none" /\ replies'[c] = "pending"
        /\ \A d \in Command \ {c} : replies'[d] = replies[d]
    BY <1>4 DEF ClientCommand, TypeOK
  <2>2. PICK r : /\ r.cmd = c /\ proposals'[i] = proposals[i] \cup {r}
                 /\ \A j \in Server \ {i} : proposals'[j] = proposals[j]
    <3> DEFINE x == [index |-> Len(Append(log[i], [term |-> currentTerm[i], cmd |-> c])),
                     term |-> currentTerm[i], cmd |-> c]
    <3>1. proposals' = [proposals EXCEPT ![i] = @ \cup {x}] /\ x.cmd = c
      BY <1>4 DEF ClientCommand
    <3> HIDE DEF x
    <3> QED
      BY <3>1 DEF TypeOK
  <2>3. \A j \in Server : \A p \in proposals[j] : p.cmd \in Command /\ p.cmd # c
    BY <1>1, <2>1 DEF ProposalsPending
  <2>4. \A j \in Server : \A p \in proposals'[j] : p \in proposals[j] \/ (p = r /\ j = i)
    BY <2>2
  <2>5. ProposalsPending'
    BY <2>1, <2>2, <2>3, <2>4 DEF ProposalsPending
  <2> QED
    BY <2>1, <2>5 DEF AnsweredOnceStep
<1>5. ASSUME NEW i \in Server, proposals' = [proposals EXCEPT ![i] = {}], replies' = replies
      PROVE  ProposalsPending' /\ AnsweredOnceStep
  <2>1. proposals'[i] = {} /\ \A j \in Server \ {i} : proposals'[j] = proposals[j]
    BY <1>5 DEF TypeOK
  <2> QED
    BY <1>5, <2>1, DoneAnswered
<1> QED
  BY <1>0, <1>2, <1>3, <1>4, <1>5, CancelAnswers, applyLogsAnswers, ClientSteps

\* No client is answered a second time, by applyLogs, transitionToFollower or a
\* refusal, at whichever node: a second send on its channel would block the loop
\* of a node that holds r.mu.
THEOREM ClientsAnsweredOnce == Spec => AnsweredOnce
<1>1. Init => TypeOK /\ ProposalsPending
  BY InitTypeOK DEF Init, ProposalsPending
<1>2. TypeOK /\ ProposalsPending /\ [Next]_vars
         => (TypeOK /\ ProposalsPending)' /\ [AnsweredOnceStep]_vars
  BY NextTypeOK, NextAnswers
<1>3. AnsweredOnce <=> [][AnsweredOnceStep]_vars
  BY DEF AnsweredOnce, AnsweredOnceStep
<1> QED
  BY <1>1, <1>2, <1>3, PTL DEF Spec
-----------------------------------------------------------------------------
(***************************************************************************)
(* Elections of Raft are safe on a cluster of an odd number of nodes.      *)
(*                                                                         *)
(* ElectionSafety is not inductive.  VoteInv adds where votes are kept and *)
(* why each is legitimate.  Two habits of the code make it longer than the *)
(* textbook's: a node may lose its term in a restart, but never below the  *)
(* term of its last vote, and a node may replace its vote in a term, but   *)
(* only by one for a node that has won the term already.                   *)
(***************************************************************************)
\* The history only grows, so a justified vote stays justified.
LEMMA JustifiedStable ==
    ASSUME ballots \subseteq ballots', elections \subseteq elections',
           NEW v, NEW t, NEW c
    PROVE  /\ FirstVote(v, t, c) => FirstVote(v, t, c)'
           /\ Elected(c, t) => Elected(c, t)'
           /\ Justified(v, t, c) => Justified(v, t, c)'
  BY DEF FirstVote, Elected, Justified

\* A step of node i that casts no vote and wins no election: it may step down,
\* adopt a term or a leader, count a vote or reload its WAL.
LEMMA QuietStep ==
    ASSUME TypeOK, VoteInv, NEW i \in Server,
           \A k \in Server \ {i} :
              /\ state'[k] = state[k] /\ currentTerm'[k] = currentTerm[k]
              /\ votedFor'[k] = votedFor[k] /\ votesReceived'[k] = votesReceived[k],
           wal' = wal, ballots' = ballots, elections' = elections,
           \A m \in msgs' : m.type = "VoteReply" /\ m.granted => m \in msgs,
           \A m \in msgs' : m.type = "AppendEntries" => m \in msgs,
           currentTerm'[i] >= wal[i].term,
           votedFor'[i] # Nil => Justified(i, currentTerm'[i], votedFor'[i]),
           \A b \in ballots :
              b.voter = i /\ b.term = currentTerm'[i] => votedFor'[i] # Nil,
           \/ state'[i] = "Follower"
           \/ /\ state'[i] = state[i] /\ currentTerm'[i] = currentTerm[i]
              /\ state[i] = "Candidate" =>
                    \A v \in votesReceived'[i] : Justified(v, currentTerm[i], i)
    PROVE  VoteInv'
<1>0. \A v, t, c : /\ FirstVote(v, t, c)' <=> FirstVote(v, t, c)
                   /\ Elected(c, t)' <=> Elected(c, t)
                   /\ Justified(v, t, c)' <=> Justified(v, t, c)
  BY DEF FirstVote, Elected, Justified
<1>1. BallotsPersisted'
  <2>1. ASSUME NEW k \in Server PROVE wal[k].term <= currentTerm'[k]
    <3>1. wal[k].term \in Nat /\ wal[k].term <= currentTerm[k]
      BY DEF TypeOK, VoteInv, BallotsPersisted
    <3>2. CASE k = i
      BY <3>2, <3>1
    <3>3. CASE k # i
      BY <3>3, <3>1
    <3> QED
      BY <3>2, <3>3
  <2>2. ASSUME NEW b \in ballots
        PROVE  b.term = currentTerm'[b.voter] => votedFor'[b.voter] # Nil
    <3>1. b.voter \in Server
      BY DEF TypeOK, Ballot
    <3>2. CASE b.voter = i
      BY <3>2
    <3>3. CASE b.voter # i
      BY <3>1, <3>3 DEF VoteInv, BallotsPersisted
    <3> QED
      BY <3>2, <3>3
  <2> QED
    BY <2>1, <2>2 DEF VoteInv, BallotsPersisted
<1>2. VotesJustified'
  <2>1. ASSUME NEW k \in Server
        PROVE  /\ votedFor'[k] # Nil => Justified(k, currentTerm'[k], votedFor'[k])
               /\ wal[k].votedFor # Nil => Justified(k, wal[k].term, wal[k].votedFor)
               /\ state'[k] = "Candidate" =>
                     \A v \in votesReceived'[k] : Justified(v, currentTerm'[k], k)
    BY DEF VoteInv, VotesJustified
  <2>2. ASSUME NEW m \in msgs', m.type = "VoteReply", m.granted
        PROVE  Justified(m.from, m.term, m.to)
    BY <2>2 DEF VoteInv, VotesJustified
  <2> QED
    BY <1>0, <2>1, <2>2 DEF VotesJustified
<1>3. LeadersElected'
  <2>1. ASSUME NEW e \in elections
        PROVE  /\ e.term <= wal[e.leader].term
               /\ HasMajority(Config(e.leader), e.leader, e.voters)
               /\ \A v \in e.voters : FirstVote(v, e.term, e.leader)
    BY DEF VoteInv, LeadersElected
  <2>2. ASSUME NEW k \in Server
        PROVE  /\ state'[k] = "Leader" => Elected(k, currentTerm'[k])
               /\ state'[k] = "Candidate" => /\ ~Elected(k, currentTerm'[k])
                                            /\ wal[k].term = currentTerm'[k]
    BY DEF VoteInv, LeadersElected
  <2>3. ASSUME NEW m \in msgs', m.type = "AppendEntries"
        PROVE  m.from # m.to /\ Elected(m.from, m.term)
    BY <2>3 DEF VoteInv, LeadersElected
  <2> QED
    BY <1>0, <2>1, <2>2, <2>3 DEF LeadersElected, Config
<1> QED
  BY <1>1, <1>2, <1>3 DEF VoteInv

\* A step that leaves everything about votes alone; the only request to append
\* it may send is one of a leader, to another node.
LEMMA IdleStep ==
    ASSUME TypeOK, VoteInv,
           UNCHANGED <<nodeVars, votesReceived, ballots, elections>>,
           \A m \in msgs' : m.type = "VoteReply" /\ m.granted => m \in msgs,
           \A m \in msgs' : m.type = "AppendEntries" =>
              m \in msgs \/ (m.from # m.to /\ Elected(m.from, m.term))
    PROVE  VoteInv'
<1> USE DEF nodeVars
<1>0. \A v, t, c : /\ FirstVote(v, t, c)' <=> FirstVote(v, t, c)
                   /\ Elected(c, t)' <=> Elected(c, t)
                   /\ Justified(v, t, c)' <=> Justified(v, t, c)
  BY DEF FirstVote, Elected, Justified
<1>1. BallotsPersisted'
  BY DEF VoteInv, BallotsPersisted
<1>2. VotesJustified'
  BY <1>0 DEF VoteInv, VotesJustified
<1>3. LeadersElected'
  BY <1>0 DEF VoteInv, LeadersElected, Config
<1> QED
  BY <1>1, <1>2, <1>3 DEF VoteInv

\* No ballot of a node is of a later term than its own.
LEMMA BallotsOld ==
    ASSUME TypeOK, VoteInv, NEW b \in ballots
    PROVE  /\ b.voter \in Server /\ b.term \in Nat /\ b.cand \in Server
           /\ b.term <= wal[b.voter].term
           /\ wal[b.voter].term <= currentTerm[b.voter]
           /\ b.term <= currentTerm[b.voter]
<1>1. b.voter \in Server /\ b.term \in Nat /\ b.cand \in Server
  BY DEF TypeOK, Ballot
<1>2. b.term <= wal[b.voter].term /\ wal[b.voter].term <= currentTerm[b.voter]
  BY <1>1 DEF VoteInv, BallotsPersisted
<1>3. wal[b.voter].term \in Nat /\ currentTerm[b.voter] \in Nat
  BY <1>1 DEF TypeOK
<1> QED
  BY <1>1, <1>2, <1>3

\* transitionToFollower with a newer term, whatever else the handler does.
LEMMA StepDown ==
    ASSUME TypeOK, VoteInv, NEW i \in Server, NEW t \in Nat, t > currentTerm[i],
           transitionToFollower(i, t),
           UNCHANGED <<wal, votesReceived, ballots, elections, msgs>>
    PROVE  VoteInv'
<1>1. /\ state'[i] = "Follower" /\ currentTerm'[i] = t /\ votedFor'[i] = Nil
      /\ \A k \in Server \ {i} : /\ state'[k] = state[k]
                                 /\ currentTerm'[k] = currentTerm[k]
                                 /\ votedFor'[k] = votedFor[k]
  BY DEF transitionToFollower, TypeOK
<1>2. wal[i].term \in Nat /\ currentTerm[i] \in Nat /\ wal[i].term <= currentTerm[i]
  BY DEF TypeOK, VoteInv, BallotsPersisted
<1>3. \A b \in ballots : b.voter = i => b.term # t
  BY <1>2, BallotsOld
<1> QED
  BY <1>1, <1>2, <1>3, QuietStep

-----------------------------------------------------------------------------
(***************************************************************************)
(* A node that becomes candidate starts a term in which it has no ballot   *)
(* and has not been elected.                                               *)
(***************************************************************************)
LEMMA NewTerm ==
    ASSUME TypeOK, VoteInv, NEW i \in Server, transitionToCandidate(i)
    PROVE  LET t == currentTerm[i] + 1 IN
           /\ t \in Nat /\ t > wal[i].term /\ wal[i].term \in Nat
           /\ ballots' = ballots \cup {[voter |-> i, term |-> t, cand |-> i]}
           /\ \A b \in ballots : b.voter = i => b.term < t
           /\ ~Elected(i, t)
           /\ currentTerm'[i] = t /\ votedFor'[i] = i /\ votesReceived'[i] = {i}
           /\ wal'[i].term = t /\ wal'[i].votedFor = i
           /\ \A k \in Server \ {i} : /\ currentTerm'[k] = currentTerm[k]
                                      /\ votedFor'[k] = votedFor[k]
                                      /\ votesReceived'[k] = votesReceived[k]
                                      /\ wal'[k] = wal[k]
<1> DEFINE t == currentTerm[i] + 1
<1>1. /\ currentTerm[i] \in Nat /\ wal[i].term \in Nat
      /\ wal[i].term <= currentTerm[i]
  BY DEF TypeOK, VoteInv, BallotsPersisted
<1>2. t \in Nat /\ t > wal[i].term /\ t > currentTerm[i]
  BY <1>1
<1>3. \A b \in ballots : b.voter = i => b.term < t
  BY <1>1, BallotsOld
<1>4. ballots' = ballots \cup {[voter |-> i, term |-> t, cand |-> i]}
  <2>1. ~\E b \in ballots : b.voter = i /\ b.term = t
    BY <1>2, <1>3
  <2> QED
    BY <2>1 DEF transitionToCandidate, RecordBallot
<1>5. ~Elected(i, t)
  <2>1. SUFFICES ASSUME NEW e \in elections, e.leader = i, e.term = t
                 PROVE  FALSE
    BY DEF Elected
  <2>2. e.term <= wal[i].term
    BY <2>1 DEF VoteInv, LeadersElected
  <2> QED
    BY <1>1, <1>2, <2>1, <2>2
<1>6. /\ currentTerm' = [currentTerm EXCEPT ![i] = t]
      /\ votedFor' = [votedFor EXCEPT ![i] = i]
      /\ wal' = [wal EXCEPT ![i] = [term |-> t, votedFor |-> i]]
      /\ votesReceived' = [votesReceived EXCEPT ![i] = {i}]
  BY DEF transitionToCandidate, AppendState
<1> HIDE DEF t
<1>7. /\ currentTerm'[i] = t /\ votedFor'[i] = i /\ votesReceived'[i] = {i}
      /\ wal'[i].term = t /\ wal'[i].votedFor = i
      /\ \A k \in Server \ {i} : /\ currentTerm'[k] = currentTerm[k]
                                 /\ votedFor'[k] = votedFor[k]
                                 /\ votesReceived'[k] = votesReceived[k]
                                 /\ wal'[k] = wal[k]
  BY <1>6 DEF TypeOK
<1> QED
  BY <1>1, <1>2, <1>3, <1>4, <1>5, <1>7 DEF t

\* A ballot that is cast: either it is the first of the node in the term, or
\* the vote it repeats is justified already.
LEMMA CastBallot ==
    ASSUME TypeOK, VoteInv, NEW i \in Server, NEW t \in Nat, NEW c \in Server,
           t >= currentTerm[i], RecordBallot(i, t, c),
           t = currentTerm[i] => votedFor[i] \in {Nil, c}
    PROVE  /\ ballots \subseteq ballots'
           /\ \A b, d \in ballots' : b.voter = d.voter /\ b.term = d.term
                                      => b.cand = d.cand
           /\ \A b \in ballots' : b \in ballots \/ (b.voter = i /\ b.term = t)
           /\ FirstVote(i, t, c)' \/ Elected(c, t)
<1> DEFINE new == [voter |-> i, term |-> t, cand |-> c]
<1>0. /\ currentTerm[i] \in Nat
      /\ \A b, d \in ballots : b.voter = d.voter /\ b.term = d.term => b.cand = d.cand
  BY DEF TypeOK, VoteInv, BallotsPersisted
<1>1. CASE \E b \in ballots : b.voter = i /\ b.term = t
  <2>1. ballots' = ballots
    BY <1>1 DEF RecordBallot
  <2>2. PICK b \in ballots : b.voter = i /\ b.term = t
    BY <1>1
  <2>3. t = currentTerm[i]
    BY <1>0, <2>2, BallotsOld
  <2>4. votedFor[i] # Nil
    BY <2>2, <2>3 DEF VoteInv, BallotsPersisted
  <2>5. Justified(i, t, c)
    BY <2>3, <2>4 DEF VoteInv, VotesJustified
  <2> QED
    BY <1>0, <2>1, <2>5 DEF Justified, FirstVote
<1>2. CASE ~\E b \in ballots : b.voter = i /\ b.term = t
  <2>1. ballots' = ballots \cup {new}
    BY <1>2 DEF RecordBallot
  <2>2. new.voter = i /\ new.term = t /\ new.cand = c
    OBVIOUS
  <2>3. new \in ballots' => FirstVote(i, t, c)'
    BY DEF FirstVote
  <2> HIDE DEF new
  <2> QED
    BY <1>0, <1>2, <2>1, <2>2, <2>3
<1> QED
  BY <1>1, <1>2

-----------------------------------------------------------------------------
(***************************************************************************)
(* The handlers, one lemma each for those that cast or count votes.        *)
(***************************************************************************)
\* Becoming candidate, whatever it sends and whether or not it wins at once:
\* won is {} or the election it wins.
LEMMA CandidateStep ==
    ASSUME TypeOK, VoteInv, NEW i \in Server, transitionToCandidate(i),
           \A k \in Server \ {i} : state'[k] = state[k],
           \A m \in msgs' : m.type = "VoteReply" /\ m.granted => m \in msgs,
           \A m \in msgs' : m.type = "AppendEntries" => m \in msgs,
           \/ state'[i] = "Candidate" /\ elections' = elections
           \/ /\ state'[i] = "Leader"
              /\ elections' = elections \cup
                    {[leader |-> i, term |-> currentTerm[i] + 1, voters |-> {i}]}
              /\ HasMajority(Config(i), i, {i})
    PROVE  VoteInv'
<1>0. PICK t \in Nat : t = currentTerm[i] + 1
  BY DEF TypeOK
<1> DEFINE won == [leader |-> i, term |-> t, voters |-> {i}]
<1>1. /\ t \in Nat /\ t > wal[i].term /\ wal[i].term \in Nat
      /\ ballots' = ballots \cup {[voter |-> i, term |-> t, cand |-> i]}
      /\ \A b \in ballots : b.voter = i => b.term < t
      /\ ~Elected(i, t)
      /\ currentTerm'[i] = t /\ votedFor'[i] = i /\ votesReceived'[i] = {i}
      /\ wal'[i].term = t /\ wal'[i].votedFor = i
      /\ \A k \in Server \ {i} : /\ currentTerm'[k] = currentTerm[k]
                                 /\ votedFor'[k] = votedFor[k]
                                 /\ votesReceived'[k] = votesReceived[k]
                                 /\ wal'[k] = wal[k]
  BY <1>0, NewTerm
<1>2. \A v, u, c : /\ FirstVote(v, u, c) => FirstVote(v, u, c)'
                   /\ Elected(c, u) => Elected(c, u)'
                   /\ Justified(v, u, c) => Justified(v, u, c)'
  BY <1>1, JustifiedStable
<1>3. FirstVote(i, t, i)' /\ Justified(i, t, i)'
  BY <1>1 DEF FirstVote, Justified
<1>4. ASSUME NEW k \in Server \ {i}, NEW u
      PROVE  Elected(k, u)' <=> Elected(k, u)
  BY DEF Elected
<1>5. won.leader = i /\ won.term = t /\ won.voters = {i}
  OBVIOUS
<1>6. /\ state'[i] = "Leader" => Elected(i, t)'
      /\ state'[i] = "Candidate" => ~Elected(i, t)'
  <2>1. CASE state'[i] = "Candidate" /\ elections' = elections
    BY <1>1, <2>1 DEF Elected
  <2>2. CASE state'[i] = "Leader" /\ elections' = elections \cup {won}
    <3>1. won \in elections'
      BY <2>2
    <3> HIDE DEF won
    <3> QED
      BY <1>5, <2>2, <3>1 DEF Elected
  <2> QED
    BY <1>0, <2>1, <2>2
<1>7. elections' = elections
      \/ (elections' = elections \cup {won} /\ HasMajority(Config(i), i, {i}))
  BY <1>0
<1>8. Nil # i /\ \A b \in ballots : b.voter \in Server
  BY NilAssumption, BallotsOld
<1> HIDE DEF won
<1>9. BallotsPersisted'
  <2>1. ASSUME NEW b \in ballots', NEW d \in ballots',
               b.voter = d.voter, b.term = d.term
        PROVE  b.cand = d.cand
    BY <1>1, <2>1 DEF VoteInv, BallotsPersisted
  <2>2. ASSUME NEW k \in Server PROVE wal'[k].term <= currentTerm'[k]
    BY <1>1 DEF VoteInv, BallotsPersisted
  <2>3. ASSUME NEW b \in ballots'
        PROVE  /\ b.term <= wal'[b.voter].term
               /\ b.term = wal'[b.voter].term => wal'[b.voter].votedFor # Nil
               /\ b.term = currentTerm'[b.voter] => votedFor'[b.voter] # Nil
    <3>1. CASE b.voter = i
      <4>1. b.term \in Nat /\ b.term <= t
        BY <1>1, <3>1, BallotsOld
      <4> QED
        BY <1>1, <1>8, <3>1, <4>1
    <3>2. CASE b.voter # i
      <4>1. b \in ballots /\ b.voter \in Server \ {i}
        BY <1>1, <1>8, <3>2
      <4> QED
        BY <1>1, <4>1 DEF VoteInv, BallotsPersisted
    <3> QED
      BY <3>1, <3>2
  <2> QED
    BY <2>1, <2>2, <2>3 DEF BallotsPersisted
<1>10. VotesJustified'
  <2>1. ASSUME NEW k \in Server
        PROVE  (/\ votedFor[k] # Nil => Justified(k, currentTerm[k], votedFor[k])
                /\ wal[k].votedFor # Nil => Justified(k, wal[k].term, wal[k].votedFor)
                /\ state[k] = "Candidate" =>
                      \A v \in votesReceived[k] : Justified(v, currentTerm[k], k))'
    <3>1. CASE k = i
      BY <1>1, <1>3, <3>1
    <3>2. CASE k # i
      BY <1>1, <1>2, <3>2 DEF VoteInv, VotesJustified
    <3> QED
      BY <3>1, <3>2
  <2>2. ASSUME NEW m \in msgs', m.type = "VoteReply", m.granted
        PROVE  Justified(m.from, m.term, m.to)'
    BY <1>2, <2>2 DEF VoteInv, VotesJustified
  <2> QED
    BY <2>1, <2>2 DEF VotesJustified
<1>11. LeadersElected'
  <2>1. ASSUME NEW e \in elections'
        PROVE  /\ e.term <= wal'[e.leader].term
               /\ HasMajority(Config(e.leader), e.leader, e.voters)
               /\ \A v \in e.voters : FirstVote(v, e.term, e.leader)'
    <3>1. CASE e \in elections
      <4>1. /\ e.term <= wal[e.leader].term /\ e.leader \in Server /\ e.term \in Nat
            /\ HasMajority(Config(e.leader), e.leader, e.voters)
            /\ \A v \in e.voters : FirstVote(v, e.term, e.leader)
        BY <3>1 DEF VoteInv, LeadersElected, TypeOK, Election
      <4>2. e.term <= wal'[e.leader].term
        BY <1>1, <4>1
      <4> QED
        BY <1>2, <4>1, <4>2
    <3>2. CASE e \notin elections
      <4>1. e = won /\ HasMajority(Config(i), i, {i})
        BY <1>7, <3>2
      <4>2. e.leader = i /\ e.term = t /\ e.voters = {i}
        BY <1>5, <4>1
      <4> QED
        BY <1>1, <1>3, <4>1, <4>2
    <3> QED
      BY <3>1, <3>2
  <2>2. ASSUME NEW k \in Server
        PROVE  (/\ state[k] = "Leader" => Elected(k, currentTerm[k])
                /\ state[k] = "Candidate" => /\ ~Elected(k, currentTerm[k])
                                             /\ wal[k].term = currentTerm[k])'
    <3>1. CASE k = i
      BY <1>1, <1>6, <3>1
    <3>2. CASE k # i
      BY <1>1, <1>4, <3>2 DEF VoteInv, LeadersElected
    <3> QED
      BY <3>1, <3>2
  <2>3. ASSUME NEW m \in msgs', m.type = "AppendEntries"
        PROVE  m.from # m.to /\ Elected(m.from, m.term)'
    BY <1>2, <2>3 DEF VoteInv, LeadersElected
  <2> QED
    BY <2>1, <2>2, <2>3 DEF LeadersElected, Config
<1> QED
  BY <1>9, <1>10, <1>11 DEF VoteInv

\* Granting a vote: t is the term of the request, c the candidate.
LEMMA GrantStep ==
    ASSUME TypeOK, VoteInv, NEW i \in Server, NEW t \in Nat, NEW c \in Server,
           t >= currentTerm[i], t = currentTerm[i] => votedFor[i] \in {Nil, c},
           RecordBallot(i, t, c),
           currentTerm'[i] = t, votedFor'[i] = c,
           wal'[i].term = t, wal'[i].votedFor = c,
           \A k \in Server \ {i} :
              /\ state'[k] = state[k] /\ currentTerm'[k] = currentTerm[k]
              /\ votedFor'[k] = votedFor[k] /\ wal'[k] = wal[k],
           state'[i] = "Follower" \/ (state'[i] = state[i] /\ t = currentTerm[i]),
           UNCHANGED <<votesReceived, elections>>,
           \A m \in msgs' : m.type = "VoteReply" /\ m.granted
              => m \in msgs \/ (m.from = i /\ m.term = t /\ m.to = c),
           \A m \in msgs' : m.type = "AppendEntries" => m \in msgs
    PROVE  VoteInv'
<1>1. /\ ballots \subseteq ballots'
      /\ \A b, d \in ballots' : b.voter = d.voter /\ b.term = d.term
                                 => b.cand = d.cand
      /\ \A b \in ballots' : b \in ballots \/ (b.voter = i /\ b.term = t)
      /\ FirstVote(i, t, c)' \/ Elected(c, t)
  BY CastBallot
<1>2. \A v, u, x : /\ FirstVote(v, u, x) => FirstVote(v, u, x)'
                   /\ Elected(x, u)' <=> Elected(x, u)
                   /\ Justified(v, u, x) => Justified(v, u, x)'
  BY <1>1, JustifiedStable DEF Elected
<1>3. Justified(i, t, c)'
  BY <1>1, <1>2 DEF Justified
<1>4. /\ currentTerm'[i] = t /\ votedFor'[i] = c
      /\ wal'[i].term = t /\ wal'[i].votedFor = c
      /\ \A k \in Server \ {i} : /\ currentTerm'[k] = currentTerm[k]
                                 /\ votedFor'[k] = votedFor[k]
                                 /\ wal'[k] = wal[k]
  OBVIOUS
<1>5. /\ wal[i].term \in Nat /\ currentTerm[i] \in Nat
      /\ wal[i].term <= currentTerm[i] /\ wal[i].term <= t
  <2>1. /\ wal[i].term \in Nat /\ currentTerm[i] \in Nat
        /\ wal[i].term <= currentTerm[i]
    BY DEF TypeOK, VoteInv, BallotsPersisted
  <2> QED
    BY <2>1
<1>6. Nil # c
  BY NilAssumption
<1>7. BallotsPersisted'
  <2>1. ASSUME NEW k \in Server PROVE wal'[k].term <= currentTerm'[k]
    BY <1>4 DEF VoteInv, BallotsPersisted
  <2>2. ASSUME NEW b \in ballots'
        PROVE  /\ b.term <= wal'[b.voter].term
               /\ b.term = wal'[b.voter].term => wal'[b.voter].votedFor # Nil
               /\ b.term = currentTerm'[b.voter] => votedFor'[b.voter] # Nil
    <3>1. CASE b.voter = i
      <4>1. b.term \in Nat /\ b.term <= t
        BY <1>1, <1>5, <3>1, BallotsOld
      <4> QED
        BY <1>4, <1>6, <3>1, <4>1
    <3>2. CASE b.voter # i
      <4>1. b \in ballots /\ b.voter \in Server \ {i}
        BY <1>1, <3>2, BallotsOld
      <4> QED
        BY <1>4, <4>1 DEF VoteInv, BallotsPersisted
    <3> QED
      BY <3>1, <3>2
  <2> QED
    BY <1>1, <2>1, <2>2 DEF BallotsPersisted
<1>8. VotesJustified'
  <2>1. ASSUME NEW k \in Server
        PROVE  (/\ votedFor[k] # Nil => Justified(k, currentTerm[k], votedFor[k])
                /\ wal[k].votedFor # Nil => Justified(k, wal[k].term, wal[k].votedFor)
                /\ state[k] = "Candidate" =>
                      \A v \in votesReceived[k] : Justified(v, currentTerm[k], k))'
    <3>1. CASE k = i
      BY <1>2, <1>3, <1>4, <3>1 DEF VoteInv, VotesJustified
    <3>2. CASE k # i
      BY <1>2, <1>4, <3>2 DEF VoteInv, VotesJustified
    <3> QED
      BY <3>1, <3>2
  <2>2. ASSUME NEW m \in msgs', m.type = "VoteReply", m.granted
        PROVE  Justified(m.from, m.term, m.to)'
    BY <1>2, <1>3, <2>2 DEF VoteInv, VotesJustified
  <2> QED
    BY <2>1, <2>2 DEF VotesJustified
<1>9. LeadersElected'
  <2>1. ASSUME NEW e \in elections'
        PROVE  /\ e.term <= wal'[e.leader].term
               /\ HasMajority(Config(e.leader), e.leader, e.voters)
               /\ \A v \in e.voters : FirstVote(v, e.term, e.leader)'
    <3>1. /\ e.term <= wal[e.leader].term /\ e.leader \in Server /\ e.term \in Nat
          /\ HasMajority(Config(e.leader), e.leader, e.voters)
          /\ \A v \in e.voters : FirstVote(v, e.term, e.leader)
      BY DEF VoteInv, LeadersElected, TypeOK, Election
    <3>2. e.term <= wal'[e.leader].term
      BY <1>4, <1>5, <3>1
    <3> QED
      BY <1>2, <3>1, <3>2
  <2>2. ASSUME NEW k \in Server
        PROVE  (/\ state[k] = "Leader" => Elected(k, currentTerm[k])
                /\ state[k] = "Candidate" => /\ ~Elected(k, currentTerm[k])
                                             /\ wal[k].term = currentTerm[k])'
    <3>1. CASE k = i
      BY <1>2, <1>4, <3>1 DEF VoteInv, LeadersElected
    <3>2. CASE k # i
      BY <1>2, <1>4, <3>2 DEF VoteInv, LeadersElected
    <3> QED
      BY <3>1, <3>2
  <2>3. ASSUME NEW m \in msgs', m.type = "AppendEntries"
        PROVE  m.from # m.to /\ Elected(m.from, m.term)'
    BY <1>2, <2>3 DEF VoteInv, LeadersElected
  <2> QED
    BY <2>1, <2>2, <2>3 DEF LeadersElected, Config
<1> QED
  BY <1>7, <1>8, <1>9 DEF VoteInv

\* A candidate wins: every vote it counted is a first vote, because nobody can
\* be voting for it as the winner of a term that it has not won.
LEMMA WinStep ==
    ASSUME TypeOK, VoteInv, NEW i \in Server, NEW t \in Nat, NEW V \in SUBSET Server,
           state[i] = "Candidate", currentTerm[i] = t,
           \A v \in V : Justified(v, t, i),
           HasMajority(Config(i), i, V),
           state' = [state EXCEPT ![i] = "Leader"],
           elections' = elections \cup {[leader |-> i, term |-> t, voters |-> V]},
           \A k \in Server \ {i} : votesReceived'[k] = votesReceived[k],
           UNCHANGED <<currentTerm, votedFor, wal, ballots, msgs>>
    PROVE  VoteInv'
<1> DEFINE won == [leader |-> i, term |-> t, voters |-> V]
<1>1. won.leader = i /\ won.term = t /\ won.voters = V
  OBVIOUS
<1>2. elections' = elections \cup {won}
  OBVIOUS
<1> HIDE DEF won
<1>3. ~Elected(i, t) /\ wal[i].term = t
  BY DEF VoteInv, LeadersElected
<1>4. \A v \in V : FirstVote(v, t, i)
  BY <1>3 DEF Justified
<1>5. \A v, u, x : /\ FirstVote(v, u, x)' <=> FirstVote(v, u, x)
                   /\ Elected(x, u) => Elected(x, u)'
                   /\ Justified(v, u, x) => Justified(v, u, x)'
  BY <1>2, JustifiedStable DEF FirstVote
<1>6. Elected(i, t)' /\ \A k \in Server \ {i} : \A u : Elected(k, u)' <=> Elected(k, u)
  BY <1>1, <1>2 DEF Elected
<1>7. state'[i] = "Leader" /\ \A k \in Server \ {i} : state'[k] = state[k]
  BY DEF TypeOK
<1>8. BallotsPersisted'
  BY DEF VoteInv, BallotsPersisted
<1>9. VotesJustified'
  <2>1. ASSUME NEW k \in Server
        PROVE  (/\ votedFor[k] # Nil => Justified(k, currentTerm[k], votedFor[k])
                /\ wal[k].votedFor # Nil => Justified(k, wal[k].term, wal[k].votedFor)
                /\ state[k] = "Candidate" =>
                      \A v \in votesReceived[k] : Justified(v, currentTerm[k], k))'
    BY <1>5, <1>7 DEF VoteInv, VotesJustified
  <2>2. ASSUME NEW m \in msgs', m.type = "VoteReply", m.granted
        PROVE  Justified(m.from, m.term, m.to)'
    BY <1>5, <2>2 DEF VoteInv, VotesJustified
  <2> QED
    BY <2>1, <2>2 DEF VotesJustified
<1>10. LeadersElected'
  <2>1. ASSUME NEW e \in elections'
        PROVE  /\ e.term <= wal[e.leader].term
               /\ HasMajority(Config(e.leader), e.leader, e.voters)
               /\ \A v \in e.voters : FirstVote(v, e.term, e.leader)'
    <3>1. CASE e \in elections
      BY <1>5, <3>1 DEF VoteInv, LeadersElected
    <3>2. CASE e \notin elections
      <4>1. e.leader = i /\ e.term = t /\ e.voters = V
        BY <1>1, <1>2, <3>2
      <4> QED
        BY <1>3, <1>4, <1>5, <4>1
    <3> QED
      BY <3>1, <3>2
  <2>2. ASSUME NEW k \in Server
        PROVE  (/\ state[k] = "Leader" => Elected(k, currentTerm[k])
                /\ state[k] = "Candidate" => /\ ~Elected(k, currentTerm[k])
                                             /\ wal[k].term = currentTerm[k])'
    <3>1. CASE k = i
      BY <1>6, <1>7, <3>1
    <3>2. CASE k # i
      BY <1>6, <1>7, <3>2 DEF VoteInv, LeadersElected
    <3> QED
      BY <3>1, <3>2
  <2>3. ASSUME NEW m \in msgs', m.type = "AppendEntries"
        PROVE  m.from # m.to /\ Elected(m.from, m.term)'
    BY <1>5, <2>3 DEF VoteInv, LeadersElected
  <2> QED
    BY <2>1, <2>2, <2>3 DEF LeadersElected, Config
<1> QED
  BY <1>8, <1>9, <1>10 DEF VoteInv

-----------------------------------------------------------------------------
(***************************************************************************)
(* VoteInv is inductive.                                                   *)
(***************************************************************************)
LEMMA ElectionVoteInv ==
    ASSUME TypeOK, VoteInv,
           \/ \E i \in Server : ElectionTimeout(i)
           \/ \E m \in msgs : HandlePreVote(m)
           \/ \E m \in msgs : HandlePreVoteReply(m)
           \/ \E m \in msgs : HandleRequestVote(m)
           \/ \E m \in msgs : HandleVoteReply(m)
    PROVE  VoteInv'
<1> USE DEF nodeVars, voteVars, logVars, leaderVars, clientVars, history
<1>0. msgs \subseteq Message /\ \A i \in Server : currentTerm[i] \in Nat
  BY DEF TypeOK
<1>1. CASE \E i \in Server : ElectionTimeout(i)
  <2> PICK i \in Server : ElectionTimeout(i)
    BY <1>1
  <2>1. ASSUME NEW m \in msgs', m \notin msgs
        PROVE  m.type = "PreVote"
    BY <2>1 DEF ElectionTimeout
  <2> QED
    BY <2>1, IdleStep DEF ElectionTimeout
<1>3. CASE \E m \in msgs : HandlePreVote(m)
  <2> PICK m \in msgs : HandlePreVote(m)
    BY <1>3
  <2>1. \A n \in msgs' \ msgs : n.type = "PreVoteReply"
    BY DEF HandlePreVote
  <2> QED
    BY <2>1, IdleStep DEF HandlePreVote
<1>4. CASE \E m \in msgs : HandlePreVoteReply(m)
  <2> PICK m \in msgs : HandlePreVoteReply(m)
    BY <1>4
  <2>1. m.to \in Server
    BY <1>0, MessageKinds
  <2>2. CASE UNCHANGED <<nodeVars, votesReceived, msgs, ballots>>
    BY <2>2, IdleStep DEF HandlePreVoteReply
  <2>3. CASE /\ state' = [state EXCEPT ![m.to] = "Candidate"]
             /\ transitionToCandidate(m.to)
             /\ RequestVotes(m.to, currentTerm[m.to] + 1)
    <3>1. ASSUME NEW n \in msgs', n \notin msgs
          PROVE  n.type = "RequestVote"
      BY <2>3, <3>1 DEF RequestVotes
    <3>2. /\ state'[m.to] = "Candidate" /\ elections' = elections
          /\ \A k \in Server \ {m.to} : state'[k] = state[k]
      BY <2>1, <2>3 DEF HandlePreVoteReply, TypeOK
    <3> QED
      BY <2>1, <2>3, <3>1, <3>2, CandidateStep
  <2> QED
    BY <2>2, <2>3 DEF HandlePreVoteReply
<1>5. CASE \E m \in msgs : HandleRequestVote(m)
  <2> PICK m \in msgs : HandleRequestVote(m)
    BY <1>5
  <2> DEFINE i == m.to
             newer == m.term > currentTerm[i]
             vote == IF newer THEN Nil ELSE votedFor[i]
             grant == vote \in {Nil, m.from} /\ LogOK(m, log[i])
  <2>1. i \in Server /\ m.from \in Server /\ m.term \in Nat
    BY <1>0, MessageKinds DEF HandleRequestVote, RequestVoteMsg
  <2>2. ASSUME NEW term, NEW granted, VoteReply(m, term, granted)
        PROVE  \A n \in msgs' : n \in msgs
                 \/ (/\ n.type = "VoteReply" /\ n.granted = granted
                     /\ n.from = i /\ n.term = term /\ n.to = m.from)
    BY <2>2 DEF VoteReply
  <2>3. CASE VoteReply(m, currentTerm[i], FALSE) /\ UNCHANGED <<nodeVars, clientVars, ballots>>
    <3>1. \A n \in msgs' : n \in msgs \/ (n.type = "VoteReply" /\ n.granted = FALSE)
      BY <2>3 DEF VoteReply
    <3> QED
      BY <2>3, <3>1, IdleStep DEF HandleRequestVote
  <2>4. CASE ~(VoteReply(m, currentTerm[i], FALSE)
                  /\ UNCHANGED <<nodeVars, clientVars, ballots>>)
    <3>1. /\ m.term >= currentTerm[i]
          /\ IF newer THEN state' = [state EXCEPT ![i] = "Follower"] ELSE state' = state
          /\ currentTerm' = [currentTerm EXCEPT ![i] = m.term]
          /\ VoteReply(m, m.term, grant)
      BY <2>4 DEF HandleRequestVote
    <3>2. \/ /\ grant
             /\ votedFor' = [votedFor EXCEPT ![i] = m.from]
             /\ wal' = [wal EXCEPT ![i] = [term |-> m.term, votedFor |-> m.from]]
             /\ RecordBallot(i, m.term, m.from)
          \/ /\ ~grant
             /\ votedFor' = [votedFor EXCEPT ![i] = vote]
             /\ UNCHANGED <<wal, ballots>>
      BY <2>4 DEF HandleRequestVote, AppendState
    <3>3. UNCHANGED <<votesReceived, elections>>
      BY DEF HandleRequestVote
    <3>4. \A n \in msgs' : n \in msgs
            \/ (/\ n.type = "VoteReply" /\ n.granted = grant
                /\ n.from = i /\ n.term = m.term /\ n.to = m.from)
      <4> HIDE DEF grant
      <4> QED
        BY <2>2, <3>1
    <3>5. /\ \A k \in Server \ {i} : state'[k] = state[k] /\ currentTerm'[k] = currentTerm[k]
          /\ currentTerm'[i] = m.term
          /\ newer => state'[i] = "Follower"
          /\ ~newer => state'[i] = state[i] /\ m.term = currentTerm[i]
      <4>1. CASE newer
        BY <2>1, <3>1, <4>1 DEF TypeOK
      <4>2. CASE ~newer
        <5>1. m.term = currentTerm[i]
          BY <1>0, <2>1, <3>1, <4>2
        <5> QED
          BY <2>1, <3>1, <4>2, <5>1 DEF TypeOK
      <4> QED
        BY <4>1, <4>2
    <3>6. CASE grant
      <4>1. /\ votedFor' = [votedFor EXCEPT ![i] = m.from]
            /\ wal' = [wal EXCEPT ![i] = [term |-> m.term, votedFor |-> m.from]]
            /\ RecordBallot(i, m.term, m.from)
        BY <3>2, <3>6
      <4>2. m.term = currentTerm[i] => votedFor[i] \in {Nil, m.from}
        BY <1>0, <2>1, <3>6
      <4>3. \A n \in msgs' :
              /\ n.type = "VoteReply" /\ n.granted
                   => n \in msgs \/ (n.from = i /\ n.term = m.term /\ n.to = m.from)
              /\ n.type = "AppendEntries" => n \in msgs
        BY <3>4
      <4>4. state'[i] = "Follower" \/ (state'[i] = state[i] /\ m.term = currentTerm[i])
        BY <3>5
      <4>5. m.term >= currentTerm[i] /\ currentTerm'[i] = m.term
        BY <3>1, <3>5
      <4>6. /\ votedFor'[i] = m.from /\ wal'[i].term = m.term
            /\ wal'[i].votedFor = m.from
            /\ \A k \in Server \ {i} : votedFor'[k] = votedFor[k] /\ wal'[k] = wal[k]
        BY <2>1, <4>1 DEF TypeOK
      <4>7. RecordBallot(i, m.term, m.from)
        BY <4>1
      <4> HIDE DEF i, newer, vote, grant
      <4> QED
        BY <2>1, <3>3, <3>5, <4>2, <4>3, <4>4, <4>5, <4>6, <4>7, GrantStep
    <3>7. CASE ~grant
      <4>1. votedFor' = [votedFor EXCEPT ![i] = vote] /\ UNCHANGED <<wal, ballots>>
        BY <3>2, <3>7
      <4>2. votedFor'[i] = vote /\ \A k \in Server \ {i} : votedFor'[k] = votedFor[k]
        BY <2>1, <4>1 DEF TypeOK
      <4>3. /\ wal[i].term \in Nat /\ wal[i].term <= currentTerm[i]
            /\ currentTerm[i] \in Nat
        BY <2>1 DEF TypeOK, VoteInv, BallotsPersisted
      <4>4. wal[i].term <= currentTerm'[i]
        BY <2>1, <3>1, <3>5, <4>3
      <4>5. votedFor'[i] # Nil => Justified(i, currentTerm'[i], votedFor'[i])
        BY <2>1, <3>5, <4>2 DEF VoteInv, VotesJustified
      <4>6. ASSUME NEW b \in ballots, b.voter = i, b.term = currentTerm'[i]
            PROVE  votedFor'[i] # Nil
        <5>1. b.term <= currentTerm[i] /\ b.term \in Nat
          BY <4>6, BallotsOld
        <5>2. ~newer
          BY <2>1, <3>5, <4>3, <4>6, <5>1
        <5> QED
          BY <2>1, <3>5, <4>2, <4>6, <5>2 DEF VoteInv, BallotsPersisted
      <4>7. \/ state'[i] = "Follower"
            \/ /\ state'[i] = state[i] /\ currentTerm'[i] = currentTerm[i]
               /\ state[i] = "Candidate" =>
                     \A v \in votesReceived'[i] : Justified(v, currentTerm[i], i)
        BY <2>1, <3>3, <3>5 DEF VoteInv, VotesJustified
      <4>8. \A n \in msgs' : n \in msgs \/ (n.type = "VoteReply" /\ n.granted = FALSE)
        BY <3>4, <3>7
      <4> HIDE DEF i, vote
      <4> QED
        BY <2>1, <3>3, <3>5, <4>1, <4>2, <4>4, <4>5, <4>6, <4>7, <4>8, QuietStep
    <3> QED
      BY <3>6, <3>7
  <2> QED
    BY <2>3, <2>4
<1>6. CASE \E m \in msgs : HandleVoteReply(m)
  <2> PICK m \in msgs : HandleVoteReply(m)
    BY <1>6
  <2> DEFINE i == m.to
             votes == votesReceived[i] \cup {m.from}
  <2>1. i \in Server /\ m.from \in Server /\ m.term \in Nat
    BY <1>0, MessageKinds DEF HandleVoteReply, VoteReplyMsg
  <2>2. CASE m.term > currentTerm[i]
    <3>1. transitionToFollower(i, m.term)
          /\ UNCHANGED <<wal, votesReceived, ballots, elections, msgs>>
      BY <1>0, <2>1, <2>2 DEF HandleVoteReply
    <3> QED
      BY <2>1, <2>2, <3>1, StepDown
  <2>3. CASE ~(m.term > currentTerm[i])
    <3>1. /\ m.term = currentTerm[i] /\ state[i] = "Candidate" /\ m.granted
          /\ m.type = "VoteReply"
          /\ votesReceived' = [votesReceived EXCEPT ![i] = votes]
          /\ \/ /\ HasMajority(Config(i), i, votes)
                /\ transitionToLeader(i, m.term, votes)
             \/ UNCHANGED <<state, elections>>
          /\ UNCHANGED <<currentTerm, votedFor, wal, ballots, msgs>>
      BY <1>0, <2>1, <2>3 DEF HandleVoteReply
    <3>2. /\ votesReceived'[i] = votes /\ votes \in SUBSET Server
          /\ \A k \in Server \ {i} : votesReceived'[k] = votesReceived[k]
      BY <2>1, <3>1 DEF TypeOK
    <3>3. \A v \in votes : Justified(v, m.term, i)
      BY <2>1, <3>1 DEF VoteInv, VotesJustified
    <3>4. CASE HasMajority(Config(i), i, votes) /\ transitionToLeader(i, m.term, votes)
      BY <2>1, <3>1, <3>2, <3>3, <3>4, WinStep DEF transitionToLeader
    <3>5. CASE UNCHANGED <<state, elections>>
      <4>1. /\ currentTerm[i] >= wal[i].term
            /\ votedFor[i] # Nil => Justified(i, currentTerm[i], votedFor[i])
            /\ \A b \in ballots : b.voter = i /\ b.term = currentTerm[i]
                                      => votedFor[i] # Nil
        BY <2>1 DEF TypeOK, VoteInv, BallotsPersisted, VotesJustified
      <4>2. /\ currentTerm' = currentTerm /\ votedFor' = votedFor /\ wal' = wal
            /\ ballots' = ballots /\ msgs' = msgs /\ m.term = currentTerm[i]
        BY <3>1
      <4> HIDE DEF i, votes
      <4> QED
        BY <2>1, <3>2, <3>3, <3>5, <4>1, <4>2, QuietStep
    <3> QED
      BY <3>1, <3>4, <3>5
  <2> QED
    BY <2>2, <2>3
<1> QED
  BY <1>1, <1>3, <1>4, <1>5, <1>6

LEMMA ReplicationVoteInv ==
    ASSUME TypeOK, VoteInv,
           \/ \E i, j \in Server : ReplicateToPeer(i, j)
           \/ \E m \in msgs : HandleAppendEntries(m)
           \/ \E m \in msgs : HandleAppendReply(m)
    PROVE  VoteInv'
<1> USE DEF nodeVars, voteVars, logVars, leaderVars, clientVars, history
<1>0. msgs \subseteq Message /\ \A i \in Server : currentTerm[i] \in Nat
  BY DEF TypeOK
<1>1. CASE \E i, j \in Server : ReplicateToPeer(i, j)
  <2> PICK i \in Server, j \in Server : ReplicateToPeer(i, j)
    BY <1>1
  <2>1. i # j /\ Elected(i, currentTerm[i])
    BY Peers DEF ReplicateToPeer, VoteInv, LeadersElected
  <2>2. \A m \in msgs' : m \in msgs
          \/ (/\ m.type = "AppendEntries" /\ m.from = i /\ m.to = j
              /\ m.term = currentTerm[i])
    BY DEF ReplicateToPeer
  <2>3. UNCHANGED <<nodeVars, votesReceived, ballots, elections>>
    BY DEF ReplicateToPeer
  <2> QED
    BY <2>1, <2>2, <2>3, IdleStep
<1>2. CASE \E m \in msgs : HandleAppendEntries(m)
  <2> PICK m \in msgs : HandleAppendEntries(m)
    BY <1>2
  <2> DEFINE i == m.to
             stepDown == StepsDown(m, i)
  <2>1. /\ i \in Server /\ m.from \in Server /\ m.term \in Nat
        /\ m.type = "AppendEntries"
    BY <1>0, MessageKinds DEF HandleAppendEntries, AppendEntriesMsg
  <2>2. \A n \in msgs' : n \in msgs \/ n.type = "AppendReply"
    BY DEF HandleAppendEntries, AppendReply
  <2>3. UNCHANGED <<wal, votesReceived, ballots, elections>>
    BY DEF HandleAppendEntries
  <2>4. CASE UNCHANGED nodeVars
    BY <2>2, <2>3, <2>4, IdleStep
  <2>5. CASE ~UNCHANGED nodeVars
    <3>1. /\ m.term >= currentTerm[i]
          /\ state' = [state EXCEPT ![i] = IF stepDown THEN "Follower" ELSE @]
          /\ currentTerm' = [currentTerm EXCEPT ![i] = m.term]
          /\ votedFor' = [votedFor EXCEPT ![i] = m.from]
      BY <2>5 DEF HandleAppendEntries
    <3>2. /\ currentTerm'[i] = m.term /\ votedFor'[i] = m.from
          /\ state'[i] = IF stepDown THEN "Follower" ELSE state[i]
          /\ \A k \in Server \ {i} : /\ state'[k] = state[k]
                                     /\ currentTerm'[k] = currentTerm[k]
                                     /\ votedFor'[k] = votedFor[k]
      BY <2>1, <3>1 DEF TypeOK
    <3>3. wal[i].term \in Nat /\ wal[i].term <= currentTerm[i] /\ currentTerm[i] \in Nat
      BY <2>1 DEF TypeOK, VoteInv, BallotsPersisted
    <3>4. currentTerm'[i] >= wal[i].term
      BY <2>1, <3>1, <3>2, <3>3
    <3>5. Justified(i, m.term, m.from) /\ m.from # Nil
      BY <2>1, NilAssumption DEF VoteInv, LeadersElected, Justified
    <3>6. \/ state'[i] = "Follower"
          \/ /\ state'[i] = state[i] /\ currentTerm'[i] = currentTerm[i]
             /\ state[i] # "Candidate"
      <4>1. CASE stepDown
        BY <3>2, <4>1
      <4>2. CASE ~stepDown
        BY <2>1, <3>1, <3>2, <3>3, <4>2 DEF StepsDown
      <4> QED
        BY <4>1, <4>2
    <3> HIDE DEF i, stepDown
    <3> QED
      BY <2>1, <2>2, <2>3, <3>2, <3>4, <3>5, <3>6, QuietStep
  <2> QED
    BY <2>4, <2>5
<1>3. CASE \E m \in msgs : HandleAppendReply(m)
  <2> PICK m \in msgs : HandleAppendReply(m)
    BY <1>3
  <2> DEFINE i == m.to
  <2>1. i \in Server /\ m.term \in Nat
    BY <1>0, MessageKinds DEF HandleAppendReply, AppendReplyMsg
  <2>2. UNCHANGED <<wal, votesReceived, ballots, elections, msgs>>
    BY DEF HandleAppendReply
  <2>3. CASE m.term > currentTerm[i]
    <3>1. transitionToFollower(i, m.term)
      BY <1>0, <2>1, <2>3 DEF HandleAppendReply
    <3> QED
      BY <2>1, <2>2, <2>3, <3>1, StepDown
  <2>4. CASE ~(m.term > currentTerm[i])
    <3>1. UNCHANGED <<state, currentTerm, votedFor>>
      BY <1>0, <2>1, <2>4 DEF HandleAppendReply
    <3> QED
      BY <2>2, <3>1, IdleStep
  <2> QED
    BY <2>3, <2>4
<1> QED
  BY <1>1, <1>2, <1>3

\* A restart takes the term back to that of the last vote written, and the vote
\* with it: what the WAL holds is justified, so what is loaded is.
LEMMA loadStateVoteInv ==
    ASSUME TypeOK, VoteInv, NEW i \in Server, NEW lg, loadState(i, lg)
    PROVE  VoteInv'
<1>1. /\ state'[i] = "Follower" /\ currentTerm'[i] = wal[i].term
      /\ votedFor'[i] = wal[i].votedFor
      /\ \A k \in Server \ {i} :
            /\ state'[k] = state[k] /\ currentTerm'[k] = currentTerm[k]
            /\ votedFor'[k] = votedFor[k] /\ votesReceived'[k] = votesReceived[k]
  BY DEF loadState, TypeOK
<1>2. wal' = wal /\ ballots' = ballots /\ elections' = elections /\ msgs' = msgs
  BY DEF loadState, history
<1>3. /\ wal[i].term \in Nat
      /\ wal[i].votedFor # Nil => Justified(i, wal[i].term, wal[i].votedFor)
      /\ \A b \in ballots : b.voter = i /\ b.term = wal[i].term => wal[i].votedFor # Nil
  BY DEF TypeOK, VoteInv, BallotsPersisted, VotesJustified
<1>4. currentTerm'[i] >= wal[i].term
  BY <1>1, <1>3
<1> QED
  BY <1>1, <1>2, <1>3, <1>4, QuietStep

LEMMA InitVoteInv == Init => VoteInv
  BY DEF Init, VoteInv, BallotsPersisted, VotesJustified, LeadersElected

LEMMA NextVoteInv == TypeOK /\ VoteInv /\ [Next]_vars => VoteInv'
<1> SUFFICES ASSUME TypeOK, VoteInv, [Next]_vars PROVE VoteInv'
  OBVIOUS
<1> USE DEF nodeVars, voteVars, logVars, leaderVars, clientVars, history
<1>1. CASE \/ \E i \in Server : ElectionTimeout(i)
           \/ \E m \in msgs : HandlePreVote(m)
           \/ \E m \in msgs : HandlePreVoteReply(m)
           \/ \E m \in msgs : HandleRequestVote(m)
           \/ \E m \in msgs : HandleVoteReply(m)
  BY <1>1, ElectionVoteInv
<1>2. CASE \/ \E i, j \in Server : ReplicateToPeer(i, j)
           \/ \E m \in msgs : HandleAppendEntries(m)
           \/ \E m \in msgs : HandleAppendReply(m)
  BY <1>2, ReplicationVoteInv
<1>3. CASE \E i \in Server, c \in Command : RejectCommand(i, c) \/ ClientCommand(i, c)
  <2>1. UNCHANGED <<nodeVars, votesReceived, ballots, elections, msgs>>
    BY <1>3 DEF RejectCommand, ClientCommand
  <2> QED
    BY <2>1, IdleStep
<1>4. CASE \E i \in Server : Restart(i)
  BY <1>4, loadStateVoteInv DEF Restart
<1>5. CASE \E m \in msgs : CrashWhileAppending(m)
  <2> PICK m \in msgs : CrashWhileAppending(m)
    BY <1>5
  <2>1. m.to \in Server
    BY MessageKinds DEF TypeOK
  <2>2. \E lg : loadState(m.to, lg)
    BY DEF CrashWhileAppending
  <2> QED
    BY <2>1, <2>2, loadStateVoteInv
<1>6. CASE UNCHANGED vars
  <2>1. UNCHANGED <<nodeVars, votesReceived, ballots, elections, msgs>>
    BY <1>6 DEF vars
  <2> QED
    BY <2>1, IdleStep
<1> QED
  BY <1>1, <1>2, <1>3, <1>4, <1>5, <1>6 DEF Next

\* Votes are accounted for in every state of Spec, on a cluster of any size:
\* ballots are persisted before they count, and every vote in memory, in the
\* WAL, on the wire or in a count is a first vote or one for the elected node.
THEOREM VotesAccounted == Spec => []VoteInv
<1>1. Init => TypeOK /\ VoteInv
  BY InitTypeOK, InitVoteInv
<1>2. TypeOK /\ VoteInv /\ [Next]_vars => (TypeOK /\ VoteInv)'
  BY NextTypeOK, NextVoteInv
<1> QED
  BY <1>1, <1>2, PTL DEF Spec

\* The step from the invariant to the property: two elections of a term share
\* a voter, and a node has one first vote in a term.
LEMMA OneLeader ==
    ASSUME Odd(Cardinality(Server)), TypeOK, VoteInv
    PROVE  ElectionSafety
<1> SUFFICES ASSUME NEW e \in elections, NEW f \in elections, e.term = f.term
             PROVE  e.leader = f.leader
  BY DEF ElectionSafety
<1>1. /\ e.leader \in Server /\ f.leader \in Server
      /\ HasMajority(Config(e.leader), e.leader, e.voters)
      /\ HasMajority(Config(f.leader), f.leader, f.voters)
      /\ \A v \in e.voters : FirstVote(v, e.term, e.leader)
      /\ \A v \in f.voters : FirstVote(v, f.term, f.leader)
  BY DEF VoteInv, LeadersElected, TypeOK, Election
<1> DEFINE C == [old |-> {}, new |-> Server, joint |-> FALSE]
<1>2. Config(e.leader) = C /\ Config(f.leader) = C
  BY <1>1, Peers
<1>3. C.new = Server /\ C.joint = FALSE
  OBVIOUS
<1> HIDE DEF C
<1>4. \E x \in Server : x \in e.voters /\ x \in f.voters
  BY <1>1, <1>2, <1>3, ServerAssumption, SteadyQuorumsIntersect
<1>5. PICK x \in Server : x \in e.voters /\ x \in f.voters
  BY <1>4
<1>6. /\ [voter |-> x, term |-> e.term, cand |-> e.leader] \in ballots
      /\ [voter |-> x, term |-> e.term, cand |-> f.leader] \in ballots
  BY <1>1, <1>5 DEF FirstVote
<1> QED
  BY <1>6 DEF VoteInv, BallotsPersisted

\* A cluster of an odd number of nodes never elects two leaders in a term,
\* although transitionToFollower leaves the new term out of the WAL and
\* HasMajority counts the candidate twice.
THEOREM ElectionSafe ==
    ASSUME Odd(Cardinality(Server))
    PROVE  Spec => []ElectionSafety
<1>1. TypeOK /\ VoteInv => ElectionSafety
  BY OneLeader
<1> QED
  BY <1>1, TypeCorrect, VotesAccounted, PTL

-----------------------------------------------------------------------------
\* Only a proposal changes the log of a node that leads before and after the
\* step: a request to append of its term would come from itself.
LEMMA LeaderLogStep ==
    ASSUME Odd(Cardinality(Server)), TypeOK, VoteInv, [Next]_vars,
           NEW i \in Server, state[i] = "Leader", state'[i] = "Leader"
    PROVE  \/ log'[i] = log[i]
           \/ \E e \in Entry : log'[i] = Append(log[i], e)
<1> USE DEF nodeVars, voteVars, logVars, leaderVars, clientVars, history
<1>0. msgs \subseteq Message /\ \A k \in Server : currentTerm[k] \in Nat
  BY DEF TypeOK
<1>1. CASE \/ \E k \in Server : ElectionTimeout(k)
           \/ \E k, j \in Server : ReplicateToPeer(k, j)
           \/ \E k \in Server, c \in Command : RejectCommand(k, c)
           \/ \E m \in msgs : HandlePreVote(m) \/ HandlePreVoteReply(m)
           \/ \E m \in msgs : HandleRequestVote(m) \/ HandleAppendReply(m)
           \/ UNCHANGED vars
  <2>1. log' = log
    BY <1>1 DEF ElectionTimeout, ReplicateToPeer, RejectCommand, HandlePreVote,
                HandlePreVoteReply, HandleRequestVote, HandleAppendReply, vars
  <2> QED
    BY <2>1
<1>3. CASE \E m \in msgs : HandleVoteReply(m)
  <2> PICK m \in msgs : HandleVoteReply(m)
    BY <1>3
  <2>1. m.to \in Server
    BY <1>0, MessageKinds
  <2>2. CASE log' = log
    BY <2>2
  <2>3. CASE log' # log
    <3>1. state[m.to] = "Candidate" /\ \E x : log' = [log EXCEPT ![m.to] = x]
      BY <2>3 DEF HandleVoteReply, transitionToLeader
    <3> QED
      BY <2>1, <3>1 DEF TypeOK
  <2> QED
    BY <2>2, <2>3
<1>4. CASE \E k \in Server, c \in Command : ClientCommand(k, c)
  <2> PICK k \in Server, c \in Command : ClientCommand(k, c)
    BY <1>4
  <2> DEFINE e == [term |-> currentTerm[k], cmd |-> c]
  <2>1. currentTerm[k] \in Nat /\ currentTerm[k] >= 1
    BY DEF ClientCommand, TypeOK, IndexOK
  <2>2. e \in Entry
    BY <2>1 DEF Entry
  <2>3. log' = [log EXCEPT ![k] = Append(log[k], e)]
    BY DEF ClientCommand
  <2> HIDE DEF e
  <2>4. CASE k = i
    BY <2>2, <2>3, <2>4 DEF TypeOK
  <2>5. CASE k # i
    BY <2>3, <2>5 DEF TypeOK
  <2> QED
    BY <2>4, <2>5
<1>5. CASE \E m \in msgs : HandleAppendEntries(m)
  <2> PICK m \in msgs : HandleAppendEntries(m)
    BY <1>5
  <2>1. m.to \in Server /\ m.term \in Nat /\ m.type = "AppendEntries"
    BY <1>0, MessageKinds DEF HandleAppendEntries, AppendEntriesMsg
  <2>2. CASE m.to # i
    <3>1. log' = log \/ \E x : log' = [log EXCEPT ![m.to] = x]
      BY DEF HandleAppendEntries
    <3> QED
      BY <2>1, <2>2, <3>1 DEF TypeOK
  <2>3. CASE m.to = i
    <3>0. \/ m.term < currentTerm[i] /\ log' = log
          \/ /\ m.term >= currentTerm[i]
             /\ state' = [state EXCEPT ![i] =
                            IF m.term > currentTerm[i] \/ state[i] = "Candidate"
                            THEN "Follower" ELSE @]
      BY <2>3 DEF HandleAppendEntries, StepsDown
    <3>1. CASE m.term < currentTerm[i]
      BY <1>0, <2>1, <3>0, <3>1
    <3>2. CASE m.term > currentTerm[i]
      <4>1. state' = [state EXCEPT ![i] = "Follower"]
        BY <1>0, <2>1, <3>0, <3>2
      <4> QED
        BY <4>1 DEF TypeOK
    <3>3. CASE m.term = currentTerm[i]
      <4>1. /\ m.from # i /\ Elected(m.from, currentTerm[i])
            /\ Elected(i, currentTerm[i])
        BY <2>1, <2>3, <3>3 DEF VoteInv, LeadersElected
      <4>2. ElectionSafety
        BY OneLeader
      <4> QED
        BY <4>1, <4>2 DEF ElectionSafety, Elected
    <3> QED
      BY <1>0, <2>1, <3>1, <3>2, <3>3
  <2> QED
    BY <2>2, <2>3
<1>6. CASE \/ \E k \in Server : Restart(k)
           \/ \E m \in msgs : CrashWhileAppending(m)
  <2>1. \E k \in Server : \E lg : loadState(k, lg)
    <3>1. \A m \in msgs : m.to \in Server
      BY <1>0, MessageKinds
    <3> QED
      BY <1>6, <3>1 DEF Restart, CrashWhileAppending
  <2> PICK k \in Server : \E lg : loadState(k, lg)
    BY <2>1
  <2>2. state' = [state EXCEPT ![k] = "Follower"] /\ \E lg : log' = [log EXCEPT ![k] = lg]
    BY DEF loadState
  <2> QED
    BY <2>2 DEF TypeOK
<1> QED
  BY <1>1, <1>3, <1>4, <1>5, <1>6 DEF Next

\* A leader of an odd cluster never overwrites or deletes an entry of its own
\* log, although processAppendEntries does not look at whether the receiver
\* is a leader before it truncates.
THEOREM LeaderLogGrows ==
    ASSUME Odd(Cardinality(Server))
    PROVE  Spec => LeaderAppendOnly
<1> DEFINE Keeps(i) == state[i] = "Leader" /\ state'[i] = "Leader"
                          => /\ Len(log'[i]) >= Len(log[i])
                             /\ SubSeq(log'[i], 1, Len(log[i])) = log[i]
<1>1. ASSUME TypeOK, VoteInv, [Next]_vars, NEW i \in Server
      PROVE  Keeps(i)
  <2> SUFFICES ASSUME state[i] = "Leader", state'[i] = "Leader"
               PROVE  /\ Len(log'[i]) >= Len(log[i])
                      /\ SubSeq(log'[i], 1, Len(log[i])) = log[i]
    OBVIOUS
  <2>1. log[i] \in Seq(Entry) /\ Len(log[i]) \in Nat
    BY <1>1, LenProperties DEF TypeOK
  <2>2. SubSeq(log[i], 1, Len(log[i])) = log[i]
    BY <2>1, SubSeqFull
  <2>3. ASSUME NEW e \in Entry
        PROVE  /\ Len(Append(log[i], e)) = Len(log[i]) + 1
               /\ SubSeq(Append(log[i], e), 1, Len(log[i])) = log[i]
    <3> DEFINE a == Append(log[i], e)
               p == SubSeq(a, 1, Len(log[i]))
    <3>1. /\ Len(a) = Len(log[i]) + 1
          /\ \A n \in 1..Len(log[i]) : a[n] = log[i][n] /\ a[n] \in Entry
      BY <2>1, AppendProperties, ElementOfSeq
    <3> HIDE DEF a
    <3>2. /\ p \in Seq(Entry) /\ Len(p) = Len(log[i])
          /\ \A n \in 1..Len(log[i]) : p[n] = log[i][n]
      BY <2>1, <3>1, SubSeqProperties
    <3> HIDE DEF p
    <3>3. p = log[i]
      BY <2>1, <3>2, SeqEqual
    <3> QED
      BY <3>1, <3>3 DEF a, p
  <2>4. \/ log'[i] = log[i]
        \/ \E e \in Entry : log'[i] = Append(log[i], e)
    BY <1>1, LeaderLogStep
  <2> QED
    BY <2>1, <2>2, <2>3, <2>4
<1>2. TypeOK /\ VoteInv /\ [Next]_vars => [\A i \in Server : Keeps(i)]_vars
  BY <1>1
<1> QED
  BY <1>2, TypeCorrect, VotesAccounted, PTL DEF Spec, LeaderAppendOnly
=============================================================================
