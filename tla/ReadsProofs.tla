----------------------------- MODULE ReadsProofs -----------------------------
(***************************************************************************)
(* Safe reads of an odd cluster are fresh, and what any read has returned  *)
(* stays, as long as no restart takes a node back to an older term.        *)
(*                                                                         *)
(* Two things are added to the invariant of RaftCommitProofs.  First, what *)
(* is committed anywhere was committed by the leader of some term, and as  *)
(* long as that leader leads, its own commit index covers it.  So a leader *)
(* that has committed in its term knows everything that was committed in   *)
(* its term or before.  Second, what it does not know was committed in a   *)
(* later term, by a majority that has entered that term; and none of these *)
(* acknowledges a probe of the earlier one.                                *)
(***************************************************************************)
EXTENDS Reads, RaftCommitProofs

UnderWay == read.phase \in {"begun", "probing", "confirmed"}

\* A read that is under way runs at a node.
ReadTypes == ReadsTypeOK /\ (UnderWay => read.node \in Server)
-----------------------------------------------------------------------------
(***************************************************************************)
(* Types.                                                                  *)
(***************************************************************************)
\* What a node has applied are commands, and no-ops that kv leaves out.
LEMMA kvType ==
    ASSUME TypeOK, NEW i \in Server
    PROVE  kv(i) \subseteq Command
<1>1. \A n \in 1..Len(applied[i]) : applied[i][n] \in Entry
  BY ElementOfSeq DEF TypeOK
<1> QED
  BY <1>1 DEF kv, Entry

\* processAppendEntries with a probe: it is stale, it is refused or has nothing
\* to commit, or it moves the commit index.
LEMMA ProbeCases ==
    ASSUME TypeOK, ReadTypes, NEW j \in Server, HandleProbe(j)
    PROVE  /\ read.phase = "probing" /\ j \in read.asked
           /\ read.node \in Server /\ read.term \in Nat /\ read.prev \in Nat
           /\ read.commit \in Nat
           /\ UNCHANGED <<log, wal, votesReceived, preVoteVotesReceived, nextIndex,
                          matchIndex, msgs, incarnation, ballots, elections>>
           /\ UNCHANGED <<lastHeartbeatQuorum, reads, returned>>
           /\ \/ /\ read.term < currentTerm[j]
                 /\ UNCHANGED <<state, currentTerm, votedFor, commitIndex, applied,
                                proposals, replies>>
              \/ /\ read.term >= currentTerm[j]
                 /\ currentTerm' = [currentTerm EXCEPT ![j] = read.term]
                 /\ votedFor' = [votedFor EXCEPT ![j] = read.node]
                 /\ \/ state' = [state EXCEPT ![j] = "Follower"]
                    \/ /\ state' = state /\ state[j] # "Candidate"
                       /\ read.term = currentTerm[j]
                 /\ \/ /\ UNCHANGED <<commitIndex, applied>>
                       /\ CancelProposals(j) \/ UNCHANGED <<proposals, replies>>
                    \/ /\ read.prev <= Len(log[j]) /\ read.commit > commitIndex[j]
                       /\ getEntryTerm(log[j], read.prev) = read.prevTerm
                       /\ \E props : /\ props \subseteq proposals[j]
                                     /\ applyLogs(j, log[j],
                                           Min({read.commit, Len(log[j])}), props)
<1> USE DEF clientVars, voteVars, leaderVars, history
<1>1. /\ read.phase = "probing" /\ j \in read.asked
      /\ UNCHANGED <<log, wal, votesReceived, preVoteVotesReceived, nextIndex,
                     matchIndex, msgs, incarnation, ballots, elections>>
      /\ UNCHANGED <<lastHeartbeatQuorum, reads, returned>>
  BY DEF HandleProbe
<1>2. /\ read.node \in Server /\ read.term \in Nat /\ read.prev \in Nat
      /\ read.commit \in Nat
  BY <1>1 DEF ReadTypes, UnderWay, ReadsTypeOK, Read
<1>3. PICK m : m = Probe(j)
  OBVIOUS
<1>4. /\ m.term = read.term /\ m.from = read.node /\ m.prevIndex = read.prev
      /\ m.prevTerm = read.prevTerm /\ m.leaderCommit = read.commit
  BY <1>3 DEF Probe
<1>5. \/ /\ read.term < currentTerm[j]
         /\ UNCHANGED <<state, currentTerm, votedFor, commitIndex, applied,
                        proposals, replies>>
      \/ /\ read.term >= currentTerm[j]
         /\ currentTerm' = [currentTerm EXCEPT ![j] = read.term]
         /\ votedFor' = [votedFor EXCEPT ![j] = read.node]
         /\ state' = [state EXCEPT ![j] = IF StepsDown(m, j) THEN "Follower" ELSE @]
         /\ \/ /\ UNCHANGED <<commitIndex, applied>>
               /\ CancelProposals(j) \/ UNCHANGED <<proposals, replies>>
            \/ /\ PrevMatches(log[j], m) /\ read.commit > commitIndex[j]
               /\ \E props \in {{}, proposals[j]} :
                     applyLogs(j, log[j], Min({read.commit, Len(log[j])}), props)
  BY <1>3, <1>4, Zenon DEF HandleProbe
<1>6. CASE /\ read.term < currentTerm[j]
           /\ UNCHANGED <<state, currentTerm, votedFor, commitIndex, applied,
                          proposals, replies>>
  BY <1>1, <1>2, <1>6
<1>7. ASSUME read.term >= currentTerm[j],
             state' = [state EXCEPT ![j] = IF StepsDown(m, j) THEN "Follower" ELSE @]
      PROVE  \/ state' = [state EXCEPT ![j] = "Follower"]
             \/ state' = state /\ state[j] # "Candidate" /\ read.term = currentTerm[j]
  <2>1. CASE StepsDown(m, j)
    BY <1>7, <2>1
  <2>2. CASE ~StepsDown(m, j)
    <3>1. state[j] # "Candidate" /\ ~(read.term > currentTerm[j])
      BY <1>4, <2>2 DEF StepsDown
    <3>2. currentTerm[j] \in Nat
      BY DEF TypeOK
    <3>3. state' = state
      BY <1>7, <2>2 DEF TypeOK
    <3> QED
      BY <1>2, <1>7, <3>1, <3>2, <3>3
  <2> QED
    BY <2>1, <2>2
<1>8. ASSUME PrevMatches(log[j], m)
      PROVE  read.prev <= Len(log[j]) /\ getEntryTerm(log[j], read.prev) = read.prevTerm
  BY <1>4, <1>8 DEF PrevMatches
<1>9. ASSUME \E props \in {{}, proposals[j]} :
                applyLogs(j, log[j], Min({read.commit, Len(log[j])}), props)
      PROVE  \E props : /\ props \subseteq proposals[j]
                        /\ applyLogs(j, log[j], Min({read.commit, Len(log[j])}), props)
  BY <1>9, Zenon
<1>10. CASE ~(read.term < currentTerm[j])
  BY <1>1, <1>2, <1>5, <1>7, <1>8, <1>9, <1>10
<1>11. currentTerm[j] \in Nat
  BY DEF TypeOK
<1> QED
  BY <1>2, <1>5, <1>6, <1>10, <1>11

LEMMA ProbeTypeOK ==
    ASSUME TypeOK, ReadTypes, NEW j \in Server, HandleProbe(j)
    PROVE  TypeOK'
<1>0. /\ read.node \in Server /\ read.term \in Nat /\ read.commit \in Nat
      /\ UNCHANGED <<log, wal, votesReceived, preVoteVotesReceived, nextIndex,
                     matchIndex, msgs, incarnation, ballots, elections>>
  BY ProbeCases
<1>1. \A k \in Server : /\ currentTerm[k] \in Nat /\ commitIndex[k] \in Nat
                        /\ log[k] \in Seq(Entry) /\ Len(log[k]) \in Nat
                        /\ state[k] # "Follower" => currentTerm[k] >= 1
  BY LenProperties DEF TypeOK, IndexOK
<1>2. CASE UNCHANGED <<state, currentTerm, votedFor, commitIndex, applied, proposals, replies>>
  BY <1>0, <1>2 DEF TypeOK, IndexOK
<1>3. CASE /\ currentTerm' = [currentTerm EXCEPT ![j] = read.term]
           /\ read.term >= currentTerm[j]
           /\ votedFor' = [votedFor EXCEPT ![j] = read.node]
           /\ state' = [state EXCEPT ![j] = "Follower"] \/ state' = state
           /\ \/ /\ UNCHANGED <<commitIndex, applied>>
                 /\ CancelProposals(j) \/ UNCHANGED <<proposals, replies>>
              \/ \E props : /\ props \subseteq proposals[j]
                            /\ applyLogs(j, log[j], Min({read.commit, Len(log[j])}), props)
  <2>1. /\ state' \in [Server -> {"Follower", "Candidate", "Leader"}]
        /\ currentTerm' \in [Server -> Nat]
        /\ votedFor' \in [Server -> Server \cup {Nil}]
    BY <1>0, <1>3 DEF TypeOK
  <2>2. ASSUME NEW k \in Server
        PROVE  /\ state'[k] # "Follower" => currentTerm'[k] >= 1
               /\ state'[k] = "Leader" => state[k] = "Leader"
    <3>1. state \in [Server -> {"Follower", "Candidate", "Leader"}]
          /\ currentTerm \in [Server -> Nat]
      BY DEF TypeOK
    <3>2. CASE k = j
      BY <1>0, <1>1, <1>3, <3>1, <3>2
    <3>3. CASE k # j
      BY <1>1, <1>3, <3>1, <3>3
    <3> QED
      BY <3>2, <3>3
  <2>3. /\ commitIndex' \in [Server -> Nat] /\ applied' \in [Server -> Seq(Entry)]
        /\ proposals' \in [Server -> SUBSET Proposal]
        /\ replies' \in [Command -> {"none", "pending", "success", "failure"}]
    <3>1. CASE /\ UNCHANGED <<commitIndex, applied>>
               /\ CancelProposals(j) \/ UNCHANGED <<proposals, replies>>
      BY <3>1, CancelProposalsType DEF TypeOK
    <3>2. CASE \E props : /\ props \subseteq proposals[j]
                          /\ applyLogs(j, log[j], Min({read.commit, Len(log[j])}), props)
      <4>1. PICK n : n = Min({read.commit, Len(log[j])})
        OBVIOUS
      <4>2. n \in Nat /\ n <= Len(log[j])
        BY <1>0, <1>1, <4>1, MinOfNats
      <4>3. PICK props : props \subseteq proposals[j] /\ applyLogs(j, log[j], n, props)
        BY <3>2, <4>1
      <4>4. props \in SUBSET Proposal
        BY <4>3 DEF TypeOK
      <4> QED
        BY <1>1, <4>2, <4>3, <4>4, applyLogsType
    <3> QED
      BY <1>3, <3>1, <3>2
  <2> QED
    BY <1>0, <2>1, <2>2, <2>3 DEF TypeOK, IndexOK
<1> QED
  BY <1>2, <1>3, ProbeCases

\* Types of the read, for every step.
LEMMA NextReadTypes ==
    ASSUME TypeOK, ReadTypes, [NextReads]_allVars
    PROVE  ReadTypes'
<1> USE DEF ReadTypes, ReadsTypeOK, UnderWay
<1>0. \A i \in Server : /\ currentTerm[i] \in Nat /\ commitIndex[i] \in Nat
                        /\ incarnation[i] \in Nat /\ log[i] \in Seq(Entry)
                        /\ Len(log[i]) \in Nat /\ lastLogTerm(log[i]) \in Nat
                        /\ effectivePeers(i) \subseteq Server
  <2>1. \A i \in Server : log[i] \in Seq(Entry) /\ Len(log[i]) \in Nat
    BY LenProperties DEF TypeOK
  <2>2. \A i \in Server : lastLogTerm(log[i]) \in Nat
    BY <2>1, getEntryTermType DEF lastLogTerm
  <2>3. \A i \in Server : effectivePeers(i) \subseteq Server
    BY Peers
  <2> QED
    BY <2>1, <2>2, <2>3 DEF TypeOK
<1>1. NoRead \in Read
  BY DEF NoRead, Read
<1>2. ASSUME NEW r \in Read, NEW result \in SUBSET Command, Answered(r, result)
      PROVE  read' \in Read /\ read'.phase = "answered" /\ returned' \subseteq Command
  BY <1>1, <1>2 DEF Answered, Read, NoRead
<1>3. CASE UNCHANGED readVars
  BY <1>3 DEF readVars
<1>4. ASSUME NEW i \in Server, NEW mode \in Mode, Get(i, mode) PROVE ReadTypes'
  <2> DEFINE r == [phase |-> "begun", mode |-> mode, node |-> i, inc |-> incarnation[i],
              term |-> currentTerm[i], readIndex |-> commitIndex[i], prev |-> 0,
              prevTerm |-> 0, commit |-> 0, asked |-> {}, acks |-> {i},
              result |-> {}, floor |-> Acked \cup returned, own |-> OwnCommitted(i)]
  <2>1. r \in Read
    <3>1. mode \in {"safe", "lease", "local"} /\ Acked \cup returned \in SUBSET Command
      BY ReadsAssumption DEF Acked
    <3>2. OwnCommitted(i) \in BOOLEAN
      BY DEF OwnCommitted
    <3> QED
      BY <1>0, <3>1, <3>2 DEF Read
  <2>2. /\ reads' = reads + 1 /\ reads < MaxReads /\ UNCHANGED lastHeartbeatQuorum
        /\ \/ Answered(r, kv(i))
           \/ read' = r /\ UNCHANGED returned
    BY <1>4, Zenon DEF Get
  <2>3. r.phase = "begun" /\ r.node = i
    OBVIOUS
  <2>4. reads' \in 0..MaxReads
    BY <2>2, ReadsAssumption
  <2> HIDE DEF r
  <2> QED
    BY <1>2, <2>1, <2>2, <2>3, <2>4, kvType
<1>5. CASE AskPeers
  BY <1>0, <1>5 DEF AskPeers, Read
<1>6. ASSUME NEW j \in Server, HandleProbe(j) PROVE ReadTypes'
  <2>1. /\ read.phase = "probing" /\ UNCHANGED <<lastHeartbeatQuorum, reads, returned>>
        /\ \E A : A \subseteq read.acks \cup {j}
                  /\ read' = [read EXCEPT !.asked = @ \ {j}, !.acks = A]
    BY <1>6 DEF HandleProbe
  <2>2. PICK A : /\ A \subseteq read.acks \cup {j}
                 /\ read' = [read EXCEPT !.asked = @ \ {j}, !.acks = A]
    BY <2>1
  <2>3. A \in SUBSET Server /\ read.asked \ {j} \in SUBSET Server
    BY <2>2 DEF Read
  <2>4. read' \in Read /\ read'.node = read.node
    BY <2>2, <2>3 DEF Read
  <2> QED
    BY <2>1, <2>4
<1>7. CASE ConfirmLeaderQuorum
  BY <1>7 DEF ConfirmLeaderQuorum, Read
<1>8. CASE Refuse
  BY <1>1, <1>8 DEF Refuse, NoRead
<1>9. CASE Finish
  <2>1. read.node \in Server /\ read \in Read
    BY <1>9 DEF Finish
  <2>2. Answered(read, kv(read.node)) /\ UNCHANGED <<lastHeartbeatQuorum, reads>>
    BY <1>9 DEF Finish
  <2> QED
    BY <1>2, <2>1, <2>2, kvType
<1>10. ASSUME NEW i \in Server, LeaseEnds(i) PROVE ReadTypes'
  BY <1>10 DEF LeaseEnds
<1> QED
  BY <1>3, <1>4, <1>5, <1>6, <1>7, <1>8, <1>9, <1>10 DEF NextReads, allVars

LEMMA ReadTypesInit == InitReads => ReadTypes
  BY ReadsAssumption DEF InitReads, ReadTypes, ReadsTypeOK, UnderWay, NoRead, Read

LEMMA NextReadsTypeOK ==
    ASSUME TypeOK, ReadTypes, [NextReads]_allVars
    PROVE  TypeOK'
<1>1. CASE UNCHANGED vars
  <2>1. [Next]_vars
    BY <1>1
  <2> QED
    BY <2>1, NextTypeOK
<1>2. CASE Next
  BY <1>2, NextTypeOK
<1> QED
  BY <1>1, <1>2, ProbeTypeOK DEF NextReads, allVars, Get, AskPeers, ConfirmLeaderQuorum,
     Refuse, Finish, LeaseEnds

\* The read and what it keeps are well typed, whatever happens while Get has
\* unlocked, in confirmLeaderQuorum and in waitForAppliedIndex.
THEOREM ReadsTypeCorrect == SpecReads => []ReadsTypeOK
<1>1. Init /\ InitReads => TypeOK /\ ReadTypes
  BY InitTypeOK, ReadTypesInit
<1>2. TypeOK /\ ReadTypes /\ [NextReads]_allVars => (TypeOK /\ ReadTypes)'
  BY NextReadsTypeOK, NextReadTypes
<1>3. ReadTypes => ReadsTypeOK
  BY DEF ReadTypes
<1> QED
  BY <1>1, <1>2, <1>3, PTL DEF SpecReads
-----------------------------------------------------------------------------
(***************************************************************************)
(* The invariant.                                                          *)
(***************************************************************************)
\* As long as the leader of term t leads, it knows what is committed up to n.
Knows(t, n) ==
    \A i \in Server : state[i] = "Leader" /\ currentTerm[i] = t => n <= commitIndex[i]

\* The leader of term t has committed up to its entry at index k.
Announced(LL, t, k) == Chosen(LL, t, k) /\ Knows(t, k)

AnnouncedUpTo(LL, c, u) ==
    \E t \in Nat, k \in Nat : t <= u /\ c <= k /\ Announced(LL, t, k)

\* The command is among the entries that some leader has committed.
Served(LL, c) ==
    \E t \in Nat, k \in Nat : Announced(LL, t, k) /\ \E n \in 1..k : LL[t][n].cmd = c

CommitsAnnounced(LL) ==
    \A i \in Server :
        commitIndex[i] > 0 => AnnouncedUpTo(LL, commitIndex[i], currentTerm[i])
RequestsAnnounced(LL) ==
    \A m \in msgs : m.type = "AppendEntries" /\ m.leaderCommit > 0
        => AnnouncedUpTo(LL, m.leaderCommit, m.term)
AnswersServed(LL) == \A c \in Acked \cup returned : Served(LL, c)

\* A probe is a request to append of a leader, and ends with an entry of its term.
Probing(LL) ==
    read.phase = "probing" =>
        /\ read.node \notin read.asked /\ Elected(read.node, read.term)
        /\ Has(LL[read.term], read.term, read.prev) /\ read.prevTerm = read.term
        /\ read.commit > 0 => AnnouncedUpTo(LL, read.commit, read.term)

\* The command is among the entries that the read waits for.
Indexed(LL, c) ==
    \E n \in Nat : /\ n >= 1 /\ n <= read.readIndex /\ n <= Len(LL[read.term])
                   /\ LL[read.term][n].cmd = c

\* A majority that has not acknowledged the probe has left the term of the read.
Overtaken ==
    \E q \in Server, Q \in SUBSET Server :
        /\ HasMajority(Config(q), q, Q)
        /\ \A j \in Q : j \notin read.acks /\ currentTerm[j] > read.term

Fresh(LL) ==
    read.own /\ UnderWay =>
        \A c \in read.floor : Indexed(LL, c) \/ (read.phase # "confirmed" /\ Overtaken)

ReadOK(LL) ==
    /\ CommitsAnnounced(LL) /\ RequestsAnnounced(LL) /\ AnswersServed(LL)
    /\ Probing(LL) /\ Fresh(LL) /\ SafeReadsFresh

\* The inductive invariant of SpecReads /\ TermsKept.
ReadInv == \E LL \in Ledger : LedgerOK(LL) /\ CommitOK(LL) /\ ReadOK(LL)
-----------------------------------------------------------------------------
(***************************************************************************)
(* A probe is processed like a request to append.                          *)
(***************************************************************************)
\* No node steps down because of a probe without entering a later term, unless
\* it was a candidate; a leader stays as it is.
LEMMA ProbeCalm ==
    ASSUME Odd(Cardinality(Server)), TypeOK, ReadTypes, VoteInv, NEW LL, Probing(LL),
           NEW j \in Server, HandleProbe(j)
    PROVE  /\ VoteInv' /\ Onward
           /\ \A k \in Server :
                 \/ state'[k] = state[k] /\ currentTerm'[k] = currentTerm[k]
                 \/ state'[k] = "Follower" /\ currentTerm'[k] >= currentTerm[k]
           /\ \A k \in Server : state'[k] = "Leader" =>
                 /\ state[k] = "Leader" /\ currentTerm'[k] = currentTerm[k]
                 /\ commitIndex'[k] = commitIndex[k]
<1>0. /\ read.phase = "probing" /\ j \in read.asked /\ read.node \in Server
      /\ read.term \in Nat /\ read.commit \in Nat
      /\ UNCHANGED <<log, wal, votesReceived, msgs, ballots, elections>>
  BY ProbeCases
<1>1. read.node # j /\ Elected(read.node, read.term)
  BY <1>0 DEF Probing
<1>2. \A k \in Server : /\ currentTerm[k] \in Nat /\ wal[k].term \in Nat
                        /\ wal[k].term <= currentTerm[k]
  BY DEF TypeOK, VoteInv, BallotsPersisted
<1>3. CASE UNCHANGED <<state, currentTerm, votedFor, commitIndex>>
  <2>1. VoteInv'
    BY <1>0, <1>3, IdleStep DEF nodeVars
  <2> QED
    BY <1>0, <1>2, <1>3, <2>1 DEF Onward
<1>4. CASE /\ read.term >= currentTerm[j]
           /\ currentTerm' = [currentTerm EXCEPT ![j] = read.term]
           /\ votedFor' = [votedFor EXCEPT ![j] = read.node]
           /\ \/ state' = [state EXCEPT ![j] = "Follower"]
              \/ /\ state' = state /\ state[j] # "Candidate"
                 /\ read.term = currentTerm[j]
           /\ \/ UNCHANGED commitIndex
              \/ \E n : commitIndex' = [commitIndex EXCEPT ![j] = n]
  <2>1. /\ currentTerm'[j] = read.term /\ votedFor'[j] = read.node
        /\ \/ state'[j] = "Follower"
           \/ /\ state'[j] = state[j] /\ currentTerm'[j] = currentTerm[j]
              /\ state[j] # "Candidate"
        /\ \A k \in Server \ {j} :
              /\ state'[k] = state[k] /\ currentTerm'[k] = currentTerm[k]
              /\ votedFor'[k] = votedFor[k] /\ commitIndex'[k] = commitIndex[k]
    BY <1>4 DEF TypeOK
  <2>2. state'[j] # "Leader"
    <3>1. CASE state' = [state EXCEPT ![j] = "Follower"]
      BY <3>1 DEF TypeOK
    <3>2. CASE state' = state /\ read.term = currentTerm[j]
      <4>1. state[j] = "Leader" => Elected(j, read.term)
        BY <3>2 DEF VoteInv, LeadersElected
      <4>2. ElectionSafety
        BY OneLeader
      <4> QED
        BY <1>1, <3>2, <4>1, <4>2 DEF ElectionSafety, Elected
    <3> QED
      BY <1>4, <3>1, <3>2
  <2>3. currentTerm'[j] >= wal[j].term /\ currentTerm'[j] >= currentTerm[j]
    BY <1>0, <1>2, <1>4, <2>1
  <2>4. Justified(j, currentTerm'[j], votedFor'[j]) /\ votedFor'[j] # Nil
    BY <1>0, <1>1, <2>1, NilAssumption DEF Justified
  <2>5. VoteInv'
    BY <1>0, <2>1, <2>3, <2>4, QuietStep
  <2>6. Onward
    BY <1>0, <1>2, <2>1, <2>3 DEF Onward
  <2> QED
    BY <2>1, <2>2, <2>3, <2>5, <2>6
<1>5. \/ UNCHANGED <<state, currentTerm, votedFor, commitIndex>>
      \/ /\ read.term >= currentTerm[j]
         /\ currentTerm' = [currentTerm EXCEPT ![j] = read.term]
         /\ votedFor' = [votedFor EXCEPT ![j] = read.node]
         /\ \/ state' = [state EXCEPT ![j] = "Follower"]
            \/ /\ state' = state /\ state[j] # "Candidate"
               /\ read.term = currentTerm[j]
         /\ \/ UNCHANGED commitIndex
            \/ \E n : commitIndex' = [commitIndex EXCEPT ![j] = n]
  BY ProbeCases DEF applyLogs
<1> QED
  BY <1>3, <1>4, <1>5

\* A peer whose log matches the probe has a beginning of the leader's log.
LEMMA ProbeMatches ==
    ASSUME TypeOK, ReadTypes, NEW LL, LedgerOK(LL), CommitOK(LL), Probing(LL),
           read.phase = "probing", NEW j \in Server, NEW u \in Nat, u = read.term,
           NEW p \in Nat, p = read.prev, currentTerm[j] <= u,
           p <= Len(log[j]), getEntryTerm(log[j], p) = read.prevTerm
    PROVE  Same(log[j], LL[u], Len(log[j])) /\ LL[u] # << >>
<1>1. LL \in Ledger /\ LL[u] \in Seq(Entry) /\ Agrees(LL[u], LL)
  BY LedgerLog
<1>2. Has(LL[u], u, p) /\ read.prevTerm = u
  BY DEF Probing
<1>3. u > 0 /\ p >= 1
  BY <1>1, <1>2, HasAgrees
<1>4. /\ log[j] \in Seq(Entry) /\ Len(log[j]) \in Nat /\ Agrees(log[j], LL)
      /\ currentTerm[j] \in Nat
  BY NodeLog DEF TypeOK
<1>5. PICK l \in Nat : l = Len(log[j])
  BY <1>4
<1>6. p \in 1..l /\ l \in 1..l /\ log[j][p].term = u
  BY <1>2, <1>3, <1>4, <1>5 DEF getEntryTerm
<1>7. log[j][p].term <= log[j][l].term
  BY <1>1, <1>4, <1>5, <1>6, LogOrdered DEF CommitOK
<1>8. log[j][l].term \in Nat /\ log[j][l].term <= currentTerm[j]
  BY <1>4, <1>5, <1>6, EntryAt DEF CommitOK, TermsReached
<1>9. Has(log[j], u, l)
  BY <1>4, <1>5, <1>6, <1>7, <1>8 DEF Has
<1>10. LL[u] # << >>
  <2>1. Len(<< >>) = 0
    OBVIOUS
  <2> QED
    BY <1>2, <2>1 DEF Has
<1> QED
  BY <1>1, <1>4, <1>5, <1>9, <1>10, HasAgrees

LEMMA ProbeCommit ==
    ASSUME Odd(Cardinality(Server)), TypeOK, ReadTypes, VoteInv, NEW LL, LedgerOK(LL),
           CommitOK(LL), Probing(LL), NEW j \in Server, HandleProbe(j)
    PROVE  LedgerOK(LL)' /\ CommitOK(LL)'
<1>0. /\ Extends(LL, LL) /\ TypeOK' /\ Onward
      /\ \A k \in Server :
            \/ state'[k] = state[k] /\ currentTerm'[k] = currentTerm[k]
            \/ state'[k] = "Follower" /\ currentTerm'[k] >= currentTerm[k]
      /\ \A k \in Server : state'[k] = "Leader" =>
            /\ state[k] = "Leader" /\ currentTerm'[k] = currentTerm[k]
            /\ commitIndex'[k] = commitIndex[k]
  BY ExtendsItself, ProbeTypeOK, ProbeCalm
<1>1. /\ read.phase = "probing" /\ read.term \in Nat /\ read.prev \in Nat /\ read.commit \in Nat
      /\ UNCHANGED <<log, wal, nextIndex, matchIndex, msgs, ballots, elections>>
  BY ProbeCases
<1>2. LedgerOK(LL)'
  BY <1>0, <1>1, QuietLedger
<1>3. CASE /\ UNCHANGED <<commitIndex, applied>>
           /\ CancelProposals(j) \/ UNCHANGED <<proposals, replies>>
  <2>1. /\ \A k \in Server : proposals'[k] \subseteq proposals[k]
        /\ \A c \in Command : replies'[c] = "success" => replies[c] = "success"
    BY <1>3, CancelTellsNobody
  <2>2. CommitOK(LL)'
    BY <1>0, <1>1, <1>3, <2>1, IdleCommit
  <2> QED
    BY <1>2, <2>2
<1>4. CASE /\ read.term >= currentTerm[j]
           /\ currentTerm' = [currentTerm EXCEPT ![j] = read.term]
           /\ read.prev <= Len(log[j]) /\ read.commit > commitIndex[j]
           /\ getEntryTerm(log[j], read.prev) = read.prevTerm
           /\ \E props : /\ props \subseteq proposals[j]
                         /\ applyLogs(j, log[j], Min({read.commit, Len(log[j])}), props)
  <2>1. PICK u \in Nat, d \in Nat, c \in Nat, lg \in Seq(Entry) :
           u = read.term /\ d = read.commit /\ c = commitIndex[j] /\ lg = log[j]
    BY <1>1 DEF TypeOK
  <2>2. /\ Len(lg) \in Nat /\ Agrees(lg, LL) /\ LL \in Ledger /\ LL[u] \in Seq(Entry)
    BY <2>1, NodeLog, LedgerLog
  <2>3. Same(lg, LL[u], Len(lg)) /\ LL[u] # << >>
    <3>1. currentTerm[j] <= u
      BY <1>4, <2>1 DEF TypeOK
    <3> QED
      BY <1>1, <1>4, <2>1, <3>1, ProbeMatches
  <2>4. PICK n : n = Min({read.commit, Len(lg)})
    OBVIOUS
  <2>5. Applies(j) /\ Proposed(LL)
    BY DEF CommitOK, AppliedIs
  <2>6. n \in Nat /\ n <= d /\ n <= Len(lg) /\ c <= n /\ d > 0
    <3>1. n \in {d, Len(lg)} /\ n <= d /\ n <= Len(lg)
      BY <2>1, <2>2, <2>4, MinOfNats
    <3>2. d > c
      BY <1>4, <2>1
    <3>3. c <= Len(lg)
      BY <2>1, <2>5 DEF Applies, Same
    <3> QED
      BY <2>1, <2>2, <3>1, <3>2, <3>3
  <2>7. PICK props : props \subseteq proposals[j] /\ applyLogs(j, lg, n, props)
    BY <1>4, <2>1, <2>4
  <2>8. Settled(LL, lg, n, u)
    <3>1. PICK t \in Nat, k \in Nat : t <= u /\ d <= k /\ Chosen(LL, t, k)
      BY <1>1, <2>1, <2>6 DEF Probing, AnnouncedUpTo, Announced
    <3>2. Same(LL[u], LL[t], k)
      BY <2>3, <3>1, ChosenSame
    <3>3. n <= k /\ LL[t] \in Seq(Entry)
      BY <2>1, <2>6, <3>1, LedgerLog
    <3>4. Same(LL[u], LL[t], n) /\ Same(lg, LL[u], n)
      BY <2>2, <2>3, <2>6, <3>2, <3>3, SameShorter
    <3> QED
      BY <3>1, <3>3, <3>4, SameTrans DEF Settled
  <2>9. Same(lg, lg, n)
    BY <2>6 DEF Same
  <2>10. Settled(LL, lg, n, u)'
    BY <1>0, <2>6, <2>8, <2>9, SettledStays
  <2>11. /\ Same(applied[j], lg, commitIndex[j]) /\ commitIndex[j] <= n
         /\ log'[j] = lg /\ currentTerm'[j] = u
    BY <1>1, <1>4, <2>1, <2>5, <2>6 DEF Applies, TypeOK
  <2>12. /\ Applies(j)' /\ commitIndex'[j] = n
         /\ \A k \in Server \ {j} : /\ commitIndex'[k] = commitIndex[k]
                                    /\ applied'[k] = applied[k]
         /\ \A k \in Server : proposals'[k] \subseteq proposals[k]
         /\ \A e \in Command :
               replies'[e] = "success" => replies[e] = "success" \/ ChosenCommand(LL, e)'
    BY <2>2, <2>5, <2>6, <2>7, <2>10, <2>11, applyLogsCommit
  <2>13. ASSUME NEW k \in Server PROVE Commits(LL, k)' /\ Applies(k)'
    <3>1. CASE k = j
      BY <2>10, <2>11, <2>12, <3>1 DEF Commits
    <3>2. CASE k # j
      <4>1. Applies(k) /\ Commits(LL, k) /\ Len(log[k]) \in Nat /\ commitIndex[k] \in Nat
        BY LenProperties DEF CommitOK, AppliedIs, Committed, TypeOK
      <4>2. Same(log[k], log'[k], commitIndex[k])
        BY <1>1, <4>1 DEF Applies, Same
      <4> QED
        BY <1>0, <2>12, <3>2, <4>1, <4>2, CommitsKept, AppliesKept
    <3> QED
      BY <3>1, <3>2
  <2>14. Proposed(LL)' /\ Told(LL)'
    BY <1>0, <2>5, <2>12, ProposedKept, ChosenCommandStays DEF Told, CommitOK
  <2>15. Leading'
    <3> SUFFICES ASSUME NEW k \in Server PROVE Leads(k)'
      BY DEF Leading
    <3>1. Leads(k) /\ Len(log[k]) \in Nat
      BY LenProperties DEF CommitOK, Leading, TypeOK
    <3> QED
      BY <1>0, <1>1, <3>1, LeadsKept
  <2>16. Candidacies(LL)'
    <3>1. \A k \in Server : wal'[k].term >= wal[k].term
      BY <1>1 DEF TypeOK
    <3>2. \A k \in Server : state'[k] = "Candidate" =>
             state[k] = "Candidate" /\ currentTerm'[k] = currentTerm[k] /\ log'[k] = log[k]
      BY <1>0, <1>1
    <3> QED
      BY <1>0, <1>1, <3>1, <3>2, CandidaciesKept DEF CommitOK
  <2>17. NewAcks(LL, LL)
    BY <1>1, NoNewAcks
  <2>18. TermsReached' /\ Requested(LL)' /\ Replied(LL)'
    BY <1>0, <1>1, TermsReachedKept, RequestedKept, RepliedKept DEF CommitOK
  <2>19. Kept(LL)' /\ Voted(LL)'
    BY <1>0, <1>1, <2>17, KeptKept, VotedKept DEF CommitOK
  <2> QED
    BY <1>2, <2>13, <2>14, <2>15, <2>16, <2>18, <2>19 DEF CommitOK, Committed, AppliedIs
<1> QED
  BY <1>3, <1>4, ProbeCases
-----------------------------------------------------------------------------
(***************************************************************************)
(* What every step of module Raft leaves true of leaders and their commits.*)
(***************************************************************************)
LEMMA NextOnward ==
    ASSUME TypeOK, [Next]_vars, [TermsKeptStep]_vars
    PROVE  Onward
<1> USE DEF nodeVars, history
<1>1. \A k \in Server : currentTerm'[k] >= currentTerm[k]
  <2>1. CASE UNCHANGED vars
    BY <2>1 DEF vars, TypeOK
  <2>2. CASE TermsKeptStep
    BY <2>2 DEF TermsKeptStep
  <2> QED
    BY <2>1, <2>2
<1>2. CASE \/ UNCHANGED vars
           \/ \E i \in Server : ElectionTimeout(i)
           \/ \E i, j \in Server : ReplicateToPeer(i, j)
           \/ \E i \in Server, c \in Command : RejectCommand(i, c)
           \/ \E i \in Server, c \in Command : ClientCommand(i, c)
           \/ \E m \in msgs : HandlePreVote(m)
           \/ \E m \in msgs : HandleAppendReply(m)
  BY <1>1, <1>2 DEF vars, ElectionTimeout, ReplicateToPeer, RejectCommand, ClientCommand,
     HandlePreVote, HandleAppendReply, Onward
<1>3. CASE \E m \in msgs : HandlePreVoteReply(m)
  BY <1>1, <1>3 DEF HandlePreVoteReply, transitionToCandidate, RequestVotes, RecordBallot, Onward
<1>4. CASE \E m \in msgs : HandleRequestVote(m)
  BY <1>1, <1>4 DEF HandleRequestVote, VoteReply, RecordBallot, Onward
<1>5. CASE \E m \in msgs : HandleVoteReply(m)
  BY <1>1, <1>5 DEF HandleVoteReply, transitionToLeader, Onward
<1>6. CASE \E m \in msgs : HandleAppendEntries(m)
  BY <1>1, <1>6 DEF HandleAppendEntries, AppendReply, Onward
<1>7. CASE \/ \E i \in Server : Restart(i)
           \/ \E m \in msgs : CrashWhileAppending(m)
  BY <1>1, <1>7 DEF Restart, CrashWhileAppending, loadState, Onward
<1> QED
  BY <1>2, <1>3, <1>4, <1>5, <1>6, <1>7 DEF Next

\* How the commit index of a node changes: a restart forgets it, a follower
\* takes it from a request, a leader finds that a majority holds an entry.
LEMMA CommitSteps ==
    ASSUME TypeOK, [Next]_vars, NEW k \in Server
    PROVE  \/ commitIndex'[k] = commitIndex[k]
           \/ commitIndex'[k] = 0 /\ state'[k] = "Follower"
           \/ \E m \in msgs : /\ HandleAppendEntries(m) /\ m.type = "AppendEntries" /\ m.to = k
                              /\ commitIndex[k] < m.leaderCommit
                              /\ commitIndex'[k] <= m.leaderCommit
                              /\ currentTerm[k] <= m.term /\ currentTerm'[k] = m.term
           \/ /\ state[k] = "Leader" /\ UNCHANGED <<state, currentTerm, log>>
              /\ commitIndex'[k] > commitIndex[k]
              /\ \E m \in msgs : /\ m.type = "AppendReply" /\ m.success /\ m.to = k
                                 /\ m.term = currentTerm[k]
                                 /\ commitIndex'[k] =
                                       CommitTo(k, [matchIndex[k] EXCEPT ![m.from] = m.match])
<1> USE DEF nodeVars, logVars
<1>0. msgs \subseteq Message /\ commitIndex \in [Server -> Nat] /\ currentTerm \in [Server -> Nat]
  BY DEF TypeOK
<1>1. CASE \/ UNCHANGED vars
           \/ \E i \in Server : ElectionTimeout(i)
           \/ \E i, j \in Server : ReplicateToPeer(i, j)
           \/ \E i \in Server, c \in Command : RejectCommand(i, c)
           \/ \E i \in Server, c \in Command : ClientCommand(i, c)
           \/ \E m \in msgs : \/ HandlePreVote(m) \/ HandlePreVoteReply(m)
                              \/ HandleRequestVote(m) \/ HandleVoteReply(m)
  BY <1>1 DEF vars, ElectionTimeout, ReplicateToPeer, RejectCommand, ClientCommand,
     HandlePreVote, HandlePreVoteReply, HandleRequestVote, HandleVoteReply
<1>2. CASE \/ \E i \in Server : Restart(i)
           \/ \E m \in msgs : CrashWhileAppending(m)
  <2>1. \A m \in msgs : m.to \in Server
    BY <1>0, MessageKinds
  <2>2. PICK i \in Server : /\ commitIndex' = [commitIndex EXCEPT ![i] = 0]
                            /\ state' = [state EXCEPT ![i] = "Follower"]
    BY <1>2, <2>1 DEF Restart, CrashWhileAppending, loadState
  <2> QED
    BY <1>0, <2>2 DEF TypeOK
<1>3. ASSUME NEW m \in msgs, HandleAppendEntries(m), commitIndex'[k] # commitIndex[k]
      PROVE  /\ m.type = "AppendEntries" /\ m.to = k
             /\ commitIndex[k] < m.leaderCommit /\ commitIndex'[k] <= m.leaderCommit
             /\ currentTerm[k] <= m.term /\ currentTerm'[k] = m.term
  <2>1. PICK i \in Server, d \in Nat, u \in Nat : i = m.to /\ d = m.leaderCommit /\ u = m.term
    BY <1>0, <1>3, MessageKinds DEF HandleAppendEntries, AppendEntriesMsg
  <2>2. PICK lg : lg = AppendedLog(log[i], m)
    OBVIOUS
  <2>3. /\ m.type = "AppendEntries" /\ u >= currentTerm[i]
        /\ currentTerm' = [currentTerm EXCEPT ![i] = u]
        /\ d > commitIndex[i] /\ PrevMatches(log[i], m)
        /\ \E props : applyLogs(i, lg, Min({d, Len(lg)}), props)
    BY <1>3, <2>1, <2>2, Zenon DEF HandleAppendEntries
  <2>4. Len(lg) \in Nat
    <3>1. m \in AppendEntriesMsg /\ log[i] \in Seq(Entry)
      BY <1>0, <2>3, MessageKinds DEF TypeOK
    <3>2. lg \in Seq(Entry)
      BY <2>2, <2>3, <3>1, AppendedLogType
    <3> QED
      BY <3>2, LenProperties
  <2>5. PICK n : n = Min({d, Len(lg)})
    OBVIOUS
  <2>6. n <= d
    BY <2>4, <2>5, MinOfNats
  <2>7. commitIndex' = [commitIndex EXCEPT ![i] = n]
    BY <2>3, <2>5 DEF applyLogs
  <2>8. k = i
    BY <1>0, <1>3, <2>7
  <2> QED
    BY <1>0, <2>1, <2>3, <2>6, <2>7, <2>8
<1>4. ASSUME NEW m \in msgs, HandleAppendReply(m), commitIndex'[k] # commitIndex[k]
      PROVE  /\ state[k] = "Leader" /\ UNCHANGED <<state, currentTerm, log>>
             /\ commitIndex'[k] > commitIndex[k]
             /\ m.type = "AppendReply" /\ m.success /\ m.to = k /\ m.term = currentTerm[k]
             /\ commitIndex'[k] = CommitTo(k, [matchIndex[k] EXCEPT ![m.from] = m.match])
  <2>1. PICK i \in Server : i = m.to
    BY <1>0, MessageKinds
  <2>2. PICK n : n = CommitTo(i, [matchIndex[i] EXCEPT ![m.from] = m.match])
    OBVIOUS
  <2>3. /\ m.type = "AppendReply" /\ m.term = currentTerm[i] /\ state[i] = "Leader"
        /\ m.success /\ n > commitIndex[i] /\ applyLogs(i, log[i], n, proposals[i])
        /\ UNCHANGED <<state, currentTerm, log>>
    BY <1>4, <2>1, <2>2 DEF HandleAppendReply
  <2>4. commitIndex' = [commitIndex EXCEPT ![i] = n]
    BY <2>3 DEF applyLogs
  <2>5. k = i
    BY <1>0, <1>4, <2>4
  <2> QED
    BY <1>0, <2>1, <2>2, <2>3, <2>4, <2>5
<1> QED
  BY <1>1, <1>2, <1>3, <1>4 DEF Next

\* A node that leads has led its term before, and has not forgotten what it had
\* committed, or the ledger had nothing of its term yet.
Continues(LL) ==
    \A k \in Server : state'[k] = "Leader" =>
        \/ /\ state[k] = "Leader" /\ currentTerm'[k] = currentTerm[k]
           /\ commitIndex[k] <= commitIndex'[k]
        \/ LL[currentTerm'[k]] = << >>

LEMMA WinFirst ==
    ASSUME Odd(Cardinality(Server)), TypeOK, TypeOK', VoteInv, VoteInv', NEW LL,
           LedgerOK(LL), NEW i \in Server, NEW V, state[i] = "Candidate",
           transitionToLeader(i, currentTerm[i], V), UNCHANGED <<currentTerm, msgs>>
    PROVE  LL[currentTerm[i]] = << >>
<1>1. PICK u \in Nat : u = currentTerm[i]
  BY DEF TypeOK
<1>2. PICK e : e = [term |-> u, cmd |-> Noop]
  OBVIOUS
<1>3. PICK x : x = Append(log[i], e)
  OBVIOUS
<1>4. PICK LM : LM = Entered(LL, u, x)
  OBVIOUS
<1>5. LL[u] = << >> /\ LedgerOK(LM)' /\ Grows(LL, LM)
  BY <1>1, <1>2, <1>3, <1>4, WinLedger
<1> QED
  BY <1>1, <1>5

LEMMA LedBefore ==
    ASSUME Odd(Cardinality(Server)), TypeOK, VoteInv, NEW LL, LedgerOK(LL), [Next]_vars,
           NEW k \in Server, state'[k] = "Leader"
    PROVE  \/ state[k] = "Leader" /\ currentTerm'[k] = currentTerm[k]
           \/ LL[currentTerm'[k]] = << >>
<1> USE DEF nodeVars
<1>0. TypeOK' /\ VoteInv' /\ \A m \in msgs : m.to \in Server
  BY NextTypeOK, NextVoteInv, MessageKinds DEF TypeOK
<1>1. CASE \/ \E i \in Server : ElectionTimeout(i)
           \/ \E i \in Server, c \in Command : RejectCommand(i, c)
           \/ \E m \in msgs : HandlePreVote(m)
           \/ \E m \in msgs : HandlePreVoteReply(m)
           \/ \E m \in msgs : HandleRequestVote(m)
           \/ \E m \in msgs : HandleAppendReply(m)
           \/ UNCHANGED vars
  BY <1>1, QuietHandlers
<1>2. CASE \/ \E i, j \in Server : ReplicateToPeer(i, j)
           \/ \E i \in Server, c \in Command : ClientCommand(i, c)
  BY <1>2 DEF ReplicateToPeer, ClientCommand
<1>3. ASSUME NEW m \in msgs, HandleVoteReply(m)
      PROVE  \/ state[k] = "Leader" /\ currentTerm'[k] = currentTerm[k]
             \/ LL[currentTerm'[k]] = << >>
  <2>0. PICK i \in Server : i = m.to
    BY <1>0
  <2>1. PICK V : V = votesReceived[i] \cup {m.from}
    OBVIOUS
  <2>2. CASE /\ state[i] = "Candidate" /\ transitionToLeader(i, currentTerm[i], V)
             /\ UNCHANGED <<currentTerm, msgs>>
    <3>1. LL[currentTerm[i]] = << >>
      BY <1>0, <2>2, WinFirst
    <3>2. state' = [state EXCEPT ![i] = "Leader"]
      BY <2>2 DEF transitionToLeader
    <3> QED
      BY <2>2, <3>1, <3>2 DEF TypeOK
  <2> QED
    BY <1>3, <2>0, <2>1, <2>2, VoteReplyCases
<1>4. CASE \E m \in msgs : HandleAppendEntries(m)
  BY <1>4, LeaderRefuses
<1>5. CASE \/ \E i \in Server : Restart(i)
           \/ \E m \in msgs : CrashWhileAppending(m)
  <2>1. PICK i \in Server : /\ state' = [state EXCEPT ![i] = "Follower"]
                            /\ \E t : currentTerm' = [currentTerm EXCEPT ![i] = t]
    <3>1. \E i \in Server : \E lg : loadState(i, lg)
      BY <1>0, <1>5 DEF Restart, CrashWhileAppending
    <3> QED
      BY <3>1 DEF loadState
  <2> QED
    BY <2>1 DEF TypeOK
<1> QED
  BY <1>1, <1>2, <1>3, <1>4, <1>5 DEF Next

LEMMA NextContinues ==
    ASSUME Odd(Cardinality(Server)), TypeOK, VoteInv, NEW LL, LedgerOK(LL), [Next]_vars
    PROVE  Continues(LL)
<1> SUFFICES ASSUME NEW k \in Server, state'[k] = "Leader", LL[currentTerm'[k]] # << >>
             PROVE  /\ state[k] = "Leader" /\ currentTerm'[k] = currentTerm[k]
                    /\ commitIndex[k] <= commitIndex'[k]
  BY DEF Continues
<1>1. state[k] = "Leader" /\ currentTerm'[k] = currentTerm[k]
  BY LedBefore
<1>2. commitIndex[k] \in Nat /\ commitIndex'[k] \in Nat
  BY NextTypeOK DEF TypeOK
<1>3. ASSUME NEW m \in msgs, m.type = "AppendEntries", m.to = k, currentTerm'[k] = m.term
      PROVE  FALSE
  <2>1. m.from # k /\ Elected(m.from, m.term) /\ Elected(k, m.term)
    BY <1>1, <1>3 DEF VoteInv, LeadersElected
  <2>2. ElectionSafety
    BY OneLeader
  <2> QED
    BY <2>1, <2>2 DEF ElectionSafety, Elected
<1> QED
  BY <1>1, <1>2, <1>3, CommitSteps

\* What a leader has committed stays committed and known to it.
LEMMA AnnouncedStays ==
    ASSUME TypeOK, TypeOK', Onward, NEW LL, NEW LM, Extends(LL, LM), Continues(LL),
           NEW t \in Nat, NEW k \in Nat, Announced(LL, t, k)
    PROVE  Announced(LM, t, k)' /\ Same(LL[t], LM[t], k)
<1>1. Chosen(LM, t, k)' /\ Same(LL[t], LM[t], k)
  BY ChosenStays DEF Announced
<1>2. ASSUME NEW i \in Server, state'[i] = "Leader", currentTerm'[i] = t
      PROVE  k <= commitIndex'[i]
  <2>1. LL[t] # << >>
    <3>1. Len(<< >>) = 0
      OBVIOUS
    <3> QED
      BY <3>1 DEF Announced, Chosen, Has
  <2>2. state[i] = "Leader" /\ currentTerm[i] = t /\ commitIndex[i] <= commitIndex'[i]
    BY <1>2, <2>1 DEF Continues
  <2>3. k <= commitIndex[i] /\ commitIndex[i] \in Nat /\ commitIndex'[i] \in Nat
    BY <2>2 DEF Announced, Knows, TypeOK
  <2> QED
    BY <2>2, <2>3
<1> QED
  BY <1>1, <1>2 DEF Announced, Knows

LEMMA AnnouncedUpToStays ==
    ASSUME TypeOK, TypeOK', Onward, NEW LL, NEW LM, Extends(LL, LM), Continues(LL),
           NEW c, NEW u \in Nat, NEW v \in Nat, u <= v, AnnouncedUpTo(LL, c, u)
    PROVE  AnnouncedUpTo(LM, c, v)'
<1>1. PICK t \in Nat, k \in Nat : t <= u /\ c <= k /\ Announced(LL, t, k)
  BY DEF AnnouncedUpTo
<1>2. Announced(LM, t, k)' /\ t <= v
  BY <1>1, AnnouncedStays
<1> QED
  BY <1>1, <1>2 DEF AnnouncedUpTo

LEMMA ServedStays ==
    ASSUME TypeOK, TypeOK', Onward, NEW LL, NEW LM, Extends(LL, LM), Continues(LL),
           NEW c, Served(LL, c)
    PROVE  Served(LM, c)'
<1>1. PICK t \in Nat, k \in Nat : Announced(LL, t, k) /\ \E n \in 1..k : LL[t][n].cmd = c
  BY DEF Served
<1>2. Announced(LM, t, k)' /\ Same(LL[t], LM[t], k)
  BY <1>1, AnnouncedStays
<1> QED
  BY <1>1, <1>2 DEF Served, Same

\* Only replicateToPeer sends requests to append.
LEMMA NewRequests ==
    ASSUME TypeOK, [Next]_vars, NEW m \in msgs', m \notin msgs, m.type = "AppendEntries"
    PROVE  \E i \in Server, j \in Server : ReplicateToPeer(i, j)
<1> SUFFICES ASSUME ~ \E i \in Server, j \in Server : ReplicateToPeer(i, j) PROVE FALSE
  OBVIOUS
<1>1. CASE \/ \E i \in Server : ElectionTimeout(i)
           \/ \E i \in Server, c \in Command : RejectCommand(i, c)
           \/ \E x \in msgs : HandlePreVote(x)
           \/ \E x \in msgs : HandlePreVoteReply(x)
           \/ \E x \in msgs : HandleRequestVote(x)
           \/ \E x \in msgs : HandleAppendReply(x)
           \/ UNCHANGED vars
  BY <1>1, QuietHandlers
<1>2. CASE \/ \E i \in Server, c \in Command : ClientCommand(i, c)
           \/ \E x \in msgs : HandleVoteReply(x)
           \/ \E i \in Server : Restart(i)
           \/ \E x \in msgs : CrashWhileAppending(x)
  BY <1>2 DEF ClientCommand, HandleVoteReply, Restart, CrashWhileAppending, loadState
<1>3. CASE \E x \in msgs : HandleAppendEntries(x)
  BY <1>3 DEF HandleAppendEntries, AppendReply
<1> QED
  BY <1>1, <1>2, <1>3 DEF Next

\* A leader that finds a majority has committed up to the entry, and no other
\* node leads its term.
LEMMA LeaderAnnounces ==
    ASSUME Odd(Cardinality(Server)), TypeOK, VoteInv, NEW LL, LedgerOK(LL), CommitOK(LL),
           NEW LM, Extends(LL, LM), Onward, NEW i \in Server, state[i] = "Leader",
           UNCHANGED <<state, currentTerm, log>>, commitIndex'[i] > commitIndex[i],
           NEW m \in msgs, m.type = "AppendReply", m.success, m.to = i,
           m.term = currentTerm[i],
           commitIndex'[i] = CommitTo(i, [matchIndex[i] EXCEPT ![m.from] = m.match])
    PROVE  AnnouncedUpTo(LM, commitIndex[i], currentTerm[i])'
<1>1. PICK u \in Nat : u = currentTerm[i]
  BY DEF TypeOK
<1>2. PICK n : n = commitIndex'[i]
  OBVIOUS
<1>3. PICK mi : mi = [matchIndex[i] EXCEPT ![m.from] = m.match]
  OBVIOUS
<1>4. n = CommitTo(i, mi) /\ n > commitIndex[i]
  BY <1>2, <1>3
<1>5. n \in Nat /\ Chosen(LL, u, n)
  BY <1>1, <1>3, <1>4, CommitToChosen
<1>6. Chosen(LM, u, n)'
  BY <1>5, ChosenStays
<1>7. ASSUME NEW k \in Server, state'[k] = "Leader", currentTerm'[k] = u
      PROVE  n <= commitIndex'[k]
  <2>1. Elected(k, u) /\ Elected(i, u)
    BY <1>1, <1>7 DEF VoteInv, LeadersElected
  <2>2. ElectionSafety
    BY OneLeader
  <2>3. k = i
    BY <2>1, <2>2 DEF ElectionSafety, Elected
  <2> QED
    BY <1>2, <1>5, <2>3
<1>8. u <= u /\ n <= n
  BY <1>5
<1> QED
  BY <1>1, <1>2, <1>5, <1>6, <1>7, <1>8 DEF AnnouncedUpTo, Announced, Knows

LEMMA NextAnnounced ==
    ASSUME Odd(Cardinality(Server)), TypeOK, VoteInv, NEW LL, LedgerOK(LL), CommitOK(LL),
           CommitsAnnounced(LL), RequestsAnnounced(LL), NEW LM, Extends(LL, LM), Onward,
           Continues(LL), [Next]_vars
    PROVE  CommitsAnnounced(LM)' /\ RequestsAnnounced(LM)'
<1>0. TypeOK'
  BY NextTypeOK
<1>1. ASSUME NEW i \in Server, commitIndex'[i] > 0
      PROVE  AnnouncedUpTo(LM, commitIndex[i], currentTerm[i])'
  <2>0. PICK u \in Nat, v \in Nat, d \in Nat : u = currentTerm[i] /\ v = currentTerm'[i]
                                               /\ u <= v /\ d = commitIndex'[i]
    BY <1>0 DEF TypeOK, Onward
  <2>1. CASE commitIndex'[i] = commitIndex[i]
    <3>1. AnnouncedUpTo(LL, d, u)
      BY <1>1, <2>0, <2>1 DEF CommitsAnnounced
    <3>2. AnnouncedUpTo(LM, d, v)'
      BY <1>0, <2>0, <3>1, AnnouncedUpToStays
    <3> QED
      BY <2>0, <3>2
  <2>2. CASE \E m \in msgs : /\ m.type = "AppendEntries" /\ commitIndex[i] < m.leaderCommit
                             /\ commitIndex'[i] <= m.leaderCommit /\ currentTerm'[i] = m.term
    <3>1. PICK m \in msgs : /\ m.type = "AppendEntries" /\ commitIndex[i] < m.leaderCommit
                            /\ commitIndex'[i] <= m.leaderCommit /\ currentTerm'[i] = m.term
      BY <2>2
    <3>2. PICK c \in Nat : c = m.leaderCommit
      BY <3>1, MessageKinds DEF TypeOK, AppendEntriesMsg
    <3>3. c > 0 /\ d <= c
      BY <2>0, <3>1, <3>2 DEF TypeOK
    <3>4. PICK t \in Nat, k \in Nat : t <= v /\ c <= k /\ Announced(LL, t, k)
      BY <2>0, <3>1, <3>2, <3>3 DEF RequestsAnnounced, AnnouncedUpTo
    <3>5. Announced(LM, t, k)' /\ d <= k
      BY <1>0, <2>0, <3>2, <3>3, <3>4, AnnouncedStays
    <3> QED
      BY <2>0, <3>4, <3>5 DEF AnnouncedUpTo
  <2>3. CASE /\ state[i] = "Leader" /\ UNCHANGED <<state, currentTerm, log>>
             /\ commitIndex'[i] > commitIndex[i]
             /\ \E m \in msgs : /\ m.type = "AppendReply" /\ m.success /\ m.to = i
                                /\ m.term = currentTerm[i]
                                /\ commitIndex'[i] =
                                      CommitTo(i, [matchIndex[i] EXCEPT ![m.from] = m.match])
    BY <2>3, LeaderAnnounces
  <2>4. ~(commitIndex'[i] = 0)
    BY <1>1
  <2> QED
    BY <2>1, <2>2, <2>3, <2>4, CommitSteps
<1>2. ASSUME NEW m \in msgs', m.type = "AppendEntries", m.leaderCommit > 0
      PROVE  AnnouncedUpTo(LM, m.leaderCommit, m.term)'
  <2>0. PICK u \in Nat : u = m.term
    BY <1>0, <1>2, MessageKinds DEF TypeOK, AppendEntriesMsg
  <2>1. AnnouncedUpTo(LL, m.leaderCommit, u)
    <3>1. CASE m \in msgs
      BY <1>2, <2>0, <3>1 DEF RequestsAnnounced
    <3>2. CASE m \notin msgs
      <4>1. PICK i \in Server, j \in Server : ReplicateToPeer(i, j)
        BY <1>2, <3>2, NewRequests
      <4>2. m.term = currentTerm[i] /\ m.leaderCommit = commitIndex[i]
        BY <3>2, <4>1, ReplicateCarries
      <4> QED
        BY <1>2, <2>0, <4>2 DEF CommitsAnnounced
    <3> QED
      BY <3>1, <3>2
  <2>2. u <= u
    BY <2>0
  <2>3. AnnouncedUpTo(LM, m.leaderCommit, u)'
    BY <1>0, <2>1, <2>2, AnnouncedUpToStays
  <2> QED
    BY <2>0, <2>3
<1> QED
  BY <1>1, <1>2 DEF CommitsAnnounced, RequestsAnnounced

LEMMA ProbeAnnounced ==
    ASSUME Odd(Cardinality(Server)), TypeOK, ReadTypes, VoteInv, NEW LL, LedgerOK(LL),
           CommitOK(LL), CommitsAnnounced(LL), RequestsAnnounced(LL), Probing(LL),
           NEW j \in Server, HandleProbe(j)
    PROVE  Continues(LL) /\ CommitsAnnounced(LL)' /\ RequestsAnnounced(LL)'
<1>0. /\ Extends(LL, LL) /\ TypeOK' /\ Onward
      /\ \A k \in Server : state'[k] = "Leader" =>
            /\ state[k] = "Leader" /\ currentTerm'[k] = currentTerm[k]
            /\ commitIndex'[k] = commitIndex[k]
  BY ExtendsItself, ProbeTypeOK, ProbeCalm
<1>1. Continues(LL)
  BY <1>0 DEF Continues, TypeOK
<1>2. read.phase = "probing" /\ read.term \in Nat /\ read.commit \in Nat /\ UNCHANGED <<log, msgs>>
  BY ProbeCases
<1>3. ASSUME NEW i \in Server, commitIndex'[i] > 0
      PROVE  AnnouncedUpTo(LL, commitIndex[i], currentTerm[i])'
  <2>0. PICK u \in Nat, v \in Nat, d \in Nat : u = currentTerm[i] /\ v = currentTerm'[i]
                                               /\ u <= v /\ d = commitIndex'[i]
    BY <1>0 DEF TypeOK, Onward
  <2>1. CASE commitIndex'[i] = commitIndex[i]
    <3>1. AnnouncedUpTo(LL, d, u)
      BY <1>3, <2>0, <2>1 DEF CommitsAnnounced
    <3>2. AnnouncedUpTo(LL, d, v)'
      BY <1>0, <1>1, <2>0, <3>1, AnnouncedUpToStays
    <3> QED
      BY <2>0, <3>2
  <2>2. CASE commitIndex'[i] # commitIndex[i]
    <3>0. PICK n : n = Min({read.commit, Len(log[j])})
      OBVIOUS
    <3>1. /\ read.commit > commitIndex[j]
          /\ currentTerm' = [currentTerm EXCEPT ![j] = read.term]
          /\ commitIndex' = [commitIndex EXCEPT ![j] = n]
      BY <2>2, <3>0, ProbeCases DEF applyLogs
    <3>2. n <= read.commit
      <4>1. Len(log[j]) \in Nat
        BY LenProperties DEF TypeOK
      <4> QED
        BY <1>2, <3>0, <4>1, MinOfNats
    <3>3. i = j /\ d = n /\ v = read.term /\ read.commit > 0
      BY <1>2, <2>0, <2>2, <3>1 DEF TypeOK
    <3>4. PICK t \in Nat, k \in Nat : t <= v /\ read.commit <= k /\ Announced(LL, t, k)
      BY <1>2, <3>3 DEF Probing, AnnouncedUpTo
    <3>5. Announced(LL, t, k)' /\ d <= k
      BY <1>0, <1>1, <1>2, <3>2, <3>3, <3>4, AnnouncedStays
    <3> QED
      BY <2>0, <3>4, <3>5 DEF AnnouncedUpTo
  <2> QED
    BY <2>1, <2>2
<1>4. ASSUME NEW m \in msgs, m.type = "AppendEntries", m.leaderCommit > 0
      PROVE  AnnouncedUpTo(LL, m.leaderCommit, m.term)'
  <2>1. PICK u \in Nat : u = m.term
    BY <1>4, MessageKinds DEF TypeOK, AppendEntriesMsg
  <2>2. AnnouncedUpTo(LL, m.leaderCommit, u) /\ u <= u
    BY <1>4, <2>1 DEF RequestsAnnounced
  <2>3. AnnouncedUpTo(LL, m.leaderCommit, u)'
    BY <1>0, <1>1, <2>2, AnnouncedUpToStays
  <2> QED
    BY <2>1, <2>3
<1> QED
  BY <1>1, <1>2, <1>3, <1>4 DEF CommitsAnnounced, RequestsAnnounced
-----------------------------------------------------------------------------
(***************************************************************************)
(* What clients are told and what reads return was committed by a leader.  *)
(***************************************************************************)
CommittedServed(LL) ==
    \A i \in Server : \A n \in 1..commitIndex[i] : Served(LL, log[i][n].cmd)

LEMMA CommittedIsServed ==
    ASSUME Odd(Cardinality(Server)), NEW LL
    PROVE  TypeOK /\ VoteInv /\ LedgerOK(LL) /\ CommitOK(LL) /\ CommitsAnnounced(LL)
              => CommittedServed(LL)
<1> SUFFICES ASSUME TypeOK, VoteInv, LedgerOK(LL), CommitOK(LL), CommitsAnnounced(LL),
                    NEW i \in Server, NEW n \in 1..commitIndex[i]
             PROVE  Served(LL, log[i][n].cmd)
  BY DEF CommittedServed
<1>1. PICK c \in Nat : c = commitIndex[i]
  BY DEF TypeOK
<1>2. n \in Nat /\ n >= 1 /\ n <= c /\ c > 0
  BY <1>1
<1>3. PICK s \in Nat, h \in Nat : c <= h /\ Chosen(LL, s, h) /\ Same(log[i], LL[s], c)
  BY <1>1, <1>2 DEF CommitOK, Committed, Commits, Settled
<1>4. PICK t \in Nat, k \in Nat : c <= k /\ Announced(LL, t, k) /\ Chosen(LL, t, k)
  BY <1>1, <1>2 DEF CommitsAnnounced, AnnouncedUpTo, Announced
<1>5. Same(LL[s], LL[t], c)
  <2>1. CASE s <= t
    BY <1>3, <1>4, <2>1, ChosenAlike
  <2>2. CASE t <= s
    BY <1>3, <1>4, <2>2, ChosenAlike
  <2> QED
    BY <2>1, <2>2
<1>6. log[i][n] = LL[t][n] /\ n \in 1..k
  BY <1>2, <1>3, <1>4, <1>5 DEF Same
<1> QED
  BY <1>4, <1>6 DEF Served

LEMMA CommittedIsServedNext ==
    ASSUME Odd(Cardinality(Server)), NEW LL
    PROVE  (TypeOK /\ VoteInv /\ LedgerOK(LL) /\ CommitOK(LL) /\ CommitsAnnounced(LL)
              => CommittedServed(LL))'
  BY CommittedIsServed, PTL

\* A client that applyLogs tells success proposed an entry that is committed.
LEMMA ToldCommitted ==
    ASSUME TypeOK, TypeOK', NEW LL, LedgerOK(LL), Proposed(LL), NEW LM, Extends(LL, LM),
           LedgerOK(LM)', NEW i \in Server, NEW n, NEW props, props \subseteq proposals[i],
           applyLogs(i, log'[i], n, props), NEW c \in Command,
           replies'[c] = "success", replies[c] # "success"
    PROVE  \E k \in 1..commitIndex'[i] : log'[i][k].cmd = c
<1>0. PICK lg \in Seq(Entry) : lg = log'[i]
  BY DEF TypeOK
<1> DEFINE done == {p \in proposals[i] : p \in props => p.index <= n}
           ok == {p \in done \cap props : p.term = getEntryTerm(lg, p.index)}
<1>1. Answer(ok, done) /\ commitIndex'[i] = n
  BY <1>0 DEF applyLogs, TypeOK
<1>2. replies'[c] = IF \E p \in ok : p.cmd = c THEN "success"
                    ELSE IF \E p \in done : p.cmd = c THEN "failure"
                    ELSE replies[c]
  BY <1>1 DEF Answer
<1>3. PICK p \in ok : p.cmd = c
  BY <1>2
<1>4. p \in proposals[i] /\ p.index <= n /\ p.term = getEntryTerm(lg, p.index)
  BY <1>3
<1>5. PICK v \in Nat, k \in Nat : v = p.term /\ k = p.index
  BY <1>4 DEF TypeOK, Proposal
<1>6. Has(LL[v], v, k) /\ LL[v][k].cmd = c
  BY <1>3, <1>4, <1>5 DEF Proposed, Proposes
<1>7. Has(LM[v], v, k) /\ Same(LL[v], LM[v], k)
  BY <1>6, ExtendedHas
<1>8. LL \in Ledger /\ LL[v] \in Seq(Entry) /\ Agrees(LL[v], LL)
  BY LedgerLog
<1>9. k >= 1 /\ v > 0
  BY <1>6, <1>8, HasAgrees
<1>10. Has(lg, v, k)
  BY <1>4, <1>5, <1>9 DEF getEntryTerm, Has
<1>11. Same(lg, LM[v], k)
  <2>1. LM \in Ledger /\ Agrees(lg, LM)
    BY <1>0 DEF LedgerOK, LogsAgree
  <2> QED
    BY <1>10, <2>1, HasAgrees
<1>12. lg[k].cmd = c
  BY <1>6, <1>7, <1>9, <1>11 DEF Same
<1>13. n \in Nat
  BY <1>1 DEF TypeOK
<1>14. k \in 1..n
  BY <1>4, <1>5, <1>9, <1>13
<1> QED
  BY <1>0, <1>1, <1>12, <1>14

\* Only applyLogs tells a client success, after the log has changed.
LEMMA NewlyTold ==
    ASSUME TypeOK, [Next]_vars, NEW c \in Command, replies'[c] = "success",
           replies[c] # "success"
    PROVE  \E i \in Server : \E n, props : /\ props \subseteq proposals[i]
                                           /\ applyLogs(i, log'[i], n, props)
<1> USE DEF clientVars
<1>1. \A m \in msgs : m.to \in Server
  BY MessageKinds DEF TypeOK
<1>2. ~UNCHANGED clientVars /\ \A i \in Server : ~CancelProposals(i)
  BY CancelTellsNobody
<1>3. CASE \/ UNCHANGED vars
           \/ \E i \in Server : ElectionTimeout(i)
           \/ \E i, j \in Server : ReplicateToPeer(i, j)
           \/ \E m \in msgs : HandlePreVote(m)
           \/ \E m \in msgs : HandlePreVoteReply(m)
  BY <1>2, <1>3 DEF vars, ElectionTimeout, ReplicateToPeer, HandlePreVote, HandlePreVoteReply
<1>4. CASE \E i \in Server, d \in Command : RejectCommand(i, d) \/ ClientCommand(i, d)
  BY <1>4 DEF RejectCommand, ClientCommand, TypeOK
<1>5. CASE \E m \in msgs : HandleRequestVote(m)
  BY <1>1, <1>2, <1>5 DEF HandleRequestVote
<1>6. CASE \E m \in msgs : HandleVoteReply(m)
  BY <1>1, <1>2, <1>6 DEF HandleVoteReply, transitionToFollower
<1>7. CASE \/ \E i \in Server : Restart(i)
           \/ \E m \in msgs : CrashWhileAppending(m)
  <2>1. replies' = replies
    BY <1>7 DEF Restart, CrashWhileAppending, loadState
  <2> QED
    BY <2>1
<1>8. ASSUME NEW m \in msgs, HandleAppendEntries(m)
      PROVE  \E i \in Server : \E n, props : /\ props \subseteq proposals[i]
                                             /\ applyLogs(i, log'[i], n, props)
  <2>1. PICK i \in Server : i = m.to
    BY <1>1
  <2>2. PICK lg : lg = AppendedLog(log[i], m)
    OBVIOUS
  <2>3. /\ log' = [log EXCEPT ![i] = lg]
        /\ \E n : \E props \in {{}, proposals[i]} : applyLogs(i, lg, n, props)
    BY <1>2, <1>8, <2>1, <2>2, Zenon DEF HandleAppendEntries
  <2>4. log'[i] = lg
    BY <2>3 DEF TypeOK
  <2>5. PICK n : \E props \in {{}, proposals[i]} : applyLogs(i, lg, n, props)
    BY <2>3
  <2>6. PICK props \in {{}, proposals[i]} : applyLogs(i, lg, n, props)
    BY <2>5
  <2>7. props \subseteq proposals[i]
    BY <2>6
  <2> QED
    BY <2>4, <2>6, <2>7
<1>9. ASSUME NEW m \in msgs, HandleAppendReply(m)
      PROVE  \E i \in Server : \E n, props : /\ props \subseteq proposals[i]
                                             /\ applyLogs(i, log'[i], n, props)
  <2>1. PICK i \in Server : i = m.to
    BY <1>1
  <2>2. log' = log /\ \E n : applyLogs(i, log[i], n, proposals[i])
    BY <1>2, <1>9, <2>1, Zenon DEF HandleAppendReply, transitionToFollower
  <2> QED
    BY <2>2
<1> QED
  BY <1>3, <1>4, <1>5, <1>6, <1>7, <1>8, <1>9 DEF Next

LEMMA AnswersStay ==
    ASSUME Odd(Cardinality(Server)), TypeOK, TypeOK', VoteInv', NEW LL, LedgerOK(LL),
           CommitOK(LL), AnswersServed(LL), NEW LM, Extends(LL, LM), Onward, Continues(LL),
           LedgerOK(LM)', CommitOK(LM)', CommitsAnnounced(LM)', UNCHANGED returned,
           \A c \in Command : replies'[c] = "success" /\ replies[c] # "success" =>
              \E i \in Server : \E n, props : /\ props \subseteq proposals[i]
                                              /\ applyLogs(i, log'[i], n, props)
    PROVE  AnswersServed(LM)'
<1> SUFFICES ASSUME NEW c \in (Acked \cup returned)' PROVE Served(LM, c)'
  BY DEF AnswersServed
<1>1. CASE c \in Acked \cup returned
  <2>1. Served(LL, c)
    BY <1>1 DEF AnswersServed
  <2> QED
    BY <2>1, ServedStays
<1>2. CASE c \notin Acked \cup returned
  <2>1. c \in Command /\ replies'[c] = "success" /\ replies[c] # "success"
    BY <1>2 DEF Acked
  <2>0. PICK i \in Server : \E n, props : /\ props \subseteq proposals[i]
                                          /\ applyLogs(i, log'[i], n, props)
    BY <2>1
  <2>2. PICK n, props : props \subseteq proposals[i] /\ applyLogs(i, log'[i], n, props)
    BY <2>0
  <2>3. PICK k \in 1..commitIndex'[i] : log'[i][k].cmd = c
    BY <2>1, <2>2, ToldCommitted DEF CommitOK
  <2>4. CommittedServed(LM)'
    BY CommittedIsServedNext
  <2>5. Served(LM, log[i][k].cmd)'
    BY <2>4 DEF CommittedServed
  <2> QED
    BY <2>3, <2>5 DEF Served
<1> QED
  BY <1>1, <1>2

\* What a node answers to a read was committed by a leader.
LEMMA kvServed ==
    ASSUME Odd(Cardinality(Server)), TypeOK, VoteInv, NEW LL, LedgerOK(LL), CommitOK(LL),
           CommitsAnnounced(LL), NEW i \in Server, NEW c \in kv(i)
    PROVE  Served(LL, c)
<1>1. PICK n \in 1..Len(applied[i]) : applied[i][n].cmd = c
  BY DEF kv
<1>2. n \in 1..commitIndex[i] /\ log[i][n] = applied[i][n]
  BY DEF CommitOK, AppliedIs, Applies, Same
<1>3. CommittedServed(LL)
  BY CommittedIsServed
<1> QED
  BY <1>1, <1>2, <1>3 DEF CommittedServed
-----------------------------------------------------------------------------
(***************************************************************************)
(* The read.                                                               *)
(***************************************************************************)
LEMMA ReadFields ==
    ASSUME ReadTypes
    PROVE  /\ read.term \in Nat /\ read.readIndex \in Nat /\ read.prev \in Nat
           /\ read.commit \in Nat /\ read.acks \subseteq Server /\ read.asked \subseteq Server
           /\ read.floor \subseteq Command /\ read.own \in BOOLEAN
           /\ UnderWay => read.node \in Server
  BY DEF ReadTypes, ReadsTypeOK, Read

LEMMA IndexedStays ==
    ASSUME NEW LL, NEW LM, Extends(LL, LM), read.term \in Nat,
           read'.term = read.term, read'.readIndex = read.readIndex,
           NEW c, Indexed(LL, c)
    PROVE  Indexed(LM, c)'
<1>1. PICK t \in Nat : t = read.term
  OBVIOUS
<1>2. /\ LL[t] \in Seq(Entry) /\ LM[t] \in Seq(Entry) /\ Len(LL[t]) \in Nat /\ Len(LM[t]) \in Nat
      /\ Same(LL[t], LM[t], Len(LL[t]))
  BY LenProperties DEF Extends, Ledger, Grows
<1>3. PICK n \in Nat : /\ n >= 1 /\ n <= read.readIndex /\ n <= Len(LL[t])
                       /\ LL[t][n].cmd = c
  BY <1>1 DEF Indexed
<1>4. n <= Len(LM[t]) /\ LM[t][n] = LL[t][n]
  BY <1>2, <1>3 DEF Same
<1> QED
  BY <1>1, <1>3, <1>4 DEF Indexed

LEMMA OvertakenStays ==
    ASSUME TypeOK, TypeOK', Onward, read.term \in Nat, read'.term = read.term,
           \A j \in Server : j \in read'.acks => j \in read.acks \/ currentTerm[j] <= read.term,
           Overtaken
    PROVE  Overtaken'
<1>1. PICK q \in Server, Q \in SUBSET Server :
         /\ HasMajority(Config(q), q, Q)
         /\ \A j \in Q : j \notin read.acks /\ currentTerm[j] > read.term
  BY DEF Overtaken
<1>2. ASSUME NEW j \in Q PROVE j \notin read'.acks /\ currentTerm'[j] > read.term
  <2>1. /\ j \in Server /\ currentTerm[j] \in Nat /\ currentTerm'[j] \in Nat
        /\ currentTerm'[j] >= currentTerm[j]
    BY DEF TypeOK, Onward
  <2> QED
    BY <1>1, <2>1
<1> QED
  BY <1>1, <1>2 DEF Overtaken

\* Nothing a read relies on is undone by a step that leaves the read alone.
LEMMA ReadKept ==
    ASSUME TypeOK, TypeOK', ReadTypes, Onward, NEW LL, NEW LM, Extends(LL, LM),
           Continues(LL), Probing(LL), Fresh(LL), SafeReadsFresh, read' = read
    PROVE  Probing(LM)' /\ Fresh(LM)' /\ SafeReadsFresh'
<1>0. read.term \in Nat /\ read.term <= read.term
  BY ReadFields
<1>1. SafeReadsFresh'
  BY DEF SafeReadsFresh
<1>2. Fresh(LM)'
  <2> SUFFICES ASSUME read.own, UnderWay', NEW c \in read.floor
               PROVE  Indexed(LM, c)' \/ (read.phase # "confirmed" /\ Overtaken')
    BY DEF Fresh
  <2>1. UnderWay
    BY DEF UnderWay
  <2>2. Indexed(LL, c) \/ (read.phase # "confirmed" /\ Overtaken)
    BY <2>1 DEF Fresh
  <2>3. Indexed(LL, c) => Indexed(LM, c)'
    BY <1>0, IndexedStays
  <2>4. Overtaken => Overtaken'
    BY <1>0, OvertakenStays
  <2> QED
    BY <2>2, <2>3, <2>4
<1>3. Probing(LM)'
  <2> SUFFICES ASSUME read.phase = "probing"
               PROVE  /\ read.node \notin read.asked /\ Elected(read.node, read.term)'
                      /\ Has(LM[read.term], read.term, read.prev) /\ read.prevTerm = read.term
                      /\ read.commit > 0 => AnnouncedUpTo(LM, read.commit, read.term)'
    BY DEF Probing
  <2>1. /\ read.node \notin read.asked /\ Elected(read.node, read.term)
        /\ Has(LL[read.term], read.term, read.prev) /\ read.prevTerm = read.term
        /\ read.commit > 0 => AnnouncedUpTo(LL, read.commit, read.term)
    BY DEF Probing
  <2>2. Elected(read.node, read.term)'
    BY <2>1 DEF Elected, Onward
  <2>3. Has(LM[read.term], read.term, read.prev)
    BY <1>0, <2>1, ExtendedHas
  <2>4. PICK d \in Nat, u \in Nat : d = read.commit /\ u = read.term
    BY <1>0, ReadFields
  <2>5. d > 0 => AnnouncedUpTo(LM, d, u)'
    BY <1>0, <2>1, <2>4, AnnouncedUpToStays
  <2> QED
    BY <2>1, <2>2, <2>3, <2>4, <2>5
<1> QED
  BY <1>1, <1>2, <1>3

\* Everything that was answered before a read begins at a leader that has
\* committed in its term: either the leader has committed it, or a later leader
\* has, and then a majority has left the term.
LEMMA BegunFresh ==
    ASSUME Odd(Cardinality(Server)), TypeOK, VoteInv, NEW LL, LedgerOK(LL), CommitOK(LL),
           NEW i \in Server, state[i] = "Leader", OwnCommitted(i), NEW c, Served(LL, c),
           NEW T \in Nat, T = currentTerm[i], NEW x \in Nat, x = commitIndex[i]
    PROVE  \/ \E n \in Nat : n >= 1 /\ n <= x /\ n <= Len(LL[T]) /\ LL[T][n].cmd = c
           \/ \E q \in Server, Q \in SUBSET Server :
                 /\ HasMajority(Config(q), q, Q)
                 /\ \A j \in Q : j \notin {i} /\ currentTerm[j] > T
<1>1. /\ log[i] = LL[T] /\ LL[T] # << >> /\ LL[T] \in Seq(Entry) /\ Len(LL[T]) \in Nat
      /\ LL \in Ledger
  BY LedgerLog DEF LedgerOK, LeadersHold, CommitOK, Leading, Leads
<1>0. PICK t \in Nat, k \in Nat : Announced(LL, t, k) /\ \E n \in 1..k : LL[t][n].cmd = c
  BY DEF Served
<1>2. PICK n \in 1..k : Announced(LL, t, k) /\ LL[t][n].cmd = c
  BY <1>0
<1>3. n \in Nat /\ n >= 1 /\ n <= k /\ Chosen(LL, t, k) /\ Has(LL[t], t, k)
  BY <1>2 DEF Announced, Chosen
<1>4. CASE t <= T
  <2>1. Same(LL[T], LL[t], k)
    BY <1>1, <1>3, <1>4, ChosenSame
  <2>2. n <= Len(LL[T]) /\ LL[T][n].cmd = c
    BY <1>1, <1>2, <1>3, <2>1 DEF Same
  <2>3. k <= x
    <3>1. CASE t = T
      BY <1>2, <3>1 DEF Announced, Knows
    <3>2. CASE t < T
      <4>1. PICK m \in 1..x : LL[T][m].term = T
        BY <1>1 DEF OwnCommitted
      <4>2. Has(LL[T], t, k)
        BY <1>1, <1>3, <3>2, ChosenKept
      <4>3. x <= Len(LL[T])
        BY <1>1 DEF CommitOK, AppliedIs, Applies, Same
      <4>4. SUFFICES ASSUME m <= k PROVE FALSE
        BY <4>1
      <4>5. m \in 1..Len(LL[T]) /\ k \in 1..Len(LL[T])
        BY <1>1, <4>1, <4>2, <4>3 DEF Has
      <4>6. LL[T][m].term <= LL[T][k].term
        BY <4>4, <4>5 DEF CommitOK, Ordered
      <4> QED
        BY <3>2, <4>1, <4>2, <4>6 DEF Has
    <3> QED
      BY <1>4, <3>1, <3>2
  <2> QED
    BY <1>3, <2>2, <2>3
<1>5. CASE t > T
  <2>1. PICK q \in Server, Q \in SUBSET Server :
           HasMajority(Config(q), q, Q) /\ \A j \in Q : Acknowledged(j, t, k)
    BY <1>3 DEF Chosen
  <2>2. ASSUME NEW j \in Q PROVE j \notin {i} /\ currentTerm[j] > T
    <3>1. j \in Server /\ t <= currentTerm[j] /\ currentTerm[j] \in Nat
      BY <1>3, <2>1 DEF CommitOK, Kept, TypeOK
    <3> QED
      BY <1>5, <3>1
  <2> QED
    BY <2>1, <2>2
<1> QED
  BY <1>4, <1>5

LEMMA RaftRead ==
    ASSUME Odd(Cardinality(Server)), TypeOK, ReadTypes, VoteInv, NEW LL, LedgerOK(LL),
           CommitOK(LL), ReadOK(LL), [Next]_vars, [TermsKeptStep]_vars,
           UNCHANGED <<read, returned>>
    PROVE  ReadInv'
<1>1. TypeOK' /\ VoteInv' /\ Onward /\ Continues(LL)
  BY NextTypeOK, NextVoteInv, NextOnward, NextContinues
<1>2. PICK LM : Extends(LL, LM) /\ LedgerOK(LM)' /\ CommitOK(LM)'
  BY NextCommitOK
<1>3. CommitsAnnounced(LM)' /\ RequestsAnnounced(LM)'
  BY <1>1, <1>2, NextAnnounced DEF ReadOK
<1>4. AnswersServed(LM)'
  BY <1>1, <1>2, <1>3, NewlyTold, AnswersStay DEF ReadOK
<1>5. Probing(LM)' /\ Fresh(LM)' /\ SafeReadsFresh'
  BY <1>1, <1>2, ReadKept DEF ReadOK
<1> QED
  BY <1>2, <1>3, <1>4, <1>5 DEF ReadInv, ReadOK, LedgerOK

\* A peer that acknowledges a probe has not left the term of the read.
LEMMA ProbeRead ==
    ASSUME Odd(Cardinality(Server)), TypeOK, ReadTypes, VoteInv, NEW LL, LedgerOK(LL),
           CommitOK(LL), ReadOK(LL), NEW j \in Server, HandleProbe(j)
    PROVE  ReadInv'
<1>0. /\ CommitsAnnounced(LL) /\ RequestsAnnounced(LL) /\ AnswersServed(LL)
      /\ Probing(LL) /\ Fresh(LL) /\ SafeReadsFresh
  BY DEF ReadOK
<1>1. Extends(LL, LL) /\ TypeOK' /\ VoteInv' /\ Onward
  BY <1>0, ExtendsItself, ProbeTypeOK, ProbeCalm
<1>2. LedgerOK(LL)' /\ CommitOK(LL)'
  BY <1>0, ProbeCommit
<1>3. Continues(LL) /\ CommitsAnnounced(LL)' /\ RequestsAnnounced(LL)'
  BY <1>0, ProbeAnnounced
<1>4. /\ read.phase = "probing" /\ UNCHANGED <<returned, log>> /\ read.node \in Server
      /\ read.term \in Nat /\ read.commit \in Nat
  BY ProbeCases
<1>5. AnswersServed(LL)'
  <2>1. ASSUME NEW c \in Command, replies'[c] = "success", replies[c] # "success"
        PROVE  \E i \in Server : \E n, props : /\ props \subseteq proposals[i]
                                               /\ applyLogs(i, log'[i], n, props)
    <3>1. ~UNCHANGED <<proposals, replies>> /\ ~CancelProposals(j)
      BY <2>1, CancelTellsNobody
    <3>2. \E n, props : props \subseteq proposals[j] /\ applyLogs(j, log[j], n, props)
      BY <3>1, ProbeCases
    <3> QED
      BY <1>4, <3>2
  <2> QED
    BY <1>0, <1>1, <1>2, <1>3, <1>4, <2>1, AnswersStay
<1>6. /\ \A f \in {"phase", "mode", "node", "inc", "term", "readIndex", "prev", "prevTerm",
                   "commit", "result", "floor", "own"} : read'[f] = read[f]
      /\ read'.asked \subseteq read.asked
      /\ read'.acks = IF ProbeAcknowledged(j) THEN read.acks \cup {j} ELSE read.acks
  BY DEF HandleProbe, ReadTypes, ReadsTypeOK, Read
<1>7. /\ read'.phase = "probing" /\ read'.node = read.node /\ read'.term = read.term
      /\ read'.readIndex = read.readIndex /\ read'.prev = read.prev
      /\ read'.prevTerm = read.prevTerm /\ read'.commit = read.commit
      /\ read'.floor = read.floor /\ read'.own = read.own
  BY <1>4, <1>6
<1>8. \A k \in Server : k \in read'.acks => k \in read.acks \/ currentTerm[k] <= read.term
  BY <1>4, <1>6 DEF ProbeAcknowledged, TypeOK
<1>9. Fresh(LL)'
  <2> SUFFICES ASSUME read.own, NEW c \in read.floor PROVE Indexed(LL, c)' \/ Overtaken'
    BY <1>7 DEF Fresh
  <2>1. Indexed(LL, c) \/ Overtaken
    BY <1>0, <1>4 DEF Fresh, UnderWay
  <2>2. Indexed(LL, c) => Indexed(LL, c)'
    BY <1>1, <1>4, <1>7, IndexedStays
  <2>3. Overtaken => Overtaken'
    BY <1>1, <1>4, <1>7, <1>8, OvertakenStays
  <2> QED
    BY <2>1, <2>2, <2>3
<1>10. Probing(LL)'
  <2>1. PICK d \in Nat, u \in Nat : d = read.commit /\ u = read.term /\ u <= u
    BY <1>4
  <2>2. /\ read.node \notin read.asked /\ Elected(read.node, u)
        /\ Has(LL[u], u, read.prev) /\ read.prevTerm = u
        /\ d > 0 => AnnouncedUpTo(LL, d, u)
    BY <1>0, <1>4, <2>1 DEF Probing
  <2>3. Elected(read.node, u)'
    BY <1>1, <1>7, <2>2 DEF Elected, Onward
  <2>4. d > 0 => AnnouncedUpTo(LL, d, u)'
    BY <1>1, <1>3, <2>1, <2>2, AnnouncedUpToStays
  <2> QED
    BY <1>6, <1>7, <2>1, <2>2, <2>3, <2>4 DEF Probing
<1>11. SafeReadsFresh'
  BY <1>7 DEF SafeReadsFresh
<1> QED
  BY <1>2, <1>3, <1>5, <1>9, <1>10, <1>11 DEF ReadInv, ReadOK, LedgerOK

\* A step of the read alone.
LEMMA ReadAlone ==
    ASSUME Odd(Cardinality(Server)), TypeOK, VoteInv, NEW LL, LedgerOK(LL), CommitOK(LL),
           ReadOK(LL), UNCHANGED vars
    PROVE  /\ Extends(LL, LL) /\ TypeOK' /\ VoteInv' /\ Onward /\ Continues(LL)
           /\ LedgerOK(LL)' /\ CommitOK(LL)' /\ CommitsAnnounced(LL)' /\ RequestsAnnounced(LL)'
           /\ \A c : Served(LL, c) => Served(LL, c)'
<1>1. [Next]_vars /\ [TermsKeptStep]_vars /\ Extends(LL, LL)
  BY ExtendsItself
<1>2. TypeOK' /\ VoteInv' /\ Onward /\ Continues(LL)
  BY <1>1, NextTypeOK, NextVoteInv, NextOnward, NextContinues
<1>3. LedgerOK(LL)'
  <2>1. /\ log' = log /\ elections' = elections
        /\ \A k \in Server : state'[k] = "Leader" =>
              state[k] = "Leader" /\ currentTerm'[k] = currentTerm[k]
        /\ \A m \in msgs' : m.type = "AppendEntries" => m \in msgs
    BY QuietHandlers
  <2> QED
    BY <2>1, QuietLedger
<1>4. CommitOK(LL)'
  BY <1>2, PreVoteCommit
<1>5. CommitsAnnounced(LL)' /\ RequestsAnnounced(LL)'
  BY <1>1, <1>2, NextAnnounced DEF ReadOK
<1>6. \A c : Served(LL, c) => Served(LL, c)'
  BY <1>1, <1>2, ServedStays
<1> QED
  BY <1>1, <1>2, <1>3, <1>4, <1>5, <1>6
\* What is answered to a read is added to what has been returned.
LEMMA AnswerRead ==
    ASSUME Odd(Cardinality(Server)), TypeOK, VoteInv, NEW LL, LedgerOK(LL), CommitOK(LL),
           ReadOK(LL), UNCHANGED vars, NEW i \in Server, read'.phase = "answered",
           returned' = returned \cup kv(i), SafeReadsFresh'
    PROVE  ReadInv'
<1>1. /\ LedgerOK(LL)' /\ CommitOK(LL)' /\ CommitsAnnounced(LL)' /\ RequestsAnnounced(LL)'
      /\ \A c : Served(LL, c) => Served(LL, c)'
  BY ReadAlone
<1>2. AnswersServed(LL)'
  <2> SUFFICES ASSUME NEW c \in (Acked \cup returned)' PROVE Served(LL, c)'
    BY DEF AnswersServed
  <2>1. c \in Acked \cup returned \/ c \in kv(i)
    BY DEF Acked, vars, clientVars
  <2>2. Served(LL, c)
    BY <2>1, kvServed DEF ReadOK, AnswersServed
  <2> QED
    BY <1>1, <2>2
<1>3. Probing(LL)' /\ Fresh(LL)'
  BY DEF Probing, Fresh, UnderWay
<1> QED
  BY <1>1, <1>2, <1>3 DEF ReadInv, ReadOK, LedgerOK

\* What has been answered stays served while a read makes progress.
LEMMA ReadOn ==
    ASSUME Odd(Cardinality(Server)), TypeOK, VoteInv, NEW LL, LedgerOK(LL), CommitOK(LL),
           ReadOK(LL), UNCHANGED <<vars, returned>>, read'.phase # "answered",
           Probing(LL)', Fresh(LL)'
    PROVE  ReadInv'
<1>1. /\ LedgerOK(LL)' /\ CommitOK(LL)' /\ CommitsAnnounced(LL)' /\ RequestsAnnounced(LL)'
      /\ \A c : Served(LL, c) => Served(LL, c)'
  BY ReadAlone
<1>2. AnswersServed(LL)'
  <2> SUFFICES ASSUME NEW c \in (Acked \cup returned)' PROVE Served(LL, c)'
    BY DEF AnswersServed
  <2>1. c \in Acked \cup returned
    BY DEF Acked, vars, clientVars
  <2>2. Served(LL, c)
    BY <2>1 DEF ReadOK, AnswersServed
  <2> QED
    BY <1>1, <2>2
<1>3. SafeReadsFresh'
  BY DEF SafeReadsFresh
<1> QED
  BY <1>1, <1>2, <1>3 DEF ReadInv, ReadOK, LedgerOK

\* Get, up to its first unlock.
LEMMA GetRead ==
    ASSUME Odd(Cardinality(Server)), TypeOK, ReadTypes, VoteInv, NEW LL, LedgerOK(LL),
           CommitOK(LL), ReadOK(LL), NEW i \in Server, NEW mode \in Mode, Get(i, mode)
    PROVE  ReadInv'
<1> DEFINE r == [phase |-> "begun", mode |-> mode, node |-> i, inc |-> incarnation[i],
              term |-> currentTerm[i], readIndex |-> commitIndex[i], prev |-> 0,
              prevTerm |-> 0, commit |-> 0, asked |-> {}, acks |-> {i},
              result |-> {}, floor |-> Acked \cup returned, own |-> OwnCommitted(i)]
<1>1. /\ state[i] = "Leader" /\ UNCHANGED vars
      /\ \/ mode # "safe" /\ Answered(r, kv(i))
         \/ read' = r /\ UNCHANGED returned
  BY Zenon DEF Get
<1>2. CASE mode # "safe" /\ Answered(r, kv(i))
  <2>1. read'.phase = "answered" /\ read'.mode = mode /\ returned' = returned \cup kv(i)
    BY <1>2 DEF Answered, NoRead
  <2>2. SafeReadsFresh'
    BY <1>2, <2>1 DEF SafeReadsFresh
  <2> QED
    BY <1>1, <2>1, <2>2, AnswerRead
<1>3. CASE read' = r /\ UNCHANGED returned
  <2>0. PICK T \in Nat, x \in Nat : T = currentTerm[i] /\ x = commitIndex[i]
    BY DEF TypeOK
  <2>1. /\ read'.phase = "begun" /\ read'.term = T /\ read'.readIndex = x
        /\ read'.acks = {i} /\ read'.floor = Acked \cup returned
        /\ read'.own = OwnCommitted(i)
    BY <1>3, <2>0
  <2>2. \A j \in Server : currentTerm'[j] = currentTerm[j]
    BY <1>1 DEF vars, nodeVars
  <2>3. ASSUME OwnCommitted(i), NEW c \in Acked \cup returned
        PROVE  Indexed(LL, c)' \/ Overtaken'
    <3>1. Served(LL, c)
      BY <2>3 DEF ReadOK, AnswersServed
    <3>2. \/ \E n \in Nat : n >= 1 /\ n <= x /\ n <= Len(LL[T]) /\ LL[T][n].cmd = c
          \/ \E q \in Server, Q \in SUBSET Server :
                /\ HasMajority(Config(q), q, Q)
                /\ \A j \in Q : j \notin {i} /\ currentTerm[j] > T
      BY <1>1, <2>0, <2>3, <3>1, BegunFresh
    <3>3. CASE \E n \in Nat : n >= 1 /\ n <= x /\ n <= Len(LL[T]) /\ LL[T][n].cmd = c
      BY <2>1, <3>3 DEF Indexed
    <3>4. CASE \E q \in Server, Q \in SUBSET Server :
                  /\ HasMajority(Config(q), q, Q)
                  /\ \A j \in Q : j \notin {i} /\ currentTerm[j] > T
      <4>1. PICK q \in Server, Q \in SUBSET Server :
               /\ HasMajority(Config(q), q, Q)
               /\ \A j \in Q : j \notin {i} /\ currentTerm[j] > T
        BY <3>4
      <4>2. \A j \in Q : j \notin read'.acks /\ currentTerm'[j] > read'.term
        BY <2>1, <2>2, <4>1
      <4> QED
        BY <4>1, <4>2 DEF Overtaken
    <3> QED
      BY <3>2, <3>3, <3>4
  <2>4. Probing(LL)' /\ Fresh(LL)'
    BY <2>1, <2>3 DEF Probing, Fresh
  <2> QED
    BY <1>1, <1>3, <2>1, <2>4, ReadOn
<1> QED
  BY <1>1, <1>2, <1>3

\* The probes end with an entry of the term of the read.
LEMMA AskPeersRead ==
    ASSUME Odd(Cardinality(Server)), TypeOK, ReadTypes, VoteInv, NEW LL, LedgerOK(LL),
           CommitOK(LL), ReadOK(LL), AskPeers
    PROVE  ReadInv'
<1>1. PICK i \in Server, u \in Nat : i = read.node /\ u = read.term
  BY DEF AskPeers, ReadTypes, UnderWay, ReadsTypeOK, Read
<1>2. /\ read.phase = "begun" /\ state[i] = "Leader" /\ currentTerm[i] = u
      /\ UNCHANGED <<vars, returned>>
      /\ read' = [read EXCEPT !.phase = "probing", !.asked = effectivePeers(i),
                              !.prev = Len(log[i]), !.prevTerm = lastLogTerm(log[i]),
                              !.commit = commitIndex[i]]
  BY <1>1 DEF AskPeers, StillLeader
<1>3. /\ read'.phase = "probing" /\ read'.node = i /\ read'.term = u
      /\ read'.asked = effectivePeers(i) /\ read'.prev = Len(log[i])
      /\ read'.prevTerm = lastLogTerm(log[i]) /\ read'.commit = commitIndex[i]
      /\ read'.readIndex = read.readIndex /\ read'.acks = read.acks
      /\ read'.floor = read.floor /\ read'.own = read.own
  BY <1>1, <1>2 DEF ReadTypes, ReadsTypeOK, Read
<1>4. Extends(LL, LL) /\ TypeOK' /\ Onward /\ CommitsAnnounced(LL)' /\ VoteInv'
  BY <1>2, ReadAlone
<1>5. i \notin effectivePeers(i)
  BY Peers
<1>6. Elected(i, u)'
  <2>1. Elected(i, u)
    BY <1>2 DEF VoteInv, LeadersElected
  <2> QED
    BY <1>4, <2>1 DEF Elected, Onward
<1>7. Has(LL[u], u, Len(log[i])) /\ lastLogTerm(log[i]) = u
  <2>1. log[i] = LL[u] /\ LL[u] # << >> /\ LL[u] \in Seq(Entry) /\ Len(LL[u]) \in Nat
    BY <1>2, LedgerLog DEF LedgerOK, LeadersHold, CommitOK, Leading, Leads
  <2>2. Len(LL[u]) \in 1..Len(LL[u])
    BY <2>1, EmptySeq
  <2>3. LL[u][Len(LL[u])].term = u
    BY <2>1 DEF CommitOK, Ordered
  <2> QED
    BY <2>1, <2>2, <2>3 DEF Has, lastLogTerm, getEntryTerm
<1>8. PICK d, p : d = commitIndex[i] /\ p = Len(log[i])
  OBVIOUS
<1>9. Probing(LL)'
  <2>1. commitIndex'[i] = d /\ currentTerm'[i] = u
    BY <1>2, <1>8 DEF vars, nodeVars, logVars
  <2>2. d > 0 => AnnouncedUpTo(LL, d, u)'
    BY <1>4, <2>1 DEF CommitsAnnounced
  <2>3. read'.node \notin read'.asked /\ Elected(read.node, read.term)'
    BY <1>3, <1>5, <1>6
  <2>4. Has(LL[u], u, p) /\ read'.prevTerm = u /\ read'.prev = p /\ read'.commit = d
    BY <1>3, <1>7, <1>8
  <2> QED
    BY <1>3, <2>2, <2>3, <2>4 DEF Probing
<1>10. Fresh(LL)'
  <2> SUFFICES ASSUME read.own, NEW c \in read.floor PROVE Indexed(LL, c)' \/ Overtaken'
    BY <1>3 DEF Fresh
  <2>1. Indexed(LL, c) \/ Overtaken
    BY <1>2 DEF ReadOK, Fresh, UnderWay
  <2>2. Indexed(LL, c) => Indexed(LL, c)'
    BY <1>1, <1>3, <1>4, IndexedStays
  <2>3. Overtaken => Overtaken'
    BY <1>1, <1>3, <1>4, OvertakenStays
  <2> QED
    BY <2>1, <2>2, <2>3
<1> QED
  BY <1>2, <1>3, <1>9, <1>10, ReadOn

\* A majority that acknowledged the probes meets every majority that could have
\* committed something in a later term before the read began.
LEMMA ConfirmRead ==
    ASSUME Odd(Cardinality(Server)), TypeOK, ReadTypes, VoteInv, NEW LL, LedgerOK(LL),
           CommitOK(LL), ReadOK(LL), ConfirmLeaderQuorum
    PROVE  ReadInv'
<1>1. PICK i \in Server : i = read.node
  BY DEF ConfirmLeaderQuorum, ReadTypes, UnderWay
<1>2. /\ read.phase = "probing" /\ UNCHANGED <<vars, returned>>
      /\ HasMajority(Config(i), i, read.acks)
  BY <1>1 DEF ConfirmLeaderQuorum, QuorumAcknowledged
<1>3. /\ read'.phase = "confirmed" /\ read'.term = read.term
      /\ read'.readIndex = read.readIndex
      /\ read'.floor = read.floor /\ read'.own = read.own
  BY DEF ConfirmLeaderQuorum, ReadTypes, ReadsTypeOK, Read
<1>4. Extends(LL, LL)
  BY ExtendsItself
<1>5. ~Overtaken
  <2> SUFFICES ASSUME Overtaken PROVE FALSE
    OBVIOUS
  <2>1. PICK q \in Server, Q \in SUBSET Server :
           HasMajority(Config(q), q, Q) /\ \A j \in Q : j \notin read.acks
    BY DEF Overtaken
  <2>2. \E x \in Server : x \in Q /\ x \in read.acks
    BY <1>2, <2>1, SharedNode
  <2> QED
    BY <2>1, <2>2
<1>6. Fresh(LL)'
  <2> SUFFICES ASSUME read.own, NEW c \in read.floor PROVE Indexed(LL, c)'
    BY <1>3 DEF Fresh
  <2>1. Indexed(LL, c)
    BY <1>2, <1>5 DEF ReadOK, Fresh, UnderWay
  <2> QED
    BY <1>3, <1>4, <2>1, IndexedStays, ReadFields
<1>7. Probing(LL)'
  BY <1>3 DEF Probing
<1> QED
  BY <1>2, <1>3, <1>6, <1>7, ReadOn

\* The leader of the term has applied everything up to the read index.
LEMMA FinishRead ==
    ASSUME Odd(Cardinality(Server)), TypeOK, ReadTypes, VoteInv, NEW LL, LedgerOK(LL),
           CommitOK(LL), ReadOK(LL), Finish
    PROVE  ReadInv'
<1>1. PICK i \in Server, u \in Nat, x \in Nat :
         i = read.node /\ u = read.term /\ x = read.readIndex
  BY DEF Finish, ReadTypes, UnderWay, ReadsTypeOK, Read
<1>2. /\ read.phase = "confirmed" /\ state[i] = "Leader" /\ currentTerm[i] = u
      /\ x <= Len(applied[i]) /\ UNCHANGED vars /\ Answered(read, kv(i))
  <2>1. Len(applied[i]) \in Nat
    BY LenProperties DEF TypeOK
  <2> QED
    BY <1>1, <2>1 DEF Finish, StillLeader
<1>3. /\ read'.phase = "answered" /\ read'.result = kv(i) /\ read'.floor = read.floor
      /\ read'.own = read.own /\ returned' = returned \cup kv(i)
  BY <1>2 DEF Answered, NoRead
<1>4. ASSUME read.own, NEW c \in read.floor PROVE c \in kv(i)
  <2>1. Indexed(LL, c) /\ c \in Command
    BY <1>2, <1>4, ReadFields DEF ReadOK, Fresh, UnderWay
  <2>2. PICK n \in Nat : n >= 1 /\ n <= x /\ LL[u][n].cmd = c
    BY <1>1, <2>1 DEF Indexed
  <2>3. /\ log[i] = LL[u] /\ Len(applied[i]) = commitIndex[i] /\ commitIndex[i] \in Nat
        /\ Same(applied[i], log[i], commitIndex[i])
    BY <1>2 DEF LedgerOK, LeadersHold, CommitOK, AppliedIs, Applies, TypeOK
  <2>4. n \in 1..Len(applied[i]) /\ applied[i][n].cmd = c
    BY <1>2, <2>2, <2>3 DEF Same
  <2> QED
    BY <2>1, <2>4, NoopAssumption DEF kv
<1>5. SafeReadsFresh'
  BY <1>3, <1>4 DEF SafeReadsFresh
<1> QED
  BY <1>2, <1>3, <1>5, AnswerRead

LEMMA EndRead ==
    ASSUME Odd(Cardinality(Server)), TypeOK, ReadTypes, VoteInv, NEW LL, LedgerOK(LL),
           CommitOK(LL), ReadOK(LL), Refuse
    PROVE  ReadInv'
<1>1. read'.phase = "none" /\ UNCHANGED <<vars, returned>>
  BY DEF Refuse, NoRead
<1>2. Probing(LL)' /\ Fresh(LL)'
  BY <1>1 DEF Probing, Fresh, UnderWay
<1> QED
  BY <1>1, <1>2, ReadOn
-----------------------------------------------------------------------------
(***************************************************************************)
(* The invariant holds.                                                    *)
(***************************************************************************)
LEMMA NextReadInv ==
    ASSUME Odd(Cardinality(Server)), TypeOK, ReadTypes, VoteInv, ReadInv,
           [NextReads]_allVars, [TermsKeptStep]_vars
    PROVE  ReadInv' /\ VoteInv'
<1>1. PICK LL : LedgerOK(LL) /\ CommitOK(LL) /\ ReadOK(LL)
  BY DEF ReadInv
<1>2. ASSUME [Next]_vars, UNCHANGED <<read, returned>> PROVE ReadInv' /\ VoteInv'
  BY <1>1, <1>2, RaftRead, NextVoteInv
<1>3. CASE UNCHANGED allVars \/ (Next /\ UNCHANGED readVars)
  BY <1>2, <1>3 DEF allVars, readVars
<1>4. ASSUME NEW i \in Server, LeaseEnds(i) PROVE ReadInv' /\ VoteInv'
  BY <1>2, <1>4 DEF LeaseEnds
<1>5. ASSUME NEW j \in Server, HandleProbe(j) PROVE ReadInv' /\ VoteInv'
  BY <1>1, <1>5, ProbeRead, ProbeCalm DEF ReadOK
<1>6. ASSUME UNCHANGED vars PROVE VoteInv'
  BY <1>1, <1>6, ReadAlone
<1>7. ASSUME NEW i \in Server, NEW mode \in Mode, Get(i, mode) PROVE ReadInv' /\ VoteInv'
  <2>1. UNCHANGED vars
    BY <1>7 DEF Get
  <2> QED
    BY <1>1, <1>6, <1>7, <2>1, GetRead
<1>8. CASE AskPeers
  <2>1. UNCHANGED vars
    BY <1>8 DEF AskPeers
  <2> QED
    BY <1>1, <1>6, <1>8, <2>1, AskPeersRead
<1>9. CASE ConfirmLeaderQuorum
  <2>1. UNCHANGED vars
    BY <1>9 DEF ConfirmLeaderQuorum
  <2> QED
    BY <1>1, <1>6, <1>9, <2>1, ConfirmRead
<1>10. CASE Refuse
  <2>1. UNCHANGED vars
    BY <1>10 DEF Refuse
  <2> QED
    BY <1>1, <1>6, <1>10, <2>1, EndRead
<1>11. CASE Finish
  <2>1. UNCHANGED vars
    BY <1>11 DEF Finish
  <2> QED
    BY <1>1, <1>6, <1>11, <2>1, FinishRead
<1> QED
  BY <1>3, <1>4, <1>5, <1>7, <1>8, <1>9, <1>10, <1>11 DEF NextReads

LEMMA InitReadInv == Init /\ InitReads => ReadInv
<1> SUFFICES ASSUME Init, InitReads PROVE ReadInv
  OBVIOUS
<1>1. PICK LL \in Ledger : LedgerOK(LL) /\ CommitOK(LL)
  BY InitCommitInv DEF CommitInv
<1>2. /\ msgs = {} /\ \A i \in Server : commitIndex[i] = 0
      /\ \A c \in Command : replies[c] = "none"
  BY DEF Init
<1>3. CommitsAnnounced(LL) /\ RequestsAnnounced(LL)
  BY <1>2 DEF CommitsAnnounced, RequestsAnnounced
<1>4. AnswersServed(LL)
  <2>1. Acked \cup returned = {}
    BY <1>2 DEF Acked, InitReads
  <2> QED
    BY <2>1 DEF AnswersServed
<1>5. Probing(LL) /\ Fresh(LL) /\ SafeReadsFresh
  <2>1. read.phase = "none"
    BY DEF InitReads, NoRead
  <2> QED
    BY <2>1 DEF Probing, Fresh, UnderWay, SafeReadsFresh
<1> QED
  BY <1>1, <1>3, <1>4, <1>5 DEF ReadInv, ReadOK

\* The inductive invariant of reads holds for every order of the steps of Get,
\* of processAppendEntries with its probes and of everything module Raft does in
\* between, in an odd cluster in which no restart takes a node back to an older term.
THEOREM ReadsAccounted ==
    ASSUME Odd(Cardinality(Server))
    PROVE  SpecReads /\ TermsKept => [](TypeOK /\ ReadTypes /\ VoteInv /\ ReadInv)
<1>1. Init /\ InitReads => TypeOK /\ ReadTypes /\ VoteInv /\ ReadInv
  BY InitTypeOK, ReadTypesInit, InitVoteInv, InitReadInv
<1>2. TypeOK /\ ReadTypes /\ VoteInv /\ ReadInv /\ [NextReads]_allVars /\ [TermsKeptStep]_vars
         => (TypeOK /\ ReadTypes /\ VoteInv /\ ReadInv)'
  BY NextReadsTypeOK, NextReadTypes, NextReadInv
<1> QED
  BY <1>1, <1>2, PTL DEF SpecReads, TermsKept

\* A safe read at a leader that has committed an entry of its term returns
\* everything acknowledged or read before it began: confirmLeaderQuorum stops a
\* leader that was replaced without knowing it, and waitForAppliedIndex the
\* others until they have applied what they knew to be committed.
THEOREM SafeReadsAreFresh ==
    ASSUME Odd(Cardinality(Server))
    PROVE  SpecReads /\ TermsKept => []SafeReadsFresh
<1>1. ReadInv => SafeReadsFresh
  BY DEF ReadInv, ReadOK
<1> QED
  BY <1>1, ReadsAccounted, PTL

LEMMA DurableFromReads ==
    ASSUME Odd(Cardinality(Server)), TypeOK, VoteInv, ReadInv
    PROVE  ReadsDurable
<1> SUFFICES ASSUME NEW c \in returned
             PROVE  2 * Cardinality({j \in Server :
                                       \E n \in 1..Len(log[j]) : log[j][n].cmd = c})
                      > Cardinality(Server)
  BY DEF ReadsDurable
<1>1. PICK LL : LedgerOK(LL) /\ CommitOK(LL) /\ ReadOK(LL)
  BY DEF ReadInv
<1>2. PICK t \in Nat, k \in Nat : Chosen(LL, t, k) /\ \E n \in 1..k : LL[t][n].cmd = c
  BY <1>1 DEF ReadOK, AnswersServed, Served, Announced
<1>3. PICK n \in 1..k : LL[t][n].cmd = c
  BY <1>2
<1>4. PICK q \in Server, Q \in SUBSET Server :
         HasMajority(Config(q), q, Q) /\ \A j \in Q : Same(log[j], LL[t], k)
  BY <1>1, <1>2, ChosenHeld
<1>5. ASSUME NEW j \in Q PROVE n \in 1..Len(log[j]) /\ log[j][n].cmd = c
  <2>1. j \in Server /\ log[j] \in Seq(Entry) /\ Len(log[j]) \in Nat
    BY LenProperties DEF TypeOK
  <2> QED
    BY <1>3, <1>4, <2>1 DEF Same
<1> DEFINE S == {j \in Server : \E x \in 1..Len(log[j]) : log[j][x].cmd = c}
<1>6. S \in SUBSET Server /\ Q \subseteq S
  BY <1>5
<1> HIDE DEF S
<1>7. 2 * Cardinality(S) > Cardinality(Server)
  BY <1>4, <1>6, MoreThanHalf
<1> QED
  BY <1>7 DEF S

\* What any read has returned, in any mode, stays in the logs of a majority: kv
\* holds only what applyLogs has applied, and that is committed.
THEOREM ReadsStayDurable ==
    ASSUME Odd(Cardinality(Server))
    PROVE  SpecReads /\ TermsKept => []ReadsDurable
<1>1. TypeOK /\ VoteInv /\ ReadInv => ReadsDurable
  BY DurableFromReads
<1> QED
  BY <1>1, ReadsAccounted, PTL
=============================================================================
