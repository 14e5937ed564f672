------------------------------- MODULE Reads -------------------------------
(***************************************************************************)
(* Reads on top of module Raft: Raft.Get with its three modes,             *)
(* confirmLeaderQuorum and waitForAppliedIndex of raft/raft.go, as called  *)
(* by handleGet of api/api.go.                                             *)
(*                                                                         *)
(* A read gives up the lock three times, and everything module Raft can do *)
(* may happen in between: between taking the read index and asking the     *)
(* peers, while the probes are under way, and while it waits for the state *)
(* machine.  One read is under way at a time, at any node; a probe that is *)
(* still under way when its read ends is a heartbeat without entries and   *)
(* is left out.                                                            *)
(*                                                                         *)
(* What a read returns is the set of commands the state machine has seen.  *)
(* Commands are never taken back, so a read is fresh if it returns at      *)
(* least what had been acknowledged or read before it began.               *)
(***************************************************************************)
EXTENDS Raft

CONSTANTS
    Mode,      \* the read safety modes that clients meet
    MaxReads   \* bound: reads in all

ASSUME ReadsAssumption ==
    Mode \subseteq {"safe", "lease", "local"} /\ MaxReads \in Nat

VARIABLES
    read,                 \* the read under way, or the last answer
    lastHeartbeatQuorum,  \* nodes that confirmed their lead less than 250 ms ago
    reads,                \* reads begun so far
    returned              \* history: the commands that reads have returned

readVars == <<read, lastHeartbeatQuorum, reads, returned>>
allVars == <<vars, readVars>>
-----------------------------------------------------------------------------
\* phase: "none" under way; "begun" with the read index taken; "probing" with
\* the probes sent; "confirmed" by a majority; "answered".
\* asked: the peers whose probe is under way; acks: the node and the peers that
\* acknowledged.  floor and own are history: what the read must return, and
\* whether the node had committed an entry of its term.
Read == [phase : {"none", "begun", "probing", "confirmed", "answered"},
         mode : {"safe", "lease", "local"}, node : Server \cup {Nil}, inc : Nat,
         term : Nat, readIndex : Nat, prev : Nat, prevTerm : Nat, commit : Nat,
         asked : SUBSET Server, acks : SUBSET Server, result : SUBSET Command,
         floor : SUBSET Command, own : BOOLEAN]

ReadsTypeOK ==
    /\ read \in Read
    /\ lastHeartbeatQuorum \subseteq Server
    /\ reads \in 0..MaxReads
    /\ returned \subseteq Command

NoRead == [phase |-> "none", mode |-> "safe", node |-> Nil, inc |-> 0, term |-> 0,
           readIndex |-> 0, prev |-> 0, prevTerm |-> 0, commit |-> 0, asked |-> {},
           acks |-> {}, result |-> {}, floor |-> {}, own |-> FALSE]

InitReads ==
    /\ read = NoRead
    /\ lastHeartbeatQuorum = {}
    /\ reads = 0
    /\ returned = {}
-----------------------------------------------------------------------------
\* Mutated kv: the no-op is stored, or entries are before they are committed.
kvWithNoop(i) == {applied[i][n].cmd : n \in 1..Len(applied[i])}
kvUncommitted(i) == {log[i][n].cmd : n \in 1..Len(log[i])} \ {Noop}

\* The key-value state of node i: the commands it has applied.
kv(i) == {applied[i][n].cmd : n \in 1..Len(applied[i])} \ {Noop}

Acked == {c \in Command : replies[c] = "success"}

OwnCommitted(i) == \E n \in 1..commitIndex[i] : log[i][n].term = currentTerm[i]

\* The process that runs the read is still there.
Alive == incarnation[read.node] = read.inc

\* Still the leader of the term in which the read began.
StillLeader == state[read.node] = "Leader" /\ currentTerm[read.node] = read.term

Answered(r, result) ==
    /\ read' = [NoRead EXCEPT !.phase = "answered", !.mode = r.mode, !.result = result,
                               !.floor = r.floor, !.own = r.own]
    /\ returned' = returned \cup result

\* Get up to its first unlock, at the leader i.  A local read, or one under a
\* lease, is answered at once; another one takes the commit index as its read
\* index.  A node that does not lead answers nothing.
Get(i, mode) ==
    LET r == [phase |-> "begun", mode |-> mode, node |-> i, inc |-> incarnation[i],
              term |-> currentTerm[i], readIndex |-> commitIndex[i], prev |-> 0,
              prevTerm |-> 0, commit |-> 0, asked |-> {}, acks |-> {i},
              result |-> {}, floor |-> Acked \cup returned, own |-> OwnCommitted(i)]
    IN
    /\ read.phase \in {"none", "answered"}
    /\ reads < MaxReads
    /\ reads' = reads + 1
    /\ state[i] = "Leader"
    /\ \/ /\ mode = "local" \/ (mode = "lease" /\ i \in lastHeartbeatQuorum)
          /\ Answered(r, kv(i))
       \/ /\ mode = "safe" \/ (mode = "lease" /\ i \notin lastHeartbeatQuorum)
          /\ read' = r
          /\ UNCHANGED returned
    /\ UNCHANGED <<vars, lastHeartbeatQuorum>>

\* confirmLeaderQuorum sends each peer an append without entries behind the
\* last entry of the log.
AskPeers ==
    LET i == read.node IN
    /\ read.phase = "begun"
    /\ Alive
    /\ StillLeader
    /\ read' = [read EXCEPT !.phase = "probing", !.asked = effectivePeers(i),
                            !.prev = Len(log[i]), !.prevTerm = lastLogTerm(log[i]),
                            !.commit = commitIndex[i]]
    /\ UNCHANGED <<vars, lastHeartbeatQuorum, reads, returned>>

\* The probe as a request that processAppendEntries takes.
Probe(j) == [to |-> j, from |-> read.node, term |-> read.term,
             prevIndex |-> read.prev, prevTerm |-> read.prevTerm,
             entries |-> << >>, leaderCommit |-> read.commit]

\* Mutated ProbeAcknowledged: any answer counts.
ProbeAnswered(j) == TRUE

\* The condition under which the peer j reports success.
ProbeAcknowledged(j) ==
    /\ read.term >= currentTerm[j]
    /\ PrevMatches(log[j], Probe(j))

\* processAppendEntries with a probe, at the peer j: what HandleAppendEntries
\* does with a request that has no entries.
HandleProbe(j) ==
    LET m == Probe(j)
        stepDown == StepsDown(m, j)
        props == IF stepDown THEN {} ELSE proposals[j]
        n == Min({m.leaderCommit, Len(log[j])})
    IN
    /\ read.phase = "probing"
    /\ j \in read.asked
    /\ read' = [read EXCEPT !.asked = @ \ {j},
                            !.acks = IF ProbeAcknowledged(j) THEN @ \cup {j} ELSE @]
    /\ \/ /\ m.term < currentTerm[j]
          /\ UNCHANGED <<state, currentTerm, votedFor, commitIndex, applied, clientVars>>
       \/ /\ m.term >= currentTerm[j]
          /\ state' = [state EXCEPT ![j] = IF stepDown THEN "Follower" ELSE @]
          /\ currentTerm' = [currentTerm EXCEPT ![j] = m.term]
          /\ votedFor' = [votedFor EXCEPT ![j] = m.from]
          /\ IF PrevMatches(log[j], m) /\ m.leaderCommit > commitIndex[j]
             THEN applyLogs(j, log[j], n, props)
             ELSE /\ IF stepDown THEN CancelProposals(j) ELSE UNCHANGED clientVars
                  /\ UNCHANGED <<commitIndex, applied>>
    /\ UNCHANGED <<log, wal, voteVars, leaderVars, msgs, incarnation, history,
                   lastHeartbeatQuorum, reads, returned>>

QuorumAcknowledged == HasMajority(Config(read.node), read.node, read.acks)

\* confirmLeaderQuorum counts a majority; the lease begins now.
ConfirmLeaderQuorum ==
    /\ read.phase = "probing"
    /\ Alive
    /\ QuorumAcknowledged
    /\ read' = [read EXCEPT !.phase = "confirmed", !.asked = {}, !.acks = {},
                            !.prev = 0, !.prevTerm = 0, !.commit = 0]
    /\ lastHeartbeatQuorum' = lastHeartbeatQuorum \cup {read.node}
    /\ UNCHANGED <<vars, reads, returned>>

\* The read fails: too few acknowledgements, a time-out, the node no longer
\* leads the term of the read, or the process has ended.
Refuse ==
    /\ read.phase \in {"begun", "probing", "confirmed"}
    /\ read' = NoRead
    /\ UNCHANGED <<vars, lastHeartbeatQuorum, reads, returned>>

\* waitForAppliedIndex is over, and the node still leads the term.
Finish ==
    /\ read.phase = "confirmed"
    /\ Alive
    /\ Len(applied[read.node]) >= read.readIndex
    /\ StillLeader
    /\ Answered(read, kv(read.node))
    /\ UNCHANGED <<vars, lastHeartbeatQuorum, reads>>

\* 250 ms have passed since node i confirmed its lead, or it has restarted.
LeaseEnds(i) ==
    /\ i \in lastHeartbeatQuorum
    /\ lastHeartbeatQuorum' = lastHeartbeatQuorum \ {i}
    /\ UNCHANGED <<vars, read, reads, returned>>
-----------------------------------------------------------------------------
NextReads ==
    \/ Next /\ UNCHANGED readVars
    \/ \E i \in Server, mode \in Mode : Get(i, mode)
    \/ AskPeers
    \/ \E j \in Server : HandleProbe(j)
    \/ ConfirmLeaderQuorum
    \/ Refuse
    \/ Finish
    \/ \E i \in Server : LeaseEnds(i)

SpecReads == Init /\ InitReads /\ [][NextReads]_allVars
-----------------------------------------------------------------------------
(***************************************************************************)
(* Properties.                                                             *)
(***************************************************************************)
\* A safe read at a leader that has committed an entry of its term returns
\* everything acknowledged or read before it began: a leader that was replaced
\* without knowing it does not get past confirmLeaderQuorum.
SafeReadsFresh ==
    read.phase = "answered" /\ read.mode = "safe" /\ read.own
        => read.floor \subseteq read.result

\* Without that condition: a new leader whose no-op is not yet committed takes
\* too low a read index.
SafeReadsAlwaysFresh ==
    read.phase = "answered" /\ read.mode = "safe" => read.floor \subseteq read.result

\* What any read has returned, in any mode, stays in the logs of a majority.
ReadsDurable ==
    \A c \in returned :
        2 * Cardinality({j \in Server :
                           \E n \in 1..Len(log[j]) : log[j][n].cmd = c})
          > Cardinality(Server)
=============================================================================
