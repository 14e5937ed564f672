----------------------------- MODULE Membership -----------------------------
(***************************************************************************)
(* Membership changes of raft/raft.go by joint consensus: what one leader  *)
(* does from its election until it has removed itself, and what the nodes  *)
(* it adds and removes learn of it.  The leader is the node Boot.  It may  *)
(* start without peers; it is then elected by its own timer alone, and     *)
(* commits alone until it has added a node.                                *)
(*                                                                         *)
(* Nobody else is elected here, so all entries have the term of the leader *)
(* and the log of any other node is a prefix of the leader's: its length   *)
(* is all there is to know.  Compaction is off.  The fields of the leader  *)
(* are one record, because its handlers commit and apply entries in a loop *)
(* that changes the configuration, and with it the majority, as it goes.   *)
(* A message is delivered at most once, in any order, or never.            *)
(***************************************************************************)
EXTENDS ClusterConfig, Sequences, FiniteSetsExt

CONSTANTS
    Node,          \* the node ids
    Boot,          \* the node that leads
    StartClusters, \* the clusters the nodes may have been started as
    MaxChanges,    \* bound: changes accepted
    MaxCommands,   \* bound: client commands accepted
    MaxInFlight    \* bound: messages between the leader and one peer

ASSUME BootAssumption == IsFiniteSet(Node) /\ Boot \in Node
ASSUME StartAssumption ==
    \A cluster \in StartClusters : cluster \subseteq Node /\ Boot \in cluster
ASSUME BoundsAssumption == {MaxChanges, MaxCommands, MaxInFlight} \subseteq Nat

Peer == Node \ {Boot}

VARIABLES
    leader,  \* the fields of struct Raft of Boot
    peer,    \* by peer: the fields of struct Raft that matter here
    msgs     \* the messages on their way

vars == <<leader, peer, msgs>>
-----------------------------------------------------------------------------
Config == ClusterConfigs(Node)
Plain == [kind : {"noop", "command"}]
Change == [kind : {"config"}, config : Config]
Entry == Plain \cup Change

LeaderFields ==
    [state : {"Follower", "Leader"}, log : Seq(Entry), commitIndex : Nat,
     currentConfig : Config, pendingConfig : BOOLEAN, isJoining : BOOLEAN,
     grpcPeers : SUBSET Peer, nextIndex : [Peer -> Nat],
     matchIndex : [Peer -> Nat], proposals : SUBSET Nat]
PeerFields ==
    [lastLogIndex : Nat, commitIndex : Nat, currentConfig : Config,
     isJoining : BOOLEAN]
Request == [type : {"AppendEntries"}, peer : Peer, prev : Nat, last : Nat,
            leaderCommit : Nat]
Reply == [type : {"AppendReply"}, peer : Peer, success : BOOLEAN, match : Nat]

\* Nothing is committed, acknowledged or asked for that is not in a log.
TypeOK ==
    /\ leader \in LeaderFields
    /\ leader.commitIndex <= Len(leader.log)
    /\ peer \in [Peer -> PeerFields]
    /\ \A p \in Peer : /\ peer[p].lastLogIndex <= Len(leader.log)
                       /\ peer[p].commitIndex <= leader.commitIndex
                       /\ leader.matchIndex[p] <= peer[p].lastLogIndex
    /\ msgs \subseteq Request \cup Reply

\* NewRaft.  isJoining is false unless the program that embeds a node calls
\* SetJoining before Start: main.go calls it for no node, the tests of the
\* repository call it for nodes to be added, so any of those may be joining.
Init ==
    \E cluster \in StartClusters : \E joining \in SUBSET (Node \ cluster) :
        /\ leader = [state |-> "Follower", log |-> << >>, commitIndex |-> 0,
                     currentConfig |-> ConfigFromPeers(cluster \ {Boot}, Boot),
                     pendingConfig |-> FALSE, isJoining |-> FALSE,
                     grpcPeers |-> cluster \ {Boot},
                     nextIndex |-> [p \in Peer |-> 0],
                     matchIndex |-> [p \in Peer |-> 0], proposals |-> {}]
        /\ peer = [p \in Peer |->
                     [lastLogIndex |-> 0, commitIndex |-> 0,
                      currentConfig |-> ConfigFromPeers(cluster \ {p}, p),
                      isJoining |-> p \in joining]]
        /\ msgs = {}
-----------------------------------------------------------------------------
effectivePeers(s) == AllNodeGRPC(s.currentConfig, Boot)

\* Mutated applyConfigEntry: only a member of C_new on its own is a member.
applyConfigFinal(s, id, config) ==
    [s EXCEPT !.currentConfig = config,
              !.isJoining = config.joint \/ ~ContainsNode(config, id)]

\* Mutated applyConfigEntry: isJoining is set but never cleared.
applyConfigSticky(s, id, config) ==
    [s EXCEPT !.currentConfig = config,
              !.isJoining = @ \/ ~ContainsNode(config, id)]

\* applyConfigEntry, for the fields of any node.
applyConfigEntry(s, id, config) ==
    [s EXCEPT !.currentConfig = config, !.isJoining = ~ContainsNode(config, id)]

\* Mutated connectToNewPeers: a new peer is taken to hold the whole log.
connectAsCaughtUp(s) ==
    LET new == effectivePeers(s) \ s.grpcPeers IN
    [s EXCEPT !.grpcPeers = @ \cup new,
              !.nextIndex = [p \in Peer |-> IF p \in new THEN Len(s.log) + 1 ELSE @[p]],
              !.matchIndex = [p \in Peer |-> IF p \in new THEN Len(s.log) ELSE @[p]]]

\* connectToNewPeers: replication to a peer that has no connection yet starts
\* behind the last entry.
connectToNewPeers(s) ==
    LET new == effectivePeers(s) \ s.grpcPeers IN
    [s EXCEPT !.grpcPeers = @ \cup new,
              !.nextIndex = [p \in Peer |-> IF p \in new THEN Len(s.log) + 1 ELSE @[p]],
              !.matchIndex = [p \in Peer |-> IF p \in new THEN 0 ELSE @[p]]]

\* disconnectRemovedPeers, after C_new was applied: an index deleted from a map
\* reads as 0.
disconnectRemovedPeers(s, config) ==
    LET gone == s.grpcPeers \ config.new IN
    [s EXCEPT !.grpcPeers = @ \ gone,
              !.nextIndex = [p \in Peer |-> IF p \in gone THEN 0 ELSE @[p]],
              !.matchIndex = [p \in Peer |-> IF p \in gone THEN 0 ELSE @[p]]]

\* transitionToFollower of a leader: the clients that wait are told.
transitionToFollower(s) == [s EXCEPT !.state = "Follower", !.proposals = {}]

\* Mutated proposeSecondPhaseConfig: the second phase is forgotten.
proposeNothing(s, joint) == s

\* Mutated proposeSecondPhaseConfig: the second phase goes back to C_old.
proposeOldConfig(s, joint) ==
    [s EXCEPT !.log = Append(@, [kind |-> "config",
                                 config |-> [joint EXCEPT !.new = joint.old, !.old = {},
                                                          !.joint = FALSE]])]

\* proposeSecondPhaseConfig: C_new, once C_old,new is committed.
proposeSecondPhaseConfig(s, joint) ==
    [s EXCEPT !.log = Append(@, [kind |-> "config", config |-> BuildFinalConfig(joint)])]

\* applyLogs with C_old,new: a leader goes on to the second phase.
CommitJoint(s, config) ==
    IF s.state = "Leader"
    THEN applyConfigEntry(proposeSecondPhaseConfig(s, config), Boot, config)
    ELSE applyConfigEntry(s, Boot, config)

\* applyLogs with C_new: a leader that is no member of it steps down.
CommitFinal(s, config) ==
    LET t == disconnectRemovedPeers(
                [applyConfigEntry(s, Boot, config) EXCEPT !.pendingConfig = FALSE], config)
    IN  IF s.state = "Leader" /\ Boot \notin config.new
        THEN transitionToFollower(t) ELSE t

\* Mutated CompleteProposals: the proposal of the last entry is left.
CompleteEarlier(s, n) == [s EXCEPT !.proposals = {k \in @ : k >= n}]

\* The end of applyLogs: the clients of the entries up to n are told.
CompleteProposals(s, n) == [s EXCEPT !.proposals = {k \in @ : k > n}]

\* The commit index becomes n, that of the next entry e, and applyLogs runs.
CommitEntry(s, e, n) ==
    LET t == [s EXCEPT !.commitIndex = n] IN
    CompleteProposals(CASE e.kind # "config" -> t
                        [] e.kind = "config" /\ e.config.joint -> CommitJoint(t, e.config)
                        [] OTHER -> CommitFinal(t, e.config), n)

\* Mutated checkCommitMajority: C_old is not asked.
checkNewMajority(s, n) ==
    MajorityOf(s.currentConfig.new, Boot,
               {Boot} \cup {p \in Peer : s.matchIndex[p] >= n})

checkCommitMajority(s, n) ==
    HasMajority(s.currentConfig, Boot,
                {Boot} \cup {p \in Peer : s.matchIndex[p] >= n})

\* The loop of processAppendEntriesResponse over the entries that are not
\* committed; what it appends is left for the next response.  done[n] holds
\* the one state after entry n, as a set so that TLC computes it once.
AdvanceCommit(s) ==
    LET done[n \in s.commitIndex..Len(s.log)] ==
            IF n = s.commitIndex THEN {s}
            ELSE {IF checkCommitMajority(t, n) THEN CommitEntry(t, s.log[n], n) ELSE t
                    : t \in done[n - 1]}
    IN  done[Len(s.log)]
-----------------------------------------------------------------------------
(***************************************************************************)
(* The leader.                                                             *)
(***************************************************************************)
\* transitionToLeader.  A node without peers arrives here from its own timer
\* (startPreVote, transitionToCandidate and startElection call one another);
\* how the others vote is the subject of module Raft.
BecomeLeader ==
    /\ leader.state = "Follower"
    /\ leader.log = << >>
    /\ leader' = [leader EXCEPT
                    !.state = "Leader",
                    !.log = <<[kind |-> "noop"]>>,
                    !.nextIndex = [p \in Peer |-> One(p \in effectivePeers(leader))]]
    /\ UNCHANGED <<peer, msgs>>

Changes == {k \in 1..Len(leader.log) : leader.log[k].kind = "config"}
ConfigAt(k) == leader.log[k].config

\* handleClientCommand.  Without peers the entry is committed at once.
ClientCommand ==
    LET n == Len(leader.log) + 1
        s == [leader EXCEPT !.log = Append(@, [kind |-> "command"]),
                            !.proposals = @ \cup {n}]
    IN
    /\ leader.state = "Leader"
    /\ Cardinality({k \in 1..(n - 1) : leader.log[k].kind = "command"}) < MaxCommands
    /\ leader' = IF effectivePeers(s) = {} /\ checkCommitMajority(s, n)
                 THEN CompleteProposals([s EXCEPT !.commitIndex = n], n)
                 ELSE s
    /\ UNCHANGED <<peer, msgs>>

\* handleConfigChange: the leader uses C_old,new at once.
handleConfigChange(joint) ==
    LET n == Len(leader.log) + 1
        s == [leader EXCEPT !.log = Append(@, [kind |-> "config", config |-> joint]),
                            !.pendingConfig = TRUE]
        t == connectToNewPeers(applyConfigEntry(s, Boot, joint))
    IN
    /\ leader.state = "Leader"
    /\ ~leader.pendingConfig
    /\ Cardinality({k \in Changes : ConfigAt(k).joint}) < MaxChanges
    /\ leader' = [t EXCEPT !.proposals = @ \cup {n}]
    /\ UNCHANGED <<peer, msgs>>

\* handleAddNode and handleRemoveNode of api.go.
AddNode(id) ==
    /\ CanAddNode(leader.currentConfig, Boot, id)
    /\ handleConfigChange(JointAdding(leader.currentConfig, id))
RemoveNode(id) ==
    /\ CanRemoveNode(leader.currentConfig, Boot, id)
    /\ handleConfigChange(JointRemoving(leader.currentConfig, id))

\* replicateToPeer, from the ticker or after a new entry.  A peer without a
\* connection gets nothing, and next index 0 would ask for a snapshot.
ReplicateToPeer(p) ==
    /\ leader.state = "Leader"
    /\ p \in effectivePeers(leader) \cap leader.grpcPeers
    /\ leader.nextIndex[p] > 0
    /\ msgs' = msgs \cup {[type |-> "AppendEntries", peer |-> p,
                           prev |-> leader.nextIndex[p] - 1,
                           last |-> Len(leader.log),
                           leaderCommit |-> leader.commitIndex]}
    /\ Cardinality({m \in msgs' : m.peer = p}) <= MaxInFlight
    /\ UNCHANGED <<leader, peer>>

\* processAppendEntriesResponse.  It does not matter whether the peer is
\* still a member; the retry of a refusal is ReplicateToPeer.
HandleAppendReply(m) ==
    LET s == [leader EXCEPT !.nextIndex[m.peer] = m.match + 1] IN
    /\ m.type = "AppendReply"
    /\ msgs' = msgs \ {m}
    /\ UNCHANGED peer
    /\ \/ leader.state # "Leader" /\ UNCHANGED leader
       \/ leader.state = "Leader" /\ ~m.success /\ leader' = s
       \/ /\ leader.state = "Leader" /\ m.success
          /\ leader' \in AdvanceCommit([s EXCEPT !.matchIndex[m.peer] = m.match])
-----------------------------------------------------------------------------
(***************************************************************************)
(* A peer.                                                                 *)
(***************************************************************************)
\* applyLogs at peer p up to n: the last configuration among the entries stays.
ApplyUpTo(s, p, n) ==
    LET changes == {k \in (s.commitIndex + 1)..n : leader.log[k].kind = "config"}
        t == [s EXCEPT !.commitIndex = n]
    IN  IF changes = {} THEN t
        ELSE applyConfigEntry(t, p, leader.log[Max(changes)].config)

AppendReply(m, success, match) ==
    msgs' = (msgs \ {m}) \cup {[type |-> "AppendReply", peer |-> m.peer,
                                success |-> success, match |-> match]}

\* processAppendEntries.
HandleAppendEntries(m) ==
    LET p == m.peer
        last == Max({peer[p].lastLogIndex, m.last})
        s == [peer[p] EXCEPT !.lastLogIndex = last]
    IN
    /\ m.type = "AppendEntries"
    /\ \/ /\ m.prev > peer[p].lastLogIndex
          /\ AppendReply(m, FALSE, peer[p].lastLogIndex)
          /\ UNCHANGED peer
       \/ /\ m.prev <= peer[p].lastLogIndex
          /\ AppendReply(m, TRUE, last)
          /\ peer' = [peer EXCEPT ![p] =
                ApplyUpTo(s, p, Max({s.commitIndex, Min({m.leaderCommit, last})}))]
    /\ UNCHANGED leader
-----------------------------------------------------------------------------
Next ==
    \/ BecomeLeader
    \/ ClientCommand
    \/ \E id \in Node : AddNode(id)
    \/ \E id \in Node : RemoveNode(id)
    \/ \E p \in Peer : ReplicateToPeer(p)
    \/ \E m \in msgs : HandleAppendEntries(m)
    \/ \E m \in msgs : HandleAppendReply(m)

Delivery(p) ==
    \E m \in msgs : m.peer = p /\ (HandleAppendEntries(m) \/ HandleAppendReply(m))

\* The ticker of the leader fires every 50 ms, and of the calls to a peer that
\* runs infinitely many are answered; a message may be overtaken for ever.
Fairness == \A p \in Peer : WF_vars(ReplicateToPeer(p)) /\ WF_vars(Delivery(p))

Spec == Init /\ [][Next]_vars /\ Fairness
-----------------------------------------------------------------------------
(***************************************************************************)
(* Properties.                                                             *)
(***************************************************************************)
\* Changes do not overlap: in the log every C_old,new starts from the
\* membership the change before it ended with, and every C_new ends the change
\* right before it (pendingConfig, BuildJointConfig, proposeSecondPhaseConfig).
ChangesInTurn ==
    \A k \in Changes :
        LET before == {j \in Changes : j < k} IN
        \/ before = {} /\ ConfigAt(k).joint
        \/ /\ before # {}
           /\ LET c == ConfigAt(Max(before)) IN
              /\ c.joint # ConfigAt(k).joint
              /\ IF c.joint THEN ConfigAt(k).new = c.new ELSE ConfigAt(k).old = c.new

Holders(k) == {Boot} \cup {p \in Peer : peer[p].lastLogIndex >= k}

\* Both phases of a change are committed by what the code calls a majority of
\* C_old and of C_new, of nodes that really hold the entry, although match
\* indexes are kept, reset and overwritten by late responses while peers are
\* connected and disconnected (checkCommitMajority).
CommittedByBoth ==
    \A k \in Changes : k <= leader.commitIndex =>
        LET joint == ConfigAt(Max({j \in Changes : j <= k /\ ConfigAt(j).joint}))
        IN  HasMajority(joint, Boot, Holders(k))

\* A leader that has removed itself leaves a successor behind: a member that
\* holds everything committed, and whose election timer is active.
SuccessorReady ==
    leader.log # << >> /\ leader.state = "Follower" =>
        \E p \in leader.currentConfig.new :
            /\ peer[p].lastLogIndex >= leader.commitIndex
            /\ ~peer[p].isJoining

\* The only member was removed: nobody is left to commit anything.
Orphaned == leader.currentConfig.new = {}

\* A change that was accepted is completed, also the removal of the leader and
\* that of the second of two nodes.
ChangesComplete == leader.pendingConfig ~> (~leader.pendingConfig \/ Orphaned)

\* Every client that waits for a change or a command is answered in the end.
\* (Only so many are accepted, so one that is not answered stays.)
ProposalsAnswered ==
    leader.proposals # {} ~> (leader.proposals = {} \/ Orphaned)

\* A member of the configuration the leader uses gets to know it, and takes
\* part in elections, whatever it was started with and however the changes
\* before overlapped with its catching up, while the leader leads
\* (applyConfigEntry, isJoining, connectToNewPeers).
MembersLearn ==
    \A p \in Peer :
        p \in leader.currentConfig.new ~>
            \/ p \notin leader.currentConfig.new
            \/ leader.state # "Leader"
            \/ Orphaned
            \/ /\ peer[p].currentConfig.new = leader.currentConfig.new
               /\ ~peer[p].isJoining
=============================================================================
