---------------------------- MODULE ClusterConfig ----------------------------
(***************************************************************************)
(* The cluster configuration of raft/config.go: which node ids are members *)
(* and which sets of voters are a majority.  The Go type keeps four maps   *)
(* from node id to address; only their key sets matter to the protocol, so *)
(* a configuration is a record of two sets of ids and the joint flag.      *)
(*                                                                         *)
(* HasMajority is written exactly as the code counts.  The maps built by   *)
(* ConfigFromPeers already hold the node itself, and HasMajority adds the  *)
(* node once more to both the count and the total, so on a cluster of N    *)
(* nodes a node accepts (N + 1) \div 2 voters: a majority when N is odd,   *)
(* exactly half when N is even.                                            *)
(***************************************************************************)
EXTENDS Naturals, FiniteSets

\* The configurations over a set of node ids.
ClusterConfigs(Ids) == [old : SUBSET Ids, new : SUBSET Ids, joint : BOOLEAN]

\* ConfigFromPeers: the steady-state configuration of a node at startup.
ConfigFromPeers(peers, self) ==
    [old |-> {}, new |-> peers \cup {self}, joint |-> FALSE]

\* Members of C_new, and of C_old while the configuration is joint: the keys
\* that ContainsNode finds.
Members(c) == c.new \cup (IF c.joint THEN c.old ELSE {})

ContainsNode(c, id) == id \in Members(c)

\* AllNodeGRPC, AllNodeHTTP: every member except the node itself.
AllNodeGRPC(c, self) == Members(c) \ {self}

-----------------------------------------------------------------------------
One(b) == IF b THEN 1 ELSE 0

\* One of the two checks of HasMajority: the node `self` is counted through
\* the map and then again on its own.
MajorityOf(peers, self, voters) ==
    LET count == Cardinality(peers \cap voters) + One(self \in peers \cap voters)
        total == Cardinality(peers) + One(self \in peers)
    IN  count >= total \div 2 + 1

\* A majority of C_new, and of C_old as well while the configuration is joint.
HasMajority(c, self, voters) ==
    /\ MajorityOf(c.new, self, voters)
    /\ c.joint => MajorityOf(c.old, self, voters)

-----------------------------------------------------------------------------
(***************************************************************************)
(* The two phases of a membership change.                                  *)
(***************************************************************************)
\* The conditions under which BuildJointConfig returns no error.
CanAddNode(c, self, id) ==
    /\ ~c.joint
    /\ id \notin c.new
    /\ id # self

CanRemoveNode(c, self, id) ==
    /\ ~c.joint
    /\ id \in c.new \/ id = self

\* C_old,new for adding and for removing a node.
JointAdding(c, id) == [old |-> c.new, new |-> c.new \cup {id}, joint |-> TRUE]

JointRemoving(c, id) == [old |-> c.new, new |-> c.new \ {id}, joint |-> TRUE]

\* BuildFinalConfig: C_new on its own.
BuildFinalConfig(c) == [old |-> {}, new |-> c.new, joint |-> FALSE]
=============================================================================
