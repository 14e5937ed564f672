-------------------------- MODULE MembershipProofs --------------------------
(***************************************************************************)
(* What Membership promises for every set of nodes, every starting cluster *)
(* and every bound: changes do not overlap, both phases of a change are    *)
(* committed by majorities of nodes that hold them, a joining node waits   *)
(* for the change that adds it, and a leader that removes itself leaves a  *)
(* successor.  The parts of the invariant are written for a record s of    *)
(* the leader's fields, a function f of the peers' and a set M of          *)
(* messages, because AdvanceCommit commits and applies entry by entry: the *)
(* invariant holds for the record after every turn of its loop.            *)
(***************************************************************************)
EXTENDS Membership, ClusterConfigProofs

ChangesOf(lg) == {k \in 1..Len(lg) : lg[k].kind = "config"}

TypeOf(s, f, M) ==
    /\ s \in LeaderFields
    /\ s.commitIndex <= Len(s.log)
    /\ f \in [Peer -> PeerFields]
    /\ \A p \in Peer : /\ f[p].lastLogIndex <= Len(s.log)
                       /\ f[p].commitIndex <= s.commitIndex
                       /\ s.matchIndex[p] <= f[p].lastLogIndex
    /\ M \subseteq Request \cup Reply

\* The change at k is the one after the change at j.
Follows(lg, j, k) ==
    /\ j \in ChangesOf(lg) /\ k \in ChangesOf(lg) /\ j < k
    /\ \A i \in ChangesOf(lg) : i <= j \/ i >= k

\* ChangesInTurn of the log lg.
InTurn(lg) ==
    \A k \in ChangesOf(lg) :
        \/ lg[k].config.joint /\ \A i \in ChangesOf(lg) : i >= k
        \/ \E j \in ChangesOf(lg) :
              /\ Follows(lg, j, k)
              /\ lg[j].config.joint # lg[k].config.joint
              /\ lg[j].config.joint => lg[k].config.new = lg[j].config.new
              /\ ~lg[j].config.joint => lg[k].config.old = lg[j].config.new

\* No change is on its way.
Steady(s) ==
    /\ ~s.pendingConfig /\ ~s.currentConfig.joint
    /\ \A k \in ChangesOf(s.log) :
          /\ k <= s.commitIndex
          /\ (\A i \in ChangesOf(s.log) : i <= k) => s.log[k].config = s.currentConfig
    /\ s.state = "Leader" \/ s.log = << >> => Boot \in s.currentConfig.new

\* C_old,new is in the log and not committed.
FirstPhase(s) ==
    \E j \in ChangesOf(s.log) :
        /\ j > s.commitIndex
        /\ s.log[j].config = s.currentConfig
        /\ \A i \in ChangesOf(s.log) : i = j \/ i <= s.commitIndex

\* C_old,new is committed, and C_new is in the log and not committed.
SecondPhase(s) ==
    \E k \in ChangesOf(s.log) : \E j \in ChangesOf(s.log) :
        /\ k > s.commitIndex /\ j <= s.commitIndex
        /\ s.log[j].config = s.currentConfig
        /\ s.log[k].config = BuildFinalConfig(s.currentConfig)
        /\ \A i \in ChangesOf(s.log) : i = k \/ i <= j

InPhase(s) ==
    \/ Steady(s)
    \/ /\ s.pendingConfig /\ s.state = "Leader" /\ s.currentConfig.joint
       /\ s.currentConfig.old # s.currentConfig.new
       /\ FirstPhase(s) \/ SecondPhase(s)

HoldersOf(f, k) == {Boot} \cup {p \in Peer : f[p].lastLogIndex >= k}

\* CommittedByBoth of the log lg with commit index n.
ByBoth(lg, n, f) ==
    \A k \in ChangesOf(lg) : k <= n =>
        \E j \in ChangesOf(lg) :
            /\ lg[j].config.joint /\ j <= k
            /\ \A i \in ChangesOf(lg) : lg[i].config.joint /\ i <= k => i <= j
            /\ HasMajority(lg[j].config, Boot, HoldersOf(f, k))

\* A log up to last with a C_new came with a commit index n that covers all
\* changes before it.
Covers(lg, last, n) ==
    \A k \in ChangesOf(lg) : ~lg[k].config.joint /\ k <= last =>
        \A j \in ChangesOf(lg) : j < k => j <= n

Wire(s, f, M) ==
    /\ \A p \in Peer : Covers(s.log, f[p].lastLogIndex, f[p].commitIndex)
    /\ \A m \in M : m.type = "AppendEntries" =>
          /\ m.last <= Len(s.log) /\ m.leaderCommit <= s.commitIndex
          /\ Covers(s.log, m.last, m.leaderCommit)
    /\ \A m \in M : m.type = "AppendReply" /\ m.success => m.match <= f[m.peer].lastLogIndex

\* The last change up to n.
LastUpTo(lg, k, n) ==
    /\ k \in ChangesOf(lg) /\ k <= n
    /\ \A i \in ChangesOf(lg) : i <= n => i <= k

\* isJoining is what the last applied change says.
Joining(s, f) ==
    \A p \in Peer :
        \A k \in ChangesOf(s.log) : LastUpTo(s.log, k, f[p].commitIndex) =>
            f[p].isJoining = ~ContainsNode(s.log[k].config, p)

\* A leader that has stepped down was removed by the last change, and a member
\* of what it left holds all it has committed.
Removed(s, f) ==
    s.state = "Follower" /\ s.log # << >> =>
        /\ Steady(s) /\ ChangesOf(s.log) # {} /\ Boot \notin s.currentConfig.new
        /\ \E p \in s.currentConfig.new : f[p].lastLogIndex >= s.commitIndex

MInv(s, f, M) ==
    /\ TypeOf(s, f, M) /\ InTurn(s.log) /\ InPhase(s) /\ ByBoth(s.log, s.commitIndex, f)
    /\ Wire(s, f, M) /\ Joining(s, f) /\ Removed(s, f)

MembershipInv == MInv(leader, peer, msgs)
-----------------------------------------------------------------------------
(***************************************************************************)
(* Majorities.                                                             *)
(***************************************************************************)
\* More voters are a majority too.
LEMMA MajorityGrows ==
    ASSUME NEW peers, IsFiniteSet(peers), NEW self, NEW V, NEW W, V \subseteq W,
           MajorityOf(peers, self, V)
    PROVE  MajorityOf(peers, self, W)
<1> DEFINE a == Cardinality(peers \cap V)
           b == Cardinality(peers \cap W)
           total == Cardinality(peers) + One(self \in peers)
<1>1. IsFiniteSet(peers \cap W) /\ peers \cap V \subseteq peers \cap W
  BY FS_Subset
<1>2. a \in Nat /\ b \in Nat /\ a <= b
  BY <1>1, FS_Subset, FS_CardinalityType
<1>3. /\ One(self \in peers \cap V) \in Nat /\ One(self \in peers \cap W) \in Nat
      /\ One(self \in peers \cap V) <= One(self \in peers \cap W)
  BY DEF One
<1>4. a + One(self \in peers \cap V) >= total \div 2 + 1
  BY DEF MajorityOf
<1>5. total \in Nat
  BY FS_CardinalityType DEF One
<1>6. PICK q \in Nat : q = total \div 2
  BY <1>5
<1>7. b + One(self \in peers \cap W) >= total \div 2 + 1
  <2> HIDE DEF a, b, total
  <2>1. a + One(self \in peers \cap V) >= q + 1
    BY <1>4, <1>6
  <2>2. b + One(self \in peers \cap W) >= q + 1
    BY <1>2, <1>3, <2>1
  <2> QED
    BY <1>6, <2>2
<1> QED
  BY <1>7 DEF MajorityOf

\* A majority is not empty.
LEMMA MajorityHolds ==
    ASSUME NEW peers, IsFiniteSet(peers), NEW self, NEW V, MajorityOf(peers, self, V)
    PROVE  \E p \in peers : p \in V
<1>1. SUFFICES ASSUME peers \cap V = {} PROVE FALSE
  OBVIOUS
<1>2. Cardinality(peers \cap V) = 0 /\ One(self \in peers \cap V) = 0
  BY <1>1, FS_EmptySet DEF One
<1>3. Cardinality(peers) + One(self \in peers) \in Nat
  BY FS_CardinalityType DEF One
<1>4. (Cardinality(peers) + One(self \in peers)) \div 2 + 1 >= 1
  BY <1>3
<1>5. Cardinality(peers \cap V) + One(self \in peers \cap V)
         >= (Cardinality(peers) + One(self \in peers)) \div 2 + 1
  BY DEF MajorityOf
<1>6. PICK q \in Nat : q = (Cardinality(peers) + One(self \in peers)) \div 2
  BY <1>3
<1> QED
  BY <1>2, <1>5, <1>6

LEMMA ConfigFinite ==
    ASSUME NEW c \in Config
    PROVE  /\ c.old \subseteq Node /\ c.new \subseteq Node /\ c.joint \in BOOLEAN
           /\ IsFiniteSet(c.old) /\ IsFiniteSet(c.new)
<1>1. c.old \subseteq Node /\ c.new \subseteq Node /\ c.joint \in BOOLEAN
  BY DEF Config, ClusterConfigs
<1> QED
  BY <1>1, BootAssumption, FS_Subset

LEMMA HasMajorityGrows ==
    ASSUME NEW c \in Config, NEW V, NEW W, V \subseteq W, HasMajority(c, Boot, V)
    PROVE  HasMajority(c, Boot, W)
<1>1. IsFiniteSet(c.old) /\ IsFiniteSet(c.new)
  BY ConfigFinite
<1> QED
  BY <1>1, MajorityGrows DEF HasMajority
-----------------------------------------------------------------------------
(***************************************************************************)
(* The log.                                                                *)
(***************************************************************************)
\* The log g is the log lg with one entry more.
Grew(lg, g, e) ==
    /\ g \in Seq(Entry) /\ Len(lg) \in Nat /\ Len(g) = Len(lg) + 1 /\ g # << >>
    /\ g[Len(lg) + 1] = e
    /\ \A k \in 1..Len(lg) : g[k] = lg[k]

LEMMA GrewByAppend ==
    ASSUME NEW lg \in Seq(Entry), NEW e \in Entry, NEW g, g = Append(lg, e)
    PROVE  Grew(lg, g, e)
<1>1. PICK u : u = g
  OBVIOUS
<1>2. /\ Len(lg) \in Nat /\ u \in Seq(Entry) /\ Len(u) = Len(lg) + 1 /\ u[Len(lg) + 1] = e
      /\ \A k \in 1..Len(lg) : u[k] = lg[k]
  BY <1>1, AppendProperties, LenProperties
<1>3. u # << >>
  BY <1>2, EmptySeq
<1> QED
  BY <1>1, <1>2, <1>3 DEF Grew

\* The changes of a log with one entry more.
LEMMA ChangesGrew ==
    ASSUME NEW lg \in Seq(Entry), NEW g, NEW e, Grew(lg, g, e)
    PROVE  /\ \A k \in ChangesOf(lg) :
                 k \in Nat /\ k <= Len(lg) /\ k \in ChangesOf(g) /\ g[k] = lg[k]
           /\ \A k \in ChangesOf(g) : \/ k \in ChangesOf(lg)
                                      \/ k = Len(lg) + 1 /\ e.kind = "config"
           /\ e.kind = "config" => Len(lg) + 1 \in ChangesOf(g)
           /\ Len(lg) \in Nat
<1>1. PICK n \in Nat : n = Len(lg)
  BY DEF Grew
<1>2. Len(g) = n + 1 /\ g[n + 1] = e /\ \A k \in 1..n : g[k] = lg[k]
  BY <1>1 DEF Grew
<1>3. ChangesOf(lg) = {k \in 1..n : lg[k].kind = "config"}
  BY <1>1 DEF ChangesOf
<1>4. ChangesOf(g) = {k \in 1..(n + 1) : g[k].kind = "config"}
  BY <1>2 DEF ChangesOf
<1>5. \A k \in 1..(n + 1) : k \in 1..n \/ k = n + 1
  OBVIOUS
<1>6. \A k \in 1..n : k \in 1..(n + 1) /\ k \in Nat /\ k <= n
  OBVIOUS
<1>7. n + 1 \in 1..(n + 1)
  OBVIOUS
<1> QED
  BY <1>1, <1>2, <1>3, <1>4, <1>5, <1>6, <1>7

\* A change in a log.
LEMMA ChangeTypes ==
    ASSUME NEW lg \in Seq(Entry)
    PROVE  /\ Len(lg) \in Nat
           /\ \A k \in ChangesOf(lg) : /\ k \in Nat /\ k >= 1 /\ k <= Len(lg) /\ k \in 1..Len(lg)
                                       /\ lg[k].kind = "config" /\ lg[k].config \in Config
                                       /\ lg[k].config.joint \in BOOLEAN
<1>1. PICK n \in Nat : n = Len(lg)
  BY LenProperties
<1>2. \A k \in 1..Len(lg) : lg[k] \in Entry
  BY ElementOfSeq
<1>3. \A x \in Entry : x.kind = "config" => x.config \in Config
  BY DEF Entry, Plain, Change
<1>4. ChangesOf(lg) = {k \in 1..n : lg[k].kind = "config"}
  BY <1>1 DEF ChangesOf
<1>5. \A k \in 1..n : k \in Nat /\ k >= 1 /\ k <= n
  OBVIOUS
<1> QED
  BY <1>1, <1>2, <1>3, <1>4, <1>5, ConfigFinite

\* What is said of entries up to a length that is there stays true.
LEMMA CoversGrew ==
    ASSUME NEW lg \in Seq(Entry), NEW g, NEW e, Grew(lg, g, e),
           NEW last \in Nat, last <= Len(lg), NEW n, Covers(lg, last, n)
    PROVE  Covers(g, last, n)
<1>1. /\ \A k \in ChangesOf(lg) : k \in Nat /\ k <= Len(lg) /\ g[k] = lg[k]
      /\ \A k \in ChangesOf(g) : k \in ChangesOf(lg) \/ k = Len(lg) + 1
      /\ Len(lg) \in Nat
  BY ChangesGrew
<1>2. SUFFICES ASSUME NEW k \in ChangesOf(g), ~g[k].config.joint, k <= last,
                      NEW j \in ChangesOf(g), j < k
               PROVE  j <= n
  BY DEF Covers
<1>3. k \in ChangesOf(lg)
  BY <1>1, <1>2
<1>4. j \in ChangesOf(lg)
  BY <1>1, <1>2, <1>3
<1> QED
  BY <1>1, <1>2, <1>3, <1>4 DEF Covers

LEMMA ByBothGrew ==
    ASSUME NEW lg \in Seq(Entry), NEW g, NEW e, Grew(lg, g, e),
           NEW n \in Nat, n <= Len(lg), NEW f, ByBoth(lg, n, f)
    PROVE  ByBoth(g, n, f)
<1>1. /\ \A k \in ChangesOf(lg) : k \in Nat /\ k <= Len(lg) /\ k \in ChangesOf(g) /\ g[k] = lg[k]
      /\ \A k \in ChangesOf(g) : k \in ChangesOf(lg) \/ k = Len(lg) + 1
      /\ Len(lg) \in Nat
  BY ChangesGrew
<1>2. SUFFICES ASSUME NEW k \in ChangesOf(g), k <= n
               PROVE  \E j \in ChangesOf(g) :
                         /\ g[j].config.joint /\ j <= k
                         /\ \A i \in ChangesOf(g) : g[i].config.joint /\ i <= k => i <= j
                         /\ HasMajority(g[j].config, Boot, HoldersOf(f, k))
  BY DEF ByBoth
<1>3. k \in ChangesOf(lg)
  BY <1>1, <1>2
<1>4. PICK j \in ChangesOf(lg) :
         /\ lg[j].config.joint /\ j <= k
         /\ \A i \in ChangesOf(lg) : lg[i].config.joint /\ i <= k => i <= j
         /\ HasMajority(lg[j].config, Boot, HoldersOf(f, k))
  BY <1>2, <1>3 DEF ByBoth
<1>5. ASSUME NEW i \in ChangesOf(g), g[i].config.joint, i <= k PROVE i <= j
  <2>1. i \in ChangesOf(lg)
    BY <1>1, <1>2, <1>5
  <2> QED
    BY <1>1, <1>4, <1>5, <2>1
<1>6. j \in ChangesOf(g) /\ g[j] = lg[j]
  BY <1>1
<1> QED
  BY <1>4, <1>5, <1>6

\* A log whose changes are in turn and that grows by e: a plain entry, the
\* first change, or the one that comes after the last.
LEMMA InTurnGrew ==
    ASSUME NEW lg \in Seq(Entry), NEW g, NEW e, Grew(lg, g, e), InTurn(lg),
           \/ e.kind # "config"
           \/ e.config.joint /\ ChangesOf(lg) = {}
           \/ \E j \in ChangesOf(lg) :
                 /\ \A i \in ChangesOf(lg) : i <= j
                 /\ lg[j].config.joint # e.config.joint
                 /\ lg[j].config.joint => e.config.new = lg[j].config.new
                 /\ ~lg[j].config.joint => e.config.old = lg[j].config.new
    PROVE  InTurn(g)
<1>1. /\ \A k \in ChangesOf(lg) : k \in Nat /\ k <= Len(lg) /\ k \in ChangesOf(g) /\ g[k] = lg[k]
      /\ \A k \in ChangesOf(g) : \/ k \in ChangesOf(lg)
                                 \/ k = Len(lg) + 1 /\ e.kind = "config"
      /\ Len(lg) \in Nat
  BY ChangesGrew
<1>2. g[Len(lg) + 1] = e
  BY DEF Grew
<1> DEFINE Turned(k) ==
        \/ g[k].config.joint /\ \A i \in ChangesOf(g) : i >= k
        \/ \E j \in ChangesOf(g) :
              /\ Follows(g, j, k)
              /\ g[j].config.joint # g[k].config.joint
              /\ g[j].config.joint => g[k].config.new = g[j].config.new
              /\ ~g[j].config.joint => g[k].config.old = g[j].config.new
<1>3. ASSUME NEW k \in ChangesOf(lg) PROVE Turned(k)
  <2>1. k \in ChangesOf(g) /\ g[k] = lg[k] /\ k \in Nat /\ k <= Len(lg)
    BY <1>1
  <2>2. CASE lg[k].config.joint /\ \A i \in ChangesOf(lg) : i >= k
    <3>1. \A i \in ChangesOf(g) : i >= k
      BY <1>1, <2>1, <2>2
    <3> QED
      BY <2>1, <2>2, <3>1
  <2>3. CASE \E j \in ChangesOf(lg) :
                /\ Follows(lg, j, k)
                /\ lg[j].config.joint # lg[k].config.joint
                /\ lg[j].config.joint => lg[k].config.new = lg[j].config.new
                /\ ~lg[j].config.joint => lg[k].config.old = lg[j].config.new
    <3>1. PICK j \in ChangesOf(lg) :
                /\ Follows(lg, j, k)
                /\ lg[j].config.joint # lg[k].config.joint
                /\ lg[j].config.joint => lg[k].config.new = lg[j].config.new
                /\ ~lg[j].config.joint => lg[k].config.old = lg[j].config.new
      BY <2>3
    <3>2. j \in ChangesOf(g) /\ g[j] = lg[j]
      BY <1>1
    <3>3. j < k /\ \A i \in ChangesOf(lg) : i <= j \/ i >= k
      BY <3>1 DEF Follows
    <3>4. \A i \in ChangesOf(g) : i <= j \/ i >= k
      BY <1>1, <2>1, <3>3
    <3>5. Follows(g, j, k)
      BY <2>1, <3>2, <3>3, <3>4 DEF Follows
    <3> QED
      BY <2>1, <3>1, <3>2, <3>5
  <2> QED
    BY <2>2, <2>3 DEF InTurn
<1>4. ASSUME NEW k \in ChangesOf(g), k \notin ChangesOf(lg) PROVE Turned(k)
  <2>1. k = Len(lg) + 1 /\ e.kind = "config" /\ g[k] = e /\ k \in Nat
    BY <1>1, <1>2, <1>4
  <2>2. \A i \in ChangesOf(g) : i = k \/ (i \in ChangesOf(lg) /\ i < k /\ i \in Nat)
    BY <1>1, <2>1
  <2>3. CASE e.config.joint /\ ChangesOf(lg) = {}
    <3>1. \A i \in ChangesOf(g) : i >= k
      BY <2>1, <2>2, <2>3
    <3> QED
      BY <2>1, <2>3, <3>1
  <2>4. CASE \E j \in ChangesOf(lg) :
                 /\ \A i \in ChangesOf(lg) : i <= j
                 /\ lg[j].config.joint # e.config.joint
                 /\ lg[j].config.joint => e.config.new = lg[j].config.new
                 /\ ~lg[j].config.joint => e.config.old = lg[j].config.new
    <3>1. PICK j \in ChangesOf(lg) :
                 /\ \A i \in ChangesOf(lg) : i <= j
                 /\ lg[j].config.joint # e.config.joint
                 /\ lg[j].config.joint => e.config.new = lg[j].config.new
                 /\ ~lg[j].config.joint => e.config.old = lg[j].config.new
      BY <2>4
    <3>2. j \in ChangesOf(g) /\ g[j] = lg[j] /\ j < k
      BY <1>1, <2>1
    <3>3. \A i \in ChangesOf(g) : i <= j \/ i >= k
      BY <2>1, <2>2, <3>1
    <3>4. Follows(g, j, k)
      BY <3>2, <3>3 DEF Follows
    <3> QED
      BY <2>1, <3>1, <3>2, <3>4
  <2> QED
    BY <2>1, <2>3, <2>4
<1>5. \A k \in ChangesOf(g) : Turned(k)
  BY <1>3, <1>4
<1> QED
  BY <1>5 DEF InTurn

\* The changes that a peer has applied are the same in a log that grows.
LEMMA JoiningGrew ==
    ASSUME NEW s, NEW t, NEW e, NEW f, s.log \in Seq(Entry), Grew(s.log, t.log, e),
           Joining(s, f), \A p \in Peer : f[p].commitIndex \in Nat /\ f[p].commitIndex <= Len(s.log)
    PROVE  Joining(t, f)
<1>1. /\ \A k \in ChangesOf(s.log) : /\ k \in Nat /\ k <= Len(s.log) /\ k \in ChangesOf(t.log)
                                     /\ t.log[k] = s.log[k]
      /\ \A k \in ChangesOf(t.log) : \/ k \in ChangesOf(s.log)
                                     \/ k = Len(s.log) + 1 /\ e.kind = "config"
      /\ Len(s.log) \in Nat
      /\ e.kind = "config" => Len(s.log) + 1 \in ChangesOf(t.log)
  BY ChangesGrew
<1>2. SUFFICES ASSUME NEW p \in Peer, NEW k \in ChangesOf(t.log),
                      LastUpTo(t.log, k, f[p].commitIndex)
               PROVE  f[p].isJoining = ~ContainsNode(t.log[k].config, p)
  BY DEF Joining
<1>3. k \in ChangesOf(s.log)
  BY <1>1, <1>2 DEF LastUpTo
<1>4. LastUpTo(s.log, k, f[p].commitIndex)
  BY <1>1, <1>2, <1>3 DEF LastUpTo
<1> QED
  BY <1>1, <1>3, <1>4 DEF Joining
-----------------------------------------------------------------------------
(***************************************************************************)
(* Steps of the leader, by the fields they change.                         *)
(***************************************************************************)
LEMMA LeaderTypes ==
    ASSUME NEW s, NEW f, NEW M, TypeOf(s, f, M)
    PROVE  /\ s \in LeaderFields /\ s.log \in Seq(Entry) /\ Len(s.log) \in Nat
           /\ s.commitIndex \in Nat /\ s.commitIndex <= Len(s.log)
           /\ s.currentConfig \in Config /\ s.state \in {"Follower", "Leader"}
           /\ s.pendingConfig \in BOOLEAN /\ s.currentConfig.joint \in BOOLEAN
           /\ \A p \in Peer : /\ f[p] \in PeerFields
                              /\ f[p].lastLogIndex \in Nat /\ f[p].commitIndex \in Nat
                              /\ f[p].isJoining \in BOOLEAN
                              /\ f[p].lastLogIndex <= Len(s.log)
                              /\ f[p].commitIndex <= s.commitIndex
                              /\ f[p].commitIndex <= Len(s.log)
                              /\ s.matchIndex[p] \in Nat
                              /\ s.matchIndex[p] <= f[p].lastLogIndex
<1>1. s \in LeaderFields /\ f \in [Peer -> PeerFields] /\ s.commitIndex <= Len(s.log)
  BY DEF TypeOf
<1>2. /\ s.log \in Seq(Entry) /\ s.commitIndex \in Nat
      /\ s.currentConfig \in Config /\ s.state \in {"Follower", "Leader"}
      /\ s.pendingConfig \in BOOLEAN /\ s.matchIndex \in [Peer -> Nat]
  BY <1>1 DEF LeaderFields
<1>3. Len(s.log) \in Nat /\ s.currentConfig.joint \in BOOLEAN
  BY <1>2, LenProperties, ConfigFinite
<1>4. ASSUME NEW p \in Peer
      PROVE  /\ f[p] \in PeerFields /\ f[p].lastLogIndex \in Nat /\ f[p].commitIndex \in Nat
             /\ f[p].isJoining \in BOOLEAN
  <2>1. f[p] \in PeerFields
    BY <1>1
  <2> QED
    BY <2>1 DEF PeerFields
<1>5. \A p \in Peer : /\ f[p].lastLogIndex <= Len(s.log)
                      /\ f[p].commitIndex <= s.commitIndex
                      /\ s.matchIndex[p] <= f[p].lastLogIndex
  BY DEF TypeOf
<1> QED
  BY <1>1, <1>2, <1>3, <1>4, <1>5

\* The fields that say how far a change has come.
SameChange(s, t) ==
    /\ t.currentConfig = s.currentConfig /\ t.pendingConfig = s.pendingConfig
    /\ t.state = s.state

\* The match indexes of t are those of peers that hold the entries.
Matches(t, f) == \A p \in Peer : t.matchIndex[p] <= f[p].lastLogIndex

\* Which indexes the leader keeps for its peers, and which clients wait.
LEMMA BookkeepingInv ==
    ASSUME NEW s, NEW t, NEW f, NEW M, MInv(s, f, M), t \in LeaderFields,
           t.log = s.log, t.commitIndex = s.commitIndex, SameChange(s, t), Matches(t, f)
    PROVE  MInv(t, f, M)
<1>1. TypeOf(t, f, M)
  BY DEF MInv, TypeOf, Matches
<1>2. InTurn(t.log) /\ ByBoth(t.log, t.commitIndex, f) /\ Wire(t, f, M) /\ Joining(t, f)
  BY DEF MInv, Wire, Joining
<1>3. Steady(t) <=> Steady(s)
  BY DEF Steady, SameChange
<1>4. InPhase(t)
  BY <1>3 DEF MInv, InPhase, FirstPhase, SecondPhase, SameChange
<1>5. Removed(t, f)
  BY <1>3 DEF MInv, Removed, SameChange
<1> QED
  BY <1>1, <1>2, <1>4, <1>5 DEF MInv

\* Whatever is appended is behind all that peers and messages speak of.
LEMMA GrewFrame ==
    ASSUME NEW s, NEW t, NEW f, NEW M, NEW e, MInv(s, f, M), t \in LeaderFields,
           Grew(s.log, t.log, e), t.commitIndex \in Nat, s.commitIndex <= t.commitIndex,
           t.commitIndex <= Len(s.log), Matches(t, f)
    PROVE  TypeOf(t, f, M) /\ Wire(t, f, M)
<1>1. TypeOf(s, f, M) /\ Wire(s, f, M)
  BY DEF MInv
<1>2. /\ s.log \in Seq(Entry) /\ Len(s.log) \in Nat /\ s.commitIndex \in Nat
      /\ \A p \in Peer : /\ f[p].lastLogIndex \in Nat /\ f[p].commitIndex \in Nat
                         /\ f[p].lastLogIndex <= Len(s.log)
                         /\ f[p].commitIndex <= s.commitIndex
  BY <1>1, LeaderTypes
<1>3. Len(t.log) = Len(s.log) + 1
  BY DEF Grew
<1>4. TypeOf(t, f, M)
  <2>1. t.commitIndex <= Len(t.log)
    BY <1>2, <1>3
  <2>2. \A p \in Peer : f[p].lastLogIndex <= Len(t.log) /\ f[p].commitIndex <= t.commitIndex
    BY <1>2, <1>3
  <2> QED
    BY <1>1, <2>1, <2>2 DEF TypeOf, Matches
<1>5. \A p \in Peer : Covers(t.log, f[p].lastLogIndex, f[p].commitIndex)
  BY <1>1, <1>2, CoversGrew DEF Wire
<1>6. ASSUME NEW m \in M, m.type = "AppendEntries"
      PROVE  /\ m.last <= Len(t.log) /\ m.leaderCommit <= t.commitIndex
             /\ Covers(t.log, m.last, m.leaderCommit)
  <2>1. m.last \in Nat /\ m.leaderCommit \in Nat
    BY <1>1, <1>6 DEF TypeOf, Request, Reply
  <2>2. m.last <= Len(s.log) /\ m.leaderCommit <= s.commitIndex
        /\ Covers(s.log, m.last, m.leaderCommit)
    BY <1>1, <1>6 DEF Wire
  <2>3. Covers(t.log, m.last, m.leaderCommit)
    BY <1>2, <2>1, <2>2, CoversGrew
  <2> QED
    BY <1>2, <1>3, <2>1, <2>2, <2>3
<1> QED
  BY <1>1, <1>4, <1>5, <1>6 DEF Wire

\* A leader appends a no-op or a command.
LEMMA AppendPlainInv ==
    ASSUME NEW s, NEW t, NEW f, NEW M, NEW e, MInv(s, f, M), t \in LeaderFields,
           Grew(s.log, t.log, e), e.kind # "config",
           t.commitIndex = s.commitIndex, t.currentConfig = s.currentConfig,
           t.pendingConfig = s.pendingConfig, t.state = "Leader",
           s.state = "Leader" \/ s.log = << >>, Matches(t, f)
    PROVE  MInv(t, f, M)
<1>1. TypeOf(s, f, M) /\ InTurn(s.log) /\ InPhase(s) /\ ByBoth(s.log, s.commitIndex, f)
      /\ Wire(s, f, M) /\ Joining(s, f)
  BY DEF MInv
<1>2. /\ s.log \in Seq(Entry) /\ Len(s.log) \in Nat
      /\ s.commitIndex \in Nat /\ s.commitIndex <= Len(s.log)
      /\ \A p \in Peer : /\ f[p].lastLogIndex \in Nat /\ f[p].commitIndex \in Nat
                         /\ f[p].lastLogIndex <= Len(s.log)
                         /\ f[p].commitIndex <= Len(s.log)
  BY <1>1, LeaderTypes
<1>3. /\ \A k \in ChangesOf(s.log) : k \in ChangesOf(t.log) /\ t.log[k] = s.log[k]
      /\ \A k \in ChangesOf(t.log) : k \in ChangesOf(s.log)
  BY <1>2, ChangesGrew
<1>4. ChangesOf(t.log) = ChangesOf(s.log)
  BY <1>3
<1>5. Len(t.log) = Len(s.log) + 1 /\ t.log # << >>
  BY DEF Grew
<1>6. TypeOf(t, f, M) /\ Wire(t, f, M)
  <2>1. /\ t.commitIndex \in Nat /\ s.commitIndex <= t.commitIndex
        /\ t.commitIndex <= Len(s.log)
    BY <1>2
  <2> QED
    BY <2>1, GrewFrame
<1>7. InTurn(t.log)
  BY <1>1, <1>2, InTurnGrew
<1>8. ByBoth(t.log, t.commitIndex, f)
  BY <1>1, <1>2, ByBothGrew
<1>10. Joining(t, f)
  BY <1>1, <1>2, JoiningGrew
<1>11. Steady(s) => Steady(t)
  BY <1>3, <1>4, <1>5 DEF Steady
<1>12. FirstPhase(s) => FirstPhase(t)
  BY <1>3, <1>4 DEF FirstPhase
<1>13. SecondPhase(s) => SecondPhase(t)
  BY <1>3, <1>4 DEF SecondPhase
<1>14. InPhase(t)
  BY <1>1, <1>11, <1>12, <1>13 DEF InPhase
<1>15. Removed(t, f)
  BY DEF Removed
<1> QED
  BY <1>6, <1>7, <1>8, <1>10, <1>14, <1>15 DEF MInv

\* handleConfigChange: a leader without a change on its way appends C_old,new.
LEMMA AppendJointInv ==
    ASSUME NEW s, NEW t, NEW f, NEW M, NEW e, MInv(s, f, M), t \in LeaderFields,
           Grew(s.log, t.log, e), e.kind = "config", e.config.joint,
           e.config.old = s.currentConfig.new, e.config.old # e.config.new,
           s.state = "Leader", ~s.pendingConfig,
           t.commitIndex = s.commitIndex, t.currentConfig = e.config,
           t.pendingConfig, t.state = "Leader", Matches(t, f)
    PROVE  MInv(t, f, M)
<1>1. TypeOf(s, f, M) /\ InTurn(s.log) /\ ByBoth(s.log, s.commitIndex, f) /\ Joining(s, f)
      /\ Steady(s)
  BY DEF MInv, InPhase
<1>2. /\ s.log \in Seq(Entry) /\ Len(s.log) \in Nat
      /\ s.commitIndex \in Nat /\ s.commitIndex <= Len(s.log)
      /\ \A p \in Peer : f[p].commitIndex \in Nat /\ f[p].commitIndex <= Len(s.log)
  BY <1>1, LeaderTypes
<1>3. /\ \A k \in ChangesOf(s.log) : /\ k \in Nat /\ k <= Len(s.log)
                                     /\ k \in ChangesOf(t.log) /\ t.log[k] = s.log[k]
      /\ \A k \in ChangesOf(t.log) : k \in ChangesOf(s.log) \/ k = Len(s.log) + 1
      /\ Len(s.log) + 1 \in ChangesOf(t.log)
  BY <1>2, ChangesGrew
<1>4. t.log[Len(s.log) + 1] = e
  BY DEF Grew
<1>5. TypeOf(t, f, M) /\ Wire(t, f, M)
  <2>1. /\ t.commitIndex \in Nat /\ s.commitIndex <= t.commitIndex
        /\ t.commitIndex <= Len(s.log)
    BY <1>2
  <2> QED
    BY <2>1, GrewFrame
<1>6. InTurn(t.log)
  <2>1. CASE ChangesOf(s.log) = {}
    BY <1>1, <1>2, <2>1, InTurnGrew
  <2>2. CASE ChangesOf(s.log) # {}
    <3>1. PICK j \in ChangesOf(s.log) : \A i \in ChangesOf(s.log) : i <= j
      <4>1. ChangesOf(s.log) \subseteq Nat
        BY <1>3
      <4>2. \A y \in ChangesOf(s.log) : y <= Len(s.log)
        BY <1>3
      <4>3. /\ Max(ChangesOf(s.log)) \in ChangesOf(s.log)
            /\ \A y \in ChangesOf(s.log) : Max(ChangesOf(s.log)) >= y
        BY <1>2, <2>2, <4>1, <4>2, MaxOfNats
      <4> QED
        BY <4>1, <4>3
    <3>2. s.log[j].config = s.currentConfig /\ ~s.currentConfig.joint
      BY <1>1, <3>1 DEF Steady
    <3>3. \E i \in ChangesOf(s.log) :
             /\ \A h \in ChangesOf(s.log) : h <= i
             /\ s.log[i].config.joint # e.config.joint
             /\ s.log[i].config.joint => e.config.new = s.log[i].config.new
             /\ ~s.log[i].config.joint => e.config.old = s.log[i].config.new
      <4>1. s.log[j].config.joint # e.config.joint
        BY <3>2
      <4> QED
        BY <3>1, <3>2, <4>1
    <3> QED
      BY <1>1, <1>2, <3>3, InTurnGrew
  <2> QED
    BY <2>1, <2>2
<1>7. ByBoth(t.log, t.commitIndex, f)
  BY <1>1, <1>2, ByBothGrew
<1>8. Joining(t, f)
  BY <1>1, <1>2, JoiningGrew
<1>9. FirstPhase(t)
  <2>1. Len(s.log) + 1 > t.commitIndex
    BY <1>2
  <2>2. \A i \in ChangesOf(t.log) : i = Len(s.log) + 1 \/ i <= t.commitIndex
    BY <1>1, <1>3 DEF Steady
  <2> QED
    BY <1>3, <1>4, <2>1, <2>2 DEF FirstPhase
<1>10. InPhase(t)
  BY <1>9 DEF InPhase
<1>11. Removed(t, f)
  BY DEF Removed
<1> QED
  BY <1>5, <1>6, <1>7, <1>8, <1>10, <1>11 DEF MInv

\* What a commit leaves alone of messages and peers.
LEMMA CommitFrame ==
    ASSUME NEW s, NEW t, NEW f, NEW M, MInv(s, f, M), t \in LeaderFields,
           t.log = s.log, t.commitIndex \in Nat, s.commitIndex <= t.commitIndex,
           t.commitIndex <= Len(s.log), Matches(t, f)
    PROVE  TypeOf(t, f, M) /\ Wire(t, f, M)
<1>1. TypeOf(s, f, M) /\ Wire(s, f, M)
  BY DEF MInv
<1>2. /\ s.commitIndex \in Nat
      /\ \A p \in Peer : f[p].commitIndex \in Nat /\ f[p].commitIndex <= s.commitIndex
  BY <1>1, LeaderTypes
<1>3. \A p \in Peer : f[p].commitIndex <= t.commitIndex
  BY <1>2
<1>4. \A m \in M : m.type = "AppendEntries" => m.leaderCommit <= t.commitIndex
  <2>1. \A m \in M : m.type = "AppendEntries" => m.leaderCommit \in Nat
    BY <1>1 DEF TypeOf, Request, Reply
  <2> QED
    BY <1>1, <1>2, <2>1 DEF Wire
<1> QED
  BY <1>1, <1>3, <1>4 DEF TypeOf, Wire, Matches

\* The voters that checkCommitMajority counts hold the entry.
LEMMA VotersHold ==
    ASSUME NEW s, NEW f, NEW M, MInv(s, f, M), NEW n \in Nat, checkCommitMajority(s, n)
    PROVE  /\ HasMajority(s.currentConfig, Boot, HoldersOf(f, n))
           /\ Boot \notin s.currentConfig.new =>
                 \E p \in s.currentConfig.new : p \in Peer /\ f[p].lastLogIndex >= n
<1> DEFINE V == {Boot} \cup {p \in Peer : s.matchIndex[p] >= n}
<1>1. /\ s.currentConfig \in Config
      /\ \A p \in Peer : /\ f[p].lastLogIndex \in Nat /\ s.matchIndex[p] \in Nat
                         /\ s.matchIndex[p] <= f[p].lastLogIndex
  BY LeaderTypes DEF MInv
<1>2. HasMajority(s.currentConfig, Boot, V)
  BY DEF checkCommitMajority
<1>3. V \subseteq HoldersOf(f, n)
  BY <1>1 DEF HoldersOf
<1>4. HasMajority(s.currentConfig, Boot, HoldersOf(f, n))
  <2> HIDE DEF V
  <2> QED
    BY <1>1, <1>2, <1>3, HasMajorityGrows
<1>5. ASSUME Boot \notin s.currentConfig.new
      PROVE  \E p \in s.currentConfig.new : p \in Peer /\ f[p].lastLogIndex >= n
  <2>1. PICK p \in s.currentConfig.new : p \in HoldersOf(f, n)
    BY <1>1, <1>4, ConfigFinite, MajorityHolds DEF HasMajority
  <2> QED
    BY <1>5, <2>1 DEF HoldersOf
<1> QED
  BY <1>4, <1>5

\* Plain entries are committed up to n.
LEMMA CommitPlainInv ==
    ASSUME NEW s, NEW t, NEW f, NEW M, NEW n \in Nat, MInv(s, f, M), t \in LeaderFields,
           s.commitIndex <= n, n <= Len(s.log),
           \A k \in ChangesOf(s.log) : k <= n => k <= s.commitIndex,
           s.state = "Leader" \/ checkCommitMajority(s, n),
           t.log = s.log, t.commitIndex = n, SameChange(s, t), Matches(t, f)
    PROVE  MInv(t, f, M)
<1>1. InTurn(s.log) /\ InPhase(s) /\ ByBoth(s.log, s.commitIndex, f)
      /\ Joining(s, f) /\ Removed(s, f) /\ TypeOf(s, f, M)
  BY DEF MInv
<1>2. TypeOf(t, f, M) /\ Wire(t, f, M)
  BY CommitFrame
<1>3. s.log \in Seq(Entry) /\ s.commitIndex \in Nat
  BY <1>1, LeaderTypes
<1>4. \A k \in ChangesOf(s.log) : k \in Nat
  BY <1>3, ChangeTypes
<1>5. ByBoth(t.log, t.commitIndex, f)
  BY <1>1 DEF ByBoth
<1>6. Joining(t, f)
  BY <1>1 DEF Joining
<1>7. Steady(s) => Steady(t)
  BY <1>3, <1>4 DEF Steady, SameChange
<1>8. FirstPhase(s) => FirstPhase(t)
  BY <1>3, <1>4 DEF FirstPhase, SameChange
<1>9. SecondPhase(s) => SecondPhase(t)
  BY <1>3, <1>4 DEF SecondPhase, SameChange
<1>10. InPhase(t)
  BY <1>1, <1>7, <1>8, <1>9 DEF InPhase, SameChange
<1>11. Removed(t, f)
  <2>1. SUFFICES ASSUME t.state = "Follower", t.log # << >>
                 PROVE  /\ Steady(t) /\ ChangesOf(t.log) # {} /\ Boot \notin t.currentConfig.new
                        /\ \E p \in t.currentConfig.new : f[p].lastLogIndex >= t.commitIndex
    BY DEF Removed
  <2>2. Steady(s) /\ ChangesOf(s.log) # {} /\ Boot \notin s.currentConfig.new
    BY <1>1, <2>1 DEF Removed, SameChange
  <2>3. checkCommitMajority(s, n)
    BY <2>1 DEF SameChange
  <2>4. \E p \in s.currentConfig.new : p \in Peer /\ f[p].lastLogIndex >= n
    BY <2>2, <2>3, VotersHold
  <2> QED
    BY <1>7, <2>2, <2>4 DEF SameChange
<1> QED
  BY <1>1, <1>2, <1>5, <1>6, <1>10, <1>11 DEF MInv

\* A change that is not committed is the last one, and the configuration the
\* leader uses is its C_old,new.
LEMMA Uncommitted ==
    ASSUME NEW s, NEW f, NEW M, MInv(s, f, M), NEW n \in ChangesOf(s.log), n > s.commitIndex
    PROVE  /\ s.state = "Leader" /\ s.pendingConfig /\ s.currentConfig.joint
           /\ s.currentConfig.old # s.currentConfig.new
           /\ \A i \in ChangesOf(s.log) : i = n \/ i <= s.commitIndex
           /\ s.log[n].config.joint => s.log[n].config = s.currentConfig
           /\ ~s.log[n].config.joint =>
                 /\ s.log[n].config = BuildFinalConfig(s.currentConfig)
                 /\ \E j \in ChangesOf(s.log) :
                       /\ j <= s.commitIndex /\ s.log[j].config = s.currentConfig
                       /\ \A i \in ChangesOf(s.log) : i = n \/ i <= j
<1>1. /\ InPhase(s) /\ s.log \in Seq(Entry) /\ s.commitIndex \in Nat
      /\ s.currentConfig.joint \in BOOLEAN
  BY LeaderTypes DEF MInv
<1>2. \A k \in ChangesOf(s.log) : k \in Nat
  BY <1>1, ChangeTypes
<1>3. ~Steady(s)
  BY <1>1, <1>2 DEF Steady
<1>4. /\ s.state = "Leader" /\ s.pendingConfig /\ s.currentConfig.joint
      /\ s.currentConfig.old # s.currentConfig.new
  BY <1>1, <1>3 DEF InPhase
<1>5. CASE FirstPhase(s)
  <2>1. PICK j \in ChangesOf(s.log) :
           /\ j > s.commitIndex
           /\ s.log[j].config = s.currentConfig
           /\ \A i \in ChangesOf(s.log) : i = j \/ i <= s.commitIndex
    BY <1>5 DEF FirstPhase
  <2>2. n = j
    BY <1>1, <1>2, <2>1
  <2> QED
    BY <1>4, <2>1, <2>2
<1>6. CASE SecondPhase(s)
  <2>1. PICK k \in ChangesOf(s.log), j \in ChangesOf(s.log) :
           /\ k > s.commitIndex /\ j <= s.commitIndex
           /\ s.log[j].config = s.currentConfig
           /\ s.log[k].config = BuildFinalConfig(s.currentConfig)
           /\ \A i \in ChangesOf(s.log) : i = k \/ i <= j
    BY <1>6 DEF SecondPhase
  <2>2. \A i \in ChangesOf(s.log) : i = k \/ i <= s.commitIndex
    BY <1>1, <1>2, <2>1
  <2>3. n = k
    BY <1>1, <1>2, <2>2
  <2>4. ~s.log[n].config.joint
    BY <2>1, <2>3 DEF BuildFinalConfig
  <2> QED
    BY <1>4, <2>1, <2>2, <2>3, <2>4
<1> QED
  BY <1>1, <1>3, <1>5, <1>6 DEF InPhase

\* C_old,new is committed, and C_new is appended.
LEMMA CommitJointInv ==
    ASSUME NEW s, NEW t, NEW f, NEW M, NEW e, NEW n \in ChangesOf(s.log), MInv(s, f, M),
           t \in LeaderFields, n = s.commitIndex + 1, s.log[n].config.joint,
           checkCommitMajority(s, n), Grew(s.log, t.log, e), e.kind = "config",
           e.config = BuildFinalConfig(s.log[n].config),
           t.commitIndex = n, t.currentConfig = s.log[n].config,
           t.pendingConfig = s.pendingConfig, t.state = s.state, Matches(t, f)
    PROVE  MInv(t, f, M)
<1>1. TypeOf(s, f, M) /\ InTurn(s.log) /\ ByBoth(s.log, s.commitIndex, f) /\ Joining(s, f)
  BY DEF MInv
<1>2. /\ s.log \in Seq(Entry) /\ Len(s.log) \in Nat /\ s.commitIndex \in Nat
      /\ \A p \in Peer : f[p].commitIndex \in Nat /\ f[p].commitIndex <= Len(s.log)
  BY <1>1, LeaderTypes
<1>3. \A k \in ChangesOf(s.log) : k \in Nat /\ k <= Len(s.log)
  BY <1>2, ChangeTypes
<1>4. n \in Nat /\ n <= Len(s.log) /\ n > s.commitIndex /\ s.commitIndex <= n
  BY <1>2, <1>3
<1>5. /\ s.state = "Leader" /\ s.pendingConfig /\ s.currentConfig.joint
      /\ s.currentConfig.old # s.currentConfig.new
      /\ \A i \in ChangesOf(s.log) : i = n \/ i <= s.commitIndex
      /\ s.log[n].config = s.currentConfig
  BY <1>4, Uncommitted
<1>6. TypeOf(t, f, M) /\ Wire(t, f, M)
  BY <1>4, GrewFrame
<1>7. InTurn(t.log)
  <2>1. \E j \in ChangesOf(s.log) :
           /\ \A i \in ChangesOf(s.log) : i <= j
           /\ s.log[j].config.joint # e.config.joint
           /\ s.log[j].config.joint => e.config.new = s.log[j].config.new
           /\ ~s.log[j].config.joint => e.config.old = s.log[j].config.new
    <3>1. \A i \in ChangesOf(s.log) : i <= n
      BY <1>2, <1>3, <1>4, <1>5
    <3>2. e.config.joint = FALSE /\ e.config.new = s.log[n].config.new
      BY DEF BuildFinalConfig
    <3> QED
      BY <3>1, <3>2
  <2> QED
    BY <1>1, <1>2, <2>1, InTurnGrew
<1>8. ByBoth(s.log, n, f)
  <2>1. SUFFICES ASSUME NEW k \in ChangesOf(s.log), k <= n
                 PROVE  \E j \in ChangesOf(s.log) :
                           /\ s.log[j].config.joint /\ j <= k
                           /\ \A i \in ChangesOf(s.log) : s.log[i].config.joint /\ i <= k => i <= j
                           /\ HasMajority(s.log[j].config, Boot, HoldersOf(f, k))
    BY DEF ByBoth
  <2>2. CASE k <= s.commitIndex
    BY <1>1, <2>2 DEF ByBoth
  <2>3. CASE k = n
    <3>1. HasMajority(s.log[n].config, Boot, HoldersOf(f, n))
      BY <1>4, <1>5, VotersHold
    <3>2. n <= n
      BY <1>4
    <3> QED
      BY <2>3, <3>1, <3>2
  <2> QED
    BY <1>5, <2>2, <2>3
<1>9. ByBoth(t.log, t.commitIndex, f)
  BY <1>2, <1>4, <1>8, ByBothGrew
<1>10. Joining(t, f)
  <2>1. ChangesOf(s.log) # {}
    OBVIOUS
  <2> QED
    BY <1>1, <1>2, <2>1, JoiningGrew
<1>11. /\ \A k \in ChangesOf(s.log) : k \in ChangesOf(t.log) /\ t.log[k] = s.log[k]
       /\ \A k \in ChangesOf(t.log) : k \in ChangesOf(s.log) \/ k = Len(s.log) + 1
       /\ Len(s.log) + 1 \in ChangesOf(t.log)
       /\ t.log[Len(s.log) + 1] = e
  <2>1. t.log[Len(s.log) + 1] = e
    BY DEF Grew
  <2> QED
    BY <1>2, <2>1, ChangesGrew
<1>12. SecondPhase(t)
  <2>1. \A i \in ChangesOf(t.log) : i = Len(s.log) + 1 \/ i <= n
    BY <1>2, <1>3, <1>4, <1>5, <1>11
  <2>2. Len(s.log) + 1 > t.commitIndex /\ n <= t.commitIndex
    BY <1>2, <1>4
  <2>3. n \in ChangesOf(t.log) /\ t.log[n].config = t.currentConfig
    BY <1>11
  <2>4. t.log[Len(s.log) + 1].config = BuildFinalConfig(t.currentConfig)
    BY <1>11
  <2> QED
    BY <1>11, <2>1, <2>2, <2>3, <2>4 DEF SecondPhase
<1>13. InPhase(t)
  BY <1>5, <1>12 DEF InPhase
<1>14. Removed(t, f)
  BY <1>5 DEF Removed
<1> QED
  BY <1>6, <1>7, <1>9, <1>10, <1>13, <1>14 DEF MInv

\* C_new is committed: the change has ended.
LEMMA CommitFinalInv ==
    ASSUME NEW s, NEW t, NEW f, NEW M, NEW n \in ChangesOf(s.log), MInv(s, f, M),
           t \in LeaderFields, n = s.commitIndex + 1, ~s.log[n].config.joint,
           checkCommitMajority(s, n), t.log = s.log,
           t.commitIndex = n, t.currentConfig = s.log[n].config, ~t.pendingConfig,
           Boot \notin s.log[n].config.new => t.state = "Follower",
           Boot \in s.log[n].config.new => t.state = s.state, Matches(t, f)
    PROVE  MInv(t, f, M)
<1>1. TypeOf(s, f, M) /\ InTurn(s.log) /\ ByBoth(s.log, s.commitIndex, f) /\ Joining(s, f)
  BY DEF MInv
<1>2. s.log \in Seq(Entry) /\ Len(s.log) \in Nat /\ s.commitIndex \in Nat
  BY <1>1, LeaderTypes
<1>3. \A k \in ChangesOf(s.log) : k \in Nat /\ k <= Len(s.log)
  BY <1>2, ChangeTypes
<1>4. n \in Nat /\ n <= Len(s.log) /\ n > s.commitIndex /\ s.commitIndex <= n
  BY <1>2, <1>3
<1>5. /\ s.state = "Leader" /\ s.currentConfig.joint
      /\ \A i \in ChangesOf(s.log) : i = n \/ i <= s.commitIndex
      /\ s.log[n].config = BuildFinalConfig(s.currentConfig)
  BY <1>4, Uncommitted
<1>6. PICK j \in ChangesOf(s.log) :
         /\ j <= s.commitIndex /\ s.log[j].config = s.currentConfig
         /\ \A i \in ChangesOf(s.log) : i = n \/ i <= j
  BY <1>4, Uncommitted
<1>7. TypeOf(t, f, M) /\ Wire(t, f, M)
  BY <1>4, CommitFrame
<1>8. ByBoth(t.log, t.commitIndex, f)
  <2>1. SUFFICES ASSUME NEW k \in ChangesOf(s.log), k <= n
                 PROVE  \E h \in ChangesOf(s.log) :
                           /\ s.log[h].config.joint /\ h <= k
                           /\ \A i \in ChangesOf(s.log) : s.log[i].config.joint /\ i <= k => i <= h
                           /\ HasMajority(s.log[h].config, Boot, HoldersOf(f, k))
    BY DEF ByBoth
  <2>2. CASE k <= s.commitIndex
    BY <1>1, <2>2 DEF ByBoth
  <2>3. CASE k = n
    <3>1. HasMajority(s.log[j].config, Boot, HoldersOf(f, n))
      BY <1>4, <1>6, VotersHold
    <3>2. j <= n /\ s.log[j].config.joint
      BY <1>2, <1>3, <1>4, <1>5, <1>6
    <3>3. \A i \in ChangesOf(s.log) : s.log[i].config.joint => i <= j
      BY <1>6
    <3> QED
      BY <2>3, <3>1, <3>2, <3>3
  <2> QED
    BY <1>5, <2>2, <2>3
<1>9. Joining(t, f)
  BY <1>1 DEF Joining
<1>10. ~t.currentConfig.joint /\ t.currentConfig.new = s.currentConfig.new
  BY <1>5 DEF BuildFinalConfig
<1>11. Steady(t)
  <2>1. \A k \in ChangesOf(s.log) : k <= n
    BY <1>2, <1>3, <1>4, <1>5
  <2>2. ASSUME NEW k \in ChangesOf(s.log), \A i \in ChangesOf(s.log) : i <= k
        PROVE  s.log[k].config = t.currentConfig
    <3>1. k = n
      BY <1>3, <2>1, <2>2
    <3> QED
      BY <3>1
  <2>3. t.log # << >>
    BY <1>2, <1>4, EmptySeq
  <2>4. t.state = "Leader" => Boot \in t.currentConfig.new
    OBVIOUS
  <2> QED
    BY <1>10, <2>1, <2>2, <2>3, <2>4 DEF Steady
<1>12. Removed(t, f)
  <2>1. SUFFICES ASSUME t.state = "Follower"
                 PROVE  /\ ChangesOf(t.log) # {} /\ Boot \notin t.currentConfig.new
                        /\ \E p \in t.currentConfig.new : f[p].lastLogIndex >= n
    BY <1>11 DEF Removed
  <2>2. Boot \notin t.currentConfig.new
    BY <1>5, <2>1
  <2>3. \E p \in s.currentConfig.new : p \in Peer /\ f[p].lastLogIndex >= n
    BY <1>4, <1>10, <2>2, VotersHold
  <2> QED
    BY <1>10, <2>2, <2>3
<1>13. InPhase(t)
  BY <1>11 DEF InPhase
<1> QED
  BY <1>1, <1>7, <1>8, <1>9, <1>12, <1>13 DEF MInv
-----------------------------------------------------------------------------
(***************************************************************************)
(* The operators of the leader.                                            *)
(***************************************************************************)
LEMMA FieldTypes ==
    ASSUME NEW s \in LeaderFields
    PROVE  /\ s.state \in {"Follower", "Leader"} /\ s.log \in Seq(Entry)
           /\ s.commitIndex \in Nat /\ s.currentConfig \in Config
           /\ s.pendingConfig \in BOOLEAN /\ s.isJoining \in BOOLEAN
           /\ s.grpcPeers \in SUBSET Peer /\ s.nextIndex \in [Peer -> Nat]
           /\ s.matchIndex \in [Peer -> Nat] /\ s.proposals \in SUBSET Nat
  BY DEF LeaderFields

\* Only which peers are connected, their indexes and the clients that wait
\* have changed.
SameCore(s, t) ==
    /\ t \in LeaderFields /\ t.log = s.log /\ t.commitIndex = s.commitIndex
    /\ SameChange(s, t)
    /\ \A p \in Peer : t.matchIndex[p] = 0 \/ t.matchIndex[p] = s.matchIndex[p]

LEMMA CompleteCore ==
    ASSUME NEW s \in LeaderFields, NEW n \in Nat, NEW t, t = CompleteProposals(s, n)
    PROVE  SameCore(s, t)
<1>1. s.proposals \in SUBSET Nat
  BY FieldTypes
<1>2. t = [s EXCEPT !.proposals = {k \in s.proposals : k > n}]
  BY DEF CompleteProposals
<1>3. t \in LeaderFields
  BY <1>1, <1>2 DEF LeaderFields
<1>4. /\ t.log = s.log /\ t.commitIndex = s.commitIndex /\ t.currentConfig = s.currentConfig
      /\ t.pendingConfig = s.pendingConfig /\ t.state = s.state /\ t.matchIndex = s.matchIndex
  BY <1>2 DEF LeaderFields
<1> QED
  BY <1>3, <1>4 DEF SameCore, SameChange

LEMMA IndexesCore ==
    ASSUME NEW s \in LeaderFields, NEW G \in SUBSET Peer, NEW X \in [Peer -> Nat],
           NEW Y \in [Peer -> Nat], \A p \in Peer : Y[p] = 0 \/ Y[p] = s.matchIndex[p],
           NEW t, t = [s EXCEPT !.grpcPeers = G, !.nextIndex = X, !.matchIndex = Y]
    PROVE  SameCore(s, t)
<1>1. t \in LeaderFields
  BY DEF LeaderFields
<1>2. /\ t.log = s.log /\ t.commitIndex = s.commitIndex /\ t.currentConfig = s.currentConfig
      /\ t.pendingConfig = s.pendingConfig /\ t.state = s.state /\ t.matchIndex = Y
  BY DEF LeaderFields
<1> QED
  BY <1>1, <1>2 DEF SameCore, SameChange

LEMMA DisconnectCore ==
    ASSUME NEW s \in LeaderFields, NEW config, NEW t, t = disconnectRemovedPeers(s, config)
    PROVE  SameCore(s, t)
<1> DEFINE gone == s.grpcPeers \ config.new
           X == [p \in Peer |-> IF p \in gone THEN 0 ELSE s.nextIndex[p]]
           Y == [p \in Peer |-> IF p \in gone THEN 0 ELSE s.matchIndex[p]]
<1>1. s.grpcPeers \in SUBSET Peer /\ s.nextIndex \in [Peer -> Nat] /\ s.matchIndex \in [Peer -> Nat]
  BY FieldTypes
<1>2. t = [s EXCEPT !.grpcPeers = s.grpcPeers \ gone, !.nextIndex = X, !.matchIndex = Y]
  BY DEF disconnectRemovedPeers
<1>3. /\ s.grpcPeers \ gone \in SUBSET Peer /\ X \in [Peer -> Nat] /\ Y \in [Peer -> Nat]
      /\ \A p \in Peer : Y[p] = 0 \/ Y[p] = s.matchIndex[p]
  BY <1>1
<1> HIDE DEF gone, X, Y
<1> QED
  BY <1>2, <1>3, IndexesCore

LEMMA ConnectCore ==
    ASSUME NEW s \in LeaderFields, NEW t, t = connectToNewPeers(s)
    PROVE  SameCore(s, t)
<1> DEFINE new == effectivePeers(s) \ s.grpcPeers
           X == [p \in Peer |-> IF p \in new THEN Len(s.log) + 1 ELSE s.nextIndex[p]]
           Y == [p \in Peer |-> IF p \in new THEN 0 ELSE s.matchIndex[p]]
<1>1. /\ s.grpcPeers \in SUBSET Peer /\ s.nextIndex \in [Peer -> Nat]
      /\ s.matchIndex \in [Peer -> Nat] /\ s.currentConfig \in Config /\ s.log \in Seq(Entry)
  BY FieldTypes
<1>2. t = [s EXCEPT !.grpcPeers = s.grpcPeers \cup new, !.nextIndex = X, !.matchIndex = Y]
  BY DEF connectToNewPeers
<1>3. s.currentConfig.old \subseteq Node /\ s.currentConfig.new \subseteq Node
  BY <1>1, ConfigFinite
<1>4. new \subseteq Peer
  BY <1>3 DEF effectivePeers, AllNodeGRPC, Members, Peer
<1>5. Len(s.log) + 1 \in Nat
  BY <1>1, LenProperties
<1>6. /\ s.grpcPeers \cup new \in SUBSET Peer /\ X \in [Peer -> Nat] /\ Y \in [Peer -> Nat]
      /\ \A p \in Peer : Y[p] = 0 \/ Y[p] = s.matchIndex[p]
  BY <1>1, <1>4, <1>5
<1> HIDE DEF new, X, Y
<1> QED
  BY <1>2, <1>6, IndexesCore

LEMMA CoreMatches ==
    ASSUME NEW s, NEW t, NEW f, NEW M, TypeOf(s, f, M),
           \A p \in Peer : t.matchIndex[p] = 0 \/ t.matchIndex[p] = s.matchIndex[p]
    PROVE  Matches(t, f)
<1>1. \A p \in Peer : /\ f[p].lastLogIndex \in Nat /\ s.matchIndex[p] \in Nat
                      /\ s.matchIndex[p] <= f[p].lastLogIndex
  BY LeaderTypes
<1> QED
  BY <1>1 DEF Matches

\* The entries of s.log stay where they are in the log of t.
Keeps(lg, g) == Len(g) \in Nat /\ Len(lg) <= Len(g) /\ \A k \in 1..Len(lg) : g[k] = lg[k]

\* One turn of the loop that commits: the commit index becomes that of the next
\* entry.
LEMMA CommitEntryInv ==
    ASSUME NEW s, NEW f, NEW M, MInv(s, f, M), NEW n \in Nat, n = s.commitIndex + 1,
           n <= Len(s.log), checkCommitMajority(s, n), NEW u, u = CommitEntry(s, s.log[n], n)
    PROVE  MInv(u, f, M) /\ u.commitIndex = n /\ Keeps(s.log, u.log)
<1>1. TypeOf(s, f, M)
  BY DEF MInv
<1>2. /\ s \in LeaderFields /\ s.log \in Seq(Entry) /\ Len(s.log) \in Nat
      /\ s.commitIndex \in Nat /\ s.state \in {"Follower", "Leader"}
  BY <1>1, LeaderTypes
<1>3. n \in 1..Len(s.log) /\ s.log[n] \in Entry /\ n > s.commitIndex /\ s.commitIndex <= n
  <2>1. n \in 1..Len(s.log) /\ n > s.commitIndex /\ s.commitIndex <= n
    BY <1>2
  <2> QED
    BY <1>2, <2>1, ElementOfSeq
<1>4. PICK t : t = [s EXCEPT !.commitIndex = n]
  OBVIOUS
<1>5. /\ t \in LeaderFields /\ t.log = s.log /\ t.commitIndex = n /\ SameChange(s, t)
      /\ t.matchIndex = s.matchIndex /\ t.pendingConfig = s.pendingConfig /\ t.state = s.state
  BY <1>2, <1>4 DEF LeaderFields, SameChange
<1>6. \A k \in ChangesOf(s.log) : k \in Nat
  BY <1>2, ChangeTypes
<1>7. CASE s.log[n].kind # "config"
  <2>1. u = CompleteProposals(t, n)
    BY <1>4, <1>7 DEF CommitEntry
  <2>2. SameCore(t, u)
    BY <1>5, <2>1, CompleteCore
  <2>3. /\ u \in LeaderFields /\ u.log = s.log /\ u.commitIndex = n /\ SameChange(s, u)
        /\ \A p \in Peer : u.matchIndex[p] = 0 \/ u.matchIndex[p] = s.matchIndex[p]
    BY <1>5, <2>2 DEF SameCore, SameChange
  <2>4. Matches(u, f)
    BY <1>1, <2>3, CoreMatches
  <2>5. \A k \in ChangesOf(s.log) : k <= n => k <= s.commitIndex
    BY <1>2, <1>6, <1>7 DEF ChangesOf
  <2>6. MInv(u, f, M)
    BY <1>3, <2>3, <2>4, <2>5, CommitPlainInv
  <2> QED
    BY <1>2, <2>3, <2>6 DEF Keeps
<1>8. CASE s.log[n].kind = "config" /\ s.log[n].config.joint
  <2> DEFINE c == s.log[n].config
             e == [kind |-> "config", config |-> BuildFinalConfig(c)]
  <2>1. n \in ChangesOf(s.log) /\ c \in Config /\ c.joint
    <3>1. n \in ChangesOf(s.log)
      BY <1>3, <1>8 DEF ChangesOf
    <3> QED
      BY <1>2, <1>8, <3>1, ChangeTypes
  <2>2. s.state = "Leader"
    BY <1>3, <2>1, Uncommitted
  <2>3. PICK v : v = CommitJoint(t, c)
    OBVIOUS
  <2>4. u = CompleteProposals(v, n)
    BY <1>4, <1>8, <2>3 DEF CommitEntry
  <2>5. PICK g : g = Append(s.log, e)
    OBVIOUS
  <2>6. PICK b \in BOOLEAN : b = ~ContainsNode(c, Boot)
    OBVIOUS
  <2>7. v = [t EXCEPT !.log = g, !.currentConfig = c, !.isJoining = b]
    <3>1. v = applyConfigEntry(proposeSecondPhaseConfig(t, c), Boot, c)
      BY <1>5, <2>2, <2>3 DEF CommitJoint
    <3>2. proposeSecondPhaseConfig(t, c) = [t EXCEPT !.log = g]
      BY <1>5, <2>5 DEF proposeSecondPhaseConfig
    <3> QED
      BY <2>6, <3>1, <3>2 DEF applyConfigEntry
  <2>8. e \in Entry
    <3>1. BuildFinalConfig(c) \in Config
      BY <2>1 DEF BuildFinalConfig, Config, ClusterConfigs
    <3> QED
      BY <3>1 DEF Entry, Change
  <2>9. Grew(s.log, g, e)
    <3> HIDE DEF e
    <3> QED
      BY <1>2, <2>5, <2>8, GrewByAppend
  <2>10. /\ v \in LeaderFields /\ v.log = g /\ v.currentConfig = c /\ v.commitIndex = n
         /\ v.pendingConfig = s.pendingConfig /\ v.state = s.state
         /\ v.matchIndex = s.matchIndex
    <3>1. g \in Seq(Entry)
      BY <2>9 DEF Grew
    <3> HIDE DEF c
    <3> QED
      BY <1>5, <2>1, <2>7, <3>1 DEF LeaderFields
  <2>11. SameCore(v, u)
    BY <2>4, <2>10, CompleteCore
  <2>12. /\ u \in LeaderFields /\ u.log = g /\ u.currentConfig = c /\ u.commitIndex = n
         /\ u.pendingConfig = s.pendingConfig /\ u.state = s.state
         /\ \A p \in Peer : u.matchIndex[p] = 0 \/ u.matchIndex[p] = s.matchIndex[p]
    BY <2>10, <2>11 DEF SameCore, SameChange
  <2>13. Matches(u, f)
    BY <1>1, <2>12, CoreMatches
  <2>14. MInv(u, f, M)
    <3>1. e.kind = "config" /\ e.config = BuildFinalConfig(s.log[n].config)
      OBVIOUS
    <3>2. Grew(s.log, u.log, e)
      BY <2>9, <2>12
    <3> HIDE DEF e
    <3> QED
      BY <2>1, <2>12, <2>13, <3>1, <3>2, CommitJointInv
  <2>15. Keeps(s.log, u.log)
    BY <1>2, <2>9, <2>12 DEF Grew, Keeps
  <2> QED
    BY <2>12, <2>14, <2>15
<1>9. CASE s.log[n].kind = "config" /\ ~s.log[n].config.joint
  <2> DEFINE c == s.log[n].config
  <2>1. n \in ChangesOf(s.log) /\ c \in Config /\ ~c.joint
    <3>1. n \in ChangesOf(s.log)
      BY <1>3, <1>9 DEF ChangesOf
    <3> QED
      BY <1>2, <1>9, <3>1, ChangeTypes
  <2>2. s.state = "Leader"
    BY <1>3, <2>1, Uncommitted
  <2>3. PICK v : v = CommitFinal(t, c)
    OBVIOUS
  <2>4. u = CompleteProposals(v, n)
    BY <1>4, <1>9, <2>3 DEF CommitEntry
  <2>5. PICK b \in BOOLEAN : b = ~ContainsNode(c, Boot)
    OBVIOUS
  <2>6. PICK w : w = [t EXCEPT !.currentConfig = c, !.isJoining = b, !.pendingConfig = FALSE]
    OBVIOUS
  <2>7. PICK d : d = disconnectRemovedPeers(w, c)
    OBVIOUS
  <2>8. v = IF Boot \notin c.new THEN transitionToFollower(d) ELSE d
    <3>1. w = [applyConfigEntry(t, Boot, c) EXCEPT !.pendingConfig = FALSE]
      BY <2>5, <2>6 DEF applyConfigEntry
    <3> QED
      BY <1>5, <2>2, <2>3, <2>7, <3>1 DEF CommitFinal
  <2>9. /\ w \in LeaderFields /\ w.log = s.log /\ w.currentConfig = c /\ w.commitIndex = n
        /\ w.pendingConfig = FALSE /\ w.state = s.state /\ w.matchIndex = s.matchIndex
    <3> HIDE DEF c
    <3> QED
      BY <1>5, <2>1, <2>6 DEF LeaderFields
  <2>10. SameCore(w, d)
    BY <2>7, <2>9, DisconnectCore
  <2>11. /\ d \in LeaderFields /\ d.log = s.log /\ d.currentConfig = c /\ d.commitIndex = n
         /\ d.pendingConfig = FALSE /\ d.state = s.state
         /\ \A p \in Peer : d.matchIndex[p] = 0 \/ d.matchIndex[p] = s.matchIndex[p]
    BY <2>9, <2>10 DEF SameCore, SameChange
  <2>12. /\ v \in LeaderFields /\ v.log = s.log /\ v.currentConfig = c /\ v.commitIndex = n
         /\ v.pendingConfig = FALSE
         /\ Boot \notin c.new => v.state = "Follower"
         /\ Boot \in c.new => v.state = s.state
         /\ \A p \in Peer : v.matchIndex[p] = 0 \/ v.matchIndex[p] = s.matchIndex[p]
    <3> HIDE DEF c
    <3>1. CASE Boot \in c.new
      BY <2>8, <2>11, <3>1
    <3>2. CASE Boot \notin c.new
      <4>1. v = [d EXCEPT !.state = "Follower", !.proposals = {}]
        BY <2>8, <3>2 DEF transitionToFollower
      <4> QED
        BY <2>11, <3>2, <4>1 DEF LeaderFields
    <3> QED
      BY <3>1, <3>2
  <2>13. SameCore(v, u)
    BY <2>4, <2>12, CompleteCore
  <2>14. /\ u \in LeaderFields /\ u.log = s.log /\ u.currentConfig = c /\ u.commitIndex = n
         /\ u.pendingConfig = FALSE
         /\ Boot \notin c.new => u.state = "Follower"
         /\ Boot \in c.new => u.state = s.state
         /\ \A p \in Peer : u.matchIndex[p] = 0 \/ u.matchIndex[p] = s.matchIndex[p]
    BY <2>12, <2>13 DEF SameCore, SameChange
  <2>15. Matches(u, f)
    BY <1>1, <2>14, CoreMatches
  <2>16. MInv(u, f, M)
    <3>1. /\ u \in LeaderFields /\ u.log = s.log /\ u.commitIndex = n
          /\ u.currentConfig = s.log[n].config /\ ~u.pendingConfig
          /\ Boot \notin s.log[n].config.new => u.state = "Follower"
          /\ Boot \in s.log[n].config.new => u.state = s.state
      BY <2>14
    <3>2. n \in ChangesOf(s.log) /\ ~s.log[n].config.joint
      BY <2>1
    <3> HIDE DEF c
    <3> QED
      BY <2>15, <3>1, <3>2, CommitFinalInv
  <2> QED
    BY <1>2, <2>14, <2>16 DEF Keeps
<1> QED
  BY <1>7, <1>8, <1>9
-----------------------------------------------------------------------------
(***************************************************************************)
(* The loop of AdvanceCommit.  A recursive function is defined by CHOOSE;  *)
(* that there is a function that satisfies the recursion, and that every   *)
(* turn keeps the invariant, is shown by a least counterexample.           *)
(***************************************************************************)
Turn(s, t, n) == IF checkCommitMajority(t, n) THEN CommitEntry(t, s.log[n], n) ELSE t

\* done holds what the loop has computed from s after each entry up to m.
Turns(s, done, a, m) ==
    done = [n \in a..m |-> IF n = a THEN {s} ELSE {Turn(s, t, n) : t \in done[n - 1]}]

LEMMA LoopDefined ==
    ASSUME NEW s, NEW a \in Nat, NEW b \in Nat, a <= b
    PROVE  \E done : Turns(s, done, a, b)
<1> DEFINE Bad == {m \in a..b : ~\E done : Turns(s, done, a, m)}
<1>1. SUFFICES ASSUME Bad # {} PROVE FALSE
  OBVIOUS
<1>2. PICK m \in Bad : \A y \in Bad : m <= y
  <2>1. Bad \subseteq Nat
    OBVIOUS
  <2> HIDE DEF Bad
  <2> QED
    BY <1>1, <2>1, MinOfNats
<1>3. m # a
  <2>1. Turns(s, [n \in a..a |-> {s}], a, a)
    BY DEF Turns
  <2> QED
    BY <2>1
<1>4. m - 1 \in a..b /\ m - 1 \notin Bad
  BY <1>2, <1>3
<1>5. PICK f : Turns(s, f, a, m - 1)
  BY <1>4
<1> DEFINE g == [n \in a..m |-> IF n = m THEN {Turn(s, t, m) : t \in f[m - 1]} ELSE f[n]]
<1>6. Turns(s, g, a, m)
  <2>1. ASSUME NEW n \in a..m
        PROVE  g[n] = IF n = a THEN {s} ELSE {Turn(s, t, n) : t \in g[n - 1]}
    <3>1. CASE n = m
      <4>1. g[n - 1] = f[n - 1]
        BY <1>3, <3>1
      <4>2. g[n] = {Turn(s, t, n) : t \in f[n - 1]}
        BY <3>1
      <4> QED
        BY <1>3, <3>1, <4>1, <4>2
    <3>2. CASE n # m
      <4>1. f[n] = IF n = a THEN {s} ELSE {Turn(s, t, n) : t \in f[n - 1]}
        <5>1. n \in a..(m - 1)
          BY <3>2
        <5> QED
          BY <1>5, <5>1, Zenon DEF Turns
      <4>2. n # a => g[n - 1] = f[n - 1]
        BY <3>2
      <4> QED
        BY <3>2, <4>1, <4>2
    <3> QED
      BY <3>1, <3>2
  <2>2. g = [n \in a..m |-> g[n]]
    OBVIOUS
  <2> HIDE DEF g
  <2> QED
    BY <2>1, <2>2 DEF Turns
<1> QED
  BY <1>6

LEMMA LoopUnfolds ==
    ASSUME NEW s, s.commitIndex \in Nat, Len(s.log) \in Nat, s.commitIndex <= Len(s.log)
    PROVE  \E done : /\ Turns(s, done, s.commitIndex, Len(s.log))
                     /\ AdvanceCommit(s) = done[Len(s.log)]
<1>1. \E done : Turns(s, done, s.commitIndex, Len(s.log))
  BY LoopDefined
<1> QED
  BY <1>1, Zenon DEF AdvanceCommit, Turn, Turns

\* Who holds an entry holds the earlier ones.
LEMMA MajorityEarlier ==
    ASSUME NEW s \in LeaderFields, NEW a \in Nat, NEW b \in Nat, a <= b,
           checkCommitMajority(s, b)
    PROVE  checkCommitMajority(s, a)
<1>1. s.currentConfig \in Config /\ s.matchIndex \in [Peer -> Nat]
  BY FieldTypes
<1>2. {Boot} \cup {p \in Peer : s.matchIndex[p] >= b}
         \subseteq {Boot} \cup {p \in Peer : s.matchIndex[p] >= a}
  <2>1. \A p \in Peer : s.matchIndex[p] \in Nat
    BY <1>1
  <2> QED
    BY <2>1
<1> QED
  BY <1>1, <1>2, HasMajorityGrows DEF checkCommitMajority

\* The state t of the loop from s after entry n: all is committed up to n, or
\* the next entry has no majority, and none of the later ones has.
LoopAt(s, t, n, f, M) ==
    /\ MInv(t, f, M) /\ Keeps(s.log, t.log) /\ t.commitIndex <= n
    /\ t.commitIndex = n \/ ~checkCommitMajority(t, t.commitIndex + 1)

LEMMA TurnInv ==
    ASSUME NEW s, NEW t, NEW n \in Nat, NEW f, NEW M, LoopAt(s, t, n, f, M),
           Len(s.log) \in Nat, n + 1 <= Len(s.log), NEW u, u = Turn(s, t, n + 1)
    PROVE  LoopAt(s, u, n + 1, f, M)
<1>1. /\ MInv(t, f, M) /\ Keeps(s.log, t.log) /\ t.commitIndex <= n
      /\ t.commitIndex = n \/ ~checkCommitMajority(t, t.commitIndex + 1)
  BY DEF LoopAt
<1>2. t \in LeaderFields /\ t.commitIndex \in Nat
  BY <1>1, LeaderTypes DEF MInv
<1>3. CASE checkCommitMajority(t, n + 1)
  <2>1. t.commitIndex = n
    <3>1. SUFFICES ASSUME t.commitIndex # n PROVE FALSE
      OBVIOUS
    <3>2. t.commitIndex + 1 <= n + 1 /\ t.commitIndex + 1 \in Nat /\ n + 1 \in Nat
      BY <1>1, <1>2
    <3>3. checkCommitMajority(t, t.commitIndex + 1)
      BY <1>2, <1>3, <3>2, MajorityEarlier
    <3> QED
      BY <1>1, <3>1, <3>3
  <2>2. PICK m \in Nat : m = n + 1
    OBVIOUS
  <2>3. Len(t.log) \in Nat /\ m <= Len(t.log) /\ t.log[m] = s.log[m]
    <3>1. m \in 1..Len(s.log)
      BY <2>2
    <3> QED
      BY <1>1, <2>2, <3>1 DEF Keeps
  <2>4. u = CommitEntry(t, t.log[m], m)
    BY <1>3, <2>2, <2>3 DEF Turn
  <2>5. MInv(u, f, M) /\ u.commitIndex = m /\ Keeps(t.log, u.log)
    BY <1>1, <1>3, <2>1, <2>2, <2>3, <2>4, CommitEntryInv
  <2>6. Keeps(s.log, u.log)
    <3>1. \A k \in 1..Len(s.log) : k \in 1..Len(t.log)
      BY <1>1, <2>3 DEF Keeps
    <3>2. Len(s.log) <= Len(u.log) /\ Len(u.log) \in Nat
      BY <1>1, <2>3, <2>5 DEF Keeps
    <3> QED
      BY <1>1, <2>5, <3>1, <3>2 DEF Keeps
  <2> QED
    BY <2>2, <2>5, <2>6 DEF LoopAt
<1>4. CASE ~checkCommitMajority(t, n + 1)
  <2>1. u = t
    BY <1>4 DEF Turn
  <2>2. t.commitIndex <= n + 1
    BY <1>1, <1>2
  <2> QED
    BY <1>1, <1>4, <2>1, <2>2 DEF LoopAt
<1> QED
  BY <1>3, <1>4

LEMMA AdvanceCommitInv ==
    ASSUME NEW s, NEW f, NEW M, MInv(s, f, M), NEW u \in AdvanceCommit(s)
    PROVE  MInv(u, f, M)
<1>1. /\ s \in LeaderFields /\ s.log \in Seq(Entry) /\ Len(s.log) \in Nat
      /\ s.commitIndex \in Nat /\ s.commitIndex <= Len(s.log)
  BY LeaderTypes DEF MInv
<1>2. PICK a \in Nat, b \in Nat : a = s.commitIndex /\ b = Len(s.log) /\ a <= b
  BY <1>1
<1>3. PICK done : Turns(s, done, a, b) /\ AdvanceCommit(s) = done[b]
  BY <1>1, <1>2, LoopUnfolds
<1>4. ASSUME NEW n \in a..b
      PROVE  done[n] = IF n = a THEN {s} ELSE {Turn(s, t, n) : t \in done[n - 1]}
  BY <1>3, Zenon DEF Turns
<1> DEFINE Bad == {n \in a..b : \E t \in done[n] : ~LoopAt(s, t, n, f, M)}
<1>5. Bad = {}
  <2>1. SUFFICES ASSUME Bad # {} PROVE FALSE
    OBVIOUS
  <2>2. PICK m \in Bad : \A y \in Bad : m <= y
    <3>1. Bad \subseteq Nat
      OBVIOUS
    <3> HIDE DEF Bad
    <3> QED
      BY <2>1, <3>1, MinOfNats
  <2>3. m \in a..b /\ m \in Nat
    OBVIOUS
  <2>4. PICK t \in done[m] : ~LoopAt(s, t, m, f, M)
    OBVIOUS
  <2>5. CASE m = a
    <3>1. t = s
      BY <1>4, <2>3, <2>4, <2>5
    <3>2. Keeps(s.log, s.log)
      BY <1>1 DEF Keeps
    <3> QED
      BY <1>1, <1>2, <2>4, <2>5, <3>1, <3>2 DEF LoopAt
  <2>6. CASE m # a
    <3>1. PICK n \in Nat : n = m - 1 /\ m = n + 1 /\ n \in a..b
      BY <2>3, <2>6
    <3>2. n \notin Bad
      BY <2>2, <2>3, <3>1
    <3>3. done[m] = {Turn(s, v, m) : v \in done[n]}
      BY <1>4, <2>3, <2>6, <3>1
    <3>4. PICK v \in done[n] : t = Turn(s, v, n + 1)
      BY <2>4, <3>1, <3>3
    <3>5. LoopAt(s, v, n, f, M)
      BY <3>1, <3>2
    <3>6. n + 1 <= Len(s.log)
      BY <1>2, <2>3, <3>1
    <3>7. LoopAt(s, t, n + 1, f, M)
      BY <1>1, <3>1, <3>4, <3>5, <3>6, TurnInv
    <3> QED
      BY <2>4, <3>1, <3>7
  <2> QED
    BY <2>5, <2>6
<1>6. b \in a..b
  BY <1>2
<1>7. LoopAt(s, u, b, f, M)
  BY <1>3, <1>5, <1>6
<1> QED
  BY <1>7 DEF LoopAt
-----------------------------------------------------------------------------
(***************************************************************************)
(* The actions of the leader.                                              *)
(***************************************************************************)
\* The cluster as it is started.
LEMMA MembershipInit ==
    ASSUME Init
    PROVE  MembershipInv
<1>1. PICK cluster \in StartClusters, joining \in SUBSET Node :
        /\ leader = [state |-> "Follower", log |-> << >>, commitIndex |-> 0,
                     currentConfig |-> ConfigFromPeers(cluster \ {Boot}, Boot),
                     pendingConfig |-> FALSE, isJoining |-> FALSE,
                     grpcPeers |-> cluster \ {Boot},
                     nextIndex |-> [p \in Peer |-> 0],
                     matchIndex |-> [p \in Peer |-> 0], proposals |-> {}]
        /\ peer = [p \in Peer |->
                     [lastLogIndex |-> 0, commitIndex |-> 0,
                      currentConfig |-> ConfigFromPeers(cluster \ {p}, p),
                      isJoining |-> p \in joining]]
        /\ msgs = {}
  BY DEF Init
<1>2. cluster \subseteq Node /\ Boot \in cluster
  BY StartAssumption
<1>3. PICK c : c = ConfigFromPeers(cluster \ {Boot}, Boot)
  OBVIOUS
<1>4. c \in Config /\ c.new = cluster /\ ~c.joint
  BY <1>2, <1>3 DEF ConfigFromPeers, Config, ClusterConfigs
<1>5. << >> \in Seq(Entry) /\ Len(<< >>) = 0
  BY EmptySeq
<1>6. leader \in LeaderFields
  <2>1. [p \in Peer |-> 0] \in [Peer -> Nat] /\ cluster \ {Boot} \in SUBSET Peer
    BY <1>2 DEF Peer
  <2> QED
    BY <1>1, <1>3, <1>4, <1>5, <2>1 DEF LeaderFields
<1>7. /\ leader.log = << >> /\ leader.commitIndex = 0 /\ leader.currentConfig = c
      /\ ~leader.pendingConfig /\ leader.state = "Follower"
      /\ leader.matchIndex = [p \in Peer |-> 0]
  BY <1>1, <1>3
<1>8. Len(leader.log) = 0 /\ ChangesOf(leader.log) = {}
  BY <1>5, <1>7 DEF ChangesOf
<1>9. ASSUME NEW p \in Peer
      PROVE  /\ peer[p].lastLogIndex = 0 /\ peer[p].commitIndex = 0
             /\ peer[p] \in PeerFields
  <2>1. ConfigFromPeers(cluster \ {p}, p) \in Config
    BY <1>2 DEF ConfigFromPeers, Config, ClusterConfigs, Peer
  <2>2. peer[p] = [lastLogIndex |-> 0, commitIndex |-> 0,
                   currentConfig |-> ConfigFromPeers(cluster \ {p}, p),
                   isJoining |-> p \in joining]
    BY <1>1
  <2>3. (p \in joining) \in BOOLEAN
    OBVIOUS
  <2> QED
    BY <2>1, <2>2, <2>3 DEF PeerFields
<1>10. TypeOf(leader, peer, msgs)
  <2>1. peer \in [Peer -> PeerFields]
    BY <1>1, <1>9
  <2> QED
    BY <1>1, <1>6, <1>7, <1>8, <1>9, <2>1 DEF TypeOf
<1>11. InTurn(leader.log) /\ ByBoth(leader.log, leader.commitIndex, peer)
  BY <1>8 DEF InTurn, ByBoth
<1>12. InPhase(leader)
  BY <1>2, <1>4, <1>7, <1>8 DEF InPhase, Steady
<1>13. Wire(leader, peer, msgs)
  BY <1>1, <1>8 DEF Wire, Covers
<1>14. Joining(leader, peer)
  BY <1>8 DEF Joining
<1>15. Removed(leader, peer)
  BY <1>7 DEF Removed
<1> QED
  BY <1>10, <1>11, <1>12, <1>13, <1>14, <1>15 DEF MembershipInv, MInv

LEMMA BecomeLeaderInv ==
    ASSUME MembershipInv, BecomeLeader
    PROVE  MembershipInv'
<1>1. MInv(leader, peer, msgs) /\ TypeOf(leader, peer, msgs)
  BY DEF MembershipInv, MInv
<1>2. leader \in LeaderFields
  BY <1>1, LeaderTypes
<1>3. PICK e : e = [kind |-> "noop"]
  OBVIOUS
<1>4. e \in Entry /\ e.kind # "config"
  BY <1>3 DEF Entry, Plain
<1>5. PICK lg : lg = <<e>>
  OBVIOUS
<1>6. Grew(leader.log, lg, e) /\ lg \in Seq(Entry)
  <2>1. lg \in Seq(Entry) /\ Len(lg) = 1 /\ lg[1] = e /\ lg # << >>
    BY <1>4, <1>5
  <2>2. leader.log = << >> /\ Len(leader.log) = 0
    BY EmptySeq DEF BecomeLeader
  <2> QED
    BY <2>1, <2>2 DEF Grew
<1>7. PICK X : X = [p \in Peer |-> One(p \in effectivePeers(leader))]
  OBVIOUS
<1>8. X \in [Peer -> Nat]
  BY <1>7 DEF One
<1>9. leader' = [leader EXCEPT !.state = "Leader", !.log = lg, !.nextIndex = X]
  BY <1>3, <1>5, <1>7 DEF BecomeLeader
<1>10. /\ leader' \in LeaderFields /\ leader'.log = lg /\ leader'.state = "Leader"
       /\ leader'.commitIndex = leader.commitIndex
       /\ leader'.currentConfig = leader.currentConfig
       /\ leader'.pendingConfig = leader.pendingConfig
       /\ leader'.matchIndex = leader.matchIndex
  BY <1>2, <1>6, <1>8, <1>9 DEF LeaderFields
<1>11. Matches(leader', peer)
  BY <1>1, <1>10, CoreMatches
<1>12. leader.log = << >> /\ peer' = peer /\ msgs' = msgs
  BY DEF BecomeLeader
<1>13. PICK t : t = leader'
  OBVIOUS
<1>14. MInv(t, peer, msgs)
  BY <1>1, <1>4, <1>6, <1>10, <1>11, <1>12, <1>13, AppendPlainInv
<1> QED
  BY <1>12, <1>13, <1>14 DEF MembershipInv

\* A leader without peers has no change on its way: C_old and C_new would both
\* be its own, as no majority is had of nobody.
LEMMA AloneSteady ==
    ASSUME NEW s, NEW f, NEW M, MInv(s, f, M), effectivePeers(s) = {}, NEW n \in Nat,
           checkCommitMajority(s, n), NEW k \in ChangesOf(s.log)
    PROVE  k <= s.commitIndex
<1>1. TypeOf(s, f, M)
  BY DEF MInv
<1>2. s.currentConfig \in Config /\ s.commitIndex \in Nat /\ s.log \in Seq(Entry)
  BY <1>1, LeaderTypes
<1>3. k \in Nat
  BY <1>2, ChangeTypes
<1>4. SUFFICES ASSUME k > s.commitIndex PROVE FALSE
  BY <1>2, <1>3
<1>5. s.currentConfig.joint /\ s.currentConfig.old # s.currentConfig.new
  BY <1>4, Uncommitted
<1>6. s.currentConfig.new \subseteq {Boot} /\ s.currentConfig.old \subseteq {Boot}
  BY <1>5 DEF effectivePeers, AllNodeGRPC, Members
<1>7. IsFiniteSet(s.currentConfig.new) /\ IsFiniteSet(s.currentConfig.old)
  BY <1>2, ConfigFinite
<1> DEFINE V == {Boot} \cup {p \in Peer : s.matchIndex[p] >= n}
<1>8. MajorityOf(s.currentConfig.new, Boot, V) /\ MajorityOf(s.currentConfig.old, Boot, V)
  BY <1>5 DEF checkCommitMajority, HasMajority
<1> HIDE DEF V
<1>9. s.currentConfig.new # {} /\ s.currentConfig.old # {}
  BY <1>7, <1>8, MajorityHolds
<1> QED
  BY <1>5, <1>6, <1>9

LEMMA ClientCommandInv ==
    ASSUME MembershipInv, ClientCommand
    PROVE  MembershipInv'
<1>1. MInv(leader, peer, msgs) /\ TypeOf(leader, peer, msgs)
  BY DEF MembershipInv, MInv
<1>2. leader \in LeaderFields /\ leader.log \in Seq(Entry) /\ Len(leader.log) \in Nat
      /\ leader.commitIndex \in Nat /\ leader.commitIndex <= Len(leader.log)
  BY <1>1, LeaderTypes
<1>3. PICK e : e = [kind |-> "command"]
  OBVIOUS
<1>4. e \in Entry /\ e.kind # "config"
  BY <1>3 DEF Entry, Plain
<1>5. PICK n \in Nat : n = Len(leader.log) + 1
  BY <1>2
<1>6. PICK lg : lg = Append(leader.log, e)
  OBVIOUS
<1>7. Grew(leader.log, lg, e)
  BY <1>2, <1>4, <1>6, GrewByAppend
<1>8. PICK P : P = leader.proposals \cup {n}
  OBVIOUS
<1>9. PICK s : s = [leader EXCEPT !.log = lg, !.proposals = P]
  OBVIOUS
<1>10. /\ s \in LeaderFields /\ s.log = lg /\ s.state = leader.state
       /\ s.commitIndex = leader.commitIndex
       /\ s.currentConfig = leader.currentConfig
       /\ s.pendingConfig = leader.pendingConfig
       /\ s.matchIndex = leader.matchIndex
  <2>1. lg \in Seq(Entry) /\ P \in SUBSET Nat
    BY <1>2, <1>7, <1>8, FieldTypes DEF Grew
  <2> QED
    BY <1>2, <1>9, <2>1 DEF LeaderFields
<1>11. leader.state = "Leader" /\ peer' = peer /\ msgs' = msgs
  BY DEF ClientCommand
<1>12. Matches(s, peer)
  BY <1>1, <1>10, CoreMatches
<1>13. MInv(s, peer, msgs)
  BY <1>1, <1>4, <1>7, <1>10, <1>11, <1>12, AppendPlainInv
<1>14. leader' = IF effectivePeers(s) = {} /\ checkCommitMajority(s, n)
                 THEN CompleteProposals([s EXCEPT !.commitIndex = n], n)
                 ELSE s
  BY <1>3, <1>5, <1>6, <1>8, <1>9 DEF ClientCommand
<1>15. PICK v : v = leader'
  OBVIOUS
<1>16. MInv(v, peer, msgs)
  <2>1. CASE effectivePeers(s) = {} /\ checkCommitMajority(s, n)
    <3>1. PICK t : t = [s EXCEPT !.commitIndex = n]
      OBVIOUS
    <3>2. /\ t \in LeaderFields /\ t.log = s.log /\ t.commitIndex = n /\ SameChange(s, t)
          /\ t.matchIndex = s.matchIndex
      BY <1>10, <3>1 DEF LeaderFields, SameChange
    <3>3. \A k \in ChangesOf(s.log) : k <= s.commitIndex
      BY <1>13, <2>1, AloneSteady
    <3>4. s.commitIndex <= n /\ n <= Len(s.log)
      BY <1>2, <1>5, <1>7, <1>10 DEF Grew
    <3>5. Matches(t, peer)
      BY <1>12, <3>2 DEF Matches
    <3>6. MInv(t, peer, msgs)
      BY <1>13, <2>1, <3>2, <3>3, <3>4, <3>5, CommitPlainInv
    <3>7. v = CompleteProposals(t, n)
      BY <1>14, <1>15, <2>1, <3>1
    <3>8. SameCore(t, v)
      BY <3>2, <3>7, CompleteCore
    <3>9. TypeOf(t, peer, msgs)
      BY <3>6 DEF MInv
    <3>10. Matches(v, peer)
      BY <3>8, <3>9, CoreMatches DEF SameCore
    <3> QED
      BY <3>6, <3>8, <3>10, BookkeepingInv DEF SameCore
  <2>2. CASE ~(effectivePeers(s) = {} /\ checkCommitMajority(s, n))
    BY <1>13, <1>14, <1>15, <2>2
  <2> QED
    BY <2>1, <2>2
<1> QED
  BY <1>11, <1>15, <1>16 DEF MembershipInv

\* C_old,new is used when it is appended.
LEMMA HandleConfigChangeInv ==
    ASSUME MembershipInv, NEW joint \in Config, handleConfigChange(joint), joint.joint,
           joint.old = leader.currentConfig.new, joint.old # joint.new
    PROVE  MembershipInv'
<1>1. MInv(leader, peer, msgs) /\ TypeOf(leader, peer, msgs)
  BY DEF MembershipInv, MInv
<1>2. leader \in LeaderFields /\ leader.log \in Seq(Entry) /\ Len(leader.log) \in Nat
  BY <1>1, LeaderTypes
<1>3. PICK e : e = [kind |-> "config", config |-> joint]
  OBVIOUS
<1>4. e \in Entry /\ e.kind = "config" /\ e.config = joint
  BY <1>3 DEF Entry, Change
<1>5. PICK n \in Nat : n = Len(leader.log) + 1
  BY <1>2
<1>6. PICK lg : lg = Append(leader.log, e)
  OBVIOUS
<1>7. Grew(leader.log, lg, e)
  BY <1>2, <1>4, <1>6, GrewByAppend
<1>8. PICK s : s = [leader EXCEPT !.log = lg, !.pendingConfig = TRUE]
  OBVIOUS
<1>9. /\ s \in LeaderFields /\ s.log = lg /\ s.state = leader.state
      /\ s.commitIndex = leader.commitIndex /\ s.pendingConfig
      /\ s.matchIndex = leader.matchIndex
  <2>1. lg \in Seq(Entry)
    BY <1>7 DEF Grew
  <2> QED
    BY <1>2, <1>8, <2>1 DEF LeaderFields
<1>10. PICK r : r = applyConfigEntry(s, Boot, joint)
  OBVIOUS
<1>11. /\ r \in LeaderFields /\ r.log = lg /\ r.state = leader.state
       /\ r.commitIndex = leader.commitIndex /\ r.pendingConfig
       /\ r.currentConfig = joint /\ r.matchIndex = leader.matchIndex
  <2>1. PICK b \in BOOLEAN : b = ~ContainsNode(joint, Boot)
    OBVIOUS
  <2>2. r = [s EXCEPT !.currentConfig = joint, !.isJoining = b]
    BY <1>10, <2>1 DEF applyConfigEntry
  <2> QED
    BY <1>9, <2>2 DEF LeaderFields
<1>12. PICK t : t = connectToNewPeers(r)
  OBVIOUS
<1>13. SameCore(r, t)
  BY <1>11, <1>12, ConnectCore
<1>14. PICK P : P = t.proposals \cup {n}
  OBVIOUS
<1>15. PICK v : v = [t EXCEPT !.proposals = P]
  OBVIOUS
<1>16. /\ v \in LeaderFields /\ v.log = t.log /\ v.state = t.state
       /\ v.commitIndex = t.commitIndex /\ v.pendingConfig = t.pendingConfig
       /\ v.currentConfig = t.currentConfig /\ v.matchIndex = t.matchIndex
  <2>1. t \in LeaderFields
    BY <1>13 DEF SameCore
  <2>2. P \in SUBSET Nat
    BY <1>14, <2>1, FieldTypes
  <2> QED
    BY <1>15, <2>1, <2>2 DEF LeaderFields
<1>17. leader' = v
  BY <1>3, <1>5, <1>6, <1>8, <1>10, <1>12, <1>14, <1>15 DEF handleConfigChange
<1>18. leader.state = "Leader" /\ ~leader.pendingConfig /\ peer' = peer /\ msgs' = msgs
  BY DEF handleConfigChange
<1>19. /\ v.log = lg /\ v.commitIndex = leader.commitIndex /\ v.currentConfig = joint
       /\ v.pendingConfig /\ v.state = "Leader"
       /\ \A p \in Peer : v.matchIndex[p] = 0 \/ v.matchIndex[p] = leader.matchIndex[p]
  BY <1>11, <1>13, <1>16, <1>18 DEF SameCore, SameChange
<1>20. Matches(v, peer)
  BY <1>1, <1>19, CoreMatches
<1>21. MInv(v, peer, msgs)
  BY <1>1, <1>4, <1>7, <1>16, <1>18, <1>19, <1>20, AppendJointInv
<1> QED
  BY <1>17, <1>18, <1>21 DEF MembershipInv

LEMMA AddNodeInv ==
    ASSUME MembershipInv, NEW id \in Node, AddNode(id)
    PROVE  MembershipInv'
<1>1. leader.currentConfig \in Config
  BY LeaderTypes DEF MembershipInv, MInv
<1>2. PICK joint : joint = JointAdding(leader.currentConfig, id)
  OBVIOUS
<1>3. /\ joint \in Config /\ joint.joint /\ joint.old = leader.currentConfig.new
      /\ joint.new = leader.currentConfig.new \cup {id}
  BY <1>1, <1>2 DEF JointAdding, Config, ClusterConfigs
<1>4. id \notin leader.currentConfig.new /\ handleConfigChange(joint)
  BY <1>2 DEF AddNode, CanAddNode
<1> QED
  BY <1>3, <1>4, HandleConfigChangeInv

\* The leader is a member until it has stepped down, so removing it is a change.
LEMMA RemoveNodeInv ==
    ASSUME MembershipInv, NEW id \in Node, RemoveNode(id)
    PROVE  MembershipInv'
<1>1. leader.currentConfig \in Config
  BY LeaderTypes DEF MembershipInv, MInv
<1>2. PICK joint : joint = JointRemoving(leader.currentConfig, id)
  OBVIOUS
<1>3. /\ joint \in Config /\ joint.joint /\ joint.old = leader.currentConfig.new
      /\ joint.new = leader.currentConfig.new \ {id}
  BY <1>1, <1>2 DEF JointRemoving, Config, ClusterConfigs
<1>4. /\ id \in leader.currentConfig.new \/ id = Boot
      /\ handleConfigChange(joint)
  BY <1>2 DEF RemoveNode, CanRemoveNode
<1>5. leader.state = "Leader" /\ ~leader.pendingConfig
  BY <1>4 DEF handleConfigChange
<1>6. Steady(leader)
  BY <1>5 DEF MembershipInv, MInv, InPhase
<1>7. id \in leader.currentConfig.new
  BY <1>4, <1>5, <1>6 DEF Steady
<1> QED
  BY <1>3, <1>4, <1>7, HandleConfigChangeInv

\* A request says how far the leader has committed: past every change before a
\* C_new in its log.
LEMMA ReplicateToPeerInv ==
    ASSUME MembershipInv, NEW p \in Peer, ReplicateToPeer(p)
    PROVE  MembershipInv'
<1>1. MInv(leader, peer, msgs) /\ TypeOf(leader, peer, msgs) /\ Wire(leader, peer, msgs)
  BY DEF MembershipInv, MInv
<1>2. leader \in LeaderFields /\ leader.log \in Seq(Entry) /\ Len(leader.log) \in Nat
      /\ leader.commitIndex \in Nat
  BY <1>1, LeaderTypes
<1>3. PICK m : m = [type |-> "AppendEntries", peer |-> p,
                    prev |-> leader.nextIndex[p] - 1, last |-> Len(leader.log),
                    leaderCommit |-> leader.commitIndex]
  OBVIOUS
<1>4. msgs' = msgs \cup {m} /\ leader' = leader /\ peer' = peer /\ leader.nextIndex[p] > 0
  BY <1>3 DEF ReplicateToPeer
<1>5. m \in Request /\ m.type = "AppendEntries" /\ m.last = Len(leader.log)
      /\ m.leaderCommit = leader.commitIndex
  <2>1. leader.nextIndex[p] \in Nat
    BY <1>2, FieldTypes
  <2>2. leader.nextIndex[p] - 1 \in Nat
    BY <1>4, <2>1
  <2> QED
    BY <1>2, <1>3, <2>2 DEF Request
<1>6. Covers(leader.log, Len(leader.log), leader.commitIndex)
  <2>1. SUFFICES ASSUME NEW k \in ChangesOf(leader.log), ~leader.log[k].config.joint,
                        NEW j \in ChangesOf(leader.log), j < k
                 PROVE  j <= leader.commitIndex
    BY DEF Covers
  <2>2. j \in Nat /\ k \in Nat
    BY <1>2, ChangeTypes
  <2>3. CASE k <= leader.commitIndex
    BY <1>2, <2>1, <2>2, <2>3
  <2>4. CASE k > leader.commitIndex
    <3>1. j = k \/ j <= leader.commitIndex
      BY <1>1, <2>4, Uncommitted
    <3> QED
      BY <2>1, <2>2, <3>1
  <2> QED
    BY <1>2, <2>2, <2>3, <2>4
<1>7. PICK M : M = msgs \cup {m}
  OBVIOUS
<1>8. TypeOf(leader, peer, M)
  BY <1>1, <1>5, <1>7 DEF TypeOf
<1>9. Wire(leader, peer, M)
  BY <1>1, <1>2, <1>5, <1>6, <1>7 DEF Wire
<1>10. MInv(leader, peer, M)
  BY <1>1, <1>8, <1>9 DEF MInv
<1> QED
  BY <1>4, <1>7, <1>10 DEF MembershipInv

LEMMA FewerMessagesInv ==
    ASSUME NEW s, NEW f, NEW M, NEW N, MInv(s, f, M), N \subseteq M
    PROVE  MInv(s, f, N)
<1>1. TypeOf(s, f, N)
  BY DEF MInv, TypeOf
<1>2. Wire(s, f, N)
  BY DEF MInv, Wire
<1> QED
  BY <1>1, <1>2 DEF MInv

LEMMA HandleAppendReplyInv ==
    ASSUME MembershipInv, NEW m \in msgs, HandleAppendReply(m)
    PROVE  MembershipInv'
<1>1. PICK M : M = msgs \ {m}
  OBVIOUS
<1>2. MInv(leader, peer, M)
  BY <1>1, FewerMessagesInv DEF MembershipInv
<1>3. TypeOf(leader, peer, M) /\ TypeOf(leader, peer, msgs) /\ Wire(leader, peer, msgs)
  BY <1>2 DEF MInv, MembershipInv
<1>4. leader \in LeaderFields
  BY <1>3, LeaderTypes
<1>5. m.type = "AppendReply" /\ msgs' = M /\ peer' = peer
  BY <1>1 DEF HandleAppendReply
<1>6. PICK q \in Peer, n \in Nat : q = m.peer /\ n = m.match
  BY <1>3, <1>5 DEF TypeOf, Request, Reply
<1>7. PICK X : X = [leader.nextIndex EXCEPT ![q] = n + 1]
  OBVIOUS
<1>8. X \in [Peer -> Nat]
  BY <1>4, <1>7, FieldTypes
<1>9. PICK s : s = [leader EXCEPT !.nextIndex = X]
  OBVIOUS
<1>10. /\ s \in LeaderFields /\ s.log = leader.log /\ s.commitIndex = leader.commitIndex
       /\ SameChange(leader, s) /\ s.matchIndex = leader.matchIndex
  BY <1>4, <1>8, <1>9 DEF LeaderFields, SameChange
<1>11. MInv(s, peer, M)
  <2>1. Matches(s, peer)
    BY <1>3, <1>10, CoreMatches
  <2> QED
    BY <1>2, <1>10, <2>1, BookkeepingInv
<1>12. s = [leader EXCEPT !.nextIndex[m.peer] = m.match + 1]
  BY <1>4, <1>6, <1>7, <1>9, FieldTypes DEF LeaderFields
<1>13. CASE leader.state # "Leader" /\ leader' = leader
  BY <1>2, <1>5, <1>13 DEF MembershipInv
<1>14. CASE leader' = s
  BY <1>5, <1>11, <1>14 DEF MembershipInv
<1>15. CASE /\ leader.state = "Leader" /\ m.success
            /\ leader' \in AdvanceCommit([s EXCEPT !.matchIndex[m.peer] = m.match])
  <2>1. PICK Y : Y = [s.matchIndex EXCEPT ![q] = n]
    OBVIOUS
  <2>2. Y \in [Peer -> Nat]
    BY <1>10, <2>1, FieldTypes
  <2>3. PICK t : t = [s EXCEPT !.matchIndex = Y]
    OBVIOUS
  <2>4. /\ t \in LeaderFields /\ t.log = s.log /\ t.commitIndex = s.commitIndex
        /\ SameChange(s, t) /\ t.matchIndex = Y
    BY <1>10, <2>2, <2>3 DEF LeaderFields, SameChange
  <2>5. Matches(t, peer)
    <3>1. n <= peer[q].lastLogIndex
      BY <1>3, <1>5, <1>6, <1>15 DEF Wire
    <3>2. \A p \in Peer : s.matchIndex[p] <= peer[p].lastLogIndex
      BY <1>11, LeaderTypes DEF MInv
    <3>3. \A p \in Peer : Y[p] = IF p = q THEN n ELSE s.matchIndex[p]
      BY <1>10, <2>1, FieldTypes
    <3> QED
      BY <2>4, <3>1, <3>2, <3>3 DEF Matches
  <2>6. MInv(t, peer, M)
    BY <1>11, <2>4, <2>5, BookkeepingInv
  <2>7. t = [s EXCEPT !.matchIndex[m.peer] = m.match]
    BY <1>6, <1>10, <2>1, <2>3 DEF LeaderFields
  <2>8. PICK u : u = leader'
    OBVIOUS
  <2>9. u \in AdvanceCommit(t)
    BY <1>15, <2>7, <2>8
  <2>10. MInv(u, peer, M)
    BY <2>6, <2>9, AdvanceCommitInv
  <2> QED
    BY <1>5, <2>8, <2>10 DEF MembershipInv
<1> QED
  BY <1>12, <1>13, <1>14, <1>15 DEF HandleAppendReply
-----------------------------------------------------------------------------
(***************************************************************************)
(* The action of a peer.                                                   *)
(***************************************************************************)
\* Joining of one peer p with the fields r.
JoiningAt(s, r, p) ==
    \A k \in ChangesOf(s.log) : LastUpTo(s.log, k, r.commitIndex) =>
        r.isJoining = ~ContainsNode(s.log[k].config, p)

\* A peer that holds and has committed more, and has applied what it committed.
LEMMA PeerStepInv ==
    ASSUME NEW s, NEW f, NEW M, MInv(s, f, M), NEW p \in Peer, NEW r \in PeerFields,
           f[p].lastLogIndex <= r.lastLogIndex, r.lastLogIndex <= Len(s.log),
           r.commitIndex <= s.commitIndex, Covers(s.log, r.lastLogIndex, r.commitIndex),
           JoiningAt(s, r, p), NEW g, g = [f EXCEPT ![p] = r]
    PROVE  MInv(s, g, M)
<1>1. TypeOf(s, f, M) /\ ByBoth(s.log, s.commitIndex, f) /\ Wire(s, f, M) /\ Joining(s, f)
      /\ Removed(s, f)
  BY DEF MInv
<1>2. f \in [Peer -> PeerFields]
  BY <1>1 DEF TypeOf
<1>3. g \in [Peer -> PeerFields] /\ \A q \in Peer : g[q] = IF q = p THEN r ELSE f[q]
  BY <1>2
<1>4. r.lastLogIndex \in Nat /\ r.commitIndex \in Nat
  BY DEF PeerFields
<1>5. /\ s.log \in Seq(Entry) /\ s.currentConfig \in Config /\ s.commitIndex \in Nat
      /\ \A q \in Peer : /\ f[q].lastLogIndex \in Nat /\ f[q].lastLogIndex <= Len(s.log)
                         /\ f[q].commitIndex <= s.commitIndex
                         /\ s.matchIndex[q] \in Nat /\ s.matchIndex[q] <= f[q].lastLogIndex
  BY <1>1, LeaderTypes
<1>6. \A q \in Peer : g[q].lastLogIndex \in Nat /\ f[q].lastLogIndex <= g[q].lastLogIndex
  BY <1>3, <1>4, <1>5
<1>7. TypeOf(s, g, M)
  <2>1. \A q \in Peer : /\ g[q].lastLogIndex <= Len(s.log) /\ g[q].commitIndex <= s.commitIndex
                        /\ s.matchIndex[q] <= g[q].lastLogIndex
    BY <1>3, <1>4, <1>5, <1>6
  <2> QED
    BY <1>1, <1>3, <2>1 DEF TypeOf
<1>8. ByBoth(s.log, s.commitIndex, g)
  <2>1. SUFFICES ASSUME NEW k \in ChangesOf(s.log), k <= s.commitIndex
                 PROVE  \E j \in ChangesOf(s.log) :
                           /\ s.log[j].config.joint /\ j <= k
                           /\ \A i \in ChangesOf(s.log) : s.log[i].config.joint /\ i <= k => i <= j
                           /\ HasMajority(s.log[j].config, Boot, HoldersOf(g, k))
    BY DEF ByBoth
  <2>2. PICK j \in ChangesOf(s.log) :
           /\ s.log[j].config.joint /\ j <= k
           /\ \A i \in ChangesOf(s.log) : s.log[i].config.joint /\ i <= k => i <= j
           /\ HasMajority(s.log[j].config, Boot, HoldersOf(f, k))
    BY <1>1, <2>1 DEF ByBoth
  <2>3. s.log[j].config \in Config /\ k \in Nat
    BY <1>5, ChangeTypes
  <2>4. \A q \in Peer : f[q].lastLogIndex >= k => g[q].lastLogIndex >= k
    BY <1>5, <1>6, <2>3
  <2>5. HoldersOf(f, k) \subseteq HoldersOf(g, k)
    BY <2>4 DEF HoldersOf
  <2>6. HasMajority(s.log[j].config, Boot, HoldersOf(g, k))
    BY <2>2, <2>3, <2>5, HasMajorityGrows
  <2> QED
    BY <2>2, <2>6
<1>9. Wire(s, g, M)
  <2>1. \A q \in Peer : Covers(s.log, g[q].lastLogIndex, g[q].commitIndex)
    BY <1>1, <1>3 DEF Wire
  <2>2. ASSUME NEW m \in M, m.type = "AppendReply", m.success
        PROVE  m.match <= g[m.peer].lastLogIndex
    <3>1. m.peer \in Peer /\ m.match \in Nat
      BY <1>1, <2>2 DEF TypeOf, Request, Reply
    <3>2. m.match <= f[m.peer].lastLogIndex
      BY <1>1, <2>2 DEF Wire
    <3> QED
      BY <1>5, <1>6, <3>1, <3>2
  <2> QED
    BY <1>1, <2>1, <2>2 DEF Wire
<1>10. Joining(s, g)
  <2>1. \A q \in Peer : JoiningAt(s, f[q], q)
    BY <1>1, Zenon DEF Joining, JoiningAt
  <2>2. \A q \in Peer : JoiningAt(s, g[q], q)
    BY <1>3, <2>1
  <2> QED
    BY <2>2, Zenon DEF Joining, JoiningAt
<1>11. Removed(s, g)
  <2>1. SUFFICES ASSUME s.state = "Follower", s.log # << >> PROVE Removed(s, g)
    BY DEF Removed
  <2>2. PICK q \in s.currentConfig.new : f[q].lastLogIndex >= s.commitIndex
    BY <1>1, <2>1 DEF Removed
  <2>3. q \in Peer
    <3>1. q \in Node /\ Boot \notin s.currentConfig.new
      BY <1>1, <1>5, <2>1, ConfigFinite DEF Removed
    <3> QED
      BY <3>1 DEF Peer
  <2>4. g[q].lastLogIndex >= s.commitIndex
    BY <1>5, <1>6, <2>2, <2>3
  <2> QED
    BY <1>1, <2>1, <2>4 DEF Removed
<1> QED
  BY <1>7, <1>8, <1>9, <1>10, <1>11 DEF MInv

\* An answer of a peer that holds what it says.
LEMMA AddReplyInv ==
    ASSUME NEW s, NEW f, NEW M, MInv(s, f, M), NEW m \in Reply,
           m.success => m.match <= f[m.peer].lastLogIndex
    PROVE  MInv(s, f, M \cup {m})
<1>1. m.type = "AppendReply"
  BY DEF Reply
<1>2. TypeOf(s, f, M \cup {m})
  BY DEF MInv, TypeOf
<1>3. Wire(s, f, M \cup {m})
  BY <1>1 DEF MInv, Wire
<1> QED
  BY <1>2, <1>3 DEF MInv

\* applyLogs at a peer leaves isJoining as the last configuration says.
LEMMA ApplyUpToJoining ==
    ASSUME NEW f, NEW M, MInv(leader, f, M), NEW p \in Peer, NEW s \in PeerFields,
           s.commitIndex = f[p].commitIndex, s.isJoining = f[p].isJoining,
           NEW n \in Nat, s.commitIndex <= n, n <= Len(leader.log),
           NEW r, r = ApplyUpTo(s, p, n)
    PROVE  /\ r \in PeerFields /\ r.lastLogIndex = s.lastLogIndex /\ r.commitIndex = n
           /\ JoiningAt(leader, r, p)
<1>1. TypeOf(leader, f, M) /\ Joining(leader, f)
  BY DEF MInv
<1>2. leader.log \in Seq(Entry) /\ Len(leader.log) \in Nat
  BY <1>1, LeaderTypes
<1>3. s.commitIndex \in Nat /\ s.isJoining \in BOOLEAN
  BY DEF PeerFields
<1>4. PICK changes :
         changes = {k \in (s.commitIndex + 1)..n : leader.log[k].kind = "config"}
  OBVIOUS
<1>5. PICK t : t = [s EXCEPT !.commitIndex = n]
  OBVIOUS
<1>6. t \in PeerFields /\ t.lastLogIndex = s.lastLogIndex /\ t.commitIndex = n
      /\ t.isJoining = s.isJoining
  BY <1>5 DEF PeerFields
<1>7. r = IF changes = {} THEN t ELSE applyConfigEntry(t, p, leader.log[Max(changes)].config)
  BY <1>4, <1>5 DEF ApplyUpTo
<1>8. \A k \in ChangesOf(leader.log) : k \in Nat /\ k >= 1
  BY <1>2, ChangeTypes
<1>9. \A k : k \in changes <=> k \in ChangesOf(leader.log) /\ k > s.commitIndex /\ k <= n
  BY <1>2, <1>3, <1>4 DEF ChangesOf
<1>10. JoiningAt(leader, f[p], p)
  BY <1>1, Zenon DEF Joining, JoiningAt
<1>11. CASE changes = {}
  <2>1. r = t
    BY <1>7, <1>11
  <2>2. \A k \in ChangesOf(leader.log) : k <= n <=> k <= s.commitIndex
    BY <1>3, <1>8, <1>9, <1>11
  <2>3. ASSUME NEW k \in ChangesOf(leader.log), LastUpTo(leader.log, k, n)
        PROVE  LastUpTo(leader.log, k, s.commitIndex)
    BY <2>2, <2>3 DEF LastUpTo
  <2>4. JoiningAt(leader, r, p)
    BY <1>6, <1>10, <2>1, <2>3 DEF JoiningAt
  <2> QED
    BY <1>6, <2>1, <2>4
<1>12. CASE changes # {}
  <2>1. changes \subseteq Nat /\ \A y \in changes : y <= n
    BY <1>8, <1>9
  <2>2. PICK l \in changes : l = Max(changes) /\ \A y \in changes : y <= l
    <3>1. Max(changes) \in changes /\ \A y \in changes : Max(changes) >= y
      BY <1>12, <2>1, MaxOfNats
    <3> QED
      BY <2>1, <3>1
  <2>3. l \in ChangesOf(leader.log) /\ l > s.commitIndex /\ l <= n
    BY <1>9, <2>2
  <2>4. PICK c \in Config : c = leader.log[l].config
    BY <1>2, <2>3, ChangeTypes
  <2>5. PICK b \in BOOLEAN : b = ~ContainsNode(c, p)
    OBVIOUS
  <2>6. r = [t EXCEPT !.currentConfig = c, !.isJoining = b]
    BY <1>7, <1>12, <2>2, <2>4, <2>5 DEF applyConfigEntry
  <2>7. r \in PeerFields /\ r.lastLogIndex = s.lastLogIndex /\ r.commitIndex = n
        /\ r.isJoining = b
    BY <1>6, <2>6 DEF PeerFields
  <2>8. ASSUME NEW k \in ChangesOf(leader.log), LastUpTo(leader.log, k, n)
        PROVE  k = l
    <3>1. k <= n /\ l <= k
      BY <2>3, <2>8 DEF LastUpTo
    <3>2. k \in changes
      BY <1>3, <1>8, <1>9, <2>3, <3>1
    <3> QED
      BY <2>1, <2>2, <3>1, <3>2
  <2>9. JoiningAt(leader, r, p)
    BY <1>8, <2>3, <2>4, <2>5, <2>7, <2>8 DEF JoiningAt
  <2> QED
    BY <2>7, <2>9
<1> QED
  BY <1>11, <1>12

LEMMA HandleAppendEntriesInv ==
    ASSUME MembershipInv, NEW m \in msgs, HandleAppendEntries(m)
    PROVE  MembershipInv'
<1>1. MInv(leader, peer, msgs) /\ TypeOf(leader, peer, msgs) /\ Wire(leader, peer, msgs)
  BY DEF MembershipInv, MInv
<1>2. m.type = "AppendEntries" /\ leader' = leader
  BY DEF HandleAppendEntries
<1>3. PICK p \in Peer, ml \in Nat, mc \in Nat :
         p = m.peer /\ ml = m.last /\ mc = m.leaderCommit
  BY <1>1, <1>2 DEF TypeOf, Request, Reply
<1>4. ml <= Len(leader.log) /\ mc <= leader.commitIndex /\ Covers(leader.log, ml, mc)
  BY <1>1, <1>2, <1>3 DEF Wire
<1>5. /\ leader.log \in Seq(Entry) /\ Len(leader.log) \in Nat
      /\ leader.commitIndex \in Nat /\ leader.commitIndex <= Len(leader.log)
      /\ peer[p] \in PeerFields
  BY <1>1, LeaderTypes
<1>6. PICK l \in Nat, c \in Nat :
         /\ l = peer[p].lastLogIndex /\ c = peer[p].commitIndex
         /\ l <= Len(leader.log) /\ c <= leader.commitIndex
  BY <1>1, LeaderTypes
<1>7. PICK last \in Nat : /\ last = Max({l, ml})
                          /\ last >= l /\ last >= ml /\ (last = l \/ last = ml)
  BY MaxOfTwo
<1>8. PICK M : M = msgs \ {m}
  OBVIOUS
<1>9. MInv(leader, peer, M)
  BY <1>1, <1>8, FewerMessagesInv
<1>10. CASE /\ AppendReply(m, FALSE, peer[p].lastLogIndex)
            /\ peer' = peer
  <2>1. PICK a : a = [type |-> "AppendReply", peer |-> p, success |-> FALSE, match |-> l]
    OBVIOUS
  <2>2. msgs' = M \cup {a}
    BY <1>3, <1>6, <1>8, <1>10, <2>1 DEF AppendReply
  <2>3. a \in Reply /\ ~a.success
    BY <2>1 DEF Reply
  <2>4. MInv(leader, peer, M \cup {a})
    BY <1>9, <2>3, AddReplyInv
  <2> QED
    BY <1>2, <1>10, <2>2, <2>4 DEF MembershipInv
<1>11. CASE /\ AppendReply(m, TRUE, last)
            /\ peer' = [peer EXCEPT ![p] =
                  ApplyUpTo([peer[p] EXCEPT !.lastLogIndex = last], p,
                            Max({[peer[p] EXCEPT !.lastLogIndex = last].commitIndex,
                                 Min({m.leaderCommit, last})}))]
  <2>1. PICK s : s = [peer[p] EXCEPT !.lastLogIndex = last]
    OBVIOUS
  <2>2. s \in PeerFields /\ s.lastLogIndex = last /\ s.commitIndex = c
        /\ s.isJoining = peer[p].isJoining
    BY <1>5, <1>6, <2>1 DEF PeerFields
  <2>3. PICK x \in Nat : x = Min({mc, last}) /\ x <= mc /\ x <= last /\ (x = mc \/ x = last)
    BY MinOfTwo
  <2>4. PICK n \in Nat : n = Max({c, x}) /\ n >= c /\ n >= x /\ (n = c \/ n = x)
    BY MaxOfTwo
  <2>5. PICK r : r = ApplyUpTo(s, p, n)
    OBVIOUS
  <2>6. n <= leader.commitIndex /\ n <= Len(leader.log) /\ last <= Len(leader.log)
    BY <1>4, <1>5, <1>6, <1>7, <2>3, <2>4
  <2>7. /\ r \in PeerFields /\ r.lastLogIndex = last /\ r.commitIndex = n
        /\ JoiningAt(leader, r, p)
    BY <1>6, <1>9, <2>2, <2>4, <2>5, <2>6, ApplyUpToJoining
  <2>8. Covers(leader.log, last, n)
    <3>1. SUFFICES ASSUME NEW k \in ChangesOf(leader.log), ~leader.log[k].config.joint,
                          k <= last, NEW j \in ChangesOf(leader.log), j < k
                   PROVE  j <= n
      BY DEF Covers
    <3>2. j \in Nat /\ k \in Nat
      BY <1>5, ChangeTypes
    <3>3. CASE last = ml
      <4>1. j <= mc
        BY <1>4, <3>1, <3>3 DEF Covers
      <4> QED
        BY <2>3, <2>4, <3>1, <3>2, <4>1
    <3>4. CASE last = l
      <4>1. Covers(leader.log, l, c)
        BY <1>1, <1>6 DEF Wire
      <4>2. j <= c
        BY <3>1, <3>4, <4>1 DEF Covers
      <4> QED
        BY <2>4, <3>2, <4>2
    <3> QED
      BY <1>7, <3>3, <3>4
  <2>9. PICK g : g = [peer EXCEPT ![p] = r]
    OBVIOUS
  <2>10. MInv(leader, g, M)
    BY <1>6, <1>7, <1>9, <2>6, <2>7, <2>8, <2>9, PeerStepInv
  <2>11. g[p] = r
    BY <1>1, <2>9 DEF TypeOf
  <2>12. PICK a : a = [type |-> "AppendReply", peer |-> p, success |-> TRUE, match |-> last]
    OBVIOUS
  <2>13. a \in Reply /\ a.match = last /\ a.peer = p
    BY <2>12 DEF Reply
  <2>14. MInv(leader, g, M \cup {a})
    BY <2>7, <2>10, <2>11, <2>13, AddReplyInv
  <2>15. msgs' = M \cup {a}
    BY <1>3, <1>8, <1>11, <2>12 DEF AppendReply
  <2>16. peer' = g
    BY <1>3, <1>11, <2>1, <2>2, <2>3, <2>4, <2>5, <2>9
  <2> QED
    BY <1>2, <2>14, <2>15, <2>16 DEF MembershipInv
<1>12. \/ AppendReply(m, FALSE, peer[p].lastLogIndex) /\ peer' = peer
       \/ /\ AppendReply(m, TRUE, last)
          /\ peer' = [peer EXCEPT ![p] =
                  ApplyUpTo([peer[p] EXCEPT !.lastLogIndex = last], p,
                            Max({[peer[p] EXCEPT !.lastLogIndex = last].commitIndex,
                                 Min({m.leaderCommit, last})}))]
  BY <1>3, <1>6, <1>7 DEF HandleAppendEntries
<1> QED
  BY <1>10, <1>11, <1>12
-----------------------------------------------------------------------------
(***************************************************************************)
(* The theorems.                                                           *)
(***************************************************************************)
LEMMA MembershipStep ==
    ASSUME MembershipInv, [Next]_vars
    PROVE  MembershipInv'
<1>1. CASE BecomeLeader
  BY <1>1, BecomeLeaderInv
<1>2. CASE ClientCommand
  BY <1>2, ClientCommandInv
<1>3. CASE \E id \in Node : AddNode(id)
  BY <1>3, AddNodeInv
<1>4. CASE \E id \in Node : RemoveNode(id)
  BY <1>4, RemoveNodeInv
<1>5. CASE \E p \in Peer : ReplicateToPeer(p)
  BY <1>5, ReplicateToPeerInv
<1>6. CASE \E m \in msgs : HandleAppendEntries(m)
  BY <1>6, HandleAppendEntriesInv
<1>7. CASE \E m \in msgs : HandleAppendReply(m)
  BY <1>7, HandleAppendReplyInv
<1>8. CASE UNCHANGED vars
  BY <1>8 DEF vars, MembershipInv
<1> QED
  BY <1>1, <1>2, <1>3, <1>4, <1>5, <1>6, <1>7, <1>8 DEF Next

\* The leader, its peers and the messages always agree on how far a change has
\* come: it is in one of two phases or over (pendingConfig, currentConfig), the
\* changes in the log take turns, and no peer has a C_new without having been
\* told that what is before it is committed (processAppendEntries, applyLogs).
THEOREM ChangesAccounted == Spec => []MembershipInv
<1>1. Init => MembershipInv
  BY MembershipInit
<1>2. MembershipInv /\ [Next]_vars => MembershipInv'
  BY MembershipStep
<1> QED
  BY <1>1, <1>2, PTL DEF Spec

\* Nothing is committed, acknowledged or asked for that is not in a log
\* (processAppendEntries, processAppendEntriesResponse, connectToNewPeers).
THEOREM MembershipTypeCorrect == Spec => []TypeOK
<1>1. MembershipInv => TypeOK
  BY DEF MembershipInv, MInv, TypeOf, TypeOK
<1> QED
  BY <1>1, ChangesAccounted, PTL

LEMMA LogChanges ==
    ASSUME MembershipInv
    PROVE  /\ leader.log \in Seq(Entry) /\ Len(leader.log) \in Nat
           /\ Changes = ChangesOf(leader.log) /\ Changes \subseteq Nat
           /\ \A k \in Changes : k <= Len(leader.log) /\ ConfigAt(k).joint \in BOOLEAN
           /\ \A k : ConfigAt(k) = leader.log[k].config
<1>1. leader.log \in Seq(Entry)
  BY LeaderTypes DEF MembershipInv, MInv
<1> QED
  BY <1>1, ChangeTypes DEF Changes, ChangesOf, ConfigAt

\* Changes do not overlap in the log of the leader: every C_old,new starts from
\* the membership the change before it ended with, every C_new ends the change
\* right before it (pendingConfig, BuildJointConfig, proposeSecondPhaseConfig).
THEOREM ChangesTakeTurns == Spec => []ChangesInTurn
<1>1. ASSUME MembershipInv PROVE ChangesInTurn
  <2>1. /\ Changes = ChangesOf(leader.log) /\ Changes \subseteq Nat
        /\ \A k : ConfigAt(k) = leader.log[k].config
    BY <1>1, LogChanges
  <2>2. SUFFICES ASSUME NEW k \in Changes
                 PROVE  LET before == {j \in Changes : j < k} IN
                        \/ before = {} /\ ConfigAt(k).joint
                        \/ /\ before # {}
                           /\ LET c == ConfigAt(Max(before)) IN
                              /\ c.joint # ConfigAt(k).joint
                              /\ IF c.joint THEN ConfigAt(k).new = c.new
                                            ELSE ConfigAt(k).old = c.new
    BY DEF ChangesInTurn
  <2>3. PICK before : before = {j \in Changes : j < k}
    OBVIOUS
  <2>4. InTurn(leader.log) /\ k \in Nat
    BY <1>1, <2>1 DEF MembershipInv, MInv
  <2>5. CASE leader.log[k].config.joint /\ \A i \in ChangesOf(leader.log) : i >= k
    <3>1. before = {}
      BY <2>1, <2>3, <2>4, <2>5
    <3> QED
      BY <2>1, <2>3, <2>5, <3>1
  <2>6. CASE \E j \in ChangesOf(leader.log) :
                /\ Follows(leader.log, j, k)
                /\ leader.log[j].config.joint # leader.log[k].config.joint
                /\ leader.log[j].config.joint => leader.log[k].config.new = leader.log[j].config.new
                /\ ~leader.log[j].config.joint => leader.log[k].config.old = leader.log[j].config.new
    <3>1. PICK j \in Changes :
                /\ Follows(leader.log, j, k)
                /\ ConfigAt(j).joint # ConfigAt(k).joint
                /\ ConfigAt(j).joint => ConfigAt(k).new = ConfigAt(j).new
                /\ ~ConfigAt(j).joint => ConfigAt(k).old = ConfigAt(j).new
      BY <2>1, <2>6
    <3>2. j \in Nat /\ j < k /\ \A i \in Changes : i <= j \/ i >= k
      BY <2>1, <3>1 DEF Follows
    <3>3. before # {} /\ before \subseteq Nat /\ \A i \in before : i <= k /\ i <= j
      BY <2>1, <2>3, <2>4, <3>2
    <3>4. Max(before) \in before /\ \A i \in before : Max(before) >= i
      BY <2>4, <3>3, MaxOfNats
    <3>5. j \in before
      BY <2>3, <3>2
    <3>6. PICK x \in before : x = Max(before) /\ x >= j
      BY <3>4, <3>5
    <3>7. x = j
      BY <3>2, <3>3, <3>6
    <3> QED
      BY <2>3, <3>1, <3>3, <3>6, <3>7
  <2> QED
    BY <2>1, <2>2, <2>4, <2>5, <2>6 DEF InTurn
<1> QED
  BY <1>1, ChangesAccounted, PTL

\* Both phases of a change are committed by what checkCommitMajority counts as
\* a majority of C_old and of C_new, of nodes that hold the entry: match
\* indexes that are kept, reset or overwritten late never overstate a log.
THEOREM BothMajoritiesHold == Spec => []CommittedByBoth
<1>1. ASSUME MembershipInv PROVE CommittedByBoth
  <2>1. /\ Changes = ChangesOf(leader.log) /\ Changes \subseteq Nat
        /\ \A k : ConfigAt(k) = leader.log[k].config
    BY <1>1, LogChanges
  <2>2. SUFFICES ASSUME NEW k \in Changes, k <= leader.commitIndex
                 PROVE  HasMajority(ConfigAt(Max({j \in Changes : j <= k /\ ConfigAt(j).joint})),
                                    Boot, Holders(k))
    BY DEF CommittedByBoth
  <2>3. k \in Nat /\ ByBoth(leader.log, leader.commitIndex, peer)
    BY <1>1, <2>1 DEF MembershipInv, MInv
  <2>4. PICK j \in Changes :
            /\ ConfigAt(j).joint /\ j <= k
            /\ \A i \in Changes : ConfigAt(i).joint /\ i <= k => i <= j
            /\ HasMajority(ConfigAt(j), Boot, HoldersOf(peer, k))
    BY <2>1, <2>2, <2>3 DEF ByBoth
  <2>5. PICK joints : joints = {i \in Changes : i <= k /\ ConfigAt(i).joint}
    OBVIOUS
  <2>6. j \in joints /\ joints \subseteq Nat /\ \A i \in joints : i <= k /\ i <= j
    BY <2>1, <2>4, <2>5
  <2>7. Max(joints) \in joints /\ \A i \in joints : Max(joints) >= i
    BY <2>3, <2>6, MaxOfNats
  <2>8. PICK x \in joints : x = Max(joints) /\ x >= j
    BY <2>6, <2>7
  <2>9. x = j
    BY <2>1, <2>6, <2>8
  <2>10. Holders(k) = HoldersOf(peer, k)
    BY DEF Holders, HoldersOf
  <2> QED
    BY <2>4, <2>5, <2>8, <2>9, <2>10
<1> QED
  BY <1>1, ChangesAccounted, PTL

\* A peer that has applied a change has isJoining as the last one says.
LEMMA LastApplied ==
    ASSUME MembershipInv, NEW p \in Peer, NEW i \in Changes, i <= peer[p].commitIndex
    PROVE  \E k \in Changes : /\ LastUpTo(leader.log, k, peer[p].commitIndex)
                              /\ peer[p].isJoining = ~ContainsNode(ConfigAt(k), p)
<1>1. /\ Changes = ChangesOf(leader.log) /\ Changes \subseteq Nat
      /\ \A k : ConfigAt(k) = leader.log[k].config
  BY LogChanges
<1>2. PICK n \in Nat : n = peer[p].commitIndex
  BY LeaderTypes DEF MembershipInv, MInv
<1>3. PICK S : S = {k \in Changes : k <= n}
  OBVIOUS
<1>4. S # {} /\ S \subseteq Nat /\ \A y \in S : y <= n
  BY <1>1, <1>2, <1>3
<1>5. Max(S) \in S /\ \A y \in S : Max(S) >= y
  BY <1>4, MaxOfNats
<1>6. PICK k \in S : \A y \in S : y <= k
  BY <1>4, <1>5
<1>7. LastUpTo(leader.log, k, n)
  BY <1>1, <1>3, <1>6 DEF LastUpTo
<1>8. k \in ChangesOf(leader.log)
  BY <1>1, <1>3
<1>9. peer[p].isJoining = ~ContainsNode(leader.log[k].config, p)
  BY <1>2, <1>7, <1>8 DEF MembershipInv, MInv, Joining
<1> QED
  BY <1>1, <1>2, <1>7, <1>8, <1>9

\* A leader that has removed itself leaves a member that holds everything
\* committed and whose election timer is active, although that member may have
\* applied only the first phase of the change (applyLogs, isJoining).
THEOREM SuccessorLeft == Spec => []SuccessorReady
<1>1. ASSUME MembershipInv PROVE SuccessorReady
  <2>1. /\ Changes = ChangesOf(leader.log) /\ Changes \subseteq Nat
        /\ \A k : ConfigAt(k) = leader.log[k].config
        /\ \A k \in Changes : k <= Len(leader.log) /\ ConfigAt(k).joint \in BOOLEAN
        /\ Len(leader.log) \in Nat
    BY <1>1, LogChanges
  <2>2. SUFFICES ASSUME leader.log # << >>, leader.state = "Follower"
                 PROVE  \E p \in leader.currentConfig.new :
                           /\ peer[p].lastLogIndex >= leader.commitIndex
                           /\ ~peer[p].isJoining
    BY DEF SuccessorReady
  <2>3. Steady(leader) /\ Changes # {} /\ Boot \notin leader.currentConfig.new
    BY <1>1, <2>1, <2>2 DEF MembershipInv, MInv, Removed
  <2>4. PICK p \in leader.currentConfig.new : peer[p].lastLogIndex >= leader.commitIndex
    BY <1>1, <2>2 DEF MembershipInv, MInv, Removed
  <2>5. TypeOf(leader, peer, msgs)
    BY <1>1 DEF MembershipInv, MInv
  <2>6. p \in Peer
    <3>1. leader.currentConfig \in Config
      BY <2>5, LeaderTypes
    <3>2. leader.currentConfig.new \subseteq Node
      BY <3>1, ConfigFinite
    <3> QED
      BY <2>3, <3>2 DEF Peer
  <2>7. /\ leader.commitIndex \in Nat /\ peer[p].lastLogIndex \in Nat
        /\ peer[p].commitIndex \in Nat /\ peer[p].isJoining \in BOOLEAN
    BY <2>5, <2>6, LeaderTypes
  <2>8. PICK k \in Changes : \A i \in Changes : i <= k
    <3>1. Max(Changes) \in Changes /\ \A i \in Changes : Max(Changes) >= i
      BY <2>1, <2>3, MaxOfNats
    <3> QED
      BY <2>1, <3>1
  <2>9. /\ k \in Nat /\ k <= leader.commitIndex /\ k <= peer[p].lastLogIndex
        /\ ConfigAt(k) = leader.currentConfig /\ ~ConfigAt(k).joint
    <3>1. k <= leader.commitIndex /\ ConfigAt(k) = leader.currentConfig
          /\ ~leader.currentConfig.joint
      BY <2>1, <2>3, <2>8 DEF Steady
    <3>2. k \in Nat /\ k <= peer[p].lastLogIndex
      BY <2>1, <2>4, <2>7, <3>1
    <3> QED
      BY <3>1, <3>2
  <2>10. InTurn(leader.log)
    BY <1>1 DEF MembershipInv, MInv
  <2>11. PICK j \in Changes :
            /\ j < k /\ (\A i \in Changes : i <= j \/ i >= k)
            /\ ConfigAt(k).new = ConfigAt(j).new
    <3>1. PICK j \in ChangesOf(leader.log) :
              /\ Follows(leader.log, j, k)
              /\ leader.log[j].config.joint # leader.log[k].config.joint
              /\ leader.log[j].config.joint => leader.log[k].config.new = leader.log[j].config.new
      BY <2>1, <2>9, <2>10 DEF InTurn
    <3>2. leader.log[j].config.joint
      BY <2>1, <2>9, <3>1
    <3> QED
      BY <2>1, <3>1, <3>2 DEF Follows
  <2>12. j <= peer[p].commitIndex
    <3>1. Covers(leader.log, peer[p].lastLogIndex, peer[p].commitIndex)
      BY <1>1, <2>6 DEF MembershipInv, MInv, Wire
    <3> QED
      BY <2>1, <2>9, <2>11, <3>1 DEF Covers
  <2>13. PICK l \in Changes : /\ LastUpTo(leader.log, l, peer[p].commitIndex)
                              /\ peer[p].isJoining = ~ContainsNode(ConfigAt(l), p)
    BY <1>1, <2>6, <2>12, LastApplied
  <2>14. l = j \/ l = k
    <3>1. j <= l /\ l <= k
      BY <2>1, <2>8, <2>12, <2>13 DEF LastUpTo
    <3> QED
      BY <2>1, <2>9, <2>11, <3>1
  <2>15. p \in ConfigAt(l).new
    BY <2>9, <2>11, <2>14
  <2>16. ContainsNode(ConfigAt(l), p)
    BY <2>15 DEF ContainsNode, Members
  <2> QED
    BY <2>4, <2>7, <2>13, <2>16
<1> QED
  BY <1>1, ChangesAccounted, PTL
=============================================================================
