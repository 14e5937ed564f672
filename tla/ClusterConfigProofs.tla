------------------------ MODULE ClusterConfigProofs -------------------------
(***************************************************************************)
(* When the majorities of config.go intersect.  HasMajority counts the     *)
(* asking node twice, so (N + 1) \div 2 of N nodes suffice: two accepted   *)
(* sets of voters share a node when N is odd, and need not when N is even. *)
(***************************************************************************)
EXTENDS ClusterConfig, FiniteSetsExt, FiniteSetTheorems, SequenceTheorems, TLAPS

(***************************************************************************)
(* Facts about the least and the greatest of a set of indexes, and about   *)
(* parts of a log, that the proofs of every module use.                    *)
(***************************************************************************)
\* A set of natural numbers that is not empty has a least element.
LEMMA MinOfNats ==
    ASSUME NEW S, S \subseteq Nat, S # {}
    PROVE  Min(S) \in S /\ \A y \in S : Min(S) <= y
<1> DEFINE R == {p \in Nat \X Nat : p[1] < p[2]}
<1>0. IsWellFoundedOn(R, Nat)
  BY NatLessThanWellFounded, Zenon DEF OpToRel
<1> HIDE DEF R
<1>1. PICK x \in S : \A y \in S : ~(<<y, x>> \in R)
  BY <1>0, WFMin
<1>2. ASSUME NEW y \in S PROVE x <= y
  <2>1. x \in Nat /\ y \in Nat /\ <<y, x>> \notin R
    BY <1>1
  <2>2. ~(y < x)
    BY <2>1 DEF R
  <2> QED
    BY <2>1, <2>2
<1> QED
  BY <1>2 DEF Min

\* A set of natural numbers that is bounded and not empty has a greatest.
LEMMA MaxOfNats ==
    ASSUME NEW S, S \subseteq Nat, S # {}, NEW b \in Nat, \A y \in S : y <= b
    PROVE  Max(S) \in S /\ \A y \in S : Max(S) >= y
<1> DEFINE B == {n \in Nat : \A y \in S : y <= n}
<1>1. B \subseteq Nat /\ B # {}
  OBVIOUS
<1>2. PICK t \in B : \A n \in B : t <= n
  BY <1>1, MinOfNats
<1>3. t \in S
  <2>1. SUFFICES ASSUME t \notin S
                 PROVE  FALSE
    OBVIOUS
  <2>2. \A y \in S : y < t
    BY <1>2, <2>1
  <2>3. t - 1 \in Nat
    <3>1. PICK z \in S : z < t
      BY <2>2
    <3> QED
      BY <3>1, <1>2
  <2>4. t - 1 \in B
    BY <2>2, <2>3
  <2> QED
    BY <1>2, <2>3, <2>4
<1>4. \E x \in S : \A y \in S : x >= y
  BY <1>2, <1>3
<1> QED
  BY <1>4 DEF Max

\* The same of two indexes.
LEMMA MaxOfTwo ==
    ASSUME NEW a \in Nat, NEW b \in Nat, NEW m, m = Max({a, b})
    PROVE  m \in Nat /\ m >= a /\ m >= b /\ (m = a \/ m = b)
<1>1. {a, b} \subseteq Nat /\ {a, b} # {} /\ \A y \in {a, b} : y <= a + b
  OBVIOUS
<1>2. Max({a, b}) \in {a, b} /\ \A y \in {a, b} : Max({a, b}) >= y
  BY <1>1, a + b \in Nat, MaxOfNats
<1> QED
  BY <1>2

LEMMA MinOfTwo ==
    ASSUME NEW a \in Nat, NEW b \in Nat, NEW m, m = Min({a, b})
    PROVE  m \in Nat /\ m <= a /\ m <= b /\ (m = a \/ m = b)
<1>1. {a, b} \subseteq Nat /\ {a, b} # {}
  OBVIOUS
<1>2. Min({a, b}) \in {a, b} /\ \A y \in {a, b} : Min({a, b}) <= y
  BY <1>1, MinOfNats
<1> QED
  BY <1>2

LEMMA SubSeqType ==
    ASSUME NEW S, NEW s \in Seq(S), NEW a \in Nat, a >= 1, NEW b \in Int, b <= Len(s)
    PROVE  SubSeq(s, a, b) \in Seq(S)
<1>1. \A i \in a..b : s[i] \in S
  BY LenProperties, ElementOfSeq
<1> QED
  BY <1>1, SubSeqProperties
-----------------------------------------------------------------------------
Odd(n) == \E k \in Nat : n = 2 * k + 1

\* What the count of MajorityOf amounts to, for a member and for a node that
\* is being removed: at least half of the peers, in whole numbers.
LEMMA MajorityCount ==
    ASSUME NEW peers, IsFiniteSet(peers), NEW self, NEW voters,
           MajorityOf(peers, self, voters)
    PROVE  /\ Cardinality(peers) \in Nat
           /\ Cardinality(peers \cap voters) \in Nat
           /\ 2 * Cardinality(peers \cap voters) >= Cardinality(peers)
<1> DEFINE n == Cardinality(peers)
           k == Cardinality(peers \cap voters)
<1>1. n \in Nat
  BY FS_CardinalityType
<1>2. k \in Nat
  BY FS_Subset, FS_CardinalityType
<1>3. k + One(self \in peers \cap voters) >= (n + One(self \in peers)) \div 2 + 1
  BY DEF MajorityOf
<1>4. /\ One(self \in peers \cap voters) \in {0, 1}
      /\ One(self \in peers) \in {0, 1}
      /\ One(self \in peers \cap voters) <= One(self \in peers)
  BY DEF One
<1> HIDE DEF n, k
<1>5. 2 * k >= n
  BY <1>1, <1>2, <1>3, <1>4
<1> QED
  BY <1>1, <1>2, <1>5 DEF n, k

\* Two majorities of the same odd number of peers share a peer.
LEMMA OddMajoritiesIntersect ==
    ASSUME NEW peers, IsFiniteSet(peers), Odd(Cardinality(peers)),
           NEW p, NEW q, NEW V, NEW W,
           MajorityOf(peers, p, V), MajorityOf(peers, q, W)
    PROVE  \E x \in peers : x \in V /\ x \in W
<1> DEFINE n == Cardinality(peers)
           v == Cardinality(peers \cap V)
           w == Cardinality(peers \cap W)
<1>1. n \in Nat /\ v \in Nat /\ w \in Nat /\ 2 * v >= n /\ 2 * w >= n
  BY MajorityCount
<1>2. PICK k \in Nat : n = 2 * k + 1
  BY DEF Odd
<1> HIDE DEF n, v, w
<1>3. v + w > n
  BY <1>1, <1>2
<1>4. (peers \cap V) \cap (peers \cap W) # {}
  <2> HIDE DEF Odd
  <2>1. Cardinality(peers \cap V) + Cardinality(peers \cap W) > Cardinality(peers)
    BY <1>3 DEF n, v, w
  <2> QED
    BY <2>1, FS_MajoritiesIntersect
<1> QED
  BY <1>4

\* In a steady configuration of an odd number of nodes any two sets of voters
\* that HasMajority accepts, at whichever nodes, share a member: the fact an
\* election and a commit rest on.
THEOREM SteadyQuorumsIntersect ==
    ASSUME NEW c, c.joint = FALSE, IsFiniteSet(c.new), Odd(Cardinality(c.new)),
           NEW p, NEW q, NEW V, NEW W,
           HasMajority(c, p, V), HasMajority(c, q, W)
    PROVE  \E x \in c.new : x \in V /\ x \in W
<1>1. MajorityOf(c.new, p, V) /\ MajorityOf(c.new, q, W)
  BY DEF HasMajority
<1> QED
  BY <1>1, OddMajoritiesIntersect

LEMMA OddSuccessor ==
    ASSUME NEW n \in Nat
    PROVE  Odd(n) \/ Odd(n + 1)
<1>1. PICK k \in Nat : n = 2 * k \/ n = 2 * k + 1
  BY n \div 2 \in Nat, n = 2 * (n \div 2) \/ n = 2 * (n \div 2) + 1
<1> QED
  BY <1>1 DEF Odd

\* While a one-node change is joint, C_old or C_new has an odd number of nodes,
\* so any two majorities share a node in spite of the double count: the joint
\* phase of BuildJointConfig cannot elect two leaders in one term.
THEOREM JointQuorumsIntersect ==
    ASSUME NEW c, NEW x, c.joint = TRUE, IsFiniteSet(c.old), IsFiniteSet(c.new),
           \/ x \notin c.old /\ c.new = c.old \cup {x}
           \/ x \in c.old /\ c.new = c.old \ {x},
           NEW p, NEW q, NEW V, NEW W,
           HasMajority(c, p, V), HasMajority(c, q, W)
    PROVE  \E y \in Members(c) : y \in V /\ y \in W
<1>1. /\ MajorityOf(c.new, p, V) /\ MajorityOf(c.new, q, W)
      /\ MajorityOf(c.old, p, V) /\ MajorityOf(c.old, q, W)
  BY DEF HasMajority
<1>2. Cardinality(c.old) \in Nat /\ Cardinality(c.new) \in Nat
  BY FS_CardinalityType
<1>3. \/ Cardinality(c.new) = Cardinality(c.old) + 1
      \/ Cardinality(c.old) = Cardinality(c.new) + 1
  <2>1. CASE x \notin c.old /\ c.new = c.old \cup {x}
    BY <2>1, FS_AddElement
  <2>2. CASE x \in c.old /\ c.new = c.old \ {x}
    <3>1. Cardinality(c.new) = Cardinality(c.old) - 1
      BY <2>2, FS_RemoveElement
    <3> QED
      BY <3>1, <1>2
  <2> QED
    BY <2>1, <2>2
<1>4. Odd(Cardinality(c.old)) \/ Odd(Cardinality(c.new))
  BY <1>2, <1>3, OddSuccessor
<1>5. CASE Odd(Cardinality(c.old))
  BY <1>1, <1>5, OddMajoritiesIntersect DEF Members
<1>6. CASE Odd(Cardinality(c.new))
  BY <1>1, <1>6, OddMajoritiesIntersect DEF Members
<1> QED
  BY <1>4, <1>5, <1>6

\* The other side of the double count: in a steady configuration of an even
\* number of nodes HasMajority accepts any half of them with the asking node,
\* so both halves elect and commit without a common voter.  A cluster of three
\* that adds one node reaches that size.
THEOREM EvenHalvesAccepted ==
    ASSUME NEW c, c.joint = FALSE, IsFiniteSet(c.new),
           NEW V \in SUBSET c.new, NEW p \in V, NEW q \in c.new \ V,
           Cardinality(c.new) = 2 * Cardinality(V)
    PROVE  HasMajority(c, p, V) /\ HasMajority(c, q, c.new \ V)
<1> DEFINE W == c.new \ V
           n == Cardinality(c.new)
           v == Cardinality(V)
           w == Cardinality(W)
<1>1. IsFiniteSet(V) /\ IsFiniteSet(W)
  BY FS_Subset
<1>2. n \in Nat /\ v \in Nat /\ w \in Nat
  BY <1>1, FS_CardinalityType
<1>3. w = n - Cardinality(c.new \cap V)
  BY FS_Difference
<1>4. c.new \cap V = V /\ c.new \cap W = W
  OBVIOUS
<1>5. w = n - v
  BY <1>3, <1>4
<1>6. n = 2 * v
  OBVIOUS
<1> HIDE DEF n, v, w, W
<1>7. w = v
  BY <1>2, <1>5, <1>6
<1>8. v + 1 >= (n + 1) \div 2 + 1 /\ w + 1 >= (n + 1) \div 2 + 1
  BY <1>2, <1>6, <1>7
<1>9. MajorityOf(c.new, p, V)
  <2>1. p \in c.new \cap V /\ p \in c.new
    OBVIOUS
  <2> QED
    BY <2>1, <1>4, <1>8 DEF MajorityOf, One, n, v
<1>10. MajorityOf(c.new, q, W)
  <2>1. q \in c.new \cap W /\ q \in c.new
    BY DEF W
  <2> QED
    BY <2>1, <1>4, <1>8 DEF MajorityOf, One, n, w
<1> QED
  BY <1>9, <1>10 DEF HasMajority, W
=============================================================================
