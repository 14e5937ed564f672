---------------------------- MODULE CatchUpProofs ----------------------------
(***************************************************************************)
(* What CatchUp promises for every number of calls in flight, of pieces of *)
(* a snapshot and of failures, every threshold and every log the follower  *)
(* starts with: what the follower takes for committed is what the leader   *)
(* has, its state machine only leaves what it applied through a snapshot   *)
(* that is old or mixed, and what the leader commits is at a second node   *)
(* unless a snapshot left entries of a lost leader in place.               *)
(*                                                                         *)
(* The log of the follower is that of the leader up to some index a, and   *)
(* from there on entries of the lost leader (Split).  All the rest is said *)
(* by comparing with a, which never becomes smaller.                       *)
(***************************************************************************)
EXTENDS CatchUp, ClusterConfigProofs

Follower ==
    [term : Nat, log : Seq({OldTerm, StaleTerm, Term}),
     lastIncludedIndex : Nat, lastIncludedTerm : Nat, commitIndex : Nat,
     lastApplied : Nat, kv : [1..Chunks -> Nat], snapshotBuf : Seq(Nat)]

Call == {Free} \cup AppendCall \cup AppendReply \cup ChunkCall \cup ChunkReply

\* The leader's log, with what it inherited first.
LeaderOK ==
    /\ Len(log) > Old
    /\ \A n \in 1..Len(log) : log[n] = IF n <= Old THEN OldTerm ELSE Term
    /\ lastIncludedIndex <= commitIndex /\ commitIndex <= Len(log)

\* The leader has, or had, a snapshot up to n.
Snapshot(n) == n >= 1 /\ n <= commitIndex

\* A request holds all that the leader had behind prev, and it had more than
\* it inherited; a prev that is not in its log goes out with term 0.
RequestOK(m) ==
    /\ m.prevTerm = 0 \/ (m.prev \in 1..Len(log) /\ m.prevTerm = log[m.prev])
    /\ m.prev <= m.upto /\ m.upto > Old
    /\ m.upto = m.prev \/ m.upto <= Len(log)
    /\ m.commit <= m.upto /\ m.commit <= commitIndex

CallOK(m) ==
    /\ m.kind = "append" => RequestOK(m)
    /\ m.kind \in {"chunk", "chunkReply"} => Snapshot(m.snap)

PiecesOK(buf) == Len(buf) <= Chunks /\ \A i \in 1..Len(buf) : Snapshot(buf[i])

\* The entries lg behind index c are those of the leader up to a, and of the
\* lost leader from there on.
Agreeing(lg, c, a) ==
    \A i \in 1..Len(lg) : lg[i] = IF c + i <= a THEN log[c + i] ELSE StaleTerm

\* The follower g agrees with the leader up to a.
Split(g, a) ==
    /\ g.lastIncludedIndex <= a /\ a <= Last(g) /\ a <= Len(log)
    /\ g.lastApplied = g.commitIndex
    /\ g.lastIncludedIndex <= g.commitIndex /\ g.commitIndex <= a
    /\ g.commitIndex <= commitIndex
    /\ g.lastIncludedTerm = IF g.lastIncludedIndex = 0 THEN 0 ELSE log[g.lastIncludedIndex]
    /\ Agreeing(g.log, g.lastIncludedIndex, a)

\* Entries of the lost leader are left only while nothing is committed, and
\* then they stand where the leader has entries of its own.
Clean(g, a) == a = Last(g) \/ (g.commitIndex = 0 /\ a <= Old)

\* The entries up to n are inherited, or at a second node.
Backed(n, a) == n <= Old \/ n <= a \/ n <= otherMatch

\* A reply does not promise more than the follower has.
Kept(m, a) == m.kind = "appendReply" /\ m.success => m.match <= a

Booked(a) ==
    /\ Clean(f, a) /\ Backed(matchIndex, a) /\ Backed(commitIndex, a)
    /\ \A s \in Slot : Kept(calls[s], a)

Pair(a) == Split(f, a) /\ (keptTail \/ Booked(a))

CatchUpInv ==
    /\ TypeOK /\ LeaderOK /\ PiecesOK(f.snapshotBuf)
    /\ \A s \in Slot : CallOK(calls[s])
    /\ Sound(f) => \E a \in Nat : Pair(a)
-----------------------------------------------------------------------------
(***************************************************************************)
(* Types.                                                                  *)
(***************************************************************************)
LEMMA Constants ==
    /\ IsFiniteSet(Slot) /\ Slot # {} /\ Chunks \in Nat /\ Chunks >= 1
    /\ SnapshotThreshold \in Nat /\ SnapshotThreshold >= 1 /\ Old \in Nat /\ Old >= 1
    /\ Compacted \in Nat /\ Compacted <= Old /\ MaxIndex \in Nat
    /\ MaxStale \in Nat /\ MaxFailures \in Nat
  BY CatchUpAssumption

LEMMA Fields ==
    ASSUME NEW g \in Follower
    PROVE  /\ g.term \in Nat /\ g.log \in Seq({OldTerm, StaleTerm, Term}) /\ Len(g.log) \in Nat
           /\ \A i \in 1..Len(g.log) : g.log[i] \in {OldTerm, StaleTerm, Term}
           /\ g.lastIncludedIndex \in Nat /\ g.lastIncludedTerm \in Nat
           /\ g.commitIndex \in Nat /\ g.lastApplied \in Nat
           /\ g.kv \in [1..Chunks -> Nat] /\ g.snapshotBuf \in Seq(Nat)
           /\ Last(g) \in Nat /\ Last(g) = g.lastIncludedIndex + Len(g.log)
<1>1. /\ g.term \in Nat /\ g.log \in Seq({OldTerm, StaleTerm, Term})
      /\ g.lastIncludedIndex \in Nat /\ g.lastIncludedTerm \in Nat
      /\ g.commitIndex \in Nat /\ g.lastApplied \in Nat
      /\ g.kv \in [1..Chunks -> Nat] /\ g.snapshotBuf \in Seq(Nat)
  BY DEF Follower
<1>2. Len(g.log) \in Nat /\ \A i \in 1..Len(g.log) : g.log[i] \in {OldTerm, StaleTerm, Term}
  BY <1>1, LenProperties, ElementOfSeq
<1> QED
  BY <1>1, <1>2 DEF Last

LEMMA Types ==
    ASSUME TypeOK
    PROVE  /\ f \in Follower /\ calls \in [Slot -> Call] /\ log \in Seq({OldTerm, Term})
           /\ Len(log) \in Nat /\ lastIncludedIndex \in Nat /\ commitIndex \in Nat
           /\ matchIndex \in Nat /\ otherMatch \in Nat /\ failures \in Nat
           /\ nextIndex \in Nat /\ nextIndex >= 1 /\ keptTail \in BOOLEAN
<1>1. f \in Follower
  BY DEF TypeOK, Follower
<1>2. calls \in [Slot -> Call]
  BY DEF TypeOK, Call
<1>3. log \in Seq({OldTerm, Term}) /\ Len(log) \in Nat
  BY LenProperties DEF TypeOK
<1> QED
  BY <1>1, <1>2, <1>3 DEF TypeOK

LEMMA CallFields ==
    ASSUME NEW m \in Call
    PROVE  /\ m.kind = "append" => /\ m \in AppendCall /\ m.awaited \in BOOLEAN
                                   /\ m.prev \in Nat /\ m.prevTerm \in Nat
                                   /\ m.upto \in Nat /\ m.commit \in Nat
           /\ m.kind = "chunk" => /\ m \in ChunkCall /\ m.awaited \in BOOLEAN
                                  /\ m.snap \in Nat /\ m.piece \in 1..Chunks
           /\ m.kind = "appendReply" => /\ m \in AppendReply /\ m.match \in Nat
                                        /\ m.success \in BOOLEAN /\ m.newer \in BOOLEAN
           /\ m.kind = "chunkReply" => /\ m \in ChunkReply /\ m.snap \in Nat
                                       /\ m.piece \in 1..Chunks /\ m.newer \in BOOLEAN
  BY DEF Call, Free, AppendCall, AppendReply, ChunkCall, ChunkReply

\* The entries of the leader.
LEMMA LeaderLog ==
    ASSUME TypeOK, LeaderOK, NEW n \in Nat, n >= 1, n <= Len(log)
    PROVE  /\ log[n] \in {OldTerm, Term} /\ log[n] \in Nat /\ log[n] # 0
           /\ log[n] # StaleTerm /\ n \in 1..Len(log)
<1>1. n \in 1..Len(log)
  BY Types
<1>2. log[n] = OldTerm \/ log[n] = Term
  BY <1>1 DEF LeaderOK
<1> QED
  BY <1>1, <1>2 DEF OldTerm, StaleTerm, Term
-----------------------------------------------------------------------------
(***************************************************************************)
(* The follower's log.                                                     *)
(***************************************************************************)
\* The terms of the follower's entries.
LEMMA TermsOf ==
    ASSUME TypeOK, LeaderOK, NEW g \in Follower, NEW a \in Nat, Split(g, a), NEW n \in Nat
    PROVE  /\ g.lastIncludedIndex < n /\ n <= a => TermAt(g, n) = log[n]
           /\ a < n /\ n <= Last(g) => TermAt(g, n) = StaleTerm
           /\ n > Last(g) => TermAt(g, n) = 0
           /\ n = g.lastIncludedIndex => TermAt(g, n) = IF n = 0 THEN 0 ELSE log[n]
<1>1. PICK b \in Nat, l \in Nat : /\ b = g.lastIncludedIndex /\ l = Len(g.log)
                                  /\ Last(g) = b + l
  BY Fields
<1>2. b <= a /\ a <= b + l
  BY <1>1 DEF Split
<1>3. ASSUME b < n, n <= b + l
      PROVE  TermAt(g, n) = IF n <= a THEN log[n] ELSE StaleTerm
  <2>1. n # b /\ n \in (b + 1)..(b + l) /\ n - b \in 1..l /\ b + (n - b) = n
    BY <1>3
  <2>2. TermAt(g, n) = g.log[n - b]
    BY <1>1, <2>1 DEF TermAt
  <2>3. \A i \in 1..l : g.log[i] = IF b + i <= a THEN log[b + i] ELSE StaleTerm
    <3>1. Agreeing(g.log, b, a)
      BY <1>1 DEF Split
    <3> QED
      BY <1>1, <3>1 DEF Agreeing
  <2> QED
    BY <2>1, <2>2, <2>3
<1>4. ASSUME n > b + l PROVE TermAt(g, n) = 0
  <2>1. n # b /\ n \notin (b + 1)..(b + l)
    BY <1>4
  <2> QED
    BY <1>1, <2>1 DEF TermAt
<1>5. ASSUME n = b PROVE TermAt(g, n) = IF n = 0 THEN 0 ELSE log[n]
  BY <1>1, <1>5 DEF TermAt, Split
<1> QED
  BY <1>1, <1>2, <1>3, <1>4, <1>5

\* Everything but the term of the node and the pieces of a snapshot.
SameLog(g, h) ==
    /\ h.log = g.log /\ h.lastIncludedIndex = g.lastIncludedIndex
    /\ h.lastIncludedTerm = g.lastIncludedTerm /\ h.commitIndex = g.commitIndex
    /\ h.lastApplied = g.lastApplied /\ h.kv = g.kv

LEMMA SameLogSplit ==
    ASSUME NEW g, NEW h, SameLog(g, h), NEW a
    PROVE  /\ Split(g, a) => Split(h, a)
           /\ Clean(g, a) => Clean(h, a)
           /\ Sound(g) <=> Sound(h)
           /\ Last(h) = Last(g)
<1>1. Last(h) = Last(g)
  BY DEF Last, SameLog
<1> QED
  BY <1>1 DEF SameLog, Split, Clean, Sound

\* An accepted request: its prev is in the part that agrees.
LEMMA Accepted ==
    ASSUME TypeOK, LeaderOK, NEW g \in Follower, NEW a \in Nat, Split(g, a),
           NEW m \in AppendCall, RequestOK(m), PrevMatches(g, m)
    PROVE  m.prev <= a /\ m.upto <= Len(log)
<1>1. PICK b \in Nat : b = g.lastIncludedIndex /\ b <= a /\ a <= Last(g) /\ a <= Len(log)
  BY Fields DEF Split
<1>2. PICK p \in Nat, t \in Nat, u \in Nat : p = m.prev /\ t = m.prevTerm /\ u = m.upto
  BY DEF AppendCall
<1>3. /\ t = 0 \/ (p \in 1..Len(log) /\ t = log[p])
      /\ p <= u /\ u > Old /\ (u = p \/ u <= Len(log))
  BY <1>2 DEF RequestOK
<1>4. Len(log) \in Nat /\ Last(g) \in Nat /\ Old \in Nat
  BY Types, Fields, Constants
<1>5. CASE p < b
  BY <1>1, <1>2, <1>3, <1>4, <1>5
<1>6. CASE p >= b
  <2>1. p <= Last(g) /\ TermAt(g, p) = t
    BY <1>1, <1>2, <1>6 DEF PrevMatches
  <2>2. t # StaleTerm
    <3>1. t # 0 => t # StaleTerm
      BY <1>3, LeaderLog
    <3> QED
      BY <3>1 DEF StaleTerm
  <2>3. p <= a
    BY <1>1, <1>4, <2>1, <2>2, TermsOf
  <2>4. u <= Len(log)
    BY <1>1, <1>3, <1>4, <2>3
  <2> QED
    BY <1>2, <2>3, <2>4
<1> QED
  BY <1>1, <1>2, <1>5, <1>6

\* The entries of a request that go beyond the part that agrees replace
\* everything behind it.
LEMMA AppendedBeyond ==
    ASSUME TypeOK, LeaderOK, NEW g \in Follower, NEW a \in Nat, Split(g, a),
           NEW m \in AppendCall, m.prev <= a, m.upto <= Len(log), m.upto > a
    PROVE  LET h == Appended(g, m) IN
           /\ h = [g EXCEPT !.log = h.log]
           /\ h.log \in Seq({OldTerm, StaleTerm, Term})
           /\ Len(h.log) = m.upto - g.lastIncludedIndex
           /\ Agreeing(h.log, g.lastIncludedIndex, m.upto)
<1>1. PICK b \in Nat, l \in Nat :
         /\ b = g.lastIncludedIndex /\ l = Len(g.log) /\ Last(g) = b + l
         /\ b <= a /\ a <= b + l /\ a <= Len(log)
  BY Fields DEF Split
<1>2. PICK p \in Nat, u \in Nat : p = m.prev /\ u = m.upto
  BY DEF AppendCall
<1>3. PICK x \in Nat : x = Max({p, b}) /\ x >= p /\ x >= b /\ (x = p \/ x = b)
  BY MaxOfTwo
<1>4. Len(log) \in Nat /\ u <= Len(log) /\ u > a /\ x <= a
  BY <1>1, <1>2, <1>3, Types
<1>5. PICK new : new = {n \in (x + 1)..u : TermAt(g, n) # log[n]}
  OBVIOUS
<1>6. a + 1 \in new
  <2>1. a + 1 \in (x + 1)..u /\ a + 1 \in Nat
    BY <1>3, <1>4
  <2>2. log[a + 1] # 0 /\ log[a + 1] # StaleTerm
    BY <1>4, <2>1, LeaderLog
  <2>3. TermAt(g, a + 1) = StaleTerm \/ TermAt(g, a + 1) = 0
    <3>1. a + 1 <= Last(g) \/ a + 1 > Last(g)
      BY <1>1
    <3> QED
      BY <1>1, <2>1, <3>1, TermsOf
  <2> QED
    BY <1>5, <2>1, <2>2, <2>3
<1>7. ASSUME NEW n \in new PROVE n \in Nat /\ n > a
  <2>1. n \in (x + 1)..u /\ TermAt(g, n) # log[n]
    BY <1>5
  <2>2. n \in Nat /\ n > b
    BY <1>1, <1>3, <2>1
  <2>3. ~(n <= a)
    BY <1>1, <2>1, <2>2, TermsOf
  <2> QED
    BY <2>2, <2>3
<1>8. Min(new) = a + 1
  <2>1. new \subseteq Nat /\ new # {}
    BY <1>6, <1>7
  <2>2. Min(new) \in new /\ \A y \in new : Min(new) <= y
    BY <2>1, MinOfNats
  <2>3. PICK y \in new : y = Min(new) /\ y <= a + 1
    BY <1>6, <2>2
  <2>4. y = a + 1
    BY <1>7, <2>3
  <2> QED
    BY <2>3, <2>4
<1>9. PICK c \in Nat, e \in Nat : a = b + c /\ u = a + e
  <2>1. a - b \in Nat /\ u - a \in Nat /\ a = b + (a - b) /\ u = a + (u - a)
    BY <1>1, <1>4
  <2> QED
    BY <2>1
<1>b. b <= a /\ a <= b + l
  BY <1>1
<1>c. c <= l /\ u - b = c + e
  <2>1. b + c <= b + l /\ u = b + c + e
    BY <1>9, <1>b
  <2> QED
    BY <2>1
<1>10. PICK s1 : s1 = SubSeq(g.log, 1, c)
  OBVIOUS
<1>11. PICK s2 : s2 = SubSeq(log, a + 1, u)
  OBVIOUS
<1>12. PICK lg : lg = s1 \o s2
  OBVIOUS
<1>13. Appended(g, m) = [g EXCEPT !.log = lg]
  <2>1. a + 1 - b - 1 = c
    BY <1>9
  <2>2. new # {}
    BY <1>6
  <2>3. new = {n \in (Max({m.prev, g.lastIncludedIndex}) + 1)..m.upto : TermAt(g, n) # log[n]}
    BY <1>1, <1>2, <1>3, <1>5
  <2>4. Appended(g, m) = [g EXCEPT !.log = SubSeq(@, 1, Min(new) - g.lastIncludedIndex - 1)
                                           \o SubSeq(log, Min(new), m.upto)]
    BY <2>2, <2>3 DEF Appended
  <2> QED
    <3>1. Min(new) - g.lastIncludedIndex - 1 = c
      <4>1. Min(new) = a + 1 /\ g.lastIncludedIndex = b
        BY <1>1, <1>8
      <4> QED
        BY <2>1, <4>1
    <3>2. SubSeq(g.log, 1, Min(new) - g.lastIncludedIndex - 1) = s1
      BY <1>10, <3>1
    <3>3. SubSeq(log, Min(new), m.upto) = s2
      BY <1>2, <1>8, <1>11
    <3>4. SubSeq(g.log, 1, Min(new) - g.lastIncludedIndex - 1) \o SubSeq(log, Min(new), m.upto) = lg
      BY <1>12, <3>2, <3>3
    <3> QED
      BY <2>4, <3>4, Zenon
<1> DEFINE T == {OldTerm, StaleTerm, Term}
<1>14. s1 \in Seq(T) /\ Len(s1) = c /\ \A i \in 1..c : s1[i] = g.log[i]
  <2>1. \A i \in 1..c : i \in 1..l
    BY <1>c
  <2>2. \A i \in 1..c : g.log[i] \in T
    BY <1>1, <2>1, Fields
  <2> HIDE DEF T
  <2> QED
    BY <1>10, <2>2, SubSeqProperties
<1>15. s2 \in Seq(T) /\ Len(s2) = e /\ \A i \in 1..e : s2[i] = log[a + i]
  <2>1. \A i \in (a + 1)..u : log[i] \in T
    BY <1>4, LeaderLog
  <2> HIDE DEF T
  <2>2. /\ s2 \in Seq(T) /\ Len(s2) = IF a + 1 <= u THEN u - (a + 1) + 1 ELSE 0
        /\ \A i \in 1..(u - (a + 1) + 1) : s2[i] = log[a + 1 + i - 1]
    BY <1>11, <2>1, SubSeqProperties
  <2>3. u - (a + 1) + 1 = e /\ a + 1 <= u
    BY <1>4, <1>9
  <2>4. \A i \in 1..e : a + 1 + i - 1 = a + i
    OBVIOUS
  <2> QED
    BY <2>2, <2>3, <2>4
<1>16. /\ lg \in Seq(T) /\ Len(lg) = c + e
       /\ \A i \in 1..(c + e) : lg[i] = IF i <= c THEN s1[i] ELSE s2[i - c]
  <2> HIDE DEF T
  <2>1. /\ s1 \o s2 \in Seq(T) /\ Len(s1 \o s2) = Len(s1) + Len(s2)
        /\ \A i \in 1..(Len(s1) + Len(s2)) :
              (s1 \o s2)[i] = IF i <= Len(s1) THEN s1[i] ELSE s2[i - Len(s1)]
    BY <1>14, <1>15, ConcatProperties
  <2> QED
    BY <1>12, <1>14, <1>15, <2>1
<1>17. Len(lg) = u - b
  BY <1>c, <1>16
<1>18. ASSUME NEW i \in 1..Len(lg) PROVE lg[i] = log[b + i]
  <2>1. i \in 1..(c + e)
    BY <1>16, <1>18
  <2>2. CASE i <= c
    <3>0. PICK j \in Nat : j = i /\ j >= 1 /\ j <= c
      BY <2>1, <2>2
    <3>1. i \in 1..c /\ i \in 1..l /\ b + i <= a
      <4>2. i \in 1..c /\ i \in 1..l
        BY <1>c, <3>0
      <4>3. b + i <= a
        BY <1>9, <3>0
      <4> QED
        BY <4>2, <4>3
    <3>2. g.log[i] = log[b + i]
      <4>1. Agreeing(g.log, b, a)
        BY <1>1 DEF Split
      <4> QED
        BY <1>1, <3>1, <4>1 DEF Agreeing
    <3> QED
      BY <1>14, <1>16, <2>1, <2>2, <3>1, <3>2
  <2>3. CASE i > c
    <3>1. i - c \in 1..e /\ a + (i - c) = b + i /\ ~(i <= c)
      BY <1>1, <1>4, <1>9, <2>1, <2>3
    <3> QED
      BY <1>15, <1>16, <2>1, <3>1
  <2> QED
    BY <1>9, <2>1, <2>2, <2>3
<1>19. Agreeing(lg, b, u)
  <2>1. ASSUME NEW i \in 1..Len(lg) PROVE b + i <= u
    BY <1>4, <1>9, <1>16
  <2> QED
    BY <1>18, <2>1 DEF Agreeing
<1>20. Appended(g, m).log = lg /\ [g EXCEPT !.log = lg] = Appended(g, m)
  BY <1>13 DEF Follower
<1> QED
  BY <1>1, <1>2, <1>16, <1>17, <1>19, <1>20

\* What the loop over the entries of an accepted request leaves.
LEMMA AppendedSplit ==
    ASSUME TypeOK, LeaderOK, NEW g \in Follower, NEW a \in Nat, Split(g, a),
           NEW m \in AppendCall, RequestOK(m), PrevMatches(g, m),
           NEW h, h = Appended(g, m)
    PROVE  /\ h \in Follower /\ h = [g EXCEPT !.log = h.log]
           /\ \E b \in Nat : /\ a <= b /\ m.upto <= b /\ Split(h, b)
                             /\ Clean(g, a) => b = Last(h)
<1>1. m.prev <= a /\ m.upto <= Len(log)
  BY Accepted
<1>2. PICK c \in Nat, l \in Nat :
         /\ c = g.lastIncludedIndex /\ l = Len(g.log) /\ Last(g) = c + l
         /\ c <= a /\ a <= c + l /\ a <= Len(log)
  BY Fields DEF Split
<1>3. PICK p \in Nat, u \in Nat : p = m.prev /\ u = m.upto /\ u > Old
  BY DEF AppendCall, RequestOK
<1>4. Old \in Nat /\ Len(log) \in Nat
  BY Constants, Types
<1>5. CASE u > a
  <2>1. /\ h = [g EXCEPT !.log = h.log]
        /\ h.log \in Seq({OldTerm, StaleTerm, Term})
        /\ Len(h.log) = u - c
        /\ Agreeing(h.log, c, u)
    BY <1>1, <1>2, <1>3, <1>5, AppendedBeyond
  <2>2. PICK lg : lg = h.log
    OBVIOUS
  <2>3. h = [g EXCEPT !.log = lg] /\ lg \in Seq({OldTerm, StaleTerm, Term})
    BY <2>1, <2>2
  <2>4. /\ h \in Follower /\ h.lastIncludedIndex = c /\ h.lastApplied = g.lastApplied
        /\ h.commitIndex = g.commitIndex /\ h.lastIncludedTerm = g.lastIncludedTerm
    BY <1>2, <2>3 DEF Follower
  <2>5. Last(h) = u
    BY <1>2, <1>5, <2>1, <2>4 DEF Last
  <2>6. g.commitIndex <= u
    BY <1>5, Fields DEF Split
  <2>7. Split(h, u)
    BY <1>1, <1>2, <1>3, <1>5, <2>1, <2>4, <2>5, <2>6 DEF Split
  <2> QED
    BY <1>3, <1>5, <2>1, <2>4, <2>5, <2>7
<1>6. CASE u <= a
  <2>1. PICK x \in Nat : x = Max({p, c}) /\ x >= p /\ x >= c
    BY MaxOfTwo
  <2>2. ASSUME NEW n \in (x + 1)..u PROVE TermAt(g, n) = log[n]
    <3>1. n \in Nat /\ c < n /\ n <= a
      BY <1>6, <2>1
    <3> QED
      BY <1>2, <3>1, TermsOf
  <2>3. {n \in (Max({m.prev, g.lastIncludedIndex}) + 1)..m.upto : TermAt(g, n) # log[n]} = {}
    BY <1>2, <1>3, <2>1, <2>2
  <2>4. h = g
    BY <2>3 DEF Appended
  <2>5. g = [g EXCEPT !.log = g.log]
    BY DEF Follower
  <2>6. Clean(g, a) => a = Last(g)
    BY <1>3, <1>4, <1>6 DEF Clean
  <2> QED
    BY <1>3, <1>6, <2>4, <2>5, <2>6
<1> QED
  BY <1>3, <1>5, <1>6

\* The sequence v is w, of length l, without its first d elements.
TailOf(w, l, d, v) ==
    /\ v \in Seq({OldTerm, StaleTerm, Term}) /\ Len(v) \in Nat
    /\ d <= l => d + Len(v) = l
    /\ d > l => Len(v) = 0
    /\ \A i \in 1..Len(v) : v[i] = w[d + i]

LEMMA TailBySubSeq ==
    ASSUME NEW w \in Seq({OldTerm, StaleTerm, Term}), NEW d \in Nat,
           NEW v, v = SubSeq(w, d + 1, Len(w))
    PROVE  TailOf(w, Len(w), d, v)
<1> DEFINE T == {OldTerm, StaleTerm, Term}
<1>1. PICK l \in Nat : l = Len(w)
  BY LenProperties
<1>2. \A i \in (d + 1)..l : w[i] \in T
  BY <1>1, ElementOfSeq
<1>3. PICK u : u = SubSeq(w, d + 1, l)
  OBVIOUS
<1>4. /\ u \in Seq(T) /\ Len(u) = IF d + 1 <= l THEN l - (d + 1) + 1 ELSE 0
      /\ \A i \in 1..(l - (d + 1) + 1) : u[i] = w[d + 1 + i - 1]
  <2> HIDE DEF T
  <2>1. d + 1 \in Int /\ l \in Int
    OBVIOUS
  <2>2. /\ SubSeq(w, d + 1, l) \in Seq(T)
        /\ Len(SubSeq(w, d + 1, l)) = IF d + 1 <= l THEN l - (d + 1) + 1 ELSE 0
        /\ \A i \in 1..(l - (d + 1) + 1) : SubSeq(w, d + 1, l)[i] = w[d + 1 + i - 1]
    BY <1>2, <2>1, SubSeqProperties
  <2> QED
    BY <1>3, <2>2
<1>5. u = v
  BY <1>1, <1>3
<1>6. PICK k \in Nat : k = Len(u)
  BY <1>4, LenProperties
<1>7. (d <= l => d + k = l) /\ (d > l => k = 0)
  <2>1. k = IF d + 1 <= l THEN l - (d + 1) + 1 ELSE 0
    BY <1>4, <1>6
  <2> QED
    BY <2>1
<1>8. ASSUME NEW i \in 1..k PROVE u[i] = w[d + i]
  <2>1. i \in 1..(l - (d + 1) + 1) /\ d + 1 + i - 1 = d + i
    BY <1>7
  <2> QED
    BY <1>4, <2>1
<1>9. TailOf(w, l, d, u)
  BY <1>4, <1>6, <1>7, <1>8 DEF TailOf
<1> QED
  BY <1>1, <1>5, <1>9

\* The follower's log w behind c without what is compacted: the entries behind n.
LEMMA Behind ==
    ASSUME NEW w, NEW c \in Nat, NEW l \in Nat, 1..Len(w) = 1..l,
           NEW a \in Nat, Agreeing(w, c, a), a <= c + l, a <= Len(log), Len(log) \in Nat,
           NEW d \in Nat, c + d <= Len(log), NEW lg, TailOf(w, l, d, lg),
           NEW b \in Nat, a <= b, c + d <= b, b = a \/ b = c + d
    PROVE  /\ c + d + Len(lg) = IF c + d <= c + l THEN c + l ELSE c + d
           /\ Agreeing(lg, c + d, b)
           /\ b <= c + d + Len(lg) /\ b <= Len(log)
<1>1. /\ Len(lg) \in Nat /\ (d <= l => d + Len(lg) = l) /\ (d > l => Len(lg) = 0)
      /\ \A i \in 1..Len(lg) : lg[i] = w[d + i]
  BY DEF TailOf
<1>2. c + d + Len(lg) = IF c + d <= c + l THEN c + l ELSE c + d
  <2>1. PICK k \in Nat : k = Len(lg) /\ (d <= l => d + k = l) /\ (d > l => k = 0)
    BY <1>1
  <2>2. CASE d <= l
    BY <2>1, <2>2
  <2>3. CASE d > l
    BY <2>1, <2>3
  <2> QED
    BY <2>2, <2>3
<1>3. b <= c + d + Len(lg) /\ b <= Len(log)
  <2>1. a <= c + d + Len(lg) /\ c + d <= c + d + Len(lg)
    BY <1>1
  <2> QED
    BY <1>1, <2>1
<1>4. ASSUME NEW i \in 1..Len(lg)
      PROVE  lg[i] = IF c + d + i <= b THEN log[c + d + i] ELSE StaleTerm
  <2>1. d <= l /\ d + i \in 1..l
    BY <1>1
  <2>2. w[d + i] = IF c + (d + i) <= a THEN log[c + (d + i)] ELSE StaleTerm
    BY <2>1 DEF Agreeing
  <2>3. i \in Nat /\ i >= 1 /\ c + (d + i) = c + d + i
    BY <1>1
  <2>4. c + d + i <= a <=> c + d + i <= b
    BY <2>3
  <2> QED
    BY <1>1, <2>2, <2>3, <2>4
<1> QED
  BY <1>2, <1>3, <1>4 DEF Agreeing

LEMMA TailAt ==
    ASSUME NEW g \in Follower, NEW n \in Nat, g.lastIncludedIndex <= n,
           NEW lg, lg = SubSeq(g.log, n - g.lastIncludedIndex + 1, Len(g.log))
    PROVE  \E c \in Nat, l \in Nat, d \in Nat :
              /\ g.lastIncludedIndex = c /\ Len(g.log) = l /\ Last(g) = c + l /\ n = c + d
              /\ TailOf(g.log, l, d, lg)
<1>1. /\ g.lastIncludedIndex \in Nat /\ Len(g.log) \in Nat
      /\ Last(g) = g.lastIncludedIndex + Len(g.log)
      /\ g.log \in Seq({OldTerm, StaleTerm, Term})
  BY Fields
<1>2. PICK d \in Nat : d = n - g.lastIncludedIndex /\ n = g.lastIncludedIndex + d
  BY <1>1
<1>3. lg = SubSeq(g.log, d + 1, Len(g.log))
  BY <1>2
<1>4. TailOf(g.log, Len(g.log), d, lg)
  BY <1>1, <1>3, TailBySubSeq
<1> QED
  BY <1>1, <1>2, <1>4

\* applyLogs: what is applied agrees, and is what compaction drops.
LEMMA ApplyLogsSplit ==
    ASSUME TypeOK, LeaderOK, NEW g \in Follower, NEW a \in Nat, Split(g, a),
           NEW n \in Nat, g.commitIndex < n, n <= a, n <= commitIndex,
           NEW h, h = applyLogs(g, n)
    PROVE  /\ h \in Follower /\ Split(h, a) /\ Last(h) = Last(g) /\ Sound(h)
           /\ h.snapshotBuf = g.snapshotBuf /\ h.commitIndex = n
<1>1. PICK kv : kv = [c \in 1..Chunks |-> n]
  OBVIOUS
<1>2. PICK r : r = [g EXCEPT !.commitIndex = n, !.lastApplied = n, !.kv = kv]
  OBVIOUS
<1>3. kv \in [1..Chunks -> Nat]
  BY <1>1
<1>4. /\ r \in Follower /\ r.commitIndex = n /\ r.lastApplied = n /\ r.kv = kv
      /\ r.log = g.log /\ r.lastIncludedIndex = g.lastIncludedIndex
      /\ r.lastIncludedTerm = g.lastIncludedTerm /\ r.snapshotBuf = g.snapshotBuf
  BY <1>2, <1>3 DEF Follower
<1>5. /\ g.lastIncludedIndex <= g.commitIndex /\ g.commitIndex \in Nat
      /\ g.lastIncludedIndex \in Nat /\ Last(g) \in Nat /\ a <= Last(g) /\ a <= Len(log)
      /\ Len(log) \in Nat
  BY Fields, Types DEF Split
<1>6. g.lastIncludedIndex < n /\ n <= Last(g) /\ n <= Len(log) /\ n # 0
  BY <1>5
<1>7. Last(r) = Last(g)
  BY <1>4 DEF Last
<1>8. Split(r, a)
  BY <1>4, <1>5, <1>6, <1>7 DEF Split
<1>9. h = IF Last(g) - g.lastIncludedIndex > SnapshotThreshold
          THEN [r EXCEPT !.lastIncludedIndex = n, !.lastIncludedTerm = TermAt(g, n),
                         !.log = SubSeq(g.log, n - g.lastIncludedIndex + 1, Len(g.log))]
          ELSE r
  BY <1>1, <1>2 DEF applyLogs
<1>10. CASE h = r
  BY <1>1, <1>4, <1>7, <1>8, <1>10 DEF Sound
<1>11. CASE h # r
  <2>1. PICK lg : lg = SubSeq(g.log, n - g.lastIncludedIndex + 1, Len(g.log))
    OBVIOUS
  <2>2. PICK t : t = TermAt(g, n)
    OBVIOUS
  <2>3. h = [r EXCEPT !.lastIncludedIndex = n, !.lastIncludedTerm = t, !.log = lg]
    BY <1>9, <1>11, <2>1, <2>2
  <2>4. t = log[n] /\ t \in Nat
    BY <1>5, <1>6, <2>2, TermsOf, LeaderLog
  <2>5. PICK c \in Nat, l \in Nat, d \in Nat :
           /\ g.lastIncludedIndex = c /\ Len(g.log) = l /\ Last(g) = c + l /\ n = c + d
           /\ TailOf(g.log, l, d, lg)
    <3>1. g.lastIncludedIndex <= n
      BY <1>5, <1>6
    <3>2. \E c \in Nat, l \in Nat, d \in Nat :
             /\ g.lastIncludedIndex = c /\ Len(g.log) = l /\ Last(g) = c + l /\ n = c + d
             /\ TailOf(g.log, l, d, lg)
      BY <2>1, <3>1, TailAt, ZenonT(60)
    <3> QED
      BY <3>2, Zenon
  <2>6. /\ lg \in Seq({OldTerm, StaleTerm, Term}) /\ n + Len(lg) = Last(g)
        /\ Agreeing(lg, n, a)
    <3>1. 1..Len(g.log) = 1..l /\ c + d <= Len(log) /\ Agreeing(g.log, c, a)
          /\ a <= c + l /\ c + d <= a
      BY <1>5, <1>6, <2>5 DEF Split
    <3>2. /\ c + d + Len(lg) = IF c + d <= c + l THEN c + l ELSE c + d
          /\ Agreeing(lg, c + d, a)
      BY <1>5, <2>5, <3>1, Behind
    <3>3. lg \in Seq({OldTerm, StaleTerm, Term})
      BY <2>5 DEF TailOf
    <3> QED
      BY <1>6, <2>5, <3>2, <3>3
  <2>7. /\ h \in Follower /\ h.commitIndex = n /\ h.lastApplied = n /\ h.kv = kv
        /\ h.log = lg /\ h.lastIncludedIndex = n
        /\ h.lastIncludedTerm = t /\ h.snapshotBuf = g.snapshotBuf
    BY <1>4, <2>3, <2>4, <2>6 DEF Follower
  <2>8. Last(h) = Last(g)
    BY <2>6, <2>7 DEF Last
  <2>9. Split(h, a)
    BY <1>5, <1>6, <2>4, <2>6, <2>7, <2>8 DEF Split
  <2>10. Sound(h)
    BY <1>1, <2>7 DEF Sound
  <2> QED
    BY <2>7, <2>8, <2>9, <2>10
<1> QED
  BY <1>10, <1>11

\* processAppendEntries of a request that is accepted.
LEMMA AppendEntriesSplit ==
    ASSUME TypeOK, LeaderOK, NEW g \in Follower, NEW a \in Nat, Split(g, a), Sound(g),
           NEW m \in AppendCall, RequestOK(m), PrevMatches(g, m),
           NEW h, h = AppendEntries(g, m)
    PROVE  /\ h \in Follower /\ Sound(h) /\ h.snapshotBuf = g.snapshotBuf
           /\ \E b \in Nat : a <= b /\ Split(h, b) /\ (Clean(g, a) => b = Last(h))
<1>1. PICK r : r = Appended(g, m)
  OBVIOUS
<1>2. /\ r \in Follower /\ r = [g EXCEPT !.log = r.log]
      /\ \E b \in Nat : /\ a <= b /\ m.upto <= b /\ Split(r, b)
                        /\ Clean(g, a) => b = Last(r)
  BY <1>1, AppendedSplit
<1>3. PICK b \in Nat : a <= b /\ m.upto <= b /\ Split(r, b) /\ (Clean(g, a) => b = Last(r))
  BY <1>2
<1>4. /\ r.snapshotBuf = g.snapshotBuf /\ r.kv = g.kv /\ r.lastApplied = g.lastApplied
  BY <1>2 DEF Follower
<1>5. Sound(r)
  BY <1>4 DEF Sound
<1>6. PICK n \in Nat : n = m.commit /\ n <= commitIndex /\ n <= m.upto
  BY DEF AppendCall, RequestOK
<1>7. n <= b /\ b <= Last(r) /\ Last(r) \in Nat /\ r.commitIndex \in Nat
  <2>1. m.upto \in Nat
    BY DEF AppendCall
  <2> QED
    BY <1>2, <1>3, <1>6, <2>1, Fields DEF Split
<1>8. CASE n > r.commitIndex
  <2>1. Min({n, Last(r)}) = n
    <3>1. PICK y \in Nat : y = Min({n, Last(r)}) /\ y <= n /\ y <= Last(r) /\ (y = n \/ y = Last(r))
      BY <1>7, MinOfTwo
    <3>2. y = n
      BY <1>7, <3>1
    <3> QED
      BY <3>1, <3>2
  <2>2. h = applyLogs(r, n)
    BY <1>1, <1>6, <1>8, <2>1 DEF AppendEntries
  <2>3. /\ h \in Follower /\ Split(h, b) /\ Last(h) = Last(r) /\ Sound(h)
        /\ h.snapshotBuf = r.snapshotBuf
    BY <1>2, <1>3, <1>6, <1>7, <1>8, <2>2, ApplyLogsSplit
  <2> QED
    BY <1>3, <1>4, <2>3
<1>9. CASE ~(n > r.commitIndex)
  <2>1. h = r
    BY <1>1, <1>6, <1>9 DEF AppendEntries
  <2> QED
    BY <1>2, <1>3, <1>4, <1>5, <2>1
<1> QED
  BY <1>8, <1>9

\* restoreSnapshot.  What it leaves is sound only when the snapshot is whole
\* and no older than what was applied.
LEMMA RestoreSplit ==
    ASSUME TypeOK, LeaderOK, NEW g \in Follower, NEW a \in Nat, Split(g, a), Sound(g),
           NEW buf \in Seq(Nat), Len(buf) = Chunks, PiecesOK(buf),
           NEW h, h = restoreSnapshot(g, buf)
    PROVE  /\ h \in Follower /\ h.snapshotBuf = g.snapshotBuf
           /\ ~Sound(h) => buf[1] < g.lastApplied \/ ~Whole(buf)
           /\ Sound(h) => \E b \in Nat :
                 /\ a <= b /\ Split(h, b)
                 /\ Clean(g, a) /\ ~(h.kv # g.kv /\ Stray(h)) => b = Last(h)
<1>1. Chunks \in Nat /\ 1 \in 1..Chunks
  BY Constants
<1>2. \A c \in 1..Chunks : buf[c] \in Nat
  BY ElementOfSeq
<1>3. PICK n \in Nat : n = buf[1] /\ n >= 1 /\ n <= commitIndex
  BY <1>1, <1>2 DEF PiecesOK, Snapshot
<1>4. /\ commitIndex \in Nat /\ commitIndex <= Len(log) /\ Len(log) \in Nat
  BY Types DEF LeaderOK
<1>5. n <= Len(log) /\ log[n] \in {OldTerm, Term} /\ log[n] \in Nat
  BY <1>3, <1>4, LeaderLog
<1>6. PICK kv : kv = [c \in 1..Chunks |-> buf[c]]
  OBVIOUS
<1>7. kv \in [1..Chunks -> Nat] /\ kv[1] = n /\ \A c \in 1..Chunks : kv[c] = buf[c]
  BY <1>1, <1>2, <1>3, <1>6
<1>8. PICK c \in Nat, la \in Nat, l \in Nat :
         /\ c = g.lastIncludedIndex /\ la = g.lastApplied /\ la = g.commitIndex
         /\ c <= la /\ la <= a /\ l = Last(g) /\ a <= l
  BY Fields DEF Split
<1>9. PICK x \in Nat : x = Max({la, n}) /\ x >= la /\ x >= n /\ (x = la \/ x = n)
  BY MaxOfTwo
<1>10. PICK lg : lg = IF n >= c THEN SubSeq(g.log, n - c + 1, Len(g.log))
                                ELSE <<g.lastIncludedTerm>> \o g.log
  OBVIOUS
<1>11. h = [g EXCEPT !.kv = kv, !.log = lg, !.lastIncludedIndex = n,
                     !.lastIncludedTerm = log[n], !.commitIndex = x, !.lastApplied = x]
  BY <1>3, <1>6, <1>8, <1>9, <1>10 DEF restoreSnapshot
<1>12. lg \in Seq({OldTerm, StaleTerm, Term})
  <2>1. CASE n >= c
    <3>1. g.lastIncludedIndex <= n
          /\ lg = SubSeq(g.log, n - g.lastIncludedIndex + 1, Len(g.log))
      BY <1>8, <1>10, <2>1
    <3> QED
      BY <3>1, TailAt DEF TailOf
  <2>2. CASE ~(n >= c)
    <3>1. c # 0 /\ c >= 1 /\ c <= Len(log)
      BY <1>3, <1>4, <1>8, <2>2 DEF Split
    <3>2. g.lastIncludedTerm = log[c]
      BY <1>8, <3>1 DEF Split
    <3>3. PICK t : t = g.lastIncludedTerm /\ t \in {OldTerm, StaleTerm, Term}
      BY <3>1, <3>2, LeaderLog
    <3>4. lg = <<t>> \o g.log
      BY <1>10, <2>2, <3>3
    <3>5. <<t>> \in Seq({OldTerm, StaleTerm, Term})
      BY <3>3
    <3> QED
      BY <3>4, <3>5, Fields, ConcatProperties
  <2> QED
    BY <2>1, <2>2
<1>13. /\ h \in Follower /\ h.snapshotBuf = g.snapshotBuf /\ h.kv = kv /\ h.log = lg
       /\ h.lastIncludedIndex = n /\ h.lastIncludedTerm = log[n]
       /\ h.commitIndex = x /\ h.lastApplied = x
  BY <1>5, <1>7, <1>11, <1>12 DEF Follower
<1>14. ASSUME ~Sound(h), ~(buf[1] < g.lastApplied), Whole(buf) PROVE FALSE
  <2>1. x = n
    BY <1>3, <1>8, <1>9, <1>14
  <2>2. \A d \in 1..Chunks : kv[d] = n
    BY <1>3, <1>7, <1>14 DEF Whole
  <2> QED
    BY <1>13, <1>14, <2>1, <2>2 DEF Sound
<1>15. ASSUME Sound(h)
       PROVE  \E b \in Nat :
                 /\ a <= b /\ Split(h, b)
                 /\ Clean(g, a) /\ ~(h.kv # g.kv /\ Stray(h)) => b = Last(h)
  <2>1. x = n /\ la <= n
    <3>1. kv[1] = x
      BY <1>1, <1>13, <1>15 DEF Sound
    <3> QED
      BY <1>7, <1>9, <3>1
  <2>2. PICK d \in Nat, k \in Nat :
           /\ n = c + d /\ Len(g.log) = k /\ Last(g) = c + k /\ TailOf(g.log, k, d, lg)
    <3>1. n >= c /\ c <= n
      BY <1>8, <2>1
    <3>2. g.lastIncludedIndex <= n
          /\ lg = SubSeq(g.log, n - g.lastIncludedIndex + 1, Len(g.log))
      BY <1>8, <1>10, <3>1
    <3> QED
      BY <1>8, <3>2, TailAt
  <2>3. PICK b \in Nat : a <= b /\ n <= b /\ (b = a \/ b = n)
    <3>1. CASE a <= n
      BY <3>1
    <3>2. CASE ~(a <= n)
      BY <3>2
    <3> QED
      BY <3>1, <3>2
  <2>4. /\ n + Len(lg) = IF n <= Last(g) THEN Last(g) ELSE n
        /\ Agreeing(lg, n, b)
        /\ b <= n + Len(lg) /\ b <= Len(log)
    <3>1. 1..Len(g.log) = 1..k /\ c + d <= Len(log) /\ Agreeing(g.log, c, a)
          /\ a <= c + k /\ a <= Len(log)
      BY <1>5, <1>8, <2>2 DEF Split
    <3>2. a <= b /\ c + d <= b /\ (b = a \/ b = c + d)
      BY <2>2, <2>3
    <3>3. /\ c + d + Len(lg) = IF c + d <= c + k THEN c + k ELSE c + d
          /\ Agreeing(lg, c + d, b)
          /\ b <= c + d + Len(lg) /\ b <= Len(log)
      BY <1>4, <2>2, <3>1, <3>2, Behind
    <3> QED
      BY <2>2, <3>3
  <2>5. Last(h) = n + Len(lg)
    BY <1>13 DEF Last
  <2>6. Split(h, b)
    <3>1. n # 0 /\ n <= n
      BY <1>3
    <3> QED
      BY <1>3, <1>13, <2>1, <2>3, <2>4, <2>5, <3>1 DEF Split
  <2>7. ASSUME Clean(g, a), ~(h.kv # g.kv /\ Stray(h)) PROVE b = Last(h)
    <3>1. CASE h.kv = g.kv
      <4>1. n = la
        BY <1>1, <1>7, <1>8, <1>13, <3>1 DEF Sound
      <4>2. a = Last(g)
        BY <1>3, <1>8, <2>7, <4>1 DEF Clean
      <4>3. n <= a /\ b = a
        BY <1>8, <2>3, <4>1
      <4> QED
        BY <1>8, <2>4, <2>5, <4>2, <4>3
    <3>2. CASE ~Stray(h)
      <4>1. SUFFICES ASSUME b # Last(h) PROVE FALSE
        OBVIOUS
      <4>2. PICK j \in Nat : j = b + 1
        BY <2>4
      <4>3. Last(h) \in Nat /\ b < Last(h)
        BY <1>13, <2>4, <2>5, <4>1, Fields
      <4>4. b < j /\ j <= Last(h) /\ j \in (n + 1)..Last(h)
        BY <2>3, <4>2, <4>3
      <4>5. TermAt(h, j) = StaleTerm
        BY <1>13, <2>4, <2>6, <4>4, TermsOf
      <4>6. j > Len(log) \/ log[j] # StaleTerm
        BY <1>4, <2>4, <4>4, LeaderLog
      <4> QED
        BY <1>13, <3>2, <4>4, <4>5, <4>6 DEF Stray
    <3> QED
      BY <2>7, <3>1, <3>2
  <2> QED
    BY <2>3, <2>6, <2>7
<1> QED
  BY <1>13, <1>14, <1>15

\* The pieces in the buffer are of snapshots of the leader, and not too many.
LEMMA BufferedPieces ==
    ASSUME NEW g \in Follower, PiecesOK(g.snapshotBuf),
           NEW m \in ChunkCall, Snapshot(m.snap), NEW buf, buf = Buffered(g, m)
    PROVE  buf \in Seq(Nat) /\ Len(buf) \in Nat /\ PiecesOK(buf)
<1>1. PICK v : v = IF m.piece = 1 THEN << >> ELSE g.snapshotBuf
  OBVIOUS
<1>2. v \in Seq(Nat) /\ PiecesOK(v)
  <2>1. << >> \in Seq(Nat) /\ Len(<< >>) = 0 /\ g.snapshotBuf \in Seq(Nat) /\ Chunks \in Nat
    BY EmptySeq, Fields, Constants
  <2>2. PiecesOK(<< >>)
    BY <2>1 DEF PiecesOK
  <2> QED
    BY <1>1, <2>1, <2>2
<1>3. PICK l \in Nat : l = Len(v) /\ l <= Chunks /\ \A i \in 1..l : Snapshot(v[i])
  BY <1>2, LenProperties DEF PiecesOK
<1>4. PICK n \in Nat, p \in Nat : n = m.snap /\ p = m.piece /\ p <= Chunks
  BY Constants DEF ChunkCall
<1>5. CASE p = l + 1
  <2>1. buf = Append(v, n)
    BY <1>1, <1>3, <1>4, <1>5 DEF Buffered
  <2>2. /\ buf \in Seq(Nat) /\ Len(buf) = l + 1 /\ buf[l + 1] = n
        /\ \A i \in 1..l : buf[i] = v[i]
    BY <1>2, <1>3, <2>1, AppendProperties
  <2>3. ASSUME NEW i \in 1..(l + 1) PROVE Snapshot(buf[i])
    <3>1. i \in 1..l \/ i = l + 1
      OBVIOUS
    <3> QED
      BY <1>3, <1>4, <2>2, <3>1
  <2> QED
    BY <1>4, <1>5, <2>2, <2>3 DEF PiecesOK
<1>6. CASE p # l + 1
  <2>1. buf = v
    BY <1>1, <1>3, <1>4, <1>6 DEF Buffered
  <2> QED
    BY <1>2, <1>3, <2>1
<1> QED
  BY <1>5, <1>6

\* What a piece of a snapshot does to a follower that is sound.
Installed(g, a, buf, h) ==
    /\ h \in Follower /\ PiecesOK(h.snapshotBuf)
    /\ ~Sound(h) => buf[1] < g.lastApplied \/ ~Whole(buf)
    /\ Sound(h) => \E b \in Nat :
          /\ a <= b /\ Split(h, b)
          /\ Clean(g, a) /\ ~(h.kv # g.kv /\ Stray(h)) => Clean(h, b)

LEMMA InstallSplit ==
    ASSUME TypeOK, LeaderOK, NEW g \in Follower, NEW a \in Nat, Split(g, a), Sound(g),
           PiecesOK(g.snapshotBuf), NEW m \in ChunkCall, Snapshot(m.snap),
           NEW h \in InstallSnapshot(g, m)
    PROVE  Installed(g, a, Buffered(g, m), h)
<1>1. PICK buf : buf = Buffered(g, m)
  OBVIOUS
<1>2. buf \in Seq(Nat) /\ Len(buf) \in Nat /\ PiecesOK(buf)
  BY <1>1, BufferedPieces
<1>3. PiecesOK(<< >>) /\ << >> \in Seq(Nat)
  BY EmptySeq, Constants DEF PiecesOK
<1>4. ASSUME NEW v \in Seq(Nat), PiecesOK(v), NEW r, r = [g EXCEPT !.snapshotBuf = v]
      PROVE  Installed(g, a, buf, r) /\ r \in Follower /\ SameLog(g, r) /\ r.snapshotBuf = v
  <2>1. r \in Follower /\ SameLog(g, r) /\ r.snapshotBuf = v
    BY <1>4 DEF Follower, SameLog
  <2>2. Split(r, a) /\ Sound(r) /\ (Clean(g, a) => Clean(r, a))
    BY <2>1, SameLogSplit
  <2> QED
    BY <1>4, <2>1, <2>2 DEF Installed
<1>5. PICK w : w = [g EXCEPT !.snapshotBuf = << >>]
  OBVIOUS
<1>6. Installed(g, a, buf, w) /\ w \in Follower /\ SameLog(g, w) /\ w.snapshotBuf = << >>
  BY <1>3, <1>4, <1>5
<1>7. Split(w, a) /\ Sound(w) /\ (Clean(g, a) => Clean(w, a))
  BY <1>6, SameLogSplit
<1>8. ASSUME Len(buf) = Chunks, NEW r, r = restoreSnapshot(w, buf)
      PROVE  Installed(g, a, buf, r)
  <2>1. /\ r \in Follower /\ r.snapshotBuf = w.snapshotBuf
        /\ ~Sound(r) => buf[1] < w.lastApplied \/ ~Whole(buf)
        /\ Sound(r) => \E b \in Nat :
              /\ a <= b /\ Split(r, b)
              /\ Clean(w, a) /\ ~(r.kv # w.kv /\ Stray(r)) => b = Last(r)
    BY <1>2, <1>6, <1>7, <1>8, RestoreSplit
  <2>2. w.lastApplied = g.lastApplied /\ w.kv = g.kv
    BY <1>6 DEF SameLog
  <2>3. ASSUME Sound(r)
        PROVE  \E b \in Nat : /\ a <= b /\ Split(r, b)
                              /\ Clean(g, a) /\ ~(r.kv # g.kv /\ Stray(r)) => Clean(r, b)
    <3>1. PICK b \in Nat : /\ a <= b /\ Split(r, b)
                           /\ Clean(w, a) /\ ~(r.kv # w.kv /\ Stray(r)) => b = Last(r)
      BY <2>1, <2>3
    <3> QED
      BY <1>7, <2>2, <3>1 DEF Clean
  <2> QED
    BY <1>3, <1>6, <2>1, <2>2, <2>3 DEF Installed
<1>9. PICK p \in Nat : p = m.piece /\ p <= Chunks
  BY Constants DEF ChunkCall
<1>10. Chunks \in Nat /\ Len(buf) <= Chunks
  BY <1>2, Constants DEF PiecesOK
<1>11. CASE p < Chunks
  <2>1. h = [g EXCEPT !.snapshotBuf = buf]
    BY <1>1, <1>9, <1>11 DEF InstallSnapshot
  <2> QED
    BY <1>1, <1>2, <1>4, <2>1
<1>12. CASE p = Chunks
  <2>1. ~(p < Chunks)
    BY <1>10, <1>12
  <2>2. CASE Len(buf) < Chunks
    <3>1. Len(buf) # Chunks
      BY <1>2, <1>10, <2>2
    <3>2. h = w
      BY <1>1, <1>5, <1>9, <1>12, <2>1, <2>2, <3>1 DEF InstallSnapshot
    <3> QED
      BY <1>1, <1>6, <3>2
  <2>3. CASE Len(buf) = Chunks
    <3>1. ~(Len(buf) < Chunks)
      BY <1>10, <2>3
    <3>2. h = w \/ h = restoreSnapshot(w, buf)
      BY <1>1, <1>5, <1>9, <1>12, <2>1, <2>3, <3>1 DEF InstallSnapshot
    <3> QED
      BY <1>1, <1>6, <1>8, <2>3, <3>2
  <2> QED
    BY <1>2, <1>10, <2>2, <2>3
<1> QED
  BY <1>9, <1>10, <1>11, <1>12
-----------------------------------------------------------------------------
(***************************************************************************)
(* The leader commits.                                                     *)
(***************************************************************************)
\* The leader alone is no majority of the three.
LEMMA SecondNode ==
    ASSUME NEW n \in Nat, NEW match \in Nat, NEW other \in Nat,
           checkCommitMajority(n, match, other)
    PROVE  n <= match \/ n <= other
<1>1. SUFFICES ASSUME ~(match >= n), ~(other >= n) PROVE FALSE
  OBVIOUS
<1> DEFINE c == ConfigFromPeers({"follower", "other"}, "leader")
<1>2. c.new = {"follower", "other"} \cup {"leader"}
  BY DEF ConfigFromPeers
<1>3. HasMajority(c, "leader", {"leader"})
  BY <1>1 DEF checkCommitMajority
<1>4. c.new \cap {"leader"} = {"leader"}
  BY <1>2
<1>5. Cardinality({"leader"}) = 1
  BY FS_Singleton
<1>6. Cardinality(c.new) = 3
  <2>1. IsFiniteSet({"follower"}) /\ Cardinality({"follower"}) = 1
    BY FS_Singleton
  <2>2. /\ IsFiniteSet({"follower"} \cup {"other"})
        /\ Cardinality({"follower"} \cup {"other"}) = 2
    BY <2>1, FS_AddElement
  <2>3. {"follower"} \cup {"other"} = {"follower", "other"}
    OBVIOUS
  <2>4. Cardinality({"follower", "other"} \cup {"leader"}) = 3
    BY <2>2, <2>3, FS_AddElement
  <2> QED
    BY <1>2, <2>4
<1>7. One("leader" \in c.new \cap {"leader"}) = 1 /\ One("leader" \in c.new) = 1
  BY <1>2, <1>4 DEF One
<1>8. MajorityOf(c.new, "leader", {"leader"})
  BY <1>3 DEF HasMajority
<1>9. 1 + 1 >= (3 + 1) \div 2 + 1
  BY <1>4, <1>5, <1>6, <1>7, <1>8 DEF MajorityOf
<1> QED
  BY <1>9

\* The commit index goes up to an entry that a second node has acknowledged,
\* and the snapshot stays behind it.
LEMMA CommitSteps ==
    ASSUME TypeOK, LeaderOK, NEW match \in Nat, NEW other \in Nat, Commit(match, other)
    PROVE  /\ commitIndex' \in Nat /\ commitIndex <= commitIndex' /\ commitIndex' <= Len(log)
           /\ lastIncludedIndex' \in Nat /\ lastIncludedIndex' <= commitIndex'
           /\ commitIndex' = commitIndex \/ commitIndex' <= match \/ commitIndex' <= other
<1>1. /\ commitIndex \in Nat /\ lastIncludedIndex \in Nat /\ Len(log) \in Nat
      /\ lastIncludedIndex <= commitIndex /\ commitIndex <= Len(log)
  BY Types DEF LeaderOK
<1>2. PICK ns : ns = {n \in (commitIndex + 1)..Len(log) :
                         getEntryTerm(n) = Term /\ checkCommitMajority(n, match, other)}
  OBVIOUS
<1>3. PICK short : short = {n \in ns \cup {lastIncludedIndex} : Len(log) - n <= SnapshotThreshold}
  OBVIOUS
<1>4. /\ commitIndex' = Max(ns \cup {commitIndex})
      /\ lastIncludedIndex' = CASE ns = {} -> lastIncludedIndex
                                [] ns # {} /\ short # {} -> Min(short)
                                [] ns # {} /\ short = {} -> Max(ns)
  BY <1>2, <1>3 DEF Commit
<1>5. ASSUME NEW n \in ns
      PROVE  n \in Nat /\ n > commitIndex /\ n <= Len(log) /\ (n <= match \/ n <= other)
  <2>1. n \in (commitIndex + 1)..Len(log) /\ checkCommitMajority(n, match, other)
    BY <1>2
  <2>2. n \in Nat /\ n > commitIndex /\ n <= Len(log)
    BY <1>1, <2>1
  <2> QED
    BY <2>1, <2>2, SecondNode
<1>6. PICK k \in ns \cup {commitIndex} :
         k = commitIndex' /\ \A y \in ns \cup {commitIndex} : y <= k
  <2>1. /\ ns \cup {commitIndex} \subseteq Nat /\ ns \cup {commitIndex} # {}
        /\ \A y \in ns \cup {commitIndex} : y <= Len(log)
    BY <1>1, <1>5
  <2>2. Max(ns \cup {commitIndex}) \in ns \cup {commitIndex}
        /\ \A y \in ns \cup {commitIndex} : Max(ns \cup {commitIndex}) >= y
    BY <1>1, <2>1, MaxOfNats
  <2>3. PICK k \in ns \cup {commitIndex} :
           k = Max(ns \cup {commitIndex}) /\ \A y \in ns \cup {commitIndex} : k >= y
    BY <2>2
  <2> QED
    BY <1>4, <2>1, <2>3
<1>7. /\ k \in Nat /\ commitIndex <= k /\ k <= Len(log)
      /\ k = commitIndex \/ k <= match \/ k <= other
  BY <1>1, <1>5, <1>6
<1>8. PICK j : j = lastIncludedIndex' /\ j \in ns \cup {lastIncludedIndex}
  <2>1. CASE ns = {}
    BY <1>4, <2>1
  <2>2. CASE ns # {} /\ short # {}
    <3>1. short \subseteq Nat /\ short \subseteq ns \cup {lastIncludedIndex}
      BY <1>1, <1>3, <1>5
    <3>2. Min(short) \in short
      BY <2>2, <3>1, MinOfNats
    <3>3. lastIncludedIndex' = Min(short)
      BY <1>4, <2>2
    <3> QED
      BY <3>1, <3>2, <3>3
  <2>3. CASE ns # {} /\ short = {}
    <3>1. ns \subseteq Nat /\ \A y \in ns : y <= Len(log)
      BY <1>5
    <3>2. Max(ns) \in ns
      BY <1>1, <2>3, <3>1, MaxOfNats
    <3>3. lastIncludedIndex' = Max(ns)
      BY <1>4, <2>3
    <3> QED
      BY <3>2, <3>3
  <2> QED
    BY <2>1, <2>2, <2>3
<1>9. j \in Nat /\ j <= k
  BY <1>1, <1>5, <1>6, <1>7, <1>8
<1> QED
  BY <1>6, <1>7, <1>8, <1>9
-----------------------------------------------------------------------------
(***************************************************************************)
(* What a step has to show.                                                *)
(***************************************************************************)
\* The leader's log, its commit index and the match index of the other peer
\* only grow.
Grown ==
    /\ Len(log) <= Len(log') /\ \A n \in 1..Len(log) : log'[n] = log[n]
    /\ commitIndex <= commitIndex' /\ otherMatch <= otherMatch'

LEMMA PiecesGrown ==
    ASSUME TypeOK, TypeOK', Grown, PiecesOK(f'.snapshotBuf)
    PROVE  PiecesOK(f.snapshotBuf)'
<1>1. commitIndex \in Nat /\ commitIndex' \in Nat /\ commitIndex <= commitIndex'
  BY DEF TypeOK, Grown
<1>2. f' \in Follower
  BY DEF TypeOK, Follower
<1>3. f'.snapshotBuf \in Seq(Nat)
  BY <1>2, Fields
<1>4. \A i \in 1..Len(f'.snapshotBuf) : f'.snapshotBuf[i] \in Nat
  BY <1>3, ElementOfSeq
<1> QED
  BY <1>1, <1>4 DEF PiecesOK, Snapshot

LEMMA CallGrown ==
    ASSUME TypeOK, TypeOK', Grown, NEW s \in Slot, CallOK(calls'[s])
    PROVE  CallOK(calls[s])'
<1>1. /\ commitIndex \in Nat /\ commitIndex' \in Nat /\ commitIndex <= commitIndex'
      /\ Len(log) \in Nat /\ Len(log') \in Nat /\ Len(log) <= Len(log')
      /\ \A n \in 1..Len(log) : log'[n] = log[n]
  <2>1. Len(log) \in Nat /\ Len(log') \in Nat
    BY LenProperties DEF TypeOK
  <2> QED
    BY <2>1 DEF TypeOK, Grown
<1>2. PICK m : m = calls'[s]
  OBVIOUS
<1>3. m \in Call
  <2>1. calls' \in [Slot -> Call]
    BY DEF TypeOK, Call
  <2> QED
    BY <1>2, <2>1
<1>4. ASSUME m.kind = "append" PROVE RequestOK(calls[s])'
  <2>1. RequestOK(m)
    BY <1>2, <1>4 DEF CallOK
  <2>2. PICK p \in Nat, u \in Nat, c \in Nat :
           p = m.prev /\ u = m.upto /\ c = m.commit
    BY <1>3, <1>4, CallFields
  <2>3. /\ m.prevTerm = 0 \/ (p \in 1..Len(log) /\ m.prevTerm = log[p])
        /\ p <= u /\ u > Old /\ (u = p \/ u <= Len(log))
        /\ c <= u /\ c <= commitIndex
    BY <2>1, <2>2 DEF RequestOK
  <2>4. /\ m.prevTerm = 0 \/ (p \in 1..Len(log') /\ m.prevTerm = log'[p])
        /\ u = p \/ u <= Len(log')
        /\ c <= commitIndex'
    BY <1>1, <2>2, <2>3
  <2> QED
    BY <1>2, <2>2, <2>3, <2>4 DEF RequestOK
<1>5. ASSUME m.kind \in {"chunk", "chunkReply"} PROVE Snapshot(calls[s].snap)'
  <2>1. PICK n \in Nat : n = m.snap
    BY <1>3, <1>5, CallFields
  <2>2. n >= 1 /\ n <= commitIndex
    BY <1>2, <1>5, <2>1 DEF CallOK, Snapshot
  <2>3. n >= 1 /\ n <= commitIndex'
    BY <1>1, <2>2
  <2> QED
    BY <1>2, <2>1, <2>3 DEF Snapshot
<1> QED
  BY <1>2, <1>4, <1>5 DEF CallOK

LEMMA SplitGrown ==
    ASSUME TypeOK, TypeOK', Grown, NEW a \in Nat, Split(f', a)
    PROVE  Split(f, a)'
<1>1. /\ commitIndex \in Nat /\ commitIndex' \in Nat /\ commitIndex <= commitIndex'
      /\ Len(log) \in Nat /\ Len(log') \in Nat /\ Len(log) <= Len(log')
      /\ \A n \in 1..Len(log) : log'[n] = log[n]
  <2>1. Len(log) \in Nat /\ Len(log') \in Nat
    BY LenProperties DEF TypeOK
  <2> QED
    BY <2>1 DEF TypeOK, Grown
<1>2. PICK g : g = f'
  OBVIOUS
<1>3. g \in Follower
  BY <1>2 DEF TypeOK, Follower
<1>4. PICK b \in Nat, k \in Nat, l \in Nat :
         b = g.lastIncludedIndex /\ k = g.commitIndex /\ l = Len(g.log)
  BY <1>3, Fields
<1>5. /\ b <= a /\ a <= Last(g) /\ a <= Len(log) /\ g.lastApplied = k
      /\ b <= k /\ k <= a /\ k <= commitIndex
      /\ g.lastIncludedTerm = IF b = 0 THEN 0 ELSE log[b]
      /\ Agreeing(g.log, b, a)
  BY <1>2, <1>4 DEF Split
<1>6. a <= Len(log') /\ k <= commitIndex' /\ b <= Len(log)
  BY <1>1, <1>5
<1>7. g.lastIncludedTerm = IF b = 0 THEN 0 ELSE log'[b]
  BY <1>1, <1>5, <1>6
<1>8. \A i \in 1..l : g.log[i] = IF b + i <= a THEN log'[b + i] ELSE StaleTerm
  <2>1. \A i \in 1..l : g.log[i] = IF b + i <= a THEN log[b + i] ELSE StaleTerm
    BY <1>4, <1>5 DEF Agreeing
  <2>2. \A i \in 1..l : b + i <= a => b + i \in 1..Len(log)
    BY <1>1, <1>5
  <2> QED
    BY <1>1, <2>1, <2>2
<1>9. Last(f)' = Last(g)
  BY <1>2 DEF Last
<1>10. Agreeing(f.log, f.lastIncludedIndex, a)'
  BY <1>2, <1>4, <1>8 DEF Agreeing
<1> QED
  BY <1>2, <1>4, <1>5, <1>6, <1>7, <1>9, <1>10 DEF Split

\* Types of the next state.
LEMMA TypesNext ==
    ASSUME state' \in {"Leader", "Follower"}, log' \in Seq({OldTerm, Term}),
           lastIncludedIndex' \in Nat, commitIndex' \in Nat, matchIndex' \in Nat,
           otherMatch' \in Nat, failures' \in Nat, nextIndex' \in Nat, nextIndex' >= 1,
           f' \in Follower, calls' \in [Slot -> Call], keptTail' \in BOOLEAN
    PROVE  TypeOK'
  BY DEF TypeOK, Follower, Call

\* The replies and the leader's books, in the next state.
BookedNext(b) ==
    /\ Clean(f', b) /\ Backed(matchIndex, b)' /\ Backed(commitIndex, b)'
    /\ \A s \in Slot : Kept(calls'[s], b)

LEMMA StepInv ==
    ASSUME TypeOK, TypeOK', LeaderOK', Grown, PiecesOK(f'.snapshotBuf),
           \A s \in Slot : CallOK(calls'[s]),
           Sound(f') => \E b \in Nat : Split(f', b) /\ (keptTail' \/ BookedNext(b))
    PROVE  CatchUpInv'
<1>1. PiecesOK(f.snapshotBuf)' /\ \A s \in Slot : CallOK(calls[s])'
  BY PiecesGrown, CallGrown
<1>2. ASSUME Sound(f)' PROVE \E b \in Nat : Pair(b)'
  <2>1. Sound(f')
    BY <1>2 DEF Sound
  <2>2. PICK b \in Nat : Split(f', b) /\ (keptTail' \/ BookedNext(b))
    BY <2>1
  <2>3. Split(f, b)'
    BY <2>2, SplitGrown
  <2>4. BookedNext(b) => Booked(b)'
    BY DEF BookedNext, Booked, Clean, Kept, Last
  <2> QED
    BY <2>2, <2>3, <2>4 DEF Pair
<1> QED
  BY <1>1, <1>2 DEF CatchUpInv

\* A step that leaves the leader alone.
LEMMA FollowerStep ==
    ASSUME CatchUpInv, UNCHANGED leader, failures' \in Nat, keptTail' \in BOOLEAN,
           f' \in Follower, PiecesOK(f'.snapshotBuf), calls' \in [Slot -> Call],
           \A s \in Slot : CallOK(calls'[s]),
           Sound(f') => \E b \in Nat :
              /\ Split(f', b)
              /\ \/ keptTail'
                 \/ /\ Clean(f', b) /\ Backed(matchIndex, b) /\ Backed(commitIndex, b)
                    /\ \A s \in Slot : Kept(calls'[s], b)
    PROVE  CatchUpInv'
<1>1. TypeOK /\ LeaderOK
  BY DEF CatchUpInv
<1>2. /\ state' = state /\ log' = log /\ lastIncludedIndex' = lastIncludedIndex
      /\ commitIndex' = commitIndex /\ nextIndex' = nextIndex
      /\ matchIndex' = matchIndex /\ otherMatch' = otherMatch
  BY DEF leader
<1>3. TypeOK'
  <2>1. state \in {"Leader", "Follower"}
    BY <1>1 DEF TypeOK
  <2> QED
    BY <1>1, <1>2, <2>1, Types, TypesNext
<1>4. LeaderOK'
  BY <1>1, <1>2 DEF LeaderOK
<1>5. Grown
  BY <1>1, <1>2, Types DEF Grown
<1>6. ASSUME Sound(f') PROVE \E b \in Nat : Split(f', b) /\ (keptTail' \/ BookedNext(b))
  <2>1. PICK b \in Nat :
           /\ Split(f', b)
           /\ \/ keptTail'
              \/ /\ Clean(f', b) /\ Backed(matchIndex, b) /\ Backed(commitIndex, b)
                 /\ \A s \in Slot : Kept(calls'[s], b)
    BY <1>6
  <2>2. /\ Backed(matchIndex, b) => Backed(matchIndex, b)'
        /\ Backed(commitIndex, b) => Backed(commitIndex, b)'
    BY <1>2 DEF Backed
  <2> QED
    BY <2>1, <2>2 DEF BookedNext
<1> QED
  BY <1>1, <1>3, <1>4, <1>5, <1>6, StepInv

LEMMA CallsStep ==
    ASSUME TypeOK, NEW s \in Slot, NEW x \in Call, calls' = [calls EXCEPT ![s] = x]
    PROVE  /\ calls' \in [Slot -> Call] /\ calls'[s] = x
           /\ \A t \in Slot : t # s => calls'[t] = calls[t]
  BY Types

\* The books go on when the follower has more.
LEMMA BackedMore ==
    ASSUME TypeOK, NEW n \in Nat, NEW a \in Nat, NEW b \in Nat, a <= b, Backed(n, a)
    PROVE  Backed(n, b)
  BY Types, Constants DEF Backed

LEMMA KeptMore ==
    ASSUME NEW m \in Call, NEW a \in Nat, NEW b \in Nat, a <= b, Kept(m, a)
    PROVE  Kept(m, b)
<1>1. SUFFICES ASSUME m.kind = "appendReply", m.success PROVE m.match <= b
  BY DEF Kept
<1>2. PICK k \in Nat : k = m.match
  BY <1>1, CallFields
<1>3. k <= a
  BY <1>1, <1>2 DEF Kept
<1> QED
  BY <1>2, <1>3

\* What holds while the pair is followed.
LEMMA RunningPair ==
    ASSUME CatchUpInv, Running
    PROVE  /\ TypeOK /\ LeaderOK /\ PiecesOK(f.snapshotBuf) /\ Sound(f)
           /\ \A s \in Slot : CallOK(calls[s])
           /\ \E a \in Nat : Pair(a)
  BY DEF CatchUpInv, Running

\* A step of one call only.
LEMMA CallStep ==
    ASSUME CatchUpInv, Running, UNCHANGED <<leader, f, keptTail>>, failures' \in Nat,
           NEW s \in Slot, NEW x \in Call, CallOK(x), x.kind # "appendReply",
           calls' = [calls EXCEPT ![s] = x]
    PROVE  CatchUpInv'
<1>1. /\ TypeOK /\ LeaderOK /\ PiecesOK(f.snapshotBuf) /\ Sound(f)
      /\ \A t \in Slot : CallOK(calls[t])
  BY RunningPair
<1>2. PICK a \in Nat : Pair(a)
  BY RunningPair
<1>3. /\ calls' \in [Slot -> Call] /\ calls'[s] = x
      /\ \A t \in Slot : t # s => calls'[t] = calls[t]
  BY <1>1, CallsStep
<1>4. f' \in Follower /\ PiecesOK(f'.snapshotBuf) /\ f' = f /\ keptTail' \in BOOLEAN
  BY <1>1, Types
<1>5. \A t \in Slot : CallOK(calls'[t])
  BY <1>1, <1>3
<1>6. /\ Split(f', a)
      /\ \/ keptTail'
         \/ /\ Clean(f', a) /\ Backed(matchIndex, a) /\ Backed(commitIndex, a)
            /\ \A t \in Slot : Kept(calls'[t], a)
  <2>1. Kept(x, a)
    BY DEF Kept
  <2>2. Booked(a) => \A t \in Slot : Kept(calls'[t], a)
    BY <1>3, <2>1 DEF Booked
  <2>3. Split(f, a) /\ (keptTail \/ Booked(a))
    BY <1>2 DEF Pair
  <2>4. keptTail' = keptTail /\ f' = f
    OBVIOUS
  <2> QED
    BY <2>2, <2>3, <2>4 DEF Booked
<1>7. UNCHANGED leader
  OBVIOUS
<1> QED
  BY <1>3, <1>4, <1>5, <1>6, <1>7, FollowerStep
-----------------------------------------------------------------------------
(***************************************************************************)
(* The steps.                                                              *)
(***************************************************************************)
LEMMA FreeIsCall == Free \in Call /\ CallOK(Free) /\ Free.kind # "appendReply"
  BY DEF Free, Call, CallOK

LEMMA ReplicateToPeerKeeps ==
    ASSUME CatchUpInv, NEW s \in Slot, ReplicateToPeer(s)
    PROVE  CatchUpInv'
<1>1. Running /\ UNCHANGED <<leader, f, failures, keptTail>>
  BY DEF ReplicateToPeer
<1>2. TypeOK /\ LeaderOK
  BY DEF CatchUpInv
<1>3. /\ nextIndex \in Nat /\ nextIndex >= 1 /\ lastIncludedIndex \in Nat
      /\ commitIndex \in Nat /\ Len(log) \in Nat /\ failures \in Nat
      /\ lastIncludedIndex <= commitIndex /\ commitIndex <= Len(log) /\ Len(log) > Old
      /\ Old \in Nat /\ Chunks \in Nat /\ Chunks >= 1
  BY <1>2, Types, Constants DEF LeaderOK
<1>4. failures' \in Nat
  BY <1>1, <1>3
<1>5. CASE nextIndex <= lastIncludedIndex
  <2>1. PICK x : x = [kind |-> "chunk", awaited |-> TRUE, snap |-> lastIncludedIndex,
                      piece |-> 1]
    OBVIOUS
  <2>2. x \in Call
    BY <1>3, <2>1 DEF Call, ChunkCall
  <2>3. x.kind = "chunk" /\ x.snap = lastIncludedIndex
    BY <2>1
  <2>4. Snapshot(lastIncludedIndex)
    BY <1>3, <1>5 DEF Snapshot
  <2>5. CallOK(x) /\ x.kind # "appendReply"
    BY <2>3, <2>4 DEF CallOK
  <2>6. calls' = [calls EXCEPT ![s] = x]
    <3>1. ~(nextIndex > lastIncludedIndex)
      BY <1>3, <1>5
    <3> QED
      BY <2>1, <3>1 DEF ReplicateToPeer
  <2> QED
    BY <1>1, <1>4, <2>2, <2>5, <2>6, CallStep
<1>6. CASE nextIndex > lastIncludedIndex
  <2>1. PICK p \in Nat : p = nextIndex - 1
    BY <1>3
  <2>2. PICK u \in Nat : u = Max({p, Len(log)}) /\ u >= p /\ u >= Len(log)
                         /\ (u = p \/ u = Len(log))
    BY <1>3, MaxOfTwo
  <2>3. PICK t : t = getEntryTerm(p)
    OBVIOUS
  <2>4. t \in Nat /\ (t = 0 \/ (p \in 1..Len(log) /\ t = log[p]))
    <3>1. CASE p \in lastIncludedIndex..Len(log) /\ p > 0
      <4>1. p \in 1..Len(log) /\ p >= 1 /\ p <= Len(log)
        BY <1>3, <3>1
      <4>2. t = log[p]
        BY <2>3, <3>1 DEF getEntryTerm
      <4>3. log[p] \in Nat
        BY <1>2, <4>1, LeaderLog
      <4> QED
        BY <4>1, <4>2, <4>3
    <3>2. CASE ~(p \in lastIncludedIndex..Len(log) /\ p > 0)
      BY <2>3, <3>2 DEF getEntryTerm
    <3> QED
      BY <3>1, <3>2
  <2>5. PICK x : x = [kind |-> "append", awaited |-> TRUE, prev |-> p, prevTerm |-> t,
                      upto |-> u, commit |-> commitIndex]
    OBVIOUS
  <2>6. x \in Call
    BY <1>3, <2>4, <2>5 DEF Call, AppendCall
  <2>7. u > Old /\ commitIndex <= u /\ commitIndex <= commitIndex
    BY <1>3, <2>2
  <2>8. /\ x.kind = "append" /\ x.prev = p /\ x.prevTerm = t /\ x.upto = u
        /\ x.commit = commitIndex
    BY <2>5
  <2>9. RequestOK(x)
    BY <1>3, <2>2, <2>4, <2>7, <2>8 DEF RequestOK
  <2>10. CallOK(x) /\ x.kind # "appendReply"
    BY <2>8, <2>9 DEF CallOK
  <2>11. calls' = [calls EXCEPT ![s] = x]
    <3>1. ~(nextIndex <= lastIncludedIndex)
      BY <1>3, <1>6
    <3> QED
      BY <2>1, <2>2, <2>3, <2>5, <3>1 DEF ReplicateToPeer
  <2> QED
    BY <1>1, <1>4, <2>6, <2>10, <2>11, CallStep
<1> QED
  BY <1>3, <1>5, <1>6

LEMMA FailKeeps ==
    ASSUME CatchUpInv, NEW s \in Slot, Fail(s)
    PROVE  CatchUpInv'
<1>1. Running /\ UNCHANGED <<leader, f, keptTail>> /\ failures' = failures + 1
  BY DEF Fail
<1>2. TypeOK /\ calls \in [Slot -> Call] /\ failures' \in Nat /\ CallOK(calls[s])
  BY <1>1, Types DEF CatchUpInv
<1>3. PICK m : m = calls[s]
  OBVIOUS
<1>4. m \in Call /\ CallOK(m)
  BY <1>2, <1>3
<1>5. CASE calls' = [calls EXCEPT ![s] = Free]
  BY <1>1, <1>2, <1>5, FreeIsCall, CallStep
<1>6. CASE /\ m.kind \in {"append", "chunk"}
           /\ calls' = [calls EXCEPT ![s] = [m EXCEPT !.awaited = FALSE]]
  <2>1. PICK x : x = [m EXCEPT !.awaited = FALSE]
    OBVIOUS
  <2>2. CASE m.kind = "append"
    <3>1. m \in AppendCall
      BY <1>4, <2>2, CallFields
    <3>2. /\ x \in AppendCall /\ x.kind = "append" /\ x.prev = m.prev
          /\ x.prevTerm = m.prevTerm /\ x.upto = m.upto /\ x.commit = m.commit
      BY <2>1, <2>2, <3>1 DEF AppendCall
    <3>3. CallOK(x) /\ x \in Call /\ x.kind # "appendReply"
      BY <1>4, <2>2, <3>2 DEF CallOK, RequestOK, Call
    <3> QED
      BY <1>1, <1>2, <1>6, <2>1, <3>3, CallStep
  <2>3. CASE m.kind = "chunk"
    <3>1. m \in ChunkCall
      BY <1>4, <2>3, CallFields
    <3>2. x \in ChunkCall /\ x.kind = "chunk" /\ x.snap = m.snap
      BY <2>1, <2>3, <3>1 DEF ChunkCall
    <3>3. CallOK(x) /\ x \in Call /\ x.kind # "appendReply"
      BY <1>4, <2>3, <3>2 DEF CallOK, Call
    <3> QED
      BY <1>1, <1>2, <1>6, <2>1, <3>3, CallStep
  <2> QED
    BY <1>6, <2>2, <2>3
<1> QED
  BY <1>3, <1>5, <1>6 DEF Fail

LEMMA LearnTermKeeps ==
    ASSUME CatchUpInv, LearnTerm
    PROVE  CatchUpInv' /\ Sound(f')
<1>1. /\ Running /\ f' = [f EXCEPT !.term = Term + 1]
      /\ UNCHANGED <<leader, calls, failures, keptTail>>
  BY DEF LearnTerm
<1>2. /\ TypeOK /\ PiecesOK(f.snapshotBuf) /\ Sound(f)
      /\ \A t \in Slot : CallOK(calls[t])
  BY <1>1, RunningPair
<1>3. PICK a \in Nat : Pair(a)
  BY <1>1, RunningPair
<1>4. f \in Follower /\ Term + 1 \in Nat
  BY <1>2, Types DEF Term
<1>5. f' \in Follower /\ SameLog(f, f') /\ f'.snapshotBuf = f.snapshotBuf
  BY <1>1, <1>4 DEF Follower, SameLog
<1>6. Split(f', a) /\ Sound(f') /\ (Clean(f, a) => Clean(f', a))
  BY <1>2, <1>3, <1>5, SameLogSplit DEF Pair
<1>7. /\ calls' = calls /\ keptTail' = keptTail /\ failures' = failures /\ UNCHANGED leader
      /\ calls \in [Slot -> Call] /\ keptTail \in BOOLEAN /\ failures \in Nat
  BY <1>1, <1>2, Types
<1>8. /\ Split(f', a)
      /\ \/ keptTail'
         \/ /\ Clean(f', a) /\ Backed(matchIndex, a) /\ Backed(commitIndex, a)
            /\ \A t \in Slot : Kept(calls'[t], a)
  BY <1>3, <1>6, <1>7 DEF Pair, Booked
<1>9. CatchUpInv'
  BY <1>2, <1>5, <1>7, <1>8, FollowerStep
<1> QED
  BY <1>6, <1>9

\* A step of the leader.
LEMMA LeaderStep ==
    ASSUME CatchUpInv, Running, Grown, TypeOK', LeaderOK', UNCHANGED <<f, keptTail>>,
           \A t \in Slot : \/ calls'[t] = calls[t]
                           \/ CallOK(calls'[t]) /\ calls'[t].kind # "appendReply",
           \A a \in Nat : Booked(a) => Backed(matchIndex, a)' /\ Backed(commitIndex, a)'
    PROVE  CatchUpInv'
<1>1. /\ TypeOK /\ PiecesOK(f.snapshotBuf) /\ Sound(f)
      /\ \A t \in Slot : CallOK(calls[t])
  BY RunningPair
<1>2. PICK a \in Nat : Pair(a)
  BY RunningPair
<1>3. PiecesOK(f'.snapshotBuf) /\ \A t \in Slot : CallOK(calls'[t])
  BY <1>1
<1>4. Split(f', a) /\ (keptTail' \/ BookedNext(a))
  <2>1. Split(f, a) /\ (keptTail \/ Booked(a))
    BY <1>2 DEF Pair
  <2>2. f' = f /\ keptTail' = keptTail
    OBVIOUS
  <2>3. ASSUME Booked(a) PROVE BookedNext(a)
    <3>1. Backed(matchIndex, a)' /\ Backed(commitIndex, a)'
      BY <2>3
    <3>2. \A t \in Slot : Kept(calls'[t], a)
      BY <2>3 DEF Booked, Kept
    <3>3. Clean(f', a)
      BY <2>2, <2>3 DEF Booked
    <3> QED
      BY <3>1, <3>2, <3>3 DEF BookedNext
  <2> QED
    BY <2>1, <2>2, <2>3
<1> QED
  BY <1>1, <1>3, <1>4, StepInv

LEMMA ClientCommandKeeps ==
    ASSUME CatchUpInv, ClientCommand
    PROVE  CatchUpInv'
<1>1. /\ Running /\ log' = Append(log, Term)
      /\ UNCHANGED <<state, lastIncludedIndex, commitIndex, nextIndex, matchIndex,
                     otherMatch, f, calls, failures, keptTail>>
  BY DEF ClientCommand
<1>2. TypeOK /\ LeaderOK
  BY DEF CatchUpInv
<1>3. log \in Seq({OldTerm, Term}) /\ Len(log) \in Nat /\ commitIndex \in Nat /\ otherMatch \in Nat
  BY <1>2, Types
<1>4. /\ log' \in Seq({OldTerm, Term}) /\ Len(log') = Len(log) + 1
      /\ \A n \in 1..Len(log) : log'[n] = log[n]
      /\ log'[Len(log) + 1] = Term
  BY <1>1, <1>3, AppendProperties
<1>5. TypeOK'
  <2>1. state' \in {"Leader", "Follower"}
    BY <1>1, <1>2 DEF TypeOK
  <2> QED
    BY <1>1, <1>2, <1>4, <2>1, Types, TypesNext
<1>6. Grown
  BY <1>1, <1>3, <1>4 DEF Grown
<1>7. LeaderOK'
  <2>1. PICK l \in Nat : l = Len(log)
    BY <1>3
  <2>2. /\ l > Old /\ lastIncludedIndex <= commitIndex /\ commitIndex <= l /\ Old \in Nat
        /\ \A n \in 1..l : log[n] = IF n <= Old THEN OldTerm ELSE Term
    BY <1>2, <2>1, Constants DEF LeaderOK
  <2>3. l + 1 > Old /\ commitIndex <= l + 1 /\ ~(l + 1 <= Old)
    BY <1>3, <2>2
  <2>4. \A n \in 1..(l + 1) : n \in 1..l \/ n = l + 1
    OBVIOUS
  <2>5. \A n \in 1..(l + 1) : log'[n] = IF n <= Old THEN OldTerm ELSE Term
    BY <1>4, <2>1, <2>2, <2>3, <2>4
  <2>6. Len(log') = l + 1
    BY <1>4, <2>1
  <2> QED
    BY <1>1, <2>2, <2>3, <2>5, <2>6 DEF LeaderOK
<1>8. \A a \in Nat : Booked(a) => Backed(matchIndex, a)' /\ Backed(commitIndex, a)'
  BY <1>1 DEF Booked, Backed
<1>9. \A t \in Slot : calls'[t] = calls[t]
  BY <1>1
<1> QED
  BY <1>1, <1>5, <1>6, <1>7, <1>8, <1>9, LeaderStep

\* The commit loop keeps the leader's side.
LEMMA CommitKeeps ==
    ASSUME TypeOK, LeaderOK, NEW match \in Nat, NEW other \in Nat, Commit(match, other),
           log' = log, otherMatch' \in Nat, otherMatch <= otherMatch', other = otherMatch'
    PROVE  /\ Grown /\ LeaderOK' /\ commitIndex' \in Nat /\ lastIncludedIndex' \in Nat
           /\ \A a \in Nat : Backed(commitIndex, a) /\ (match <= Old \/ match <= a \/ match <= other)
                                => Backed(commitIndex, a)'
<1>1. /\ commitIndex' \in Nat /\ commitIndex <= commitIndex' /\ commitIndex' <= Len(log)
      /\ lastIncludedIndex' \in Nat /\ lastIncludedIndex' <= commitIndex'
      /\ commitIndex' = commitIndex \/ commitIndex' <= match \/ commitIndex' <= other
  BY CommitSteps
<1>2. /\ Len(log) \in Nat /\ commitIndex \in Nat /\ otherMatch \in Nat /\ Old \in Nat
  BY Types, Constants
<1>3. Grown
  BY <1>1, <1>2 DEF Grown
<1>4. LeaderOK'
  BY <1>1 DEF LeaderOK
<1>5. ASSUME NEW a \in Nat, Backed(commitIndex, a), match <= Old \/ match <= a \/ match <= other
      PROVE  Backed(commitIndex, a)'
  <2>1. commitIndex' <= Old \/ commitIndex' <= a \/ commitIndex' <= otherMatch'
    <3>1. commitIndex <= Old \/ commitIndex <= a \/ commitIndex <= otherMatch
      BY <1>5 DEF Backed
    <3>2. PICK k \in Nat, o \in Nat : k = commitIndex' /\ o = otherMatch'
      BY <1>1
    <3> QED
      BY <1>1, <1>2, <1>5, <3>1, <3>2
  <2> QED
    BY <2>1 DEF Backed
<1> QED
  BY <1>1, <1>3, <1>4, <1>5

LEMMA OtherAckKeeps ==
    ASSUME CatchUpInv, NEW n \in 1..MaxIndex, OtherAck(n)
    PROVE  CatchUpInv'
<1>1. /\ Running /\ n \in (otherMatch + 1)..Len(log) /\ otherMatch' = n
      /\ Commit(matchIndex, n)
      /\ UNCHANGED <<state, log, nextIndex, matchIndex, f, calls, failures, keptTail>>
  BY DEF OtherAck
<1>2. TypeOK /\ LeaderOK
  BY DEF CatchUpInv
<1>3. /\ Len(log) \in Nat /\ otherMatch \in Nat /\ matchIndex \in Nat /\ n \in Nat
      /\ otherMatch <= n
  BY <1>1, <1>2, Types
<1>4. /\ Grown /\ LeaderOK' /\ commitIndex' \in Nat /\ lastIncludedIndex' \in Nat
      /\ \A a \in Nat : Backed(commitIndex, a)
            /\ (matchIndex <= Old \/ matchIndex <= a \/ matchIndex <= n) => Backed(commitIndex, a)'
  BY <1>1, <1>2, <1>3, CommitKeeps
<1>5. TypeOK'
  <2>1. state' \in {"Leader", "Follower"}
    BY <1>1, <1>2 DEF TypeOK
  <2> QED
    BY <1>1, <1>2, <1>3, <1>4, <2>1, Types, TypesNext
<1>6. ASSUME NEW a \in Nat, Booked(a)
      PROVE  Backed(matchIndex, a)' /\ Backed(commitIndex, a)'
  <2>1. Backed(matchIndex, a) /\ Backed(commitIndex, a)
    BY <1>6 DEF Booked
  <2>2. matchIndex <= Old \/ matchIndex <= a \/ matchIndex <= n
    BY <1>3, <2>1 DEF Backed
  <2>3. Backed(matchIndex, a)'
    BY <1>1, <2>2 DEF Backed
  <2> QED
    BY <1>4, <2>1, <2>2, <2>3
<1>7. \A t \in Slot : calls'[t] = calls[t]
  BY <1>1
<1> QED
  BY <1>1, <1>4, <1>5, <1>6, <1>7, LeaderStep

LEMMA HandleAppendReplyKeeps ==
    ASSUME CatchUpInv, NEW s \in Slot, HandleAppendReply(s)
    PROVE  CatchUpInv'
<1>1. PICK m : m = calls[s]
  OBVIOUS
<1>2. /\ Running /\ m.kind = "appendReply" /\ calls' = [calls EXCEPT ![s] = Free]
      /\ log' = log /\ otherMatch' = otherMatch /\ f' = f /\ failures' = failures
      /\ keptTail' = keptTail
  BY <1>1 DEF HandleAppendReply
<1>3. TypeOK /\ LeaderOK
  BY DEF CatchUpInv
<1>4. /\ log \in Seq({OldTerm, Term}) /\ Len(log) \in Nat /\ lastIncludedIndex \in Nat
      /\ commitIndex \in Nat /\ matchIndex \in Nat /\ otherMatch \in Nat /\ failures \in Nat
      /\ nextIndex \in Nat /\ nextIndex >= 1 /\ keptTail \in BOOLEAN /\ f \in Follower
      /\ calls \in [Slot -> Call]
  BY <1>3, Types
<1>5. PICK k \in Nat : k = m.match
  BY <1>1, <1>2, <1>4, CallFields
<1>6. NextAfter(k) \in Nat /\ NextAfter(k) >= 1
  BY DEF NextAfter
<1>7. /\ calls' \in [Slot -> Call] /\ calls'[s] = Free
      /\ \A t \in Slot : t # s => calls'[t] = calls[t]
  BY <1>2, <1>3, FreeIsCall, CallsStep
<1>8. \A t \in Slot : \/ calls'[t] = calls[t]
                      \/ CallOK(calls'[t]) /\ calls'[t].kind # "appendReply"
  BY <1>7, FreeIsCall
<1>9. state \in {"Leader", "Follower"}
  BY <1>3 DEF TypeOK
<1>10. CASE /\ ~m.newer /\ m.success /\ matchIndex' = m.match
            /\ nextIndex' = NextAfter(m.match) /\ Commit(m.match, otherMatch)
            /\ state' = state
  <2>1. Commit(k, otherMatch) /\ nextIndex' = NextAfter(k) /\ matchIndex' = k
    BY <1>5, <1>10
  <2>2. otherMatch <= otherMatch' /\ otherMatch' \in Nat
    BY <1>2, <1>4
  <2>3. /\ Grown /\ LeaderOK' /\ commitIndex' \in Nat /\ lastIncludedIndex' \in Nat
        /\ \A a \in Nat : Backed(commitIndex, a) /\ (k <= Old \/ k <= a \/ k <= otherMatch)
                             => Backed(commitIndex, a)'
    BY <1>2, <1>3, <1>4, <2>1, <2>2, CommitKeeps
  <2>4. TypeOK'
    BY <1>2, <1>4, <1>6, <1>7, <1>9, <1>10, <2>1, <2>3, TypesNext
  <2>5. ASSUME NEW a \in Nat, Booked(a)
        PROVE  Backed(matchIndex, a)' /\ Backed(commitIndex, a)'
    <3>1. k <= a /\ Backed(commitIndex, a)
      BY <1>1, <1>2, <1>5, <1>10, <2>5 DEF Booked, Kept
    <3>2. Backed(matchIndex, a)'
      BY <2>1, <3>1 DEF Backed
    <3> QED
      BY <2>3, <3>1, <3>2
  <2> QED
    BY <1>2, <1>8, <2>3, <2>4, <2>5, LeaderStep
<1>11. CASE /\ state' \in {"Leader", "Follower"} /\ nextIndex' \in {nextIndex, NextAfter(m.match)}
            /\ lastIncludedIndex' = lastIncludedIndex /\ commitIndex' = commitIndex
            /\ matchIndex' = matchIndex
  <2>1. nextIndex' \in Nat /\ nextIndex' >= 1
    BY <1>4, <1>5, <1>6, <1>11
  <2>2. TypeOK'
    BY <1>2, <1>4, <1>7, <1>11, <2>1, TypesNext
  <2>3. LeaderOK' /\ Grown
    BY <1>2, <1>3, <1>4, <1>11 DEF LeaderOK, Grown
  <2>4. \A a \in Nat : Booked(a) => Backed(matchIndex, a)' /\ Backed(commitIndex, a)'
    BY <1>2, <1>11 DEF Booked, Backed
  <2> QED
    BY <1>2, <1>8, <2>2, <2>3, <2>4, LeaderStep
<1> QED
  BY <1>1, <1>9, <1>10, <1>11 DEF HandleAppendReply

LEMMA HandleChunkReplyKeeps ==
    ASSUME CatchUpInv, NEW s \in Slot, HandleChunkReply(s)
    PROVE  CatchUpInv'
<1>1. PICK m : m = calls[s]
  OBVIOUS
<1>2. /\ Running /\ m.kind = "chunkReply"
      /\ UNCHANGED <<log, lastIncludedIndex, commitIndex, otherMatch, f, failures, keptTail>>
  BY <1>1 DEF HandleChunkReply
<1>3. TypeOK /\ LeaderOK
  BY DEF CatchUpInv
<1>4. /\ log \in Seq({OldTerm, Term}) /\ Len(log) \in Nat /\ lastIncludedIndex \in Nat
      /\ commitIndex \in Nat /\ matchIndex \in Nat /\ otherMatch \in Nat /\ failures \in Nat
      /\ nextIndex \in Nat /\ nextIndex >= 1 /\ keptTail \in BOOLEAN /\ f \in Follower
      /\ calls \in [Slot -> Call]
  BY <1>3, Types
<1>5. m \in ChunkReply /\ m.snap \in Nat /\ m.piece \in 1..Chunks /\ CallOK(m)
  BY <1>1, <1>2, <1>4, CallFields DEF CatchUpInv
<1>6. NextAfter(lastIncludedIndex) \in Nat /\ NextAfter(lastIncludedIndex) >= 1
  BY <1>4 DEF NextAfter
<1>7. PICK x \in Call : /\ calls' = [calls EXCEPT ![s] = x]
                        /\ CallOK(x) /\ x.kind # "appendReply"
  <2>1. CASE calls' = [calls EXCEPT ![s] = Free]
    BY <2>1, FreeIsCall
  <2>2. CASE m.piece < Chunks /\ calls' = [calls EXCEPT ![s] = NextPiece(m)]
    <3>1. PICK x : x = NextPiece(m)
      OBVIOUS
    <3>2. m.piece + 1 \in 1..Chunks
      BY <1>5, <2>2, Constants
    <3>3. x \in ChunkCall /\ x.kind = "chunk" /\ x.snap = m.snap
      BY <1>5, <3>1, <3>2 DEF NextPiece, ChunkCall
    <3>4. x \in Call /\ CallOK(x) /\ x.kind # "appendReply"
      BY <1>2, <1>5, <3>3 DEF Call, CallOK
    <3> QED
      BY <2>2, <3>1, <3>4
  <2> QED
    BY <1>1, <2>1, <2>2 DEF HandleChunkReply
<1>8. /\ calls' \in [Slot -> Call] /\ calls'[s] = x
      /\ \A t \in Slot : t # s => calls'[t] = calls[t]
  BY <1>3, <1>7, CallsStep
<1>9. \A t \in Slot : \/ calls'[t] = calls[t]
                      \/ CallOK(calls'[t]) /\ calls'[t].kind # "appendReply"
  BY <1>7, <1>8
<1>10. /\ state' \in {"Leader", "Follower"}
       /\ \/ nextIndex' = nextIndex /\ matchIndex' = matchIndex
          \/ nextIndex' = NextAfter(lastIncludedIndex) /\ matchIndex' = lastIncludedIndex
  <2>1. state \in {"Leader", "Follower"}
    BY <1>3 DEF TypeOK
  <2> QED
    BY <1>1, <2>1 DEF HandleChunkReply
<1>11. TypeOK'
  <2>1. nextIndex' \in Nat /\ nextIndex' >= 1 /\ matchIndex' \in Nat
    BY <1>4, <1>6, <1>10
  <2> QED
    BY <1>2, <1>4, <1>8, <1>10, <2>1, TypesNext
<1>12. LeaderOK' /\ Grown
  BY <1>2, <1>3, <1>4 DEF LeaderOK, Grown
<1>13. ASSUME NEW a \in Nat, Booked(a)
       PROVE  Backed(matchIndex, a)' /\ Backed(commitIndex, a)'
  <2>1. Backed(matchIndex, a) /\ Backed(commitIndex, a) /\ lastIncludedIndex <= commitIndex
    BY <1>3, <1>13 DEF Booked, LeaderOK
  <2>2. Backed(lastIncludedIndex, a)
    BY <1>4, <2>1, Constants DEF Backed
  <2>3. Backed(matchIndex', a)
    BY <1>10, <2>1, <2>2
  <2> QED
    BY <1>2, <2>1, <2>3 DEF Backed
<1> QED
  BY <1>2, <1>9, <1>11, <1>12, <1>13, LeaderStep

LEMMA TermTaken ==
    ASSUME TypeOK, NEW g, g = [f EXCEPT !.term = Max({@, Term})]
    PROVE  g \in Follower /\ SameLog(f, g) /\ g.snapshotBuf = f.snapshotBuf
<1>1. f \in Follower /\ f.term \in Nat /\ Term \in Nat
  BY Types, Fields DEF Term
<1>2. PICK t \in Nat : t = Max({f.term, Term})
  BY <1>1, MaxOfTwo
<1>3. g = [f EXCEPT !.term = t]
  BY <1>2
<1> QED
  BY <1>1, <1>3 DEF Follower, SameLog

\* An append at index 0 is never refused, so a refusal names an index.
LEMMA HintNamesIndex ==
    ASSUME TypeOK, LeaderOK, NEW g \in Follower, NEW a \in Nat, Split(g, a),
           NEW m \in AppendCall, RequestOK(m), ~PrevMatches(g, m)
    PROVE  Hint(g, m) \in Nat
<1>1. PICK p \in Nat : p = m.prev
  BY DEF AppendCall
<1>2. Last(g) \in Nat /\ g.lastIncludedIndex \in Nat /\ Len(log) \in Nat
  BY Fields, Types
<1>3. CASE p = 0
  <2>1. m.prevTerm = 0
    BY <1>1, <1>2, <1>3 DEF RequestOK
  <2>2. p <= Last(g) /\ (p >= g.lastIncludedIndex => p = g.lastIncludedIndex)
    BY <1>2, <1>3
  <2>3. p >= g.lastIncludedIndex => TermAt(g, p) = 0
    BY <1>3, <2>2, TermsOf
  <2>4. PrevMatches(g, m)
    BY <1>1, <2>1, <2>2, <2>3 DEF PrevMatches
  <2> QED
    BY <2>4
<1>4. CASE p > 0
  <2>1. p - 1 \in Nat
    BY <1>4
  <2> QED
    BY <1>1, <1>2, <2>1 DEF Hint
<1> QED
  BY <1>3, <1>4

\* What an append does at the follower, and what the reply x promises.
Appending(a, h, x) ==
    /\ h \in Follower /\ Sound(h) /\ h.snapshotBuf = f.snapshotBuf
    /\ x \in Call /\ x.kind \in {"free", "appendReply"}
    /\ \E b \in Nat : /\ a <= b /\ Split(h, b)
                      /\ Clean(f, a) => Clean(h, b) /\ Kept(x, b)

LEMMA ReplyIsCall ==
    ASSUME NEW g, NEW h, NEW m, NEW newer \in BOOLEAN, NEW x, x = ReplyTo(g, h, m, newer),
           newer \/ (IF PrevMatches(g, m) THEN Last(h) ELSE Hint(g, m)) \in Nat
    PROVE  /\ x \in Call /\ x.kind = "appendReply"
           /\ x.success => ~newer /\ PrevMatches(g, m) /\ x.match = Last(h)
<1>1. PICK k : k = CASE newer -> 0
                     [] ~newer /\ PrevMatches(g, m) -> Last(h)
                     [] ~newer /\ ~PrevMatches(g, m) -> Hint(g, m)
  OBVIOUS
<1>2. PICK y \in BOOLEAN : y = (~newer /\ PrevMatches(g, m))
  OBVIOUS
<1>3. k \in Nat /\ (~newer /\ PrevMatches(g, m) => k = Last(h))
  BY <1>1
<1>4. x = [kind |-> "appendReply", newer |-> newer, success |-> y, match |-> k]
  BY <1>1, <1>2 DEF ReplyTo
<1>5. x.kind = "appendReply" /\ x.success = y /\ x.match = k
  BY <1>4
<1>6. x \in AppendReply
  BY <1>3, <1>4 DEF AppendReply
<1> QED
  BY <1>2, <1>3, <1>5, <1>6 DEF Call

LEMMA AppendDelivered ==
    ASSUME TypeOK, LeaderOK, Sound(f), NEW a \in Nat, Split(f, a),
           NEW m \in AppendCall, RequestOK(m),
           NEW newer \in BOOLEAN,
           NEW g \in Follower, SameLog(f, g), g.snapshotBuf = f.snapshotBuf,
           NEW h, h = IF newer THEN f ELSE AppendEntries(g, m),
           NEW x, x = ReplyTo(g, h, m, newer)
    PROVE  Appending(a, h, x)
<1>1. f \in Follower
  BY Types
<1>2. Split(g, a) /\ (Clean(f, a) => Clean(g, a)) /\ Sound(g)
  BY <1>1, SameLogSplit
<1>3. CASE newer
  <2>1. h = f
    BY <1>3
  <2>2. x \in Call /\ x.kind = "appendReply" /\ ~x.success
    BY <1>3, ReplyIsCall
  <2>3. Kept(x, a)
    BY <2>2 DEF Kept
  <2> QED
    BY <1>1, <2>1, <2>2, <2>3 DEF Appending
<1>4. CASE ~newer /\ ~PrevMatches(g, m)
  <2>1. h = g
    BY <1>4 DEF AppendEntries
  <2>2. Hint(g, m) \in Nat
    BY <1>1, <1>2, <1>4, HintNamesIndex
  <2>3. x \in Call /\ x.kind = "appendReply" /\ ~x.success
    BY <1>4, <2>2, ReplyIsCall
  <2>4. Kept(x, a)
    BY <2>3 DEF Kept
  <2> QED
    BY <1>1, <1>2, <2>1, <2>3, <2>4 DEF Appending
<1>5. CASE ~newer /\ PrevMatches(g, m)
  <2>1. h = AppendEntries(g, m)
    BY <1>5
  <2>2. /\ h \in Follower /\ Sound(h) /\ h.snapshotBuf = g.snapshotBuf
        /\ \E b \in Nat : a <= b /\ Split(h, b) /\ (Clean(g, a) => b = Last(h))
    BY <1>1, <1>2, <1>5, <2>1, AppendEntriesSplit
  <2>3. PICK b \in Nat : a <= b /\ Split(h, b) /\ (Clean(g, a) => b = Last(h))
    BY <2>2
  <2>4. Last(h) \in Nat
    BY <2>2, Fields
  <2>5. x \in Call /\ x.kind = "appendReply" /\ (x.success => x.match = Last(h))
    BY <1>5, <2>4, ReplyIsCall
  <2>6. Clean(f, a) => Clean(h, b) /\ Kept(x, b)
    <3>1. SUFFICES ASSUME Clean(f, a) PROVE Clean(h, b) /\ Kept(x, b)
      OBVIOUS
    <3>2. b = Last(h)
      BY <1>2, <2>3, <3>1
    <3>3. x.success => x.match <= b
      BY <2>5, <3>2
    <3> QED
      BY <3>2, <3>3 DEF Clean, Kept
  <2> QED
    BY <1>1, <2>2, <2>3, <2>5, <2>6 DEF Appending
<1> QED
  BY <1>3, <1>4, <1>5

LEMMA DeliverAppendKeeps ==
    ASSUME CatchUpInv, NEW s \in Slot, Deliver(s), calls[s].kind = "append"
    PROVE  CatchUpInv' /\ Sound(f')
<1>1. PICK m : m = calls[s]
  OBVIOUS
<1>2. PICK newer \in BOOLEAN : newer <=> f.term > Term
  <2>1. CASE f.term > Term
    <3> WITNESS TRUE \in BOOLEAN
    <3> QED
      BY <2>1
  <2>2. CASE ~(f.term > Term)
    <3> WITNESS FALSE \in BOOLEAN
    <3> QED
      BY <2>2
  <2> QED
    BY <2>1, <2>2
<1>3. PICK g : g = [f EXCEPT !.term = Max({@, Term})]
  OBVIOUS
<1>4. /\ Running /\ f' = IF newer THEN f ELSE AppendEntries(g, m)
      /\ calls' = [calls EXCEPT ![s] = IF m.awaited THEN ReplyTo(g, f', m, newer) ELSE Free]
      /\ keptTail' = keptTail /\ UNCHANGED leader /\ failures' = failures
  BY <1>1, <1>2, <1>3 DEF Deliver
<1>5. /\ TypeOK /\ LeaderOK /\ PiecesOK(f.snapshotBuf) /\ Sound(f)
      /\ \A t \in Slot : CallOK(calls[t])
  BY <1>4, RunningPair
<1>6. PICK a \in Nat : Pair(a)
  BY <1>4, RunningPair
<1>7. calls \in [Slot -> Call] /\ failures' \in Nat /\ keptTail' \in BOOLEAN /\ matchIndex \in Nat
      /\ commitIndex \in Nat
  BY <1>4, <1>5, Types
<1>8. m \in AppendCall /\ RequestOK(m)
  BY <1>1, <1>5, <1>7, CallFields DEF CallOK
<1>9. PICK r : r = ReplyTo(g, f', m, newer)
  OBVIOUS
<1>10. Appending(a, f', r)
  <2>1. Split(f, a)
    BY <1>6 DEF Pair
  <2>2. PICK h : h = f'
    OBVIOUS
  <2>3. h = (IF newer THEN f ELSE AppendEntries(g, m)) /\ r = ReplyTo(g, h, m, newer)
    BY <1>4, <1>9, <2>2
  <2>4. Appending(a, h, r)
    BY <1>3, <1>5, <1>8, <2>1, <2>3, TermTaken, AppendDelivered
  <2> QED
    BY <2>2, <2>4
<1>11. /\ f' \in Follower /\ Sound(f') /\ f'.snapshotBuf = f.snapshotBuf
       /\ r \in Call /\ r.kind \in {"free", "appendReply"}
  BY <1>10 DEF Appending
<1>12. PICK b \in Nat : /\ a <= b /\ Split(f', b)
                        /\ Clean(f, a) => Clean(f', b) /\ Kept(r, b)
  BY <1>10 DEF Appending
<1>13. PICK x \in Call : /\ x.kind \in {"free", "appendReply"} /\ (Kept(r, b) => Kept(x, b))
                         /\ calls' = [calls EXCEPT ![s] = x]
  <2>1. CASE m.awaited
    BY <1>4, <1>9, <1>11, <2>1
  <2>2. CASE ~m.awaited
    <3>1. Kept(Free, b) /\ Free.kind = "free"
      BY DEF Kept, Free
    <3> QED
      BY <1>4, <2>2, <3>1, FreeIsCall
  <2> QED
    BY <2>1, <2>2
<1>14. /\ calls' \in [Slot -> Call] /\ calls'[s] = x
       /\ \A t \in Slot : t # s => calls'[t] = calls[t]
  BY <1>5, <1>13, CallsStep
<1>15. CallOK(x)
  BY <1>13 DEF CallOK
<1>16. \A t \in Slot : CallOK(calls'[t])
  BY <1>5, <1>14, <1>15
<1>17. ASSUME Booked(a)
       PROVE  /\ Clean(f', b) /\ Backed(matchIndex, b) /\ Backed(commitIndex, b)
              /\ \A t \in Slot : Kept(calls'[t], b)
  <2>1. /\ Clean(f, a) /\ Backed(matchIndex, a) /\ Backed(commitIndex, a)
        /\ \A t \in Slot : Kept(calls[t], a)
    BY <1>17 DEF Booked
  <2>2. Backed(matchIndex, b) /\ Backed(commitIndex, b)
    BY <1>5, <1>7, <1>12, <2>1, BackedMore
  <2>3. \A t \in Slot : Kept(calls[t], b)
    BY <1>7, <1>12, <2>1, KeptMore
  <2>4. Clean(f', b) /\ Kept(x, b)
    BY <1>12, <1>13, <2>1
  <2> QED
    BY <1>14, <2>2, <2>3, <2>4
<1>18. keptTail' \/ Booked(a)
  BY <1>4, <1>6 DEF Pair
<1>19. PiecesOK(f'.snapshotBuf) /\ UNCHANGED leader
  BY <1>4, <1>5, <1>11
<1>20. CatchUpInv'
  BY <1>7, <1>11, <1>12, <1>14, <1>16, <1>17, <1>18, <1>19, FollowerStep
<1> QED
  BY <1>11, <1>20

\* The step of OnlyOldSnapshots: a piece of a snapshot is delivered, and what
\* is in the buffer then is older than what the follower applied, or mixed.
Harm ==
    \E s \in Slot :
       LET buf == Buffered(f, calls[s]) IN
       /\ calls[s].kind = "chunk"
       /\ buf[1] < f.lastApplied \/ ~Whole(buf)

\* What a piece that is taken in does at the follower.
Piecing(a, h, kept) ==
    /\ h \in Follower /\ PiecesOK(h.snapshotBuf) /\ (~Sound(h) => Harm)
    /\ kept \in BOOLEAN
    /\ Sound(h) => \E b \in Nat : /\ a <= b /\ Split(h, b)
                                  /\ Clean(f, a) /\ ~kept => Clean(h, b)
    /\ keptTail => kept

LEMMA PieceDelivered ==
    ASSUME TypeOK, LeaderOK, PiecesOK(f.snapshotBuf), Sound(f), NEW a \in Nat, Split(f, a),
           NEW s \in Slot, calls[s] \in ChunkCall, calls[s].kind = "chunk",
           Snapshot(calls[s].snap),
           NEW g \in Follower, SameLog(f, g), g.snapshotBuf = f.snapshotBuf,
           NEW h \in InstallSnapshot(g, calls[s]),
           NEW kept, kept = (keptTail \/ (h.kv # g.kv /\ Stray(h)))
    PROVE  Piecing(a, h, kept)
<1>1. Split(g, a) /\ Sound(g) /\ (Clean(f, a) => Clean(g, a)) /\ PiecesOK(g.snapshotBuf)
  BY SameLogSplit
<1>2. PICK buf : buf = Buffered(g, calls[s])
  OBVIOUS
<1>3. Installed(g, a, buf, h)
  BY <1>1, <1>2, InstallSplit
<1>4. buf = Buffered(f, calls[s]) /\ g.lastApplied = f.lastApplied
  BY <1>2 DEF Buffered, SameLog
<1>5. ~Sound(h) => Harm
  BY <1>3, <1>4 DEF Installed, Harm
<1>6. kept \in BOOLEAN /\ (kept <=> keptTail \/ (h.kv # g.kv /\ Stray(h)))
  <2>1. keptTail \in BOOLEAN
    BY Types
  <2> QED
    BY <2>1
<1>7. ASSUME Sound(h)
      PROVE  \E b \in Nat : a <= b /\ Split(h, b) /\ (Clean(f, a) /\ ~kept => Clean(h, b))
  <2>1. PICK b \in Nat : /\ a <= b /\ Split(h, b)
                         /\ Clean(g, a) /\ ~(h.kv # g.kv /\ Stray(h)) => Clean(h, b)
    BY <1>3, <1>7 DEF Installed
  <2> QED
    BY <1>1, <1>6, <2>1
<1>8. h \in Follower /\ PiecesOK(h.snapshotBuf)
  BY <1>3 DEF Installed
<1> QED
  BY <1>5, <1>6, <1>7, <1>8 DEF Piecing

LEMMA DeliverChunkKeeps ==
    ASSUME CatchUpInv, NEW s \in Slot, Deliver(s), calls[s].kind = "chunk"
    PROVE  CatchUpInv' /\ (~Sound(f') => Harm)
<1>1. PICK m : m = calls[s]
  OBVIOUS
<1>2. PICK g : g = [f EXCEPT !.term = Max({@, Term})]
  OBVIOUS
<1>3. /\ Running /\ UNCHANGED leader /\ failures' = failures
      /\ \/ f' = f /\ keptTail' = keptTail
         \/ \E h \in InstallSnapshot(g, m) :
               f' = h /\ keptTail' = (keptTail \/ (h.kv # g.kv /\ Stray(h)))
      /\ calls' = [calls EXCEPT ![s] =
            IF m.awaited
            THEN [kind |-> "chunkReply", newer |-> f.term > Term, snap |-> m.snap,
                  piece |-> m.piece]
            ELSE Free]
  BY <1>1, <1>2 DEF Deliver
<1>4. /\ TypeOK /\ LeaderOK /\ PiecesOK(f.snapshotBuf) /\ Sound(f)
      /\ \A t \in Slot : CallOK(calls[t])
  BY <1>3, RunningPair
<1>5. PICK a \in Nat : Pair(a)
  BY <1>3, RunningPair
<1>6. /\ calls \in [Slot -> Call] /\ failures' \in Nat /\ matchIndex \in Nat
      /\ commitIndex \in Nat /\ f \in Follower /\ keptTail \in BOOLEAN
  BY <1>3, <1>4, Types
<1>7. m \in ChunkCall /\ m.snap \in Nat /\ m.piece \in 1..Chunks /\ CallOK(m) /\ Snapshot(m.snap)
  BY <1>1, <1>4, <1>6, CallFields DEF CallOK
<1>8. g \in Follower /\ SameLog(f, g) /\ g.snapshotBuf = f.snapshotBuf
  BY <1>2, <1>4, TermTaken
<1>9. Piecing(a, f', keptTail')
  <2>1. Split(f, a)
    BY <1>5 DEF Pair
  <2>2. CASE f' = f /\ keptTail' = keptTail
    BY <1>4, <1>6, <2>1, <2>2 DEF Piecing
  <2>3. ASSUME NEW h \in InstallSnapshot(g, m), f' = h,
               keptTail' = (keptTail \/ (h.kv # g.kv /\ Stray(h)))
        PROVE  Piecing(a, f', keptTail')
    <3>1. PICK k : k = keptTail'
      OBVIOUS
    <3>2. k = (keptTail \/ (h.kv # g.kv /\ Stray(h)))
      BY <2>3, <3>1
    <3>3. Piecing(a, h, k)
      BY <1>1, <1>4, <1>7, <1>8, <2>1, <3>2, PieceDelivered
    <3> QED
      BY <2>3, <3>1, <3>3
  <2> QED
    BY <1>3, <2>2, <2>3
<1>10. /\ f' \in Follower /\ PiecesOK(f'.snapshotBuf) /\ (~Sound(f') => Harm)
       /\ keptTail' \in BOOLEAN /\ (keptTail => keptTail')
       /\ Sound(f') => \E b \in Nat : /\ a <= b /\ Split(f', b)
                                      /\ Clean(f, a) /\ ~keptTail' => Clean(f', b)
  BY <1>9 DEF Piecing
<1>11. PICK x \in Call : /\ CallOK(x) /\ x.kind # "appendReply"
                         /\ calls' = [calls EXCEPT ![s] = x]
  <2>1. CASE m.awaited
    <3>1. PICK x : x = [kind |-> "chunkReply", newer |-> f.term > Term, snap |-> m.snap,
                        piece |-> m.piece]
      OBVIOUS
    <3>2. x \in ChunkReply /\ x.kind = "chunkReply" /\ x.snap = m.snap
      BY <1>7, <3>1 DEF ChunkReply
    <3>3. x \in Call /\ CallOK(x) /\ x.kind # "appendReply"
      BY <1>7, <3>2 DEF Call, CallOK
    <3> QED
      BY <1>3, <2>1, <3>1, <3>3
  <2>2. CASE ~m.awaited
    BY <1>3, <2>2, FreeIsCall
  <2> QED
    BY <2>1, <2>2
<1>12. /\ calls' \in [Slot -> Call] /\ calls'[s] = x
       /\ \A t \in Slot : t # s => calls'[t] = calls[t]
  BY <1>4, <1>11, CallsStep
<1>13. \A t \in Slot : CallOK(calls'[t])
  BY <1>4, <1>11, <1>12
<1>14. ASSUME Sound(f')
       PROVE  \E b \in Nat :
                 /\ Split(f', b)
                 /\ \/ keptTail'
                    \/ /\ Clean(f', b) /\ Backed(matchIndex, b) /\ Backed(commitIndex, b)
                       /\ \A t \in Slot : Kept(calls'[t], b)
  <2>1. PICK b \in Nat : a <= b /\ Split(f', b) /\ (Clean(f, a) /\ ~keptTail' => Clean(f', b))
    BY <1>10, <1>14
  <2>2. ASSUME ~keptTail'
        PROVE  /\ Clean(f', b) /\ Backed(matchIndex, b) /\ Backed(commitIndex, b)
               /\ \A t \in Slot : Kept(calls'[t], b)
    <3>1. /\ Clean(f, a) /\ Backed(matchIndex, a) /\ Backed(commitIndex, a)
          /\ \A t \in Slot : Kept(calls[t], a)
      BY <1>5, <1>10, <2>2 DEF Pair, Booked
    <3>2. Backed(matchIndex, b) /\ Backed(commitIndex, b)
      BY <1>4, <1>6, <2>1, <3>1, BackedMore
    <3>3. \A t \in Slot : Kept(calls[t], b)
      BY <1>6, <2>1, <3>1, KeptMore
    <3>4. Kept(x, b)
      BY <1>11 DEF Kept
    <3> QED
      BY <1>12, <2>1, <2>2, <3>1, <3>2, <3>3, <3>4
  <2> QED
    BY <2>1, <2>2
<1>15. CatchUpInv'
  BY <1>3, <1>6, <1>10, <1>12, <1>13, <1>14, FollowerStep
<1> QED
  BY <1>10, <1>15
-----------------------------------------------------------------------------
(***************************************************************************)
(* The beginning.                                                          *)
(***************************************************************************)
LEMMA InitInv ==
    ASSUME Init
    PROVE  CatchUpInv
<1>1. PICK common \in 0..Old, stale \in 0..MaxStale :
         f = [term |-> StaleTerm,
              log |-> [n \in 1..(common + stale) |->
                          IF n <= common THEN OldTerm ELSE StaleTerm],
              lastIncludedIndex |-> 0, lastIncludedTerm |-> 0,
              commitIndex |-> 0, lastApplied |-> 0,
              kv |-> [c \in 1..Chunks |-> 0], snapshotBuf |-> << >>]
  BY DEF Init
<1>2. /\ Old \in Nat /\ common \in Nat /\ common <= Old /\ stale \in Nat /\ Compacted \in Nat
      /\ Compacted <= Old /\ common + stale \in Nat /\ Old + 1 \in Nat /\ Chunks \in Nat
  BY Constants
<1>3. /\ log \in Seq({OldTerm, Term}) /\ Len(log) = Old + 1
      /\ \A n \in 1..(Old + 1) : log[n] = IF n <= Old THEN OldTerm ELSE Term
  <2>1. log = [n \in 1..(Old + 1) |-> IF n <= Old THEN OldTerm ELSE Term]
    BY DEF Init
  <2>2. log \in [1..(Old + 1) -> {OldTerm, Term}]
    BY <2>1
  <2>3. log \in Seq({OldTerm, Term})
    BY <1>2, <2>2, IsASeq
  <2>4. DOMAIN log = 1..(Old + 1) /\ Len(log) \in Nat /\ DOMAIN log = 1..Len(log)
    BY <2>2, <2>3, LenProperties
  <2>5. Len(log) = Old + 1
    BY <1>2, <2>4
  <2> QED
    BY <2>1, <2>3, <2>5
<1>4. PICK lg : lg = [n \in 1..(common + stale) |-> IF n <= common THEN OldTerm ELSE StaleTerm]
  OBVIOUS
<1>5. /\ lg \in Seq({OldTerm, StaleTerm, Term}) /\ Len(lg) = common + stale
      /\ \A n \in 1..(common + stale) : lg[n] = IF n <= common THEN OldTerm ELSE StaleTerm
  <2>1. lg \in [1..(common + stale) -> {OldTerm, StaleTerm, Term}]
    BY <1>4
  <2>2. lg \in Seq({OldTerm, StaleTerm, Term})
    BY <1>2, <2>1, IsASeq
  <2>3. DOMAIN lg = 1..(common + stale) /\ Len(lg) \in Nat /\ DOMAIN lg = 1..Len(lg)
    BY <2>1, <2>2, LenProperties
  <2>4. Len(lg) = common + stale
    BY <1>2, <2>3
  <2> QED
    BY <1>4, <2>2, <2>4
<1>6. PICK kv \in [1..Chunks -> Nat] : kv = [c \in 1..Chunks |-> 0]
  OBVIOUS
<1>7. f = [term |-> StaleTerm, log |-> lg, lastIncludedIndex |-> 0, lastIncludedTerm |-> 0,
           commitIndex |-> 0, lastApplied |-> 0, kv |-> kv, snapshotBuf |-> << >>]
  BY <1>1, <1>4, <1>6
<1>8. << >> \in Seq(Nat) /\ Len(<< >>) = 0 /\ StaleTerm \in Nat
  BY EmptySeq DEF StaleTerm
<1>9. /\ f.log = lg /\ f.lastIncludedIndex = 0 /\ f.lastIncludedTerm = 0 /\ f.commitIndex = 0
      /\ f.lastApplied = 0 /\ f.kv = kv /\ f.snapshotBuf = << >>
  BY <1>7
<1>10. f \in Follower
  BY <1>5, <1>7, <1>8 DEF Follower
<1>11. \A s \in Slot : calls[s] = Free
  BY DEF Init
<1>12. calls \in [Slot -> Call]
  BY FreeIsCall DEF Init
<1>13. TypeOK
  <2>1. Old + 1 \in Nat \ {0}
    BY <1>2
  <2>2. /\ state = "Leader" /\ lastIncludedIndex = Compacted /\ commitIndex = Compacted
        /\ nextIndex = Old + 1 /\ matchIndex = 0 /\ otherMatch = 0 /\ failures = 0
        /\ keptTail = FALSE
    BY DEF Init
  <2>3. {lastIncludedIndex, commitIndex, matchIndex, otherMatch, failures} \subseteq Nat
    BY <1>2, <2>2
  <2>4. keptTail \in BOOLEAN /\ nextIndex \in Nat \ {0} /\ state \in {"Leader", "Follower"}
    BY <2>1, <2>2
  <2> QED
    BY <1>3, <1>10, <1>12, <2>3, <2>4 DEF TypeOK, Follower, Call
<1>14. LeaderOK
  <2>1. Old + 1 > Old /\ Compacted <= Compacted /\ Compacted <= Old + 1
    BY <1>2
  <2>2. lastIncludedIndex = Compacted /\ commitIndex = Compacted
    BY DEF Init
  <2> QED
    BY <1>3, <2>1, <2>2 DEF LeaderOK
<1>15. PiecesOK(f.snapshotBuf) /\ \A s \in Slot : CallOK(calls[s])
  BY <1>2, <1>8, <1>9, <1>11, FreeIsCall DEF PiecesOK
<1>16. Split(f, common)
  <2>1. Last(f) = 0 + (common + stale)
    BY <1>5, <1>9 DEF Last
  <2>2. /\ 0 <= common /\ common <= 0 + (common + stale) /\ common <= Old + 1
        /\ 0 <= Compacted
    BY <1>2
  <2>3. Agreeing(lg, 0, common)
    <3>1. \A i \in 1..(common + stale) :
             0 + i = i /\ (i <= common => i \in 1..(Old + 1) /\ i <= Old)
      BY <1>2
    <3>2. \A i \in 1..(common + stale) :
             lg[i] = IF 0 + i <= common THEN log[0 + i] ELSE StaleTerm
      BY <1>3, <1>5, <3>1
    <3> QED
      BY <1>5, <3>2 DEF Agreeing
  <2>4. commitIndex = Compacted
    BY DEF Init
  <2> QED
    BY <1>3, <1>9, <2>1, <2>2, <2>3, <2>4 DEF Split
<1>17. Booked(common)
  <2>1. Clean(f, common)
    BY <1>2, <1>9 DEF Clean
  <2>2. Backed(0, common) /\ Backed(Compacted, common)
    BY <1>2 DEF Backed
  <2>3. \A s \in Slot : Kept(calls[s], common)
    BY <1>11, FreeIsCall DEF Kept
  <2>4. matchIndex = 0 /\ commitIndex = Compacted
    BY DEF Init
  <2> QED
    BY <2>1, <2>2, <2>3, <2>4 DEF Booked
<1> QED
  BY <1>2, <1>13, <1>14, <1>15, <1>16, <1>17 DEF CatchUpInv, Pair
-----------------------------------------------------------------------------
(***************************************************************************)
(* Theorems.                                                               *)
(***************************************************************************)
\* A step keeps the invariant, and the state machine of the follower leaves
\* what it applied only in the way OnlyOldSnapshots names.
LEMMA StepKeeps ==
    ASSUME CatchUpInv, [Next]_vars
    PROVE  CatchUpInv' /\ (vars' # vars /\ ~Sound(f') => Harm)
<1>1. CASE UNCHANGED vars
  <2>1. /\ state' = state /\ log' = log /\ lastIncludedIndex' = lastIncludedIndex
        /\ commitIndex' = commitIndex /\ nextIndex' = nextIndex
        /\ matchIndex' = matchIndex /\ otherMatch' = otherMatch /\ f' = f
        /\ calls' = calls /\ failures' = failures /\ keptTail' = keptTail
    BY <1>1 DEF vars, leader
  <2>2. CatchUpInv'
    <3>1. /\ TypeOK /\ PiecesOK(f.snapshotBuf) /\ \A s \in Slot : CallOK(calls[s])
          /\ Sound(f) => \E a \in Nat : Pair(a)
      BY DEF CatchUpInv
    <3>2. UNCHANGED leader
      BY <2>1 DEF leader
    <3>3. /\ f' \in Follower /\ PiecesOK(f'.snapshotBuf) /\ calls' \in [Slot -> Call]
          /\ failures' \in Nat /\ keptTail' \in BOOLEAN
          /\ \A s \in Slot : CallOK(calls'[s])
      BY <2>1, <3>1, Types
    <3>4. ASSUME Sound(f')
          PROVE  \E b \in Nat :
                    /\ Split(f', b)
                    /\ \/ keptTail'
                       \/ /\ Clean(f', b) /\ Backed(matchIndex, b) /\ Backed(commitIndex, b)
                          /\ \A s \in Slot : Kept(calls'[s], b)
      <4>1. PICK b \in Nat : Pair(b)
        BY <2>1, <3>1, <3>4
      <4> QED
        BY <2>1, <4>1 DEF Pair, Booked
    <3> QED
      BY <3>2, <3>3, <3>4, FollowerStep
  <2> QED
    BY <1>1, <2>2
<1>2. ASSUME Running, f' = f PROVE Sound(f')
  BY <1>2 DEF Running
<1>3. ASSUME NEW s \in Slot, ReplicateToPeer(s) PROVE CatchUpInv' /\ Sound(f')
  BY <1>2, <1>3, ReplicateToPeerKeeps DEF ReplicateToPeer
<1>4. CASE ClientCommand
  BY <1>2, <1>4, ClientCommandKeeps DEF ClientCommand
<1>5. ASSUME NEW n \in 1..MaxIndex, OtherAck(n) PROVE CatchUpInv' /\ Sound(f')
  BY <1>2, <1>5, OtherAckKeeps DEF OtherAck
<1>6. ASSUME NEW s \in Slot, Deliver(s) PROVE CatchUpInv' /\ (~Sound(f') => Harm)
  <2>1. calls[s].kind = "append" \/ calls[s].kind = "chunk"
    BY <1>6 DEF Deliver
  <2>2. CASE calls[s].kind = "append"
    BY <1>6, <2>2, DeliverAppendKeeps
  <2>3. CASE calls[s].kind = "chunk"
    BY <1>6, <2>3, DeliverChunkKeeps
  <2> QED
    BY <2>1, <2>2, <2>3
<1>7. CASE LearnTerm
  BY <1>7, LearnTermKeeps
<1>8. ASSUME NEW s \in Slot, HandleAppendReply(s) PROVE CatchUpInv' /\ Sound(f')
  BY <1>2, <1>8, HandleAppendReplyKeeps DEF HandleAppendReply
<1>9. ASSUME NEW s \in Slot, HandleChunkReply(s) PROVE CatchUpInv' /\ Sound(f')
  BY <1>2, <1>9, HandleChunkReplyKeeps DEF HandleChunkReply
<1>10. ASSUME NEW s \in Slot, Fail(s) PROVE CatchUpInv' /\ Sound(f')
  BY <1>2, <1>10, FailKeeps DEF Fail
<1> QED
  BY <1>1, <1>3, <1>4, <1>5, <1>6, <1>7, <1>8, <1>9, <1>10 DEF Next

\* The invariant that carries the rest: while its state machine is sound, the
\* follower's log is the leader's up to some index and the lost leader's from
\* there on, requests, replies and pieces in flight speak of what the leader
\* has or had, and unless a tail was kept the leader's match index
\* (processAppendEntriesResponse, processInstallSnapshotResponse) promises no
\* more than the part that agrees.
THEOREM CatchUpAccounted == Spec => []CatchUpInv
<1>1. Init => CatchUpInv
  BY InitInv
<1>2. CatchUpInv /\ [Next]_vars => CatchUpInv'
  BY StepKeeps
<1> QED
  BY <1>1, <1>2, PTL DEF Spec

\* The variables keep their types; in particular a refused append names a
\* match index that is no less than 0, so nextIndex never falls below 1.
THEOREM CatchUpTypeCorrect == Spec => []TypeOK
<1>1. CatchUpInv => TypeOK
  BY DEF CatchUpInv
<1> QED
  BY <1>1, CatchUpAccounted, PTL

LEMMA AgreesBySplit ==
    ASSUME CatchUpInv
    PROVE  FollowerAgrees
<1>1. SUFFICES ASSUME Sound(f)
               PROVE  /\ f.lastApplied = f.commitIndex
                      /\ f.lastIncludedIndex <= f.commitIndex
                      /\ \A n \in 1..f.commitIndex : n <= Len(log) /\ Holds(n)
                      /\ f.lastIncludedIndex > 0 => f.lastIncludedTerm = log[f.lastIncludedIndex]
  BY DEF FollowerAgrees
<1>2. TypeOK /\ LeaderOK
  BY DEF CatchUpInv
<1>3. PICK a \in Nat : Split(f, a)
  BY <1>1 DEF CatchUpInv, Pair
<1>4. f \in Follower /\ Len(log) \in Nat
  BY <1>2, Types
<1>5. PICK b \in Nat, k \in Nat : b = f.lastIncludedIndex /\ k = f.commitIndex
  BY <1>4, Fields
<1>6. /\ a <= Last(f) /\ a <= Len(log) /\ f.lastApplied = k /\ b <= k /\ k <= a
      /\ f.lastIncludedTerm = IF b = 0 THEN 0 ELSE log[b]
  BY <1>3, <1>5 DEF Split
<1>7. ASSUME NEW n \in 1..k PROVE n <= Len(log) /\ Holds(n)
  <2>1. n \in Nat /\ n <= a /\ n <= Len(log) /\ n <= Last(f)
    BY <1>4, <1>6, Fields
  <2>2. n <= b \/ b < n
    BY <2>1
  <2>3. b < n => TermAt(f, n) = log[n]
    BY <1>2, <1>3, <1>4, <1>5, <2>1, TermsOf
  <2> QED
    BY <1>5, <2>1, <2>2, <2>3 DEF Holds
<1>8. b > 0 => f.lastIncludedTerm = log[b]
  BY <1>6
<1> QED
  BY <1>5, <1>6, <1>7, <1>8

\* What the follower takes for committed is what the leader has at those
\* indexes, whatever order appends, replies and pieces of snapshots come in
\* and whatever a lost leader left behind (processAppendEntries,
\* restoreSnapshot).
THEOREM FollowerStaysWithLeader == Spec => []FollowerAgrees
<1>1. CatchUpInv => FollowerAgrees
  BY AgreesBySplit
<1> QED
  BY <1>1, CatchUpAccounted, PTL

LEMMA ReplicatedByBooks ==
    ASSUME CatchUpInv
    PROVE  CommitReplicatedUnlessKept
<1>1. SUFFICES ASSUME ~keptTail, Sound(f), NEW n \in (Old + 1)..commitIndex
               PROVE  otherMatch >= n \/ Holds(n)
  BY DEF CommitReplicatedUnlessKept, CommitReplicated
<1>2. TypeOK /\ LeaderOK
  BY DEF CatchUpInv
<1>3. PICK a \in Nat : Split(f, a) /\ Backed(commitIndex, a)
  BY <1>1 DEF CatchUpInv, Pair, Booked
<1>4. /\ f \in Follower /\ Len(log) \in Nat /\ Old \in Nat /\ commitIndex \in Nat
      /\ otherMatch \in Nat
  BY <1>2, Types, Constants
<1>5. n \in Nat /\ (n <= a \/ n <= otherMatch)
  <2>1. PICK k \in Nat : k = commitIndex
    BY <1>4
  <2>2. k <= Old \/ k <= a \/ k <= otherMatch
    BY <1>3, <2>1 DEF Backed
  <2>3. n \in (Old + 1)..k
    BY <1>1, <2>1
  <2> QED
    BY <1>4, <2>2, <2>3
<1>6. CASE n <= a
  <2>1. PICK b \in Nat : b = f.lastIncludedIndex /\ a <= Last(f)
    BY <1>3, <1>4, Fields DEF Split
  <2>2. n <= b \/ b < n
    BY <1>5
  <2>3. b < n => TermAt(f, n) = log[n]
    BY <1>2, <1>3, <1>4, <1>5, <1>6, <2>1, TermsOf
  <2>4. n <= Last(f)
    BY <1>4, <1>5, <1>6, <2>1, Fields
  <2> QED
    BY <2>1, <2>2, <2>3, <2>4 DEF Holds
<1> QED
  BY <1>4, <1>5, <1>6

\* Every entry of its term that the leader has committed (checkCommitMajority)
\* is at a second node, unless restoreSnapshot left entries of a lost leader
\* behind a snapshot, whose length the follower then reports as its match.
THEOREM CommitsAreReplicated == Spec => []CommitReplicatedUnlessKept
<1>1. CatchUpInv => CommitReplicatedUnlessKept
  BY ReplicatedByBooks
<1> QED
  BY <1>1, CatchUpAccounted, PTL

\* The follower's state machine leaves what it applied in one way only: the
\* last piece of a snapshot is delivered, and processInstallSnapshot restores
\* one that is older than what was applied, or put together from two.
THEOREM OnlyOldSnapshotsHarm == Spec => OnlyOldSnapshots
<1>1. CatchUpInv /\ [Next]_vars =>
         [~Sound(f') => \E s \in Slot :
             LET buf == Buffered(f, calls[s]) IN
             /\ calls[s].kind = "chunk"
             /\ buf[1] < f.lastApplied \/ ~Whole(buf)]_vars
  BY StepKeeps DEF Harm
<1> QED
  BY <1>1, CatchUpAccounted, PTL DEF Spec, OnlyOldSnapshots
=============================================================================
