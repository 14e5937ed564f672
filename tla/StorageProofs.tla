---------------------------- MODULE StorageProofs ----------------------------
(***************************************************************************)
(* What a restart finds, for every number of records, entries, crashes,    *)
(* compactions and snapshots received.                                     *)
(*                                                                         *)
(* The WAL is read by a loop over its records.  Records are only ever      *)
(* added at its end, or all removed, so it is enough to know what one more *)
(* record changes: Replay(Append(recs, rec)) is ReplayRecord of            *)
(* Replay(recs) and rec.  That, and what a filter keeps of a log, is shown *)
(* by looking at the first turn of the loop at which it would fail.        *)
(***************************************************************************)
EXTENDS Storage, ClusterConfigProofs

\* read holds what a loop over the first m records has read after each of them.
ReadUpTo(recs, read, m) ==
    read = [k \in 0..m |-> IF k = 0 THEN Replaying ELSE ReplayRecord(read[k - 1], recs[k])]

LEMMA ReadDefined ==
    ASSUME NEW recs, NEW b \in Nat
    PROVE  \E read : ReadUpTo(recs, read, b)
<1> DEFINE Bad == {m \in 0..b : ~\E read : ReadUpTo(recs, read, m)}
<1>1. SUFFICES ASSUME Bad # {} PROVE FALSE
  OBVIOUS
<1>2. PICK m \in Bad : \A y \in Bad : m <= y
  <2>1. Bad \subseteq Nat
    OBVIOUS
  <2> HIDE DEF Bad
  <2> QED
    BY <1>1, <2>1, MinOfNats
<1>3. m # 0
  <2>1. ReadUpTo(recs, [k \in 0..0 |-> Replaying], 0)
    BY DEF ReadUpTo
  <2> QED
    BY <2>1
<1>4. m - 1 \in 0..b /\ m - 1 \notin Bad
  BY <1>2, <1>3
<1>5. PICK f : ReadUpTo(recs, f, m - 1)
  BY <1>4
<1> DEFINE g == [k \in 0..m |-> IF k = m THEN ReplayRecord(f[m - 1], recs[m]) ELSE f[k]]
<1>6. ASSUME NEW k \in 0..m
      PROVE  g[k] = IF k = 0 THEN Replaying ELSE ReplayRecord(g[k - 1], recs[k])
  <2>1. CASE k = m
    BY <1>3, <2>1
  <2>2. CASE k # m
    <3>1. k \in 0..(m - 1)
      BY <2>2
    <3>2. f[k] = IF k = 0 THEN Replaying ELSE ReplayRecord(f[k - 1], recs[k])
      BY <1>5, <3>1, Zenon DEF ReadUpTo
    <3>3. g[k] = f[k] /\ (k # 0 => g[k - 1] = f[k - 1])
      BY <2>2
    <3> QED
      BY <3>2, <3>3
  <2> QED
    BY <2>1, <2>2
<1>7. ReadUpTo(recs, g, m)
  <2>1. g = [k \in 0..m |-> g[k]]
    OBVIOUS
  <2> HIDE DEF g
  <2> QED
    BY <1>6, <2>1 DEF ReadUpTo
<1> QED
  BY <1>7

\* What a loop has read after k records depends on those alone.
LEMMA ReadUnique ==
    ASSUME NEW recs, NEW more, NEW a \in Nat, NEW b \in Nat, a <= b,
           \A k \in 1..a : recs[k] = more[k],
           NEW f, ReadUpTo(recs, f, a), NEW g, ReadUpTo(more, g, b)
    PROVE  f[a] = g[a]
<1> DEFINE Bad == {m \in 0..a : f[m] # g[m]}
<1>1. SUFFICES ASSUME Bad # {} PROVE FALSE
  OBVIOUS
<1>2. PICK m \in Bad : \A y \in Bad : m <= y
  <2>1. Bad \subseteq Nat
    OBVIOUS
  <2> HIDE DEF Bad
  <2> QED
    BY <1>1, <2>1, MinOfNats
<1>3. m \in 0..a /\ m \in 0..b /\ f[m] # g[m]
  BY <1>2
<1>4. /\ f[m] = IF m = 0 THEN Replaying ELSE ReplayRecord(f[m - 1], recs[m])
      /\ g[m] = IF m = 0 THEN Replaying ELSE ReplayRecord(g[m - 1], more[m])
  BY <1>3, Zenon DEF ReadUpTo
<1>5. m # 0
  BY <1>3, <1>4
<1>6. m - 1 \in 0..a /\ m - 1 \notin Bad
  BY <1>2, <1>3, <1>5
<1>7. f[m - 1] = g[m - 1] /\ recs[m] = more[m]
  BY <1>3, <1>5, <1>6
<1> QED
  BY <1>3, <1>4, <1>5, <1>7

LEMMA ReplayIs ==
    ASSUME NEW recs, Len(recs) \in Nat
    PROVE  \E read : ReadUpTo(recs, read, Len(recs)) /\ Replay(recs) = read[Len(recs)]
<1>1. \E read : ReadUpTo(recs, read, Len(recs))
  BY ReadDefined
<1> QED
  BY <1>1, Zenon DEF Replay, ReadUpTo

\* Replay of an empty WAL, and of a WAL with one more record.
LEMMA ReplayEmpty == Replay(<< >>) = Replaying
<1>1. PICK f : ReadUpTo(<< >>, f, Len(<< >>)) /\ Replay(<< >>) = f[Len(<< >>)]
  BY ReplayIs
<1>2. 0 \in 0..Len(<< >>)
  OBVIOUS
<1>3. f[0] = Replaying
  BY <1>1, <1>2, Zenon DEF ReadUpTo
<1> QED
  BY <1>1, <1>3

LEMMA ReplayAppend ==
    ASSUME NEW recs \in Seq(Record), NEW rec \in Record
    PROVE  Replay(Append(recs, rec)) = ReplayRecord(Replay(recs), rec)
<1> DEFINE n == Len(recs)
           more == Append(recs, rec)
<1>1. n \in Nat /\ Len(more) = n + 1 /\ more[n + 1] = rec
      /\ \A k \in 1..n : recs[k] = more[k]
  BY AppendProperties, LenProperties
<1> HIDE DEF n, more
<1>2. PICK f : ReadUpTo(recs, f, n) /\ Replay(recs) = f[n]
  BY <1>1, ReplayIs DEF n
<1>3. PICK g : ReadUpTo(more, g, n + 1) /\ Replay(more) = g[n + 1]
  <2>1. Len(more) \in Nat
    BY <1>1
  <2>2. PICK g : ReadUpTo(more, g, Len(more)) /\ Replay(more) = g[Len(more)]
    BY <2>1, ReplayIs
  <2> QED
    BY <1>1, <2>2
<1>4. n + 1 \in 0..(n + 1) /\ n + 1 # 0 /\ (n + 1) - 1 = n
  BY <1>1
<1>5. g[n + 1] = IF n + 1 = 0 THEN Replaying ELSE ReplayRecord(g[(n + 1) - 1], more[n + 1])
  BY <1>3, <1>4, Zenon DEF ReadUpTo
<1>6. f[n] = g[n]
  BY <1>1, <1>2, <1>3, <1>4, ReadUnique
<1> QED
  BY <1>1, <1>2, <1>3, <1>4, <1>5, <1>6 DEF more
-----------------------------------------------------------------------------
(***************************************************************************)
(* What the filters of Replay and loadState keep of a log.                 *)
(***************************************************************************)
Rising(entries) ==
    \A i, j \in 1..Len(entries) : i < j => entries[i].index < entries[j].index

LEMMA ToSetAppend ==
    ASSUME NEW S, NEW s \in Seq(S), NEW e \in S
    PROVE  ToSet(Append(s, e)) = ToSet(s) \cup {e}
<1>1. /\ Len(Append(s, e)) = Len(s) + 1 /\ Len(s) \in Nat
      /\ DOMAIN s = 1..Len(s) /\ DOMAIN Append(s, e) = 1..(Len(s) + 1)
      /\ \A k \in 1..Len(s) : Append(s, e)[k] = s[k]
      /\ Append(s, e)[Len(s) + 1] = e
  BY AppendProperties, LenProperties
<1> QED
  BY <1>1 DEF ToSet

LEMMA ToSetSubSeq ==
    ASSUME NEW S, NEW s \in Seq(S), NEW a \in Nat, a >= 1, NEW b \in Int, b <= Len(s), NEW x
    PROVE  x \in ToSet(SubSeq(s, a, b)) <=> \E k \in a..b : x = s[k]
<1> DEFINE t == SubSeq(s, a, b)
           n == IF a <= b THEN b - a + 1 ELSE 0
<1>0. Len(s) \in Nat /\ DOMAIN s = 1..Len(s)
  BY LenProperties
<1>1. /\ t \in Seq(S) /\ Len(t) = n /\ n \in Nat
      /\ \A i \in 1..n : t[i] = s[a + i - 1]
  <2>1. \A i \in a..b : s[i] \in S
    BY <1>0, ElementOfSeq
  <2> QED
    BY <1>0, <2>1, SubSeqProperties
<1>2. DOMAIN t = 1..n
  BY <1>1, LenProperties
<1> HIDE DEF t
<1>3. ASSUME x \in ToSet(t) PROVE \E k \in a..b : x = s[k]
  <2>1. PICK i \in 1..n : x = t[i]
    BY <1>2, <1>3 DEF ToSet
  <2>2. a + i - 1 \in a..b
    BY <1>1, <2>1
  <2> QED
    BY <1>1, <2>1, <2>2
<1>4. ASSUME NEW k \in a..b, x = s[k] PROVE x \in ToSet(t)
  <2>1. k - a + 1 \in 1..n /\ a + (k - a + 1) - 1 = k
    BY <1>4
  <2>2. t[k - a + 1] = s[k]
    BY <1>1, <2>1
  <2> QED
    BY <1>2, <1>4, <2>1, <2>2 DEF ToSet
<1> QED
  BY <1>3, <1>4 DEF t

\* kept holds what a loop over the first m entries has kept after each of them.
KeptUpTo(entries, S, kept, m) ==
    kept = [k \in 0..m |->
              IF k = 0 THEN << >>
              ELSE IF entries[k] \in S THEN Append(kept[k - 1], entries[k])
              ELSE kept[k - 1]]

LEMMA KeptDefined ==
    ASSUME NEW entries, NEW S, NEW b \in Nat
    PROVE  \E kept : KeptUpTo(entries, S, kept, b)
<1> DEFINE Bad == {m \in 0..b : ~\E kept : KeptUpTo(entries, S, kept, m)}
<1>1. SUFFICES ASSUME Bad # {} PROVE FALSE
  OBVIOUS
<1>2. PICK m \in Bad : \A y \in Bad : m <= y
  <2>1. Bad \subseteq Nat
    OBVIOUS
  <2> HIDE DEF Bad
  <2> QED
    BY <1>1, <2>1, MinOfNats
<1>3. m # 0
  <2>1. KeptUpTo(entries, S, [k \in 0..0 |-> << >>], 0)
    BY DEF KeptUpTo
  <2> QED
    BY <2>1
<1>4. m - 1 \in 0..b /\ m - 1 \notin Bad
  BY <1>2, <1>3
<1>5. PICK f : KeptUpTo(entries, S, f, m - 1)
  BY <1>4
<1> DEFINE last == IF entries[m] \in S THEN Append(f[m - 1], entries[m]) ELSE f[m - 1]
           g == [k \in 0..m |-> IF k = m THEN last ELSE f[k]]
           turn(h, k) == IF k = 0 THEN << >>
                         ELSE IF entries[k] \in S THEN Append(h[k - 1], entries[k])
                         ELSE h[k - 1]
<1>6. ASSUME NEW k \in 0..m
      PROVE  g[k] = turn(g, k)
  <2>1. CASE k = m
    <3>1. g[k] = last /\ g[k - 1] = f[m - 1] /\ k > 0
      BY <1>3, <2>1
    <3> HIDE DEF g
    <3> QED
      BY <2>1, <3>1
  <2>2. CASE k # m
    <3>1. k \in 0..(m - 1)
      BY <2>2
    <3>2. f[k] = turn(f, k)
      BY <1>5, <3>1, Zenon DEF KeptUpTo
    <3>3. g[k] = f[k] /\ (k # 0 => g[k - 1] = f[k - 1])
      BY <2>2
    <3> HIDE DEF g
    <3> QED
      BY <3>2, <3>3
  <2> QED
    BY <2>1, <2>2
<1>7. KeptUpTo(entries, S, g, m)
  <2>1. g = [k \in 0..m |-> g[k]]
    OBVIOUS
  <2> HIDE DEF g
  <2> QED
    BY <1>6, <2>1 DEF KeptUpTo
<1> QED
  BY <1>7

\* What is kept of a log up to entry k: a log of the entries in S among them, in
\* the same order.
KeptOf(lg, entries, S, k) ==
    /\ lg \in Seq(Entry)
    /\ \A x : x \in ToSet(lg) <=> x \in S /\ \E i \in 1..k : x = entries[i]
    /\ Rising(entries) => Rising(lg)

LEMMA FilteredIs ==
    ASSUME NEW entries \in Seq(Entry), NEW S
    PROVE  KeptOf(Filtered(entries, S), entries, S, Len(entries))
<1> DEFINE n == Len(entries)
<1>1. n \in Nat /\ \A k \in 1..n : entries[k] \in Entry
  BY LenProperties, ElementOfSeq
<1>3. PICK f : KeptUpTo(entries, S, f, n) /\ Filtered(entries, S) = f[n]
  <2>1. \E kept : KeptUpTo(entries, S, kept, Len(entries))
    BY <1>1, KeptDefined
  <2> QED
    BY <2>1, Zenon DEF Filtered, KeptUpTo
<1> HIDE DEF n
<1> DEFINE Bad == {m \in 0..n : ~KeptOf(f[m], entries, S, m)}
<1>4. SUFFICES ASSUME Bad # {} PROVE FALSE
  BY <1>1, <1>3 DEF n
<1>5. PICK m \in Bad : \A y \in Bad : m <= y
  <2>1. Bad \subseteq Nat
    OBVIOUS
  <2> HIDE DEF Bad
  <2> QED
    BY <1>4, <2>1, MinOfNats
<1>6. m \in 0..n /\ ~KeptOf(f[m], entries, S, m)
  BY <1>5
<1>7. f[m] = IF m = 0 THEN << >>
             ELSE IF entries[m] \in S THEN Append(f[m - 1], entries[m])
             ELSE f[m - 1]
  BY <1>3, <1>6, Zenon DEF KeptUpTo
<1>8. CASE m = 0
  <2>1. f[m] = << >>
    BY <1>7, <1>8
  <2>2. KeptOf(<< >>, entries, S, 0)
    BY DEF KeptOf, ToSet, Rising
  <2> QED
    BY <1>6, <1>8, <2>1, <2>2
<1>9. CASE m # 0
  <2>1. m - 1 \in 0..n /\ m \in 1..n /\ m > 0 /\ m - 1 \notin Bad
    <3>1. m - 1 \in 0..n /\ m \in 1..n /\ m > 0 /\ ~(m <= m - 1)
      BY <1>1, <1>6, <1>9
    <3> HIDE DEF Bad
    <3> QED
      BY <1>5, <3>1
  <2>2. KeptOf(f[m - 1], entries, S, m - 1)
    BY <2>1
  <2> DEFINE h == f[m - 1]
  <2>3. /\ h \in Seq(Entry)
        /\ \A x : x \in ToSet(h) <=> x \in S /\ \E i \in 1..(m - 1) : x = entries[i]
        /\ Rising(entries) => Rising(h)
    BY <2>2 DEF KeptOf
  <2> HIDE DEF h
  <2>4. CASE entries[m] \notin S
    <3>1. f[m] = h
      BY <1>7, <2>1, <2>4 DEF h
    <3>2. \A x : x \in ToSet(h) <=> x \in S /\ \E i \in 1..m : x = entries[i]
      BY <2>1, <2>3, <2>4
    <3> QED
      BY <1>6, <2>3, <3>1, <3>2 DEF KeptOf
  <2>5. CASE entries[m] \in S
    <3>1. f[m] = Append(h, entries[m]) /\ entries[m] \in Entry
      BY <1>1, <1>7, <2>1, <2>5 DEF h
    <3>2. Append(h, entries[m]) \in Seq(Entry)
      BY <2>3, <3>1, AppendProperties
    <3>3. ToSet(Append(h, entries[m])) = ToSet(h) \cup {entries[m]}
      BY <2>3, <3>1, ToSetAppend
    <3>4. \A x : x \in ToSet(f[m]) <=> x \in S /\ \E i \in 1..m : x = entries[i]
      BY <2>1, <2>3, <2>5, <3>1, <3>3
    <3>t. PICK t : t = f[m]
      OBVIOUS
    <3>5. ASSUME Rising(entries) PROVE Rising(t)
      <4>1. /\ Len(h) \in Nat /\ Len(t) = Len(h) + 1 /\ t[Len(h) + 1] = entries[m]
            /\ \A k \in 1..Len(h) : t[k] = h[k] /\ h[k] \in ToSet(h)
        <5>1. DOMAIN h = 1..Len(h) /\ Len(h) \in Nat
          BY <2>3, LenProperties
        <5> QED
          BY <2>3, <3>1, <3>t, <5>1, AppendProperties DEF ToSet
      <4>2. \A k \in 1..Len(h) : h[k].index < entries[m].index
        <5>1. SUFFICES ASSUME NEW k \in 1..Len(h)
                       PROVE  h[k].index < entries[m].index
          OBVIOUS
        <5>2. PICK i \in 1..(m - 1) : h[k] = entries[i]
          BY <2>3, <4>1
        <5>3. i \in 1..n /\ i < m
          BY <1>1, <2>1
        <5> QED
          BY <2>1, <3>5, <5>2, <5>3 DEF Rising, n
      <4>3. Rising(h)
        BY <2>3, <3>5
      <4>4. SUFFICES ASSUME NEW i \in 1..Len(t), NEW j \in 1..Len(t), i < j
                     PROVE  t[i].index < t[j].index
        BY DEF Rising
      <4>5. i \in 1..Len(h) /\ (j \in 1..Len(h) \/ j = Len(h) + 1)
        BY <4>1, <4>4
      <4> QED
        BY <4>1, <4>2, <4>3, <4>4, <4>5 DEF Rising
    <3> QED
      BY <1>6, <3>1, <3>2, <3>4, <3>5, <3>t DEF KeptOf
  <2> QED
    BY <2>4, <2>5
<1> QED
  BY <1>8, <1>9

\* An entry of a rising log above b is at least as far above b as its position.
LEMMA RisingAbove ==
    ASSUME NEW lg \in Seq(Entry), Rising(lg), NEW b \in Nat,
           \A x \in ToSet(lg) : x.index > b,
           NEW k \in 1..Len(lg)
    PROVE  lg[k].index >= b + k
<1>1. /\ Len(lg) \in Nat
      /\ \A i \in 1..Len(lg) : lg[i] \in Entry /\ lg[i].index \in Nat /\ lg[i].index > b
  <2>1. DOMAIN lg = 1..Len(lg) /\ Len(lg) \in Nat
    BY LenProperties
  <2>2. ASSUME NEW i \in 1..Len(lg) PROVE lg[i] \in Entry /\ lg[i] \in ToSet(lg)
    BY <2>1, ElementOfSeq DEF ToSet
  <2> QED
    BY <2>1, <2>2 DEF Entry
<1> DEFINE Bad == {m \in 1..Len(lg) : ~(lg[m].index >= b + m)}
<1>2. SUFFICES ASSUME Bad # {} PROVE FALSE
  OBVIOUS
<1>3. PICK m \in Bad : \A y \in Bad : m <= y
  <2>1. Bad \subseteq Nat
    OBVIOUS
  <2> HIDE DEF Bad
  <2> QED
    BY <1>2, <2>1, MinOfNats
<1>4. m \in 1..Len(lg) /\ ~(lg[m].index >= b + m)
  BY <1>3
<1>5. m # 1
  BY <1>1, <1>4
<1>6. m - 1 \in 1..Len(lg) /\ ~(m <= m - 1)
  BY <1>1, <1>4, <1>5
<1>7. m - 1 \notin Bad
  <2> HIDE DEF Bad
  <2> QED
    BY <1>3, <1>6
<1>8. lg[m - 1].index >= b + (m - 1) /\ lg[m - 1].index < lg[m].index
  BY <1>4, <1>6, <1>7 DEF Rising
<1> QED
  BY <1>1, <1>4, <1>6, <1>8

\* What loadState takes from the entries that Replay returns.
LEMMA LoadedLogIs ==
    ASSUME NEW entries \in Seq(Entry), NEW base \in Nat
    PROVE  /\ LoadedLog(entries, base) \in Seq(Entry)
           /\ \A x : x \in ToSet(LoadedLog(entries, base))
                        <=> x \in ToSet(entries) /\ x.index > base
           /\ Rising(entries) => Rising(LoadedLog(entries, base))
<1> DEFINE S == {e \in ToSet(entries) : e.index > base}
<1>1. KeptOf(Filtered(entries, S), entries, S, Len(entries))
  BY FilteredIs
<1>2. DOMAIN entries = 1..Len(entries)
  BY LenProperties
<1> QED
  BY <1>1, <1>2 DEF KeptOf, LoadedLog, ToSet

\* What a truncate marker leaves.
LEMMA ReplayTruncateIs ==
    ASSUME NEW entries \in Seq(Entry), NEW n \in Nat
    PROVE  /\ ReplayTruncate(entries, n) \in Seq(Entry)
           /\ \A x : x \in ToSet(ReplayTruncate(entries, n))
                        <=> x \in ToSet(entries) /\ x.index < n
           /\ Rising(entries) => Rising(ReplayTruncate(entries, n))
<1> DEFINE S == {e \in ToSet(entries) : e.index < n}
<1>1. KeptOf(Filtered(entries, S), entries, S, Len(entries))
  BY FilteredIs
<1>2. DOMAIN entries = 1..Len(entries)
  BY LenProperties
<1> QED
  BY <1>1, <1>2 DEF KeptOf, ReplayTruncate, ToSet

LEMMA ReplayEntryType ==
    ASSUME NEW entries \in Seq(Entry), NEW e \in Entry
    PROVE  ReplayEntry(entries, e) \in Seq(Entry)
<1> DEFINE same == {k \in DOMAIN entries : entries[k].index = e.index}
<1>1. DOMAIN entries = 1..Len(entries) /\ Len(entries) \in Nat
  BY LenProperties
<1>2. CASE same = {}
  BY <1>2, AppendProperties DEF ReplayEntry
<1>3. CASE same # {}
  <2>1. same \subseteq Nat /\ same \subseteq 1..Len(entries)
    BY <1>1
  <2> HIDE DEF same
  <2>2. Min(same) \in 1..Len(entries)
    BY <1>3, <2>1, MinOfNats
  <2>3. Min(same) - 1 \in Int /\ Min(same) - 1 <= Len(entries)
    BY <1>1, <2>2
  <2>4. SubSeq(entries, 1, Min(same) - 1) \in Seq(Entry)
    BY <2>3, SubSeqType
  <2>5. ReplayEntry(entries, e) = Append(SubSeq(entries, 1, Min(same) - 1), e)
    BY <1>3 DEF ReplayEntry, same
  <2> QED
    BY <2>4, <2>5, AppendProperties
<1> QED
  BY <1>2, <1>3

\* An entry behind all others is added to them.
LEMMA ReplayEntryBehind ==
    ASSUME NEW entries \in Seq(Entry), NEW e \in Entry, Rising(entries),
           \A x \in ToSet(entries) : x.index < e.index
    PROVE  /\ ReplayEntry(entries, e) \in Seq(Entry)
           /\ ToSet(ReplayEntry(entries, e)) = ToSet(entries) \cup {e}
           /\ Rising(ReplayEntry(entries, e))
<1>1. /\ DOMAIN entries = 1..Len(entries) /\ Len(entries) \in Nat
      /\ \A k \in 1..Len(entries) : entries[k] \in Entry /\ entries[k] \in ToSet(entries)
  BY LenProperties, ElementOfSeq DEF ToSet
<1>2. \A k \in 1..Len(entries) : entries[k].index < e.index /\ entries[k].index \in Nat
                                 /\ e.index \in Nat
  BY <1>1 DEF Entry
<1>3. {k \in DOMAIN entries : entries[k].index = e.index} = {}
  BY <1>1, <1>2
<1>4. ReplayEntry(entries, e) = Append(entries, e)
  BY <1>3 DEF ReplayEntry
<1>5. PICK t : t = Append(entries, e)
  OBVIOUS
<1>6. /\ t \in Seq(Entry) /\ Len(t) = Len(entries) + 1 /\ t[Len(entries) + 1] = e
      /\ \A k \in 1..Len(entries) : t[k] = entries[k]
  BY <1>1, <1>5, AppendProperties
<1>7. ToSet(t) = ToSet(entries) \cup {e}
  BY <1>5, ToSetAppend
<1>8. ASSUME NEW i \in 1..Len(t), NEW j \in 1..Len(t), i < j
      PROVE  t[i].index < t[j].index
  <2>1. i \in 1..Len(entries) /\ (j \in 1..Len(entries) \/ j = Len(entries) + 1)
    BY <1>1, <1>6, <1>8
  <2> QED
    BY <1>2, <1>6, <1>8, <2>1 DEF Rising
<1>9. Rising(t)
  BY <1>8 DEF Rising
<1> QED
  BY <1>4, <1>5, <1>6, <1>7, <1>9
-----------------------------------------------------------------------------
(***************************************************************************)
(* The inductive invariant.                                                *)
(***************************************************************************)
DiskState ==
    [readable : BOOLEAN, torn : BOOLEAN, term : Nat, vote : Node \cup {Nil},
     entries : Seq(Entry)]

\* Whatever the moment, what a restart would read has rising indexes.
DiskOK == OnDisk \in DiskState /\ Rising(OnDisk.entries)

\* No entry is behind the position where getEntry looks for it, and none is
\* before it unless a restart or a snapshot has left a log with a hole.
MemoryOK ==
    /\ lastIncludedIndex <= commitIndex
    /\ \A k \in 1..Len(log) : log[k].index >= lastIncludedIndex + k
    /\ ~holed => Gapless(log, lastIncludedIndex)

\* The acknowledged entries that no snapshot left out are in memory.  An older
\* snapshot has left memory before its file is in place.
AckedInMemory ==
    status = "up" /\ ~holed =>
        \A x \in acked \ unwritten :
            x.index <= lastIncludedIndex \/ x.index <= snapshot \/ x \in ToSet(log)

\* What a restart would read is part of the log.
ReadInMemory ==
    OnDisk.readable =>
        \A x \in ToSet(OnDisk.entries) : x.index > snapshot => x \in ToSet(log)

ReadUpToLast ==
    OnDisk.readable =>
        \A x \in ToSet(OnDisk.entries) : x.index <= lastLogIndex(log, lastIncludedIndex)

ReadBefore(n) == OnDisk.readable => \A x \in ToSet(OnDisk.entries) : x.index < n

\* What a restart would read below n is part of the log.
ReadBelowInMemory(n) ==
    OnDisk.readable =>
        \A x \in ToSet(OnDisk.entries) : x.index > snapshot /\ x.index < n => x \in ToSet(log)

\* No acknowledged entry is lost by a truncation from n on.
AckedBefore(n) ==
    ~holed => \A x \in acked \ unwritten : x.index <= snapshot \/ x.index < n

\* The operations that are left begin with k operations and end in those of
\* takeSnapshot or restoreSnapshot.
Compacts(k) ==
    /\ Len(todo) = k + 3
    /\ todo[k + 1].kind = "save" /\ todo[k + 1].index = lastIncludedIndex
    /\ todo[k + 2].kind = "reset"
    /\ todo[k + 3].kind = "state"

EntryAt(k, n) == todo[k].kind = "entry" /\ todo[k].entry.index = n

\* The handler that runs has one entry to write, and holds it in memory.
OnlyNew(e) ==
    /\ log # << >> /\ Last(log) = e
    /\ \A x \in ToSet(log) : x = e \/ x \in acked

\* Nothing is left to do, or all but the record of a vote.
PhaseIdle == todo = << >> /\ ReadInMemory /\ ReadUpToLast /\ ToSet(log) \subseteq acked
PhaseState ==
    /\ Len(todo) = 1 /\ todo[1].kind = "state"
    /\ ReadInMemory /\ ReadUpToLast
    /\ \A x \in ToSet(log) : x \in acked \/ x.index <= snapshot \/ x \in unwritten
PhaseEntry ==
    /\ Len(todo) = 1 /\ todo[1].kind = "entry"
    /\ ReadInMemory /\ ReadBefore(todo[1].entry.index) /\ OnlyNew(todo[1].entry)
PhaseTruncate ==
    /\ Len(todo) = 2 /\ todo[1].kind = "truncate" /\ EntryAt(2, todo[1].index)
    /\ ReadBelowInMemory(todo[1].index) /\ AckedBefore(todo[1].index)
    /\ OnlyNew(todo[2].entry)

\* The same with a compaction at the end, which makes up for the rest.
PhaseReset ==
    /\ Len(todo) = 2 /\ todo[1].kind = "reset" /\ todo[2].kind = "state"
PhaseEntryCompact ==
    Compacts(1) /\ todo[1].kind = "entry" /\ ReadBefore(todo[1].entry.index)
PhaseTruncateCompact ==
    /\ Compacts(2) /\ todo[1].kind = "truncate" /\ EntryAt(2, todo[1].index)
    /\ AckedBefore(todo[1].index)

PhaseOK ==
    IF status # "up" THEN todo = << >>
    ELSE \/ /\ snapshot = lastIncludedIndex
            /\ PhaseIdle \/ PhaseState \/ PhaseEntry \/ PhaseTruncate
         \/ snapshot = lastIncludedIndex /\ PhaseReset
         \/ Compacts(0)
         \/ /\ snapshot <= lastIncludedIndex
            /\ PhaseEntryCompact \/ PhaseTruncateCompact

StorageInv ==
    /\ TypeOK /\ DiskOK /\ MemoryOK /\ AckedInMemory /\ PhaseOK
    /\ LostOnlyBySnapshots /\ VoteKept

\* What a disk operation holds, by its kind.
LEMMA OpKinds ==
    ASSUME NEW op \in DiskOp
    PROVE  /\ op.kind = "state" => op \in Record /\ op.term \in Nat /\ op.vote \in Node \cup {Nil}
           /\ op.kind = "entry" => op \in Record /\ op.entry \in Entry
           /\ op.kind = "truncate" => op \in Record /\ op.index \in Nat
           /\ op.kind = "save" => op.index \in Nat
  BY DEF DiskOp, Record

LEMMA RecordKinds ==
    ASSUME NEW rec \in Record
    PROVE  \/ rec.kind = "state" /\ rec.term \in Nat /\ rec.vote \in Node \cup {Nil}
           \/ rec.kind = "entry" /\ rec.entry \in Entry
           \/ rec.kind = "truncate" /\ rec.index \in Nat
           \/ rec.kind \in {"tornHeader", "tornBody"}
  BY DEF Record

LEMMA RecordsMade ==
    /\ \A t \in Nat, v \in Node \cup {Nil} : StateRec(t, v) \in Record
    /\ \A e \in Entry : EntryRec(e) \in Record
    /\ \A n \in Nat : TruncateRec(n) \in Record /\ [kind |-> "save", index |-> n] \in DiskOp
    /\ [kind |-> "reset"] \in DiskOp
    /\ \A kind \in {"tornHeader", "tornBody"} : [kind |-> kind] \in Record
    /\ Record \subseteq DiskOp
  BY DEF Record, DiskOp, StateRec, EntryRec, TruncateRec

\* What one record changes of what is read.  Once the WAL cannot be read it
\* stays so, and after a cut header any record makes it so.
LEMMA ReadRecord ==
    ASSUME NEW D \in DiskState, NEW rec \in Record, NEW R, R = ReplayRecord(D, rec)
    PROVE  /\ R \in DiskState
           /\ R.readable => D.readable
           /\ ~R.readable \/ rec.kind \in {"tornHeader", "tornBody"} => R.entries = D.entries
           /\ rec.kind # "state" => R.term = D.term /\ R.vote = D.vote
           /\ R.readable /\ rec.kind = "state" =>
                 R.term = rec.term /\ R.vote = rec.vote /\ R.entries = D.entries
           /\ R.readable /\ rec.kind = "entry" => R.entries = ReplayEntry(D.entries, rec.entry)
           /\ R.readable /\ rec.kind = "truncate" =>
                 R.entries = ReplayTruncate(D.entries, rec.index)
<1>1. /\ D.readable \in BOOLEAN /\ D.torn \in BOOLEAN /\ D.term \in Nat
      /\ D.vote \in Node \cup {Nil} /\ D.entries \in Seq(Entry)
  BY DEF DiskState
<1>2. CASE ~D.readable
  <2>1. R = D
    BY <1>2 DEF ReplayRecord
  <2> QED
    BY <1>2, <2>1
<1>3. CASE D.readable /\ (D.torn \/ rec.kind = "tornBody")
  <2>1. R = [D EXCEPT !.readable = FALSE]
    BY <1>3 DEF ReplayRecord
  <2> QED
    BY <1>3, <2>1 DEF DiskState
<1>4. CASE D.readable /\ ~D.torn /\ rec.kind = "tornHeader"
  <2>1. R = [D EXCEPT !.torn = TRUE]
    BY <1>4 DEF ReplayRecord
  <2> QED
    BY <1>4, <2>1 DEF DiskState
<1>5. CASE D.readable /\ ~D.torn /\ rec.kind = "state"
  <2>1. R = [D EXCEPT !.term = rec.term, !.vote = rec.vote]
    BY <1>5 DEF ReplayRecord
  <2>2. rec.term \in Nat /\ rec.vote \in Node \cup {Nil}
    BY <1>5, RecordKinds
  <2> QED
    BY <1>5, <2>1, <2>2 DEF DiskState
<1>6. CASE D.readable /\ ~D.torn /\ rec.kind = "entry"
  <2>1. R = [D EXCEPT !.entries = ReplayEntry(D.entries, rec.entry)]
    BY <1>6 DEF ReplayRecord
  <2>2. rec.entry \in Entry
    BY <1>6, RecordKinds
  <2>3. ReplayEntry(D.entries, rec.entry) \in Seq(Entry)
    BY <1>1, <2>2, ReplayEntryType
  <2> QED
    BY <1>6, <2>1, <2>3 DEF DiskState
<1>7. CASE D.readable /\ ~D.torn /\ rec.kind = "truncate"
  <2>1. R = [D EXCEPT !.entries = ReplayTruncate(D.entries, rec.index)]
    BY <1>7 DEF ReplayRecord
  <2>2. rec.index \in Nat
    BY <1>7, RecordKinds
  <2>3. ReplayTruncate(D.entries, rec.index) \in Seq(Entry)
    BY <1>1, <2>2, ReplayTruncateIs
  <2> QED
    BY <1>7, <2>1, <2>3 DEF DiskState
<1> QED
  BY <1>1, <1>2, <1>3, <1>4, <1>5, <1>6, <1>7, RecordKinds

\* The last index of a log none of whose entries is before its position.
LEMMA LastIndex ==
    ASSUME NEW lg \in Seq(Entry), NEW base \in Nat,
           \A k \in 1..Len(lg) : lg[k].index >= base + k
    PROVE  /\ lastLogIndex(lg, base) \in Nat
           /\ lastLogIndex(lg, base) >= base + Len(lg)
           /\ lg # << >> => /\ lastLogIndex(lg, base) = lg[Len(lg)].index
                            /\ Last(lg) = lg[Len(lg)] /\ Len(lg) \in 1..Len(lg)
           /\ lg = << >> => lastLogIndex(lg, base) = base
           /\ Gapless(lg, base) => lastLogIndex(lg, base) = base + Len(lg)
<1>1. Len(lg) \in Nat /\ DOMAIN lg = 1..Len(lg)
  BY LenProperties
<1>2. CASE lg = << >>
  BY <1>2 DEF lastLogIndex
<1>3. CASE lg # << >>
  <2>1. Len(lg) \in 1..Len(lg)
    BY <1>1, <1>3, EmptySeq
  <2>2. lg[Len(lg)] \in Entry
    BY <2>1, ElementOfSeq
  <2>3. lg[Len(lg)].index \in Nat
    BY <2>2 DEF Entry
  <2>4. lastLogIndex(lg, base) = lg[Len(lg)].index /\ Last(lg) = lg[Len(lg)]
    BY <1>3 DEF lastLogIndex, Last
  <2>5. lg[Len(lg)].index >= base + Len(lg)
    BY <2>1
  <2>6. Gapless(lg, base) => lg[Len(lg)].index - base = Len(lg)
    BY <1>1, <2>1 DEF Gapless, Position
  <2> QED
    BY <1>1, <1>3, <2>1, <2>3, <2>4, <2>5, <2>6
<1> QED
  BY <1>2, <1>3

\* The entries that a compaction up to n leaves in memory of the log lg.
TrimmedTo(t, lg, base, n) ==
    /\ t \in Seq(Entry)
    /\ \A k \in 1..Len(t) : t[k].index >= n + k
    /\ ToSet(t) \subseteq ToSet(lg)
    /\ Gapless(lg, base) =>
          /\ Gapless(t, n)
          /\ \A x \in ToSet(lg) : x.index <= n \/ x \in ToSet(t)

LEMMA Trimmed ==
    ASSUME NEW lg \in Seq(Entry), NEW base \in Nat, NEW n \in Nat, base <= n,
           \A k \in 1..Len(lg) : lg[k].index >= base + k,
           NEW t, t = SubSeq(lg, Position(n, base) + 1, Len(lg))
    PROVE  TrimmedTo(t, lg, base, n)
<1> DEFINE a == (n - base) + 1
           m == IF a <= Len(lg) THEN Len(lg) - a + 1 ELSE 0
<1>1. /\ Len(lg) \in Nat /\ DOMAIN lg = 1..Len(lg)
      /\ \A k \in 1..Len(lg) : lg[k] \in Entry
  BY LenProperties, ElementOfSeq
<1>2. a \in Nat /\ a >= 1
  OBVIOUS
<1>u. PICK u : u = t
  OBVIOUS
<1>s. u = SubSeq(lg, a, Len(lg))
  BY <1>u DEF Position
<1>5. a - 1 = n - base
  OBVIOUS
<1> HIDE DEF a
<1>3. /\ u \in Seq(Entry) /\ Len(u) = m /\ m \in Nat
      /\ \A i \in 1..m : u[i] = lg[a + i - 1]
  <2>1. \A i \in a..Len(lg) : lg[i] \in Entry
    BY <1>1, <1>2
  <2> QED
    BY <1>1, <1>2, <1>s, <2>1, SubSeqProperties
<1>4. ASSUME NEW k \in 1..Len(u)
      PROVE  a + k - 1 \in 1..Len(lg) /\ u[k] = lg[a + k - 1]
  BY <1>1, <1>2, <1>3
<1>m. ASSUME NEW k \in 1..Len(u) PROVE u[k].index \in Nat /\ k \in Nat
  <2>1. u[k] \in Entry
    BY <1>3, ElementOfSeq
  <2>2. k \in Nat
    BY <1>3
  <2>3. \A x \in Entry : x.index \in Nat
    BY DEF Entry
  <2> QED
    BY <2>1, <2>2, <2>3
<1>6. ASSUME NEW k \in 1..Len(u) PROVE u[k].index >= n + k
  <2>1. u[k].index >= base + (a + k - 1)
    BY <1>4
  <2>2. u[k].index \in Nat /\ k \in Nat
    BY <1>m, <1>6
  <2> QED
    BY <1>2, <1>5, <2>1, <2>2
<1>7. \A x : x \in ToSet(u) <=> \E k \in a..Len(lg) : x = lg[k]
  <2>1. ASSUME NEW x
        PROVE  x \in ToSet(SubSeq(lg, a, Len(lg))) <=> \E k \in a..Len(lg) : x = lg[k]
    <3>1. Len(lg) \in Int /\ Len(lg) <= Len(lg)
      BY <1>1
    <3> QED
      BY <1>2, <3>1, ToSetSubSeq
  <2> QED
    BY <1>s, <2>1
<1>8. ToSet(u) \subseteq ToSet(lg)
  <2>1. \A k \in a..Len(lg) : k \in 1..Len(lg)
    BY <1>1, <1>2
  <2> QED
    BY <1>1, <1>7, <2>1 DEF ToSet
<1>9. ASSUME Gapless(lg, base) PROVE Gapless(u, n)
  <2>1. DOMAIN u = 1..Len(u)
    BY <1>3, LenProperties
  <2>2. ASSUME NEW k \in 1..Len(u) PROVE u[k].index - n = k
    <3>1. lg[a + k - 1].index - base = a + k - 1
      BY <1>1, <1>4, <1>9 DEF Gapless, Position
    <3>2. u[k].index \in Nat /\ k \in Nat
      BY <1>m, <2>2
    <3>3. u[k].index - base = a + k - 1
      BY <1>4, <3>1
    <3> QED
      BY <1>2, <1>5, <3>2, <3>3
  <2> QED
    BY <2>1, <2>2 DEF Gapless, Position
<1>10. ASSUME Gapless(lg, base), NEW x \in ToSet(lg) PROVE x.index <= n \/ x \in ToSet(u)
  <2>1. PICK k \in 1..Len(lg) : x = lg[k]
    BY <1>1 DEF ToSet
  <2>2. x.index - base = k /\ x.index \in Nat
    BY <1>1, <1>10, <2>1 DEF Gapless, Position, Entry
  <2>3. k >= a \/ x.index <= n
    BY <1>2, <1>5, <2>2
  <2> QED
    BY <1>1, <1>7, <2>1, <2>3
<1> QED
  BY <1>3, <1>6, <1>8, <1>9, <1>10, <1>u DEF TrimmedTo
-----------------------------------------------------------------------------
(***************************************************************************)
(* A handler.                                                              *)
(***************************************************************************)
\* What a handler leaves that ends with the log lg and writes ops: one that
\* writes nothing or a vote has all of the log on disk already, and one that
\* writes an entry has all but that.
Writes(lg, ops, kept) ==
    LET D == OnDisk IN
    \/ /\ ops = << >> \/ \E t \in Nat, v \in Node \cup {Nil} : ops = <<StateRec(t, v)>>
       /\ D.readable => \A x \in ToSet(D.entries) :
                           /\ x.index <= lastLogIndex(lg, snapshot)
                           /\ x.index > snapshot => x \in ToSet(lg)
       /\ \/ ToSet(lg) \subseteq kept
          \/ ops = << >> /\ ToSet(lg) \subseteq ToSet(D.entries)
    \/ \E e \in Entry :
       /\ lg # << >> /\ Last(lg) = e
       /\ \A x \in ToSet(lg) : x = e \/ x \in kept
       /\ \/ /\ ops = <<EntryRec(e)>>
             /\ D.readable => \A x \in ToSet(D.entries) :
                                 /\ x.index < e.index
                                 /\ x.index > snapshot => x \in ToSet(lg)
          \/ /\ ops = <<TruncateRec(e.index), EntryRec(e)>>
             /\ D.readable => \A x \in ToSet(D.entries) :
                                 x.index > snapshot /\ x.index < e.index => x \in ToSet(lg)
             /\ ~holed => \A x \in kept \ unwritten :
                             x.index <= snapshot \/ x.index < e.index

LEMMA WritesTypes ==
    ASSUME NEW lg, NEW ops, NEW kept, Writes(lg, ops, kept)
    PROVE  /\ ops \in Seq(DiskOp)
           /\ \/ ops = << >>
              \/ Len(ops) = 1 /\ ops[1].kind \in {"state", "entry"}
              \/ Len(ops) = 2 /\ ops[1].kind = "truncate" /\ ops[2].kind = "entry"
<1>1. CASE ops = << >>
  BY <1>1, EmptySeq
<1>2. CASE \E t \in Nat, v \in Node \cup {Nil} : ops = <<StateRec(t, v)>>
  <2>1. PICK t \in Nat, v \in Node \cup {Nil} : ops = <<StateRec(t, v)>>
    BY <1>2
  <2>2. StateRec(t, v) \in DiskOp /\ StateRec(t, v).kind = "state"
    BY RecordsMade DEF StateRec
  <2> QED
    BY <2>1, <2>2
<1>3. CASE \E e \in Entry : ops = <<EntryRec(e)>> \/ ops = <<TruncateRec(e.index), EntryRec(e)>>
  <2>1. PICK e \in Entry : ops = <<EntryRec(e)>> \/ ops = <<TruncateRec(e.index), EntryRec(e)>>
    BY <1>3
  <2>2. /\ EntryRec(e) \in DiskOp /\ EntryRec(e).kind = "entry"
        /\ TruncateRec(e.index) \in DiskOp /\ TruncateRec(e.index).kind = "truncate"
    <3>1. e.index \in Nat
      BY DEF Entry
    <3> QED
      BY <3>1, RecordsMade DEF EntryRec, TruncateRec
  <2>3. CASE ops = <<EntryRec(e)>>
    BY <2>2, <2>3
  <2>4. CASE ops = <<TruncateRec(e.index), EntryRec(e)>>
    BY <2>2, <2>4
  <2> QED
    BY <2>1, <2>3, <2>4
<1> QED
  BY <1>1, <1>2, <1>3 DEF Writes

\* The operations of a compaction up to n behind those of the handler.
CompactsAfter(t, ops, n) ==
    /\ t \in Seq(DiskOp) /\ t # << >>
    /\ Len(ops) \in Nat /\ Len(t) = Len(ops) + 3
    /\ \A i \in 1..Len(ops) : t[i] = ops[i]
    /\ t[Len(ops) + 1].kind = "save" /\ t[Len(ops) + 1].index = n
    /\ t[Len(ops) + 2].kind = "reset"
    /\ t[Len(ops) + 3].kind = "state"

LEMMA CompactOps ==
    ASSUME NEW ops \in Seq(DiskOp), NEW n \in Nat, NEW term \in Nat,
           NEW vote \in Node \cup {Nil}, NEW t, t = ops \o takeSnapshot(n, term, vote)
    PROVE  CompactsAfter(t, ops, n)
<1>1. PICK c : c = takeSnapshot(n, term, vote)
  OBVIOUS
<1>2. /\ c \in Seq(DiskOp) /\ Len(c) = 3
      /\ c[1].kind = "save" /\ c[1].index = n /\ c[2].kind = "reset" /\ c[3].kind = "state"
  <2>1. StateRec(term, vote) \in DiskOp /\ [kind |-> "save", index |-> n] \in DiskOp
        /\ [kind |-> "reset"] \in DiskOp
    BY RecordsMade
  <2> QED
    BY <1>1, <2>1 DEF takeSnapshot, StateRec
<1>3. PICK u : u = t
  OBVIOUS
<1>4. u = ops \o c
  BY <1>1, <1>3
<1>5. /\ u \in Seq(DiskOp) /\ Len(u) = Len(ops) + 3 /\ Len(ops) \in Nat
      /\ \A i \in 1..(Len(ops) + 3) : u[i] = IF i <= Len(ops) THEN ops[i] ELSE c[i - Len(ops)]
  <2>1. Len(ops) \in Nat
    BY LenProperties
  <2>2. /\ u \in Seq(DiskOp) /\ Len(u) = Len(ops) + Len(c)
        /\ \A i \in 1..(Len(ops) + Len(c)) :
              u[i] = IF i <= Len(ops) THEN ops[i] ELSE c[i - Len(ops)]
    BY <1>2, <1>4, ConcatProperties
  <2> QED
    BY <1>2, <2>1, <2>2
<1>6. PICK m \in Nat : m = Len(ops)
  BY <1>5
<1>7. \A i \in 1..(m + 3) : u[i] = IF i <= m THEN ops[i] ELSE c[i - m]
  BY <1>5, <1>6
<1>8. u[m + 1] = c[1] /\ u[m + 2] = c[2] /\ u[m + 3] = c[3]
  <2>1. /\ m + 1 \in 1..(m + 3) /\ ~(m + 1 <= m) /\ (m + 1) - m = 1
        /\ m + 2 \in 1..(m + 3) /\ ~(m + 2 <= m) /\ (m + 2) - m = 2
        /\ m + 3 \in 1..(m + 3) /\ ~(m + 3 <= m) /\ (m + 3) - m = 3
    OBVIOUS
  <2> QED
    BY <1>7, <2>1
<1>9. \A i \in 1..m : u[i] = ops[i]
  BY <1>7
<1>10. u # << >>
  BY <1>5, EmptySeq
<1> QED
  BY <1>2, <1>3, <1>5, <1>6, <1>8, <1>9, <1>10 DEF CompactsAfter

\* What a handler leaves to be written keeps the invariant.
LEMMA HandleKeeps ==
    ASSUME TypeOK, DiskOK, LostOnlyBySnapshots, VoteKept,
           NEW term \in Nat, NEW vote \in Node \cup {Nil}, NEW lg \in Seq(Entry),
           NEW n \in Nat, snapshot <= n, NEW applies, NEW ops, NEW dropped,
           Handle(term, vote, lg, snapshot, n, applies, ops, dropped),
           Writes(lg, ops, acked \ dropped),
           applies => \A t, v : ops # <<StateRec(t, v)>>,
           status' = "up", state' \in {"Follower", "Candidate", "Leader"},
           crashes' \in Nat, holed' \in BOOLEAN,
           ~holed' => ~holed /\ Gapless(lg, snapshot),
           \A k \in 1..Len(lg) : lg[k].index >= snapshot + k,
           ~holed' => \A x \in (acked \ dropped) \ unwritten :
                         x.index <= snapshot \/ x \in ToSet(lg)
    PROVE  StorageInv'
<1>1. /\ commitIndex' = n /\ currentTerm' = term /\ votedFor' = vote
      /\ wal' = wal /\ snapshot' = snapshot /\ voted' = voted /\ unwritten' = unwritten
      /\ cleared' = cleared /\ snapshotThreshold' = snapshotThreshold
  BY DEF Handle, disk
<1>2. OnDisk' = OnDisk
  BY <1>1 DEF OnDisk
<1> DEFINE kept == acked \ dropped
<1>3. \/ /\ log' = lg /\ lastIncludedIndex' = snapshot /\ todo' = ops
         /\ acked' = kept \cup (IF ops = << >> THEN ToSet(lg) ELSE {})
      \/ /\ applies
         /\ log' = SubSeq(lg, Position(n, snapshot) + 1, Len(lg))
         /\ lastIncludedIndex' = n
         /\ todo' = ops \o takeSnapshot(n, term, vote)
         /\ acked' = kept \cup (IF todo' = << >> THEN ToSet(lg) ELSE {})
  BY DEF Handle
<1>4. /\ ops \in Seq(DiskOp)
      /\ \/ ops = << >>
         \/ Len(ops) = 1 /\ ops[1].kind \in {"state", "entry"}
         \/ Len(ops) = 2 /\ ops[1].kind = "truncate" /\ ops[2].kind = "entry"
  BY WritesTypes
<1>5. OnDisk \in DiskState /\ Rising(OnDisk.entries) /\ OnDisk.entries \in Seq(Entry)
  BY DEF DiskOK, DiskState
<1>6. /\ snapshot \in Nat /\ acked \subseteq Entry /\ unwritten \subseteq Entry
      /\ wal \in Seq(Record) /\ voted \in State /\ snapshotThreshold \in Thresholds
      /\ cleared \in BOOLEAN
  BY DEF TypeOK
<1>7. ToSet(lg) \subseteq Entry
  BY LenProperties, ElementOfSeq DEF ToSet
<1>8. DiskOK' /\ VoteKept'
  BY <1>1, <1>2, <1>5 DEF DiskOK, VoteKept
<1>9. \A x \in ToSet(RecoveredLog') : x \in ToSet(OnDisk.entries)
  <2>1. RecoveredLog' = LoadedLog(OnDisk.entries, snapshot)
    BY <1>1, <1>2 DEF RecoveredLog
  <2> QED
    BY <1>5, <1>6, <2>1, LoadedLogIs
<1>10. /\ RecoveredLog' = RecoveredLog
       /\ \A x : x \in ToSet(RecoveredLog) <=> x \in ToSet(OnDisk.entries) /\ x.index > snapshot
  BY <1>1, <1>2, <1>5, <1>6, LoadedLogIs DEF RecoveredLog
<1>11. ASSUME OnDisk.readable, ~holed', NEW x \in kept \ unwritten PROVE Found(x)'
  <2>1. Found(x)
    BY <1>11 DEF LostOnlyBySnapshots
  <2> QED
    BY <1>1, <1>10, <2>1 DEF Found
<1>12. ASSUME NEW x \in ToSet(OnDisk.entries), x \in Entry PROVE Found(x)'
  <2>1. x.index \in Nat
    BY <1>12 DEF Entry
  <2>2. x.index <= snapshot \/ x \in ToSet(RecoveredLog)
    BY <1>6, <1>10, <2>1
  <2> QED
    BY <1>1, <1>10, <2>2 DEF Found
<1>13. CASE /\ log' = lg /\ lastIncludedIndex' = snapshot /\ todo' = ops
            /\ acked' = kept \cup (IF ops = << >> THEN ToSet(lg) ELSE {})
  <2>1. acked' \subseteq Entry
    BY <1>6, <1>7, <1>13
  <2>2. TypeOK'
    BY <1>1, <1>4, <1>6, <1>13, <2>1 DEF TypeOK
  <2>3. MemoryOK'
    BY <1>1, <1>13 DEF MemoryOK
  <2>4. AckedInMemory'
    BY <1>1, <1>13 DEF AckedInMemory
  <2>5. LostOnlyBySnapshots'
    <3>1. SUFFICES ASSUME OnDisk.readable, ~holed', NEW x \in acked' \ unwritten'
                   PROVE  Found(x)'
      BY <1>2 DEF LostOnlyBySnapshots
    <3>2. CASE x \in kept
      BY <1>1, <1>11, <3>1, <3>2
    <3>3. CASE x \notin kept
      <4>1. ops = << >> /\ x \in ToSet(lg)
        BY <1>13, <3>1, <3>3
      <4>2. x \in ToSet(OnDisk.entries)
        BY <3>3, <4>1 DEF Writes
      <4> QED
        BY <1>7, <1>12, <4>1, <4>2
    <3> QED
      BY <3>2, <3>3
  <2>6. snapshot' = lastIncludedIndex'
    BY <1>1, <1>13
  <2>7. CASE ops = << >>
    <3>1. PhaseIdle'
      BY <1>1, <1>2, <1>13, <2>7 DEF PhaseIdle, ReadInMemory, ReadUpToLast, Writes
    <3> QED
      BY <1>8, <2>2, <2>3, <2>4, <2>5, <2>6, <3>1 DEF StorageInv, PhaseOK
  <2>8. CASE \E t \in Nat, v \in Node \cup {Nil} : ops = <<StateRec(t, v)>>
    <3>1. PICK t \in Nat, v \in Node \cup {Nil} : ops = <<StateRec(t, v)>>
      BY <2>8
    <3>2. Len(ops) = 1 /\ ops[1].kind = "state" /\ ops # << >>
      BY <3>1 DEF StateRec
    <3>3. /\ ToSet(lg) \subseteq kept
          /\ OnDisk.readable => \A x \in ToSet(OnDisk.entries) :
                /\ x.index <= lastLogIndex(lg, snapshot)
                /\ x.index > snapshot => x \in ToSet(lg)
      <4>1. \A e : ops # <<EntryRec(e)>> /\ ops # <<TruncateRec(e.index), EntryRec(e)>>
        BY <3>1 DEF StateRec, EntryRec
      <4> QED
        BY <3>2, <4>1 DEF Writes
    <3>4. PhaseState'
      BY <1>1, <1>2, <1>13, <3>2, <3>3 DEF PhaseState, ReadInMemory, ReadUpToLast
    <3> QED
      BY <1>8, <2>2, <2>3, <2>4, <2>5, <2>6, <3>4 DEF StorageInv, PhaseOK
  <2>9. CASE \E e \in Entry : ops = <<EntryRec(e)>>
    <3>1. PICK d \in Entry : ops = <<EntryRec(d)>>
      BY <2>9
    <3>2. /\ Len(ops) = 1 /\ ops[1].kind = "entry" /\ ops[1].entry = d /\ ops # << >>
          /\ \A t, v : ops # <<StateRec(t, v)>>
          /\ \A e : ops # <<TruncateRec(e.index), EntryRec(e)>>
          /\ \A e : ops = <<EntryRec(e)>> => e = d
      BY <3>1 DEF EntryRec, StateRec
    <3>3. /\ lg # << >> /\ Last(lg) = d
          /\ \A x \in ToSet(lg) : x = d \/ x \in kept
          /\ OnDisk.readable => \A x \in ToSet(OnDisk.entries) :
                                   /\ x.index < d.index
                                   /\ x.index > snapshot => x \in ToSet(lg)
      BY <3>2 DEF Writes
    <3>4. acked' = kept
      BY <1>13, <3>2
    <3>5. PhaseEntry'
      BY <1>1, <1>2, <1>13, <3>2, <3>3, <3>4 DEF PhaseEntry, ReadInMemory, ReadBefore, OnlyNew
    <3> QED
      BY <1>8, <2>2, <2>3, <2>4, <2>5, <2>6, <3>5 DEF StorageInv, PhaseOK
  <2>10. CASE \E e \in Entry : ops = <<TruncateRec(e.index), EntryRec(e)>>
    <3>1. PICK d \in Entry : ops = <<TruncateRec(d.index), EntryRec(d)>>
      BY <2>10
    <3>2. /\ Len(ops) = 2 /\ ops[1].kind = "truncate" /\ ops[1].index = d.index
          /\ ops[2].kind = "entry" /\ ops[2].entry = d /\ ops # << >>
          /\ \A t, v : ops # <<StateRec(t, v)>>
          /\ \A e : ops # <<EntryRec(e)>>
          /\ \A e : ops = <<TruncateRec(e.index), EntryRec(e)>> => e = d
      BY <3>1 DEF EntryRec, StateRec, TruncateRec
    <3>3. /\ lg # << >> /\ Last(lg) = d
          /\ \A x \in ToSet(lg) : x = d \/ x \in kept
          /\ OnDisk.readable => \A x \in ToSet(OnDisk.entries) :
                                   x.index > snapshot /\ x.index < d.index => x \in ToSet(lg)
          /\ ~holed => \A x \in kept \ unwritten : x.index <= snapshot \/ x.index < d.index
      BY <3>2 DEF Writes
    <3>4. acked' = kept
      BY <1>13, <3>2
    <3>5. PhaseTruncate'
      BY <1>1, <1>2, <1>13, <3>2, <3>3, <3>4
         DEF PhaseTruncate, EntryAt, ReadBelowInMemory, AckedBefore, OnlyNew
    <3> QED
      BY <1>8, <2>2, <2>3, <2>4, <2>5, <2>6, <3>5 DEF StorageInv, PhaseOK
  <2> QED
    BY <2>7, <2>8, <2>9, <2>10 DEF Writes
<1>14. CASE /\ applies
            /\ log' = SubSeq(lg, Position(n, snapshot) + 1, Len(lg))
            /\ lastIncludedIndex' = n
            /\ todo' = ops \o takeSnapshot(n, term, vote)
            /\ acked' = kept \cup (IF todo' = << >> THEN ToSet(lg) ELSE {})
  <2>1. PICK t : t = log'
    OBVIOUS
  <2>2. PICK d : d = todo'
    OBVIOUS
  <2>3. /\ d \in Seq(DiskOp) /\ d # << >>
        /\ Len(ops) \in Nat /\ Len(d) = Len(ops) + 3
        /\ \A i \in 1..Len(ops) : d[i] = ops[i]
        /\ d[Len(ops) + 1].kind = "save" /\ d[Len(ops) + 1].index = n
        /\ d[Len(ops) + 2].kind = "reset"
        /\ d[Len(ops) + 3].kind = "state"
    <3>1. ops \in Seq(DiskOp) /\ d = ops \o takeSnapshot(n, term, vote)
      BY <1>4, <1>14, <2>2
    <3>2. CompactsAfter(d, ops, n)
      BY <3>1, CompactOps
    <3> QED
      BY <3>2 DEF CompactsAfter
  <2>4. /\ t \in Seq(Entry)
        /\ \A k \in 1..Len(t) : t[k].index >= n + k
        /\ ToSet(t) \subseteq ToSet(lg)
        /\ Gapless(lg, snapshot) =>
              /\ Gapless(t, n)
              /\ \A x \in ToSet(lg) : x.index <= n \/ x \in ToSet(t)
    <3>1. snapshot \in Nat /\ t = SubSeq(lg, Position(n, snapshot) + 1, Len(lg))
      BY <1>6, <1>14, <2>1
    <3>2. TrimmedTo(t, lg, snapshot, n)
      BY <3>1, Trimmed
    <3> QED
      BY <3>2 DEF TrimmedTo
  <2>5. acked' = kept
    BY <1>14, <2>2, <2>3
  <2>6. TypeOK'
    BY <1>1, <1>4, <1>6, <1>14, <2>1, <2>2, <2>3, <2>4, <2>5 DEF TypeOK
  <2>7. MemoryOK'
    BY <1>1, <1>14, <2>1, <2>4 DEF MemoryOK
  <2>8. AckedInMemory'
    <3>1. SUFFICES ASSUME ~holed', NEW x \in kept \ unwritten
                   PROVE  x.index <= n \/ x \in ToSet(t)
      BY <1>1, <1>14, <2>1, <2>5 DEF AckedInMemory
    <3>2. x.index \in Nat
      BY <1>6 DEF Entry
    <3>3. x.index <= snapshot \/ x \in ToSet(lg)
      BY <3>1
    <3> QED
      BY <1>6, <2>4, <3>1, <3>2, <3>3
  <2>9. LostOnlyBySnapshots'
    BY <1>1, <1>2, <1>11, <2>5 DEF LostOnlyBySnapshots
  <2>10. snapshot' <= lastIncludedIndex'
    BY <1>1, <1>14
  <2>11. CASE ops = << >>
    <3>1. Compacts(0)'
      BY <1>14, <2>2, <2>3, <2>11 DEF Compacts
    <3> QED
      BY <1>8, <2>6, <2>7, <2>8, <2>9, <2>10, <3>1 DEF StorageInv, PhaseOK
  <2>12. CASE \E u \in Nat, v \in Node \cup {Nil} : ops = <<StateRec(u, v)>>
    BY <1>14, <2>12
  <2>13. CASE \E e \in Entry : ops = <<EntryRec(e)>>
    <3>1. PICK y \in Entry : ops = <<EntryRec(y)>>
      BY <2>13
    <3>2. /\ Len(ops) = 1 /\ ops[1].kind = "entry" /\ ops[1].entry = y /\ ops # << >>
          /\ \A u, v : ops # <<StateRec(u, v)>>
          /\ \A e : ops # <<TruncateRec(e.index), EntryRec(e)>>
          /\ \A e : ops = <<EntryRec(e)>> => e = y
      BY <3>1 DEF EntryRec, StateRec
    <3>3. OnDisk.readable => \A x \in ToSet(OnDisk.entries) : x.index < y.index
      BY <3>2 DEF Writes
    <3>4. d[1] = ops[1]
      BY <2>3, <3>2
    <3>5. PhaseEntryCompact'
      BY <1>2, <1>14, <2>2, <2>3, <3>2, <3>3, <3>4
         DEF PhaseEntryCompact, Compacts, ReadBefore
    <3> QED
      BY <1>8, <2>6, <2>7, <2>8, <2>9, <2>10, <3>5 DEF StorageInv, PhaseOK
  <2>14. CASE \E e \in Entry : ops = <<TruncateRec(e.index), EntryRec(e)>>
    <3>1. PICK y \in Entry : ops = <<TruncateRec(y.index), EntryRec(y)>>
      BY <2>14
    <3>2. /\ Len(ops) = 2 /\ ops[1].kind = "truncate" /\ ops[1].index = y.index
          /\ ops[2].kind = "entry" /\ ops[2].entry = y /\ ops # << >>
          /\ \A u, v : ops # <<StateRec(u, v)>>
          /\ \A e : ops # <<EntryRec(e)>>
          /\ \A e : ops = <<TruncateRec(e.index), EntryRec(e)>> => e = y
      BY <3>1 DEF EntryRec, StateRec, TruncateRec
    <3>3. ~holed => \A x \in kept \ unwritten : x.index <= snapshot \/ x.index < y.index
      BY <3>2 DEF Writes
    <3>4. d[1] = ops[1] /\ d[2] = ops[2]
      BY <2>3, <3>2
    <3>5. PhaseTruncateCompact'
      BY <1>1, <1>14, <2>2, <2>3, <2>5, <3>2, <3>3, <3>4
         DEF PhaseTruncateCompact, Compacts, EntryAt, AckedBefore
    <3> QED
      BY <1>8, <2>6, <2>7, <2>8, <2>9, <2>10, <3>5 DEF StorageInv, PhaseOK
  <2> QED
    BY <2>11, <2>12, <2>13, <2>14 DEF Writes
<1> QED
  BY <1>3, <1>13, <1>14

\* Between two handlers the log is on disk and has been acknowledged.
LEMMA IdleFacts ==
    ASSUME StorageInv, Idle
    PROVE  /\ snapshot = lastIncludedIndex /\ ReadInMemory /\ ReadUpToLast
           /\ ToSet(log) \subseteq acked /\ status = "up" /\ todo = << >>
           /\ log \in Seq(Entry) /\ Len(log) \in Nat /\ DOMAIN log = 1..Len(log)
           /\ \A k \in 1..Len(log) : log[k] \in Entry /\ log[k].index \in Nat /\ log[k] \in ToSet(log)
           /\ snapshot \in Nat /\ commitIndex \in Nat /\ snapshot <= commitIndex
           /\ \A k \in 1..Len(log) : log[k].index >= snapshot + k
           /\ ~holed => Gapless(log, snapshot)
           /\ ~holed => \A x \in acked \ unwritten : x.index <= snapshot \/ x \in ToSet(log)
           /\ lastLogIndex(log, snapshot) \in Nat
           /\ lastLogIndex(log, snapshot) >= snapshot + Len(log)
<1>1. status = "up" /\ todo = << >> /\ Len(todo) = 0
  BY DEF Idle
<1>2. snapshot = lastIncludedIndex /\ PhaseIdle
  BY <1>1 DEF StorageInv, PhaseOK, PhaseState, PhaseEntry, PhaseTruncate, PhaseReset,
              PhaseEntryCompact, PhaseTruncateCompact, Compacts
<1>3. log \in Seq(Entry) /\ snapshot \in Nat /\ commitIndex \in Nat
  BY DEF StorageInv, TypeOK
<1>4. Len(log) \in Nat /\ DOMAIN log = 1..Len(log)
  BY <1>3, LenProperties
<1>5. \A k \in 1..Len(log) : log[k] \in Entry /\ log[k].index \in Nat /\ log[k] \in ToSet(log)
  <2>1. ASSUME NEW k \in 1..Len(log) PROVE log[k] \in Entry
    BY <1>3, ElementOfSeq
  <2>2. ASSUME NEW k \in 1..Len(log) PROVE log[k] \in ToSet(log)
    BY <1>4 DEF ToSet
  <2> QED
    BY <2>1, <2>2 DEF Entry
<1>6. /\ snapshot <= commitIndex
      /\ \A k \in 1..Len(log) : log[k].index >= snapshot + k
      /\ ~holed => Gapless(log, snapshot)
  BY <1>2 DEF StorageInv, MemoryOK
<1>7. ~holed => \A x \in acked \ unwritten : x.index <= snapshot \/ x \in ToSet(log)
  BY <1>1, <1>2 DEF StorageInv, AckedInMemory
<1>8. lastLogIndex(log, snapshot) \in Nat /\ lastLogIndex(log, snapshot) >= snapshot + Len(log)
  BY <1>3, <1>6, LastIndex
<1> QED
  BY <1>1, <1>2, <1>3, <1>4, <1>5, <1>6, <1>7, <1>8 DEF PhaseIdle

\* A handler that leaves the log alone, and writes nothing or a vote.
LEMMA SameLogWrites ==
    ASSUME StorageInv, Idle, NEW ops,
           ops = << >> \/ \E t \in Nat, v \in Node \cup {Nil} : ops = <<StateRec(t, v)>>
    PROVE  Writes(log, ops, acked \ {})
<1>1. /\ snapshot = lastIncludedIndex /\ ReadInMemory /\ ReadUpToLast
      /\ ToSet(log) \subseteq acked
  BY IdleFacts
<1> QED
  BY <1>1 DEF Writes, ReadInMemory, ReadUpToLast

LEMMA CastVoteInv ==
    ASSUME StorageInv, NEW c \in Node, NEW term \in 1..MaxTerm, CastVote(c, term)
    PROVE  StorageInv'
<1>1. Idle /\ term \in Nat /\ c \in Node \cup {Nil}
  BY StorageAssumption DEF CastVote
<1>2. /\ snapshot = lastIncludedIndex /\ commitIndex \in Nat /\ snapshot <= commitIndex
      /\ log \in Seq(Entry) /\ status = "up"
      /\ \A k \in 1..Len(log) : log[k].index >= snapshot + k
      /\ ~holed => Gapless(log, snapshot)
      /\ ~holed => \A x \in acked \ unwritten : x.index <= snapshot \/ x \in ToSet(log)
  BY <1>1, IdleFacts
<1>3. PICK ops : ops = <<StateRec(term, c)>>
  OBVIOUS
<1>4. Writes(log, ops, acked \ {})
  BY <1>1, <1>3, SameLogWrites
<1>5. /\ Handle(term, c, log, snapshot, commitIndex, FALSE, ops, {})
      /\ status' = "up" /\ state' \in {"Follower", "Candidate", "Leader"}
      /\ crashes' = crashes /\ holed' = holed
  BY <1>2, <1>3 DEF CastVote
<1>6. crashes \in Nat /\ holed \in BOOLEAN
  BY DEF StorageInv, TypeOK
<1>7. \A x \in (acked \ {}) \ unwritten : x \in acked \ unwritten
  OBVIOUS
<1> QED
  BY <1>1, <1>2, <1>4, <1>5, <1>6, <1>7, HandleKeeps DEF StorageInv

LEMMA LearnTermInv ==
    ASSUME StorageInv, NEW term \in 1..MaxTerm, LearnTerm(term)
    PROVE  StorageInv'
<1>1. Idle /\ term \in Nat /\ Nil \in Node \cup {Nil}
  BY StorageAssumption DEF LearnTerm
<1>2. /\ snapshot = lastIncludedIndex /\ commitIndex \in Nat /\ snapshot <= commitIndex
      /\ log \in Seq(Entry) /\ status = "up"
      /\ \A k \in 1..Len(log) : log[k].index >= snapshot + k
      /\ ~holed => Gapless(log, snapshot)
      /\ ~holed => \A x \in acked \ unwritten : x.index <= snapshot \/ x \in ToSet(log)
  BY <1>1, IdleFacts
<1>3. PICK ops : ops = << >>
  OBVIOUS
<1>4. Writes(log, ops, acked \ {})
  BY <1>1, <1>3, SameLogWrites
<1>5. /\ Handle(term, Nil, log, snapshot, commitIndex, FALSE, ops, {})
      /\ status' = "up" /\ state' \in {"Follower", "Candidate", "Leader"}
      /\ crashes' = crashes /\ holed' = holed
  BY <1>2, <1>3 DEF LearnTerm
<1>6. crashes \in Nat /\ holed \in BOOLEAN
  BY DEF StorageInv, TypeOK
<1>7. \A x \in (acked \ {}) \ unwritten : x \in acked \ unwritten
  OBVIOUS
<1> QED
  BY <1>1, <1>2, <1>4, <1>5, <1>6, <1>7, HandleKeeps DEF StorageInv

LEMMA CommitOwnInv ==
    ASSUME StorageInv, NEW n \in 1..MaxIndex, CommitOwn(n)
    PROVE  StorageInv'
<1>1. Idle /\ n \in Nat
  BY StorageAssumption DEF CommitOwn
<1>2. /\ snapshot = lastIncludedIndex /\ commitIndex \in Nat /\ snapshot <= commitIndex
      /\ log \in Seq(Entry) /\ status = "up" /\ snapshot \in Nat
      /\ \A k \in 1..Len(log) : log[k].index >= snapshot + k
      /\ ~holed => Gapless(log, snapshot)
      /\ ~holed => \A x \in acked \ unwritten : x.index <= snapshot \/ x \in ToSet(log)
      /\ lastLogIndex(log, snapshot) \in Nat
  BY <1>1, IdleFacts
<1>3. PICK ops : ops = << >>
  OBVIOUS
<1>4. Writes(log, ops, acked \ {})
  BY <1>1, <1>3, SameLogWrites
<1>5. /\ Handle(currentTerm, votedFor, log, snapshot, n, TRUE, ops, {})
      /\ status' = "up" /\ state' = state
      /\ crashes' = crashes /\ holed' = holed
      /\ n \in (commitIndex + 1)..lastLogIndex(log, snapshot)
  BY <1>2, <1>3 DEF CommitOwn
<1>6. /\ crashes \in Nat /\ holed \in BOOLEAN /\ currentTerm \in Nat
      /\ votedFor \in Node \cup {Nil} /\ state \in {"Follower", "Candidate", "Leader"}
  BY DEF StorageInv, TypeOK
<1>7. \A x \in (acked \ {}) \ unwritten : x \in acked \ unwritten
  OBVIOUS
<1>8. snapshot <= n /\ \A t, v : ops # <<StateRec(t, v)>>
  BY <1>1, <1>2, <1>3, <1>5
<1> QED
  BY <1>1, <1>2, <1>4, <1>5, <1>6, <1>7, <1>8, HandleKeeps DEF StorageInv

\* A log that grows by the entry e at its place.
GrownBy(t, lg, base, e) ==
    /\ t \in Seq(Entry) /\ t # << >> /\ Last(t) = e
    /\ ToSet(t) = ToSet(lg) \cup {e}
    /\ \A k \in 1..Len(t) : t[k].index >= base + k
    /\ Gapless(lg, base) => Gapless(t, base)

LEMMA Grown ==
    ASSUME NEW lg \in Seq(Entry), NEW base \in Nat, NEW e \in Entry,
           \A k \in 1..Len(lg) : lg[k].index >= base + k,
           e.index >= base + Len(lg) + 1,
           Gapless(lg, base) => e.index = base + Len(lg) + 1,
           NEW t, t = Append(lg, e)
    PROVE  GrownBy(t, lg, base, e)
<1>1. PICK u : u = t
  OBVIOUS
<1>2. Len(lg) \in Nat /\ DOMAIN lg = 1..Len(lg) /\ e.index \in Nat
  BY LenProperties DEF Entry
<1>3. /\ u \in Seq(Entry) /\ Len(u) = Len(lg) + 1 /\ u[Len(lg) + 1] = e
      /\ \A k \in 1..Len(lg) : u[k] = lg[k]
  BY <1>1, <1>2, AppendProperties
<1>4. DOMAIN u = 1..Len(u) /\ u # << >>
  BY <1>2, <1>3, LenProperties, EmptySeq
<1>5. Last(u) = e
  BY <1>3 DEF Last
<1>6. ToSet(u) = ToSet(lg) \cup {e}
  BY <1>1, ToSetAppend
<1>7. ASSUME NEW k \in 1..Len(u) PROVE u[k].index >= base + k
  <2>1. k \in 1..Len(lg) \/ k = Len(lg) + 1
    BY <1>2, <1>3
  <2> QED
    BY <1>2, <1>3, <2>1
<1>8. ASSUME Gapless(lg, base) PROVE Gapless(u, base)
  <2>1. SUFFICES ASSUME NEW k \in 1..Len(u) PROVE u[k].index - base = k
    BY <1>4 DEF Gapless, Position
  <2>2. CASE k \in 1..Len(lg)
    BY <1>2, <1>3, <1>8, <2>2 DEF Gapless, Position
  <2>3. CASE k = Len(lg) + 1
    BY <1>2, <1>3, <1>8, <2>3
  <2> QED
    BY <1>2, <1>3, <2>2, <2>3
<1> QED
  BY <1>1, <1>3, <1>4, <1>5, <1>6, <1>7, <1>8 DEF GrownBy

\* A new entry behind the last one is the only one to be written.
LEMMA NewEntryWrites ==
    ASSUME StorageInv, Idle, NEW e \in Entry, e.index = lastLogIndex(log, snapshot) + 1,
           NEW t, t = Append(log, e), NEW ops, ops = <<EntryRec(e)>>,
           NEW dropped, dropped \cap ToSet(log) = {}
    PROVE  /\ GrownBy(t, log, snapshot, e)
           /\ Writes(t, ops, acked \ dropped)
<1>1. /\ snapshot = lastIncludedIndex /\ ReadInMemory /\ ReadUpToLast
      /\ ToSet(log) \subseteq acked /\ log \in Seq(Entry) /\ Len(log) \in Nat
      /\ snapshot \in Nat /\ lastLogIndex(log, snapshot) \in Nat
      /\ \A k \in 1..Len(log) : log[k].index >= snapshot + k
      /\ lastLogIndex(log, snapshot) >= snapshot + Len(log)
  BY IdleFacts
<1>2. Gapless(log, snapshot) => lastLogIndex(log, snapshot) = snapshot + Len(log)
  BY <1>1, LastIndex
<1>3. /\ e.index >= snapshot + Len(log) + 1
      /\ Gapless(log, snapshot) => e.index = snapshot + Len(log) + 1
  BY <1>1, <1>2
<1>4. GrownBy(t, log, snapshot, e)
  BY <1>1, <1>3, Grown
<1>5. t # << >> /\ Last(t) = e /\ ToSet(t) = ToSet(log) \cup {e}
  BY <1>4 DEF GrownBy
<1>6. \A x \in ToSet(t) : x = e \/ x \in acked \ dropped
  BY <1>1, <1>5
<1>7. OnDisk.readable => \A x \in ToSet(OnDisk.entries) :
                            /\ x.index < e.index
                            /\ x.index > snapshot => x \in ToSet(t)
  <2>1. OnDisk.entries \in Seq(Entry)
    BY DEF StorageInv, DiskOK, DiskState
  <2>2. \A x \in ToSet(OnDisk.entries) : x.index \in Nat
    <3>1. \A k \in DOMAIN OnDisk.entries : OnDisk.entries[k] \in Entry
      BY <2>1, LenProperties, ElementOfSeq
    <3> QED
      BY <3>1 DEF ToSet, Entry
  <2>3. OnDisk.readable => \A x \in ToSet(OnDisk.entries) :
           /\ x.index <= lastLogIndex(log, snapshot)
           /\ x.index > snapshot => x \in ToSet(log)
    BY <1>1 DEF ReadInMemory, ReadUpToLast
  <2> QED
    BY <1>1, <1>5, <2>2, <2>3
<1>8. Writes(t, ops, acked \ dropped)
  <2>1. /\ t # << >> /\ Last(t) = e
        /\ \A x \in ToSet(t) : x = e \/ x \in acked \ dropped
        /\ ops = <<EntryRec(e)>>
        /\ OnDisk.readable => \A x \in ToSet(OnDisk.entries) :
                                 /\ x.index < e.index
                                 /\ x.index > snapshot => x \in ToSet(t)
    BY <1>5, <1>6, <1>7
  <2> QED
    BY <2>1 DEF Writes
<1> QED
  BY <1>4, <1>8

LEMMA AppendOwnInv ==
    ASSUME StorageInv, AppendOwn
    PROVE  StorageInv'
<1>1. Idle
  BY DEF AppendOwn
<1>2. /\ snapshot = lastIncludedIndex /\ commitIndex \in Nat /\ snapshot <= commitIndex
      /\ log \in Seq(Entry) /\ status = "up" /\ snapshot \in Nat
      /\ ~holed => Gapless(log, snapshot)
      /\ ~holed => \A x \in acked \ unwritten : x.index <= snapshot \/ x \in ToSet(log)
      /\ lastLogIndex(log, snapshot) \in Nat
  BY <1>1, IdleFacts
<1>3. /\ crashes \in Nat /\ holed \in BOOLEAN /\ currentTerm \in Nat
      /\ votedFor \in Node \cup {Nil}
  BY DEF StorageInv, TypeOK
<1>4. PICK e : e = [index |-> lastLogIndex(log, snapshot) + 1, term |-> currentTerm]
  OBVIOUS
<1>5. e \in Entry /\ e.index = lastLogIndex(log, snapshot) + 1
  BY <1>2, <1>3, <1>4 DEF Entry
<1>6. PICK ops : ops = <<EntryRec(e)>>
  OBVIOUS
<1>7. PICK t : t = Append(log, e)
  OBVIOUS
<1>8. GrownBy(t, log, snapshot, e) /\ Writes(t, ops, acked \ {})
  <2>1. {} \cap ToSet(log) = {}
    OBVIOUS
  <2> QED
    BY <1>1, <1>5, <1>6, <1>7, <2>1, NewEntryWrites
<1>9. /\ Handle(currentTerm, votedFor, t, snapshot, commitIndex, FALSE, ops, {})
      /\ status' = "up" /\ state' = "Leader"
      /\ crashes' = crashes /\ holed' = holed
  BY <1>2, <1>4, <1>6, <1>7 DEF AppendOwn
<1>10. /\ t \in Seq(Entry) /\ ToSet(log) \subseteq ToSet(t)
       /\ \A k \in 1..Len(t) : t[k].index >= snapshot + k
       /\ Gapless(log, snapshot) => Gapless(t, snapshot)
  BY <1>8 DEF GrownBy
<1>11. ~holed => \A x \in (acked \ {}) \ unwritten : x.index <= snapshot \/ x \in ToSet(t)
  BY <1>2, <1>10
<1> QED
  BY <1>2, <1>3, <1>8, <1>9, <1>10, <1>11, HandleKeeps DEF StorageInv

\* An entry that conflicts takes the place of the one with its index and of all
\* after that.
LEMMA ConflictWrites ==
    ASSUME StorageInv, Idle, NEW e \in Entry, NEW p \in Nat, e.index = snapshot + p,
           p \in 1..Len(log), log[p].term # e.term,
           NEW t, t = Append(SubSeq(log, 1, p - 1), e),
           NEW ops, ops = <<TruncateRec(e.index), EntryRec(e)>>,
           NEW kept, kept = acked \ (ToSet(log) \ ToSet(t))
    PROVE  /\ GrownBy(t, SubSeq(log, 1, p - 1), snapshot, e)
           /\ Gapless(log, snapshot) => Gapless(t, snapshot)
           /\ Writes(t, ops, kept)
           /\ ~holed => \A x \in kept \ unwritten : x.index <= snapshot \/ x \in ToSet(t)
<1>1. /\ snapshot = lastIncludedIndex /\ ReadInMemory
      /\ ToSet(log) \subseteq acked /\ log \in Seq(Entry) /\ Len(log) \in Nat
      /\ DOMAIN log = 1..Len(log) /\ snapshot \in Nat
      /\ \A k \in 1..Len(log) : log[k].index >= snapshot + k
      /\ \A k \in 1..Len(log) : log[k] \in Entry /\ log[k].index \in Nat /\ log[k] \in ToSet(log)
      /\ ~holed => Gapless(log, snapshot)
      /\ ~holed => \A x \in acked \ unwritten : x.index <= snapshot \/ x \in ToSet(log)
  BY IdleFacts
<1>2. e.index \in Nat /\ e.index = snapshot + p
  BY <1>1 DEF Entry
<1>3. PICK s : s = SubSeq(log, 1, p - 1)
  OBVIOUS
<1>4. /\ s \in Seq(Entry) /\ Len(s) = p - 1 /\ DOMAIN s = 1..(p - 1)
      /\ \A k \in 1..(p - 1) : s[k] = log[k]
  <2>1. p - 1 \in Nat /\ p - 1 <= Len(log) /\ \A i \in 1..(p - 1) : log[i] \in Entry
    BY <1>1
  <2>2. /\ s \in Seq(Entry)
        /\ Len(s) = IF 1 <= p - 1 THEN (p - 1) - 1 + 1 ELSE 0
        /\ \A i \in 1..((p - 1) - 1 + 1) : s[i] = log[1 + i - 1]
    BY <1>3, <2>1, SubSeqProperties
  <2> QED
    BY <2>1, <2>2, LenProperties
<1>5. \A k \in 1..Len(s) : s[k].index >= snapshot + k
  BY <1>1, <1>4
<1>6. GrownBy(t, s, snapshot, e)
  <2>1. e.index >= snapshot + Len(s) + 1 /\ e.index = snapshot + Len(s) + 1
    <3>1. PICK m \in Nat : m = Len(s) /\ p = m + 1
      BY <1>4, LenProperties
    <3>3. PICK b \in Nat : b = snapshot
      BY <1>1
    <3>4. b + p = b + m + 1
      BY <3>1
    <3>2. e.index = snapshot + m + 1 /\ e.index \in Nat
      BY <1>2, <3>3, <3>4
    <3> QED
      BY <3>1, <3>2
  <2> QED
    BY <1>1, <1>3, <1>4, <1>5, <2>1, Grown
<1>7. /\ t # << >> /\ Last(t) = e /\ ToSet(t) = ToSet(s) \cup {e}
      /\ Gapless(s, snapshot) => Gapless(t, snapshot)
  BY <1>6 DEF GrownBy
<1>8. Gapless(log, snapshot) => Gapless(s, snapshot)
  BY <1>1, <1>4 DEF Gapless, Position
<1>9. \A x : x \in ToSet(s) <=> \E k \in 1..(p - 1) : x = log[k]
  BY <1>4 DEF ToSet
<1>10. \A x \in ToSet(t) : x = e \/ x \in kept
  BY <1>1, <1>7, <1>9
<1>11. \A x \in ToSet(log) : \E k \in 1..Len(log) : x = log[k]
  BY <1>1 DEF ToSet
<1>12. OnDisk.readable => \A x \in ToSet(OnDisk.entries) :
                             x.index > snapshot /\ x.index < e.index => x \in ToSet(t)
  <2>1. SUFFICES ASSUME OnDisk.readable, NEW x \in ToSet(OnDisk.entries),
                        x.index > snapshot, x.index < e.index
                 PROVE  x \in ToSet(t)
    OBVIOUS
  <2>2. PICK k \in 1..Len(log) : x = log[k]
    BY <1>1, <1>11, <2>1 DEF ReadInMemory
  <2>3. k \in 1..(p - 1)
    BY <1>1, <1>2, <2>1, <2>2
  <2> QED
    BY <1>7, <1>9, <2>2, <2>3
<1>13. ASSUME ~holed, NEW x \in kept \ unwritten, ~(x.index <= snapshot)
       PROVE  x \in ToSet(t) /\ x.index < e.index
  <2>1. x \in ToSet(log) /\ x \in ToSet(t)
    BY <1>1, <1>13
  <2>2. PICK k \in 1..Len(log) : x = log[k]
    BY <1>11, <2>1
  <2>3. x.index - snapshot = k
    BY <1>1, <1>13, <2>2 DEF Gapless, Position
  <2>4. x # e
    BY <1>1, <1>2, <2>2, <2>3
  <2>5. PICK j \in 1..(p - 1) : x = log[j]
    BY <1>7, <1>9, <2>1, <2>4
  <2>6. j \in 1..Len(log)
    BY <1>1
  <2>7. x.index - snapshot = j
    BY <1>1, <1>13, <2>5, <2>6 DEF Gapless, Position
  <2> QED
    BY <1>1, <1>2, <2>1, <2>5, <2>6, <2>7
<1>14. Writes(t, ops, kept)
  <2>1. /\ t # << >> /\ Last(t) = e
        /\ \A x \in ToSet(t) : x = e \/ x \in kept
        /\ ops = <<TruncateRec(e.index), EntryRec(e)>>
        /\ OnDisk.readable => \A x \in ToSet(OnDisk.entries) :
                                 x.index > snapshot /\ x.index < e.index => x \in ToSet(t)
        /\ ~holed => \A x \in kept \ unwritten : x.index <= snapshot \/ x.index < e.index
    BY <1>7, <1>10, <1>12, <1>13
  <2> QED
    BY <2>1 DEF Writes
<1> QED
  BY <1>3, <1>6, <1>7, <1>8, <1>13, <1>14

\* The rest of processAppendEntries, with the log t and the operations ops.
LEMMA ReceivedKeeps ==
    ASSUME StorageInv, Idle, NEW l \in Node, NEW n \in Nat, NEW t \in Seq(Entry), NEW ops,
           NEW dropped, NEW c, c = CommitUpTo(n, t, snapshot),
           Handle(currentTerm, l, t, snapshot, c, n > commitIndex, ops, dropped),
           Writes(t, ops, acked \ dropped),
           \A u, v : ops # <<StateRec(u, v)>>,
           state' = "Follower", status' = status, crashes' = crashes, holed' = holed,
           Gapless(log, snapshot) => Gapless(t, snapshot),
           \A k \in 1..Len(t) : t[k].index >= snapshot + k,
           ~holed => \A x \in (acked \ dropped) \ unwritten :
                        x.index <= snapshot \/ x \in ToSet(t)
    PROVE  StorageInv'
<1>1. /\ snapshot \in Nat /\ commitIndex \in Nat /\ snapshot <= commitIndex /\ status = "up"
      /\ ~holed => Gapless(log, snapshot)
  BY IdleFacts
<1>2. crashes \in Nat /\ holed \in BOOLEAN /\ currentTerm \in Nat /\ l \in Node \cup {Nil}
  BY DEF StorageInv, TypeOK
<1>3. c \in Nat /\ snapshot <= c
  <2>1. /\ lastLogIndex(t, snapshot) \in Nat /\ Len(t) \in Nat
        /\ lastLogIndex(t, snapshot) >= snapshot + Len(t)
    BY <1>1, LastIndex, LenProperties
  <2>2. PICK i : i = Min({n, lastLogIndex(t, snapshot)})
    OBVIOUS
  <2>3. i \in Nat /\ (i = n \/ i = lastLogIndex(t, snapshot))
    BY <2>1, <2>2, MinOfTwo
  <2>4. n > commitIndex => snapshot <= i
    BY <1>1, <2>1, <2>3
  <2> QED
    BY <1>1, <2>2, <2>3, <2>4 DEF CommitUpTo
<1> QED
  BY <1>1, <1>2, <1>3, HandleKeeps DEF StorageInv

LEMMA ReceiveEntryInv ==
    ASSUME StorageInv, NEW e \in Entry, NEW l \in Node, NEW n \in Nat, ReceiveEntry(e, l, n)
    PROVE  StorageInv'
<1> DEFINE last == lastLogIndex(log, snapshot)
           p == e.index - snapshot
           Receives(lg, ops) ==
               Handle(currentTerm, l, lg, snapshot,
                      CommitUpTo(n, lg, snapshot), n > commitIndex, ops, ToSet(log) \ ToSet(lg))
<1>1. Idle /\ l \in Node
  BY DEF ReceiveEntry
<1>2. /\ snapshot = lastIncludedIndex /\ log \in Seq(Entry) /\ snapshot \in Nat /\ last \in Nat
      /\ Len(log) \in Nat /\ ToSet(log) \subseteq acked
      /\ \A k \in 1..Len(log) : log[k].index >= snapshot + k
      /\ ~holed => \A x \in acked \ unwritten : x.index <= snapshot \/ x \in ToSet(log)
  BY <1>1, IdleFacts
<1>3. state' = "Follower" /\ status' = status /\ crashes' = crashes /\ holed' = holed
  BY DEF ReceiveEntry
<1>4. e.index \in Nat
  BY DEF Entry
<1> DEFINE conflict == /\ e.index <= last
                       /\ Present(log, snapshot, e.index)
                       /\ log[Position(e.index, snapshot)].term # e.term
           after == CASE e.index > last -> Append(log, e)
                      [] e.index <= last /\ conflict ->
                            Append(SubSeq(log, 1, Position(e.index, snapshot) - 1), e)
                      [] e.index <= last /\ ~conflict -> log
           written == CASE e.index > last -> <<EntryRec(e)>>
                        [] e.index <= last /\ conflict -> <<TruncateRec(e.index), EntryRec(e)>>
                        [] e.index <= last /\ ~conflict -> << >>
<1>8. Receives(after, written) /\ e.index <= last + 1
  BY <1>2, Zenon DEF ReceiveEntry
<1>5. CASE e.index > last
  <2>1. PICK t : t = Append(log, e)
    OBVIOUS
  <2>2. PICK ops : ops = <<EntryRec(e)>>
    OBVIOUS
  <2>3. Receives(t, ops) /\ e.index <= last + 1
    <3>1. ~(e.index <= last)
      BY <1>2, <1>4, <1>5
    <3>2. after = t /\ written = ops
      BY <1>5, <2>1, <2>2, <3>1
    <3> HIDE DEF after, written
    <3> QED
      BY <1>8, <3>2
  <2>4. e.index = last + 1
    BY <1>2, <1>4, <1>5, <2>3
  <2>5. PICK dropped : dropped = ToSet(log) \ ToSet(t)
    OBVIOUS
  <2>6. dropped = {}
    BY <1>2, <2>1, <2>5, ToSetAppend
  <2>7. GrownBy(t, log, snapshot, e) /\ Writes(t, ops, acked \ dropped)
    <3>1. dropped \cap ToSet(log) = {}
      BY <2>6
    <3> QED
      BY <1>1, <2>1, <2>2, <2>4, <3>1, NewEntryWrites
  <2>8. /\ t \in Seq(Entry) /\ ToSet(log) \subseteq ToSet(t)
        /\ \A k \in 1..Len(t) : t[k].index >= snapshot + k
        /\ Gapless(log, snapshot) => Gapless(t, snapshot)
    BY <2>7 DEF GrownBy
  <2>9. \A u, v : ops # <<StateRec(u, v)>>
    BY <2>2 DEF EntryRec, StateRec
  <2>10. ~holed => \A x \in (acked \ dropped) \ unwritten : x.index <= snapshot \/ x \in ToSet(t)
    BY <1>2, <2>8
  <2>11. PICK c : c = CommitUpTo(n, t, snapshot)
    OBVIOUS
  <2>12. Handle(currentTerm, l, t, snapshot, c, n > commitIndex, ops, dropped)
    BY <2>3, <2>5, <2>11
  <2> QED
    BY <1>1, <1>3, <2>7, <2>8, <2>9, <2>10, <2>11, <2>12, ReceivedKeeps
<1>6. CASE e.index <= last /\ conflict
  <2>1. PICK t : t = Append(SubSeq(log, 1, p - 1), e)
    OBVIOUS
  <2>2. PICK ops : ops = <<TruncateRec(e.index), EntryRec(e)>>
    OBVIOUS
  <2>3. Receives(t, ops)
    <3>1. ~(e.index > last)
      BY <1>2, <1>4, <1>6
    <3>2. after = t /\ written = ops
      BY <1>6, <2>1, <2>2, <3>1 DEF Position
    <3> HIDE DEF after, written
    <3> QED
      BY <1>8, <3>2
  <2>4. p \in Nat /\ p \in 1..Len(log) /\ log[p].term # e.term
    BY <1>2, <1>4, <1>6 DEF Present, Position
  <2>5. PICK dropped : dropped = ToSet(log) \ ToSet(t)
    OBVIOUS
  <2>6. PICK kept : kept = acked \ dropped
    OBVIOUS
  <2>7. /\ GrownBy(t, SubSeq(log, 1, p - 1), snapshot, e)
        /\ Gapless(log, snapshot) => Gapless(t, snapshot)
        /\ Writes(t, ops, kept)
        /\ ~holed => \A x \in kept \ unwritten : x.index <= snapshot \/ x \in ToSet(t)
    <3> HIDE DEF p
    <3>1. e.index = snapshot + p
      BY <1>2, <1>4 DEF p
    <3> QED
      BY <1>1, <2>1, <2>2, <2>4, <2>5, <2>6, <3>1, ConflictWrites
  <2>8. /\ t \in Seq(Entry)
        /\ \A k \in 1..Len(t) : t[k].index >= snapshot + k
    BY <2>7 DEF GrownBy
  <2>9. \A u, v : ops # <<StateRec(u, v)>>
    BY <2>2
  <2>11. PICK c : c = CommitUpTo(n, t, snapshot)
    OBVIOUS
  <2>12. Handle(currentTerm, l, t, snapshot, c, n > commitIndex, ops, dropped)
    BY <2>3, <2>5, <2>11
  <2> QED
    BY <1>1, <1>3, <2>6, <2>7, <2>8, <2>9, <2>11, <2>12, ReceivedKeeps
<1>7. CASE e.index <= last /\ ~conflict
  <2>1. PICK ops : ops = << >>
    OBVIOUS
  <2>2. Receives(log, ops)
    <3>1. ~(e.index > last)
      BY <1>2, <1>4, <1>7
    <3>2. after = log /\ written = ops
      BY <1>7, <2>1, <3>1
    <3> HIDE DEF after, written
    <3> QED
      BY <1>8, <3>2
  <2>3. PICK c : c = CommitUpTo(n, log, snapshot)
    OBVIOUS
  <2>4. Handle(currentTerm, l, log, snapshot, c, n > commitIndex, ops, {})
    <3>1. ToSet(log) \ ToSet(log) = {}
      OBVIOUS
    <3> QED
      BY <2>2, <2>3, <3>1
  <2>5. Writes(log, ops, acked \ {})
    BY <1>1, <2>1, SameLogWrites
  <2>6. \A u, v : ops # <<StateRec(u, v)>>
    BY <2>1
  <2>7. ~holed => \A x \in (acked \ {}) \ unwritten : x.index <= snapshot \/ x \in ToSet(log)
    BY <1>2
  <2> QED
    BY <1>1, <1>2, <1>3, <2>3, <2>4, <2>5, <2>6, <2>7, ReceivedKeeps
<1> QED
  BY <1>2, <1>4, <1>5, <1>6, <1>7

LEMMA ReceiveChunkInv ==
    ASSUME StorageInv, NEW l \in Node, ReceiveChunk(l)
    PROVE  StorageInv'
<1>1. Idle /\ l \in Node \cup {Nil}
  BY DEF ReceiveChunk
<1>2. /\ snapshot = lastIncludedIndex /\ commitIndex \in Nat /\ snapshot <= commitIndex
      /\ log \in Seq(Entry) /\ status = "up"
      /\ \A k \in 1..Len(log) : log[k].index >= snapshot + k
      /\ ~holed => Gapless(log, snapshot)
      /\ ~holed => \A x \in acked \ unwritten : x.index <= snapshot \/ x \in ToSet(log)
  BY <1>1, IdleFacts
<1>3. PICK ops : ops = << >>
  OBVIOUS
<1>4. Writes(log, ops, acked \ {})
  BY <1>1, <1>3, SameLogWrites
<1>5. /\ Handle(currentTerm, l, log, snapshot, commitIndex, FALSE, ops, {})
      /\ status' = "up" /\ state' \in {"Follower", "Candidate", "Leader"}
      /\ crashes' = crashes /\ holed' = holed
  BY <1>2, <1>3 DEF ReceiveChunk
<1>6. crashes \in Nat /\ holed \in BOOLEAN /\ currentTerm \in Nat
  BY DEF StorageInv, TypeOK
<1>7. \A x \in (acked \ {}) \ unwritten : x \in acked \ unwritten
  OBVIOUS
<1> QED
  BY <1>1, <1>2, <1>4, <1>5, <1>6, <1>7, HandleKeeps DEF StorageInv

\* What restoreSnapshot keeps of the log above n.
KeptAbove(lg, n) ==
    /\ lg \in Seq(Entry)
    /\ \A k \in 1..Len(lg) : lg[k].index >= n + k
    /\ ~holed => \A x \in ToSet(log) : x.index <= n \/ x \in ToSet(lg)

LEMMA EntriesAboveIs ==
    ASSUME StorageInv, Idle, NEW n \in Nat, NEW t \in Nat, NEW lg, lg = EntriesAbove(n, t)
    PROVE  KeptAbove(lg, n)
<1>1. /\ snapshot = lastIncludedIndex /\ log \in Seq(Entry) /\ snapshot \in Nat
      /\ Len(log) \in Nat /\ DOMAIN log = 1..Len(log)
      /\ \A k \in 1..Len(log) : log[k] \in Entry /\ log[k].index \in Nat
      /\ \A k \in 1..Len(log) : log[k].index >= snapshot + k
      /\ ~holed => Gapless(log, snapshot)
  BY IdleFacts
<1>2. CASE n < snapshot
  <2>1. PICK m : m = [index |-> snapshot, term |-> t]
    OBVIOUS
  <2>2. m \in Entry /\ m.index = snapshot
    BY <1>1, <1>2, <2>1 DEF Entry
  <2>3. PICK u : u = lg
    OBVIOUS
  <2>4. u = <<m>> \o log
    BY <1>1, <1>2, <2>1, <2>3 DEF EntriesAbove
  <2>5. <<m>> \in Seq(Entry) /\ Len(<<m>>) = 1 /\ <<m>>[1] = m
    BY <2>2
  <2>6. PICK one : one = <<m>>
    OBVIOUS
  <2>7. /\ u \in Seq(Entry) /\ Len(u) = 1 + Len(log)
        /\ \A i \in 1..(1 + Len(log)) : u[i] = IF i <= 1 THEN one[i] ELSE log[i - 1]
    <3>1. one \in Seq(Entry) /\ Len(one) = 1 /\ u = one \o log
      BY <2>4, <2>5, <2>6
    <3>2. /\ u \in Seq(Entry) /\ Len(u) = Len(one) + Len(log)
          /\ \A i \in 1..(Len(one) + Len(log)) :
                u[i] = IF i <= Len(one) THEN one[i] ELSE log[i - Len(one)]
      BY <1>1, <3>1, ConcatProperties
    <3> QED
      BY <3>1, <3>2
  <2>8. ASSUME NEW k \in 1..Len(u) PROVE u[k].index >= n + k
    <3>1. CASE k = 1
      <4>1. u[k] = m
        BY <1>1, <2>5, <2>6, <2>7, <3>1
      <4> QED
        BY <1>1, <1>2, <2>2, <3>1, <4>1
    <3>2. CASE k # 1
      <4>1. k - 1 \in 1..Len(log) /\ ~(k <= 1) /\ k \in 1..(1 + Len(log))
        BY <1>1, <2>7, <3>2
      <4>2. u[k] = log[k - 1] /\ log[k - 1].index >= snapshot + (k - 1)
            /\ log[k - 1].index \in Nat
        BY <1>1, <2>7, <4>1
      <4> QED
        BY <1>1, <1>2, <4>1, <4>2
    <3> QED
      BY <3>1, <3>2
  <2>9. ASSUME NEW x \in ToSet(log) PROVE x \in ToSet(u)
    <3>1. PICK k \in 1..Len(log) : x = log[k]
      BY <1>1 DEF ToSet
    <3>2. k + 1 \in 1..(1 + Len(log)) /\ ~(k + 1 <= 1) /\ (k + 1) - 1 = k
      BY <1>1
    <3>3. u[k + 1] = x
      BY <2>7, <3>1, <3>2
    <3>4. DOMAIN u = 1..(1 + Len(log))
      BY <2>7, LenProperties
    <3> QED
      BY <3>2, <3>3, <3>4 DEF ToSet
  <2> QED
    BY <2>3, <2>7, <2>8, <2>9 DEF KeptAbove
<1>3. CASE ~(n < snapshot)
  <2>1. lg = SubSeq(log, Position(n, snapshot) + 1, Len(log))
    BY <1>1, <1>3, Zenon DEF EntriesAbove
  <2>2. snapshot <= n
    BY <1>1, <1>3
  <2>3. TrimmedTo(lg, log, snapshot, n)
    BY <1>1, <2>1, <2>2, Trimmed
  <2> QED
    BY <1>1, <2>3 DEF TrimmedTo, KeptAbove
<1> QED
  BY <1>2, <1>3

\* restoreSnapshot changes memory before the disk: until the snapshot file is in
\* place what the old one covers is still found there.
LEMMA restoreSnapshotInv ==
    ASSUME StorageInv, NEW l \in Node, NEW n \in Nat, NEW t \in Nat, restoreSnapshot(l, n, t)
    PROVE  StorageInv'
<1>1. PICK lg : lg = EntriesAbove(n, t)
  OBVIOUS
<1>2. PICK c : c = Max({commitIndex, n})
  OBVIOUS
<1>3. PICK ops : ops = takeSnapshot(n, currentTerm, l)
  OBVIOUS
<1>4. /\ Idle /\ state' = "Follower" /\ status' = status /\ crashes' = crashes
      /\ Handle(currentTerm, l, lg, n, c, FALSE, ops, {})
      /\ holed' = (holed \/ ~Gapless(lg, n))
  BY <1>1, <1>2, <1>3 DEF restoreSnapshot
<1>5. /\ snapshot \in Nat /\ commitIndex \in Nat /\ status = "up"
      /\ ~holed => \A x \in acked \ unwritten : x.index <= snapshot \/ x \in ToSet(log)
  BY <1>4, IdleFacts
<1>6. /\ TypeOK /\ DiskOK /\ LostOnlyBySnapshots /\ VoteKept
      /\ currentTerm \in Nat /\ l \in Node \cup {Nil} /\ crashes \in Nat
      /\ acked \subseteq Entry
  BY DEF StorageInv, TypeOK
<1>7. /\ lg \in Seq(Entry)
      /\ \A k \in 1..Len(lg) : lg[k].index >= n + k
      /\ ~holed => \A x \in ToSet(log) : x.index <= n \/ x \in ToSet(lg)
  <2>1. KeptAbove(lg, n)
    BY <1>1, <1>4, EntriesAboveIs
  <2> QED
    BY <2>1 DEF KeptAbove
<1>8. /\ ops \in Seq(DiskOp) /\ Len(ops) = 3 /\ ops # << >>
      /\ ops[1].kind = "save" /\ ops[1].index = n /\ ops[2].kind = "reset"
      /\ ops[3].kind = "state"
  <2>1. StateRec(currentTerm, l) \in DiskOp /\ [kind |-> "save", index |-> n] \in DiskOp
        /\ [kind |-> "reset"] \in DiskOp
    BY <1>6, RecordsMade
  <2> QED
    BY <1>3, <2>1 DEF takeSnapshot, StateRec
<1>9. /\ currentTerm' = currentTerm /\ votedFor' = l /\ commitIndex' = c
      /\ log' = lg /\ lastIncludedIndex' = n /\ todo' = ops
      /\ snapshotThreshold' = snapshotThreshold /\ wal' = wal /\ snapshot' = snapshot
      /\ voted' = voted /\ unwritten' = unwritten /\ cleared' = cleared
      /\ acked' = acked
  <2>1. todo' = ops
    BY <1>4 DEF Handle
  <2> QED
    BY <1>4, <1>8, <2>1 DEF Handle, disk
<1>10. c \in Nat /\ n <= c
  BY <1>2, <1>5, MaxOfTwo
<1>11. OnDisk' = OnDisk /\ RecoveredLog' = RecoveredLog
  BY <1>9 DEF OnDisk, RecoveredLog
<1>12. TypeOK'
  BY <1>4, <1>5, <1>6, <1>7, <1>8, <1>9, <1>10 DEF TypeOK
<1>13. DiskOK' /\ VoteKept'
  BY <1>6, <1>9, <1>11 DEF DiskOK, VoteKept
<1>14. LostOnlyBySnapshots'
  BY <1>4, <1>6, <1>9, <1>11 DEF LostOnlyBySnapshots, Found
<1>15. MemoryOK'
  BY <1>4, <1>7, <1>9, <1>10 DEF MemoryOK
<1>16. AckedInMemory'
  BY <1>4, <1>5, <1>7, <1>9 DEF AckedInMemory
<1>17. Compacts(0)'
  BY <1>8, <1>9 DEF Compacts
<1>18. PhaseOK'
  BY <1>4, <1>5, <1>17 DEF PhaseOK
<1> QED
  BY <1>12, <1>13, <1>14, <1>15, <1>16, <1>18 DEF StorageInv

\* NewRaft and loadState: what is read becomes the log.
LEMMA loadStateInv ==
    ASSUME StorageInv, loadState
    PROVE  StorageInv'
<1> DEFINE D == OnDisk
           lg == LoadedLog(D.entries, snapshot)
<1>1. /\ D \in DiskState /\ Rising(D.entries) /\ snapshot \in Nat
      /\ D.term \in Nat /\ D.vote \in Node \cup {Nil} /\ D.entries \in Seq(Entry)
  BY DEF StorageInv, TypeOK, DiskOK, DiskState
<1>2. CASE ~D.readable
  <2>1. /\ status' = "failed" /\ crashes' = crashes /\ todo' = todo /\ status = "down"
        /\ snapshotThreshold' = snapshotThreshold /\ log' = log /\ wal' = wal
        /\ state' = state /\ currentTerm' = currentTerm /\ votedFor' = votedFor
        /\ lastIncludedIndex' = lastIncludedIndex /\ commitIndex' = commitIndex
        /\ snapshot' = snapshot /\ acked' = acked /\ voted' = voted
        /\ unwritten' = unwritten /\ cleared' = cleared /\ holed' = holed
    BY <1>2 DEF loadState, OnDisk, memory, disk, history
  <2>2. todo = << >>
    BY <2>1 DEF StorageInv, PhaseOK
  <2>3. TypeOK'
    BY <2>1 DEF StorageInv, TypeOK
  <2>4. DiskOK' /\ MemoryOK' /\ LostOnlyBySnapshots' /\ VoteKept'
    BY <2>1 DEF StorageInv, DiskOK, MemoryOK, LostOnlyBySnapshots, VoteKept, OnDisk, Found,
                RecoveredLog
  <2>5. AckedInMemory' /\ PhaseOK'
    BY <2>1, <2>2 DEF AckedInMemory, PhaseOK
  <2> QED
    BY <2>3, <2>4, <2>5 DEF StorageInv
<1>3. CASE D.readable
  <2>1. PICK t : t = lg
    OBVIOUS
  <2>2. PICK ops : ops = << >>
    OBVIOUS
  <2>3. /\ status' = "up" /\ state' = "Follower" /\ crashes' = crashes
        /\ Handle(D.term, D.vote, t, snapshot, snapshot, TRUE, ops, {})
        /\ holed' = (holed \/ ~Gapless(t, snapshot))
    BY <1>3, <2>1, <2>2 DEF loadState, OnDisk
  <2>4. /\ t \in Seq(Entry) /\ Rising(t)
        /\ \A x : x \in ToSet(t) <=> x \in ToSet(D.entries) /\ x.index > snapshot
    <3> HIDE DEF D
    <3> QED
      BY <1>1, <2>1, LoadedLogIs
  <2>5. /\ Len(t) \in Nat /\ DOMAIN t = 1..Len(t)
        /\ \A k \in 1..Len(t) : t[k] \in Entry /\ t[k].index \in Nat
    <3>1. \A k \in 1..Len(t) : t[k] \in Entry
      BY <2>4, ElementOfSeq
    <3> QED
      BY <2>4, <3>1, LenProperties DEF Entry
  <2>6. \A k \in 1..Len(t) : t[k].index >= snapshot + k
    BY <1>1, <2>4, RisingAbove
  <2>7. /\ lastLogIndex(t, snapshot) \in Nat /\ lastLogIndex(t, snapshot) >= snapshot + Len(t)
        /\ t # << >> => lastLogIndex(t, snapshot) = t[Len(t)].index /\ Len(t) \in 1..Len(t)
    BY <1>1, <2>4, <2>6, LastIndex
  <2>8. ASSUME NEW x \in ToSet(D.entries)
        PROVE  /\ x.index <= lastLogIndex(t, snapshot)
               /\ x.index > snapshot => x \in ToSet(t)
    <3>1. x.index \in Nat
      <4>1. \A k \in DOMAIN D.entries : D.entries[k] \in Entry
        BY <1>1, LenProperties, ElementOfSeq
      <4> QED
        BY <4>1 DEF ToSet, Entry
    <3>2. CASE x.index <= snapshot
      BY <1>1, <2>5, <2>7, <3>1, <3>2
    <3>3. CASE x.index > snapshot
      <4>1. PICK k \in 1..Len(t) : x = t[k]
        BY <2>4, <2>5, <3>3 DEF ToSet
      <4>2. t # << >>
        BY <2>5, <4>1
      <4>3. PICK m \in 1..Len(t) : m = Len(t)
        BY <2>7, <4>2
      <4>5. k \in Nat /\ m \in Nat /\ (k < m \/ k = m)
        <5>1. PICK z \in Nat : z = Len(t)
          BY <2>5
        <5>2. k \in 1..z /\ m = z
          BY <4>3, <5>1
        <5> QED
          BY <5>2
      <4>6. x.index \in Nat /\ t[m].index \in Nat
        BY <2>5, <3>1
      <4>4. x.index <= t[Len(t)].index
        BY <2>4, <4>1, <4>3, <4>5, <4>6 DEF Rising
      <4> QED
        BY <2>4, <2>7, <3>3, <4>2, <4>4
    <3> QED
      BY <1>1, <3>1, <3>2, <3>3
  <2>9. Writes(t, ops, acked \ {})
    BY <2>2, <2>4, <2>8 DEF Writes
  <2>10. ~holed' => ~holed /\ Gapless(t, snapshot)
    BY <2>3
  <2>11. ~holed => \A x \in (acked \ {}) \ unwritten : x.index <= snapshot \/ x \in ToSet(t)
    BY <1>3, <2>1 DEF StorageInv, LostOnlyBySnapshots, Found, RecoveredLog
  <2>12. \A u, v : ops # <<StateRec(u, v)>>
    BY <2>2
  <2>13. crashes \in Nat /\ holed' \in BOOLEAN /\ snapshot <= snapshot
    BY <1>1, <2>3 DEF StorageInv, TypeOK
  <2>14. ~holed' => \A x \in (acked \ {}) \ unwritten : x.index <= snapshot \/ x \in ToSet(t)
    BY <2>10, <2>11
  <2> HIDE DEF D
  <2> QED
    BY <1>1, <2>3, <2>4, <2>6, <2>9, <2>10, <2>12, <2>13, <2>14, HandleKeeps DEF StorageInv
<1> QED
  BY <1>2, <1>3
-----------------------------------------------------------------------------
(***************************************************************************)
(* The disk.                                                               *)
(***************************************************************************)
\* The entries of a sequence, and what LoadedLog finds of them.
LEMMA ReadEntries ==
    ASSUME DiskOK, TypeOK
    PROVE  /\ OnDisk \in DiskState /\ OnDisk.entries \in Seq(Entry) /\ Rising(OnDisk.entries)
           /\ snapshot \in Nat
           /\ \A x \in ToSet(OnDisk.entries) : x \in Entry /\ x.index \in Nat
           /\ \A x : Found(x) <=> \/ x.index <= snapshot
                                  \/ x \in ToSet(OnDisk.entries) /\ x.index > snapshot
<1>1. /\ OnDisk \in DiskState /\ OnDisk.entries \in Seq(Entry) /\ Rising(OnDisk.entries)
      /\ snapshot \in Nat
  BY DEF DiskOK, DiskState, TypeOK
<1>2. \A k \in DOMAIN OnDisk.entries : OnDisk.entries[k] \in Entry
  BY <1>1, LenProperties, ElementOfSeq
<1>3. \A x \in ToSet(OnDisk.entries) : x \in Entry
  BY <1>2 DEF ToSet
<1>4. \A x : x \in ToSet(RecoveredLog) <=> x \in ToSet(OnDisk.entries) /\ x.index > snapshot
  BY <1>1, LoadedLogIs DEF RecoveredLog
<1> QED
  BY <1>1, <1>3, <1>4 DEF Found, Entry

\* What a restart would read after one more record.
LEMMA RecordRead ==
    ASSUME TypeOK, DiskOK, NEW rec \in Record, wal' = Append(wal, rec)
    PROVE  /\ OnDisk' \in DiskState
           /\ OnDisk'.readable => OnDisk.readable
           /\ ~OnDisk'.readable \/ rec.kind \in {"tornHeader", "tornBody"} =>
                 OnDisk'.entries = OnDisk.entries
           /\ rec.kind # "state" => OnDisk'.term = OnDisk.term /\ OnDisk'.vote = OnDisk.vote
           /\ OnDisk'.readable /\ rec.kind = "state" =>
                 OnDisk'.term = rec.term /\ OnDisk'.vote = rec.vote
                 /\ OnDisk'.entries = OnDisk.entries
           /\ OnDisk'.readable /\ rec.kind = "entry" =>
                 OnDisk'.entries = ReplayEntry(OnDisk.entries, rec.entry)
           /\ OnDisk'.readable /\ rec.kind = "truncate" =>
                 OnDisk'.entries = ReplayTruncate(OnDisk.entries, rec.index)
<1>1. OnDisk' = Replay(Append(wal, rec))
  BY DEF OnDisk
<1>2. wal \in Seq(Record) /\ OnDisk \in DiskState
  BY DEF TypeOK, DiskOK
<1>3. PICK R : R = OnDisk'
  OBVIOUS
<1>4. R = ReplayRecord(OnDisk, rec)
  BY <1>1, <1>2, <1>3, ReplayAppend DEF OnDisk
<1>5. /\ R \in DiskState
      /\ R.readable => OnDisk.readable
      /\ ~R.readable \/ rec.kind \in {"tornHeader", "tornBody"} => R.entries = OnDisk.entries
      /\ rec.kind # "state" => R.term = OnDisk.term /\ R.vote = OnDisk.vote
      /\ R.readable /\ rec.kind = "state" =>
            R.term = rec.term /\ R.vote = rec.vote /\ R.entries = OnDisk.entries
      /\ R.readable /\ rec.kind = "entry" => R.entries = ReplayEntry(OnDisk.entries, rec.entry)
      /\ R.readable /\ rec.kind = "truncate" =>
            R.entries = ReplayTruncate(OnDisk.entries, rec.index)
    <2> HIDE DEF OnDisk
    <2> QED
      BY <1>2, <1>4, ReadRecord
<1> QED
  BY <1>3, <1>5

\* The process ends: a record that is cut short leaves what was read before it.
LEMMA CrashInv ==
    ASSUME StorageInv, Crash
    PROVE  StorageInv'
<1>1. /\ status' = "down" /\ todo' = << >> /\ crashes' = crashes + 1
      /\ snapshotThreshold' = snapshotThreshold /\ log' = log /\ state' = state
      /\ currentTerm' = currentTerm /\ votedFor' = votedFor
      /\ lastIncludedIndex' = lastIncludedIndex /\ commitIndex' = commitIndex
      /\ snapshot' = snapshot /\ acked' = acked /\ voted' = voted
      /\ unwritten' = unwritten /\ cleared' = cleared /\ holed' = holed
  BY DEF Crash, memory, history
<1>2. \/ wal' = wal
      \/ \E kind \in {"tornHeader", "tornBody"} : wal' = Append(wal, [kind |-> kind])
  BY DEF Crash
<1>3. TypeOK /\ DiskOK
  BY DEF StorageInv
<1>4. /\ wal' \in Seq(Record) /\ OnDisk' \in DiskState
      /\ OnDisk'.readable => OnDisk.readable
      /\ OnDisk'.entries = OnDisk.entries
      /\ OnDisk'.term = OnDisk.term /\ OnDisk'.vote = OnDisk.vote
  <2>1. CASE wal' = wal
    BY <1>3, <2>1 DEF OnDisk, TypeOK, DiskOK
  <2>2. CASE \E kind \in {"tornHeader", "tornBody"} : wal' = Append(wal, [kind |-> kind])
    <3>1. PICK rec \in Record : wal' = Append(wal, rec) /\ rec.kind \in {"tornHeader", "tornBody"}
      BY <2>2, RecordsMade
    <3>2. wal' \in Seq(Record)
      BY <1>3, <3>1, AppendProperties DEF TypeOK
    <3> QED
      BY <1>3, <3>1, <3>2, RecordRead
  <2> QED
    BY <1>2, <2>1, <2>2
<1>5. TypeOK'
  BY <1>1, <1>3, <1>4 DEF TypeOK
<1>6. DiskOK' /\ MemoryOK' /\ AckedInMemory' /\ PhaseOK'
  BY <1>1, <1>4 DEF StorageInv, DiskOK, MemoryOK, AckedInMemory, PhaseOK
<1>7. LostOnlyBySnapshots'
  <2>1. \A x : Found(x)' <=> Found(x)
    BY <1>1, <1>4 DEF Found, RecoveredLog
  <2> QED
    BY <1>1, <1>4, <2>1 DEF StorageInv, LostOnlyBySnapshots
<1>8. VoteKept'
  BY <1>1, <1>4 DEF StorageInv, VoteKept
<1> QED
  BY <1>5, <1>6, <1>7, <1>8 DEF StorageInv

\* What every disk operation leaves alone, and what it takes off todo.
Frame ==
    /\ log' = log /\ state' = state /\ currentTerm' = currentTerm /\ votedFor' = votedFor
    /\ lastIncludedIndex' = lastIncludedIndex /\ commitIndex' = commitIndex
    /\ snapshotThreshold' = snapshotThreshold /\ status' = status /\ status = "up"
    /\ crashes' = crashes /\ holed' = holed
    /\ todo \in Seq(DiskOp) /\ Len(todo) \in Nat /\ Len(todo) >= 1
    /\ todo[1] \in DiskOp
    /\ todo' \in Seq(DiskOp) /\ Len(todo') = Len(todo) - 1
    /\ \A i \in 1..(Len(todo) - 1) : todo'[i] = todo[i + 1]
    /\ acked' = IF Len(todo) = 1 THEN acked \cup ToSet(log) ELSE acked
    /\ unwritten \subseteq unwritten'
    /\ todo[1].kind \notin {"save", "reset"} => unwritten' = unwritten
    /\ todo[1].kind \notin {"save", "reset", "state"} => cleared' = cleared

LEMMA DiskStepFrame ==
    ASSUME StorageInv, DiskStep
    PROVE  Frame /\ todo[1] = Head(todo)
<1>1. /\ log' = log /\ state' = state /\ currentTerm' = currentTerm /\ votedFor' = votedFor
      /\ lastIncludedIndex' = lastIncludedIndex /\ commitIndex' = commitIndex
      /\ snapshotThreshold' = snapshotThreshold /\ status' = status /\ status = "up"
      /\ crashes' = crashes /\ holed' = holed
      /\ acked' = IF Len(todo) = 1 THEN acked \cup ToSet(log) ELSE acked
  BY DEF DiskStep, memory
<1>2. todo \in Seq(DiskOp) /\ todo # << >> /\ todo' = Tail(todo)
  BY DEF StorageInv, TypeOK, DiskStep
<1>3. Len(todo) \in Nat /\ Len(todo) >= 1 /\ todo[1] \in DiskOp /\ Head(todo) = todo[1]
  <2>1. Len(todo) \in Nat /\ Len(todo) # 0
    BY <1>2, LenProperties, EmptySeq
  <2>2. 1 \in 1..Len(todo)
    BY <2>1
  <2> QED
    BY <1>2, <2>1, <2>2, ElementOfSeq
<1>4. /\ todo' \in Seq(DiskOp) /\ Len(todo') = Len(todo) - 1
      /\ \A i \in 1..(Len(todo) - 1) : todo'[i] = todo[i + 1]
  BY <1>2, <1>3, HeadTailProperties
<1>5. /\ unwritten \subseteq unwritten'
      /\ Head(todo).kind \notin {"save", "reset"} => unwritten' = unwritten
      /\ Head(todo).kind \notin {"save", "reset", "state"} => cleared' = cleared
  BY DEF DiskStep, LosesIn
<1> QED
  BY <1>1, <1>2, <1>3, <1>4, <1>5 DEF Frame

\* The log of the running handler is acknowledged when its last operation is made.
LEMMA FrameKeeps ==
    ASSUME StorageInv, DiskStep
    PROVE  MemoryOK' /\ AckedInMemory' /\ acked' \subseteq Entry /\ unwritten' \subseteq Entry
<1>1. Frame
  BY DiskStepFrame
<1>2. acked \subseteq Entry /\ unwritten \subseteq Entry /\ ToSet(log) \subseteq Entry
  <2>1. log \in Seq(Entry) /\ acked \subseteq Entry /\ unwritten \subseteq Entry
    BY DEF StorageInv, TypeOK
  <2>2. \A k \in DOMAIN log : log[k] \in Entry
    BY <2>1, LenProperties, ElementOfSeq
  <2> QED
    BY <2>1, <2>2 DEF ToSet
<1>3. unwritten' \subseteq unwritten \cup acked \cup ToSet(log)
  BY DEF DiskStep
<1>4. acked' \subseteq acked \cup ToSet(log)
  BY <1>1 DEF Frame
<1>5. MemoryOK'
  BY <1>1 DEF StorageInv, MemoryOK, Frame
<1>6. AckedInMemory'
  <2>1. SUFFICES ASSUME ~holed, NEW x \in acked' \ unwritten'
                 PROVE  x.index <= lastIncludedIndex \/ x.index <= snapshot' \/ x \in ToSet(log)
    BY <1>1 DEF AckedInMemory, Frame
  <2>2. /\ x.index \in Nat /\ snapshot \in Nat /\ todo[1] = Head(todo) /\ x \notin unwritten
        /\ x \in acked \/ x \in ToSet(log)
    <3>1. x \in Entry
      BY <1>2, <1>4
    <3> QED
      BY <1>1, <1>4, <3>1, DiskStepFrame DEF StorageInv, TypeOK, Entry, Frame
  <2>3. x.index <= lastIncludedIndex \/ x.index <= snapshot \/ x \in ToSet(log)
    BY <1>1, <2>1, <2>2 DEF StorageInv, AckedInMemory, Frame
  <2>4. CASE todo[1].kind # "save"
    <3>1. snapshot' = snapshot
      BY <2>2, <2>4 DEF DiskStep, WriteRecord, Reset
    <3> QED
      BY <2>3, <3>1
  <2>5. CASE todo[1].kind = "save"
    <3>1. snapshot' = todo[1].index /\ todo[1].index \in Nat
      BY <1>1, <2>2, <2>5, OpKinds DEF DiskStep, SaveSnapshot, Frame
    <3>2. ~LosesIn(todo[1], x)
      BY <2>1, <2>2 DEF DiskStep
    <3> QED
      BY <2>2, <2>3, <2>5, <3>1, <3>2 DEF LosesIn
  <2> QED
    BY <2>4, <2>5
<1> QED
  BY <1>2, <1>3, <1>4, <1>5, <1>6

\* writeRecord.
LEMMA WriteRecordTypes ==
    ASSUME StorageInv, DiskStep, todo[1].kind \in {"state", "entry", "truncate"}
    PROVE  /\ TypeOK' /\ todo[1] \in Record /\ wal' = Append(wal, todo[1])
           /\ snapshot' = snapshot /\ unwritten' = unwritten
           /\ todo[1].kind # "state" => voted' = voted /\ cleared' = cleared
           /\ todo[1].kind = "state" =>
                 /\ voted' = [term |-> todo[1].term, vote |-> todo[1].vote]
                 /\ cleared' = FALSE
<1>1. Frame /\ todo[1] = Head(todo) /\ TypeOK
  BY DiskStepFrame DEF StorageInv
<1>2. todo[1] \in DiskOp /\ unwritten' = unwritten
  BY <1>1 DEF Frame
<1>3. todo[1] \in Record /\ (todo[1].kind = "state" => /\ todo[1].term \in Nat
                                                       /\ todo[1].vote \in Node \cup {Nil})
  BY <1>2, OpKinds
<1>4. /\ wal' = Append(wal, todo[1]) /\ snapshot' = snapshot
      /\ todo[1].kind # "state" => voted' = voted /\ cleared' = cleared
      /\ todo[1].kind = "state" =>
            voted' = [term |-> todo[1].term, vote |-> todo[1].vote] /\ cleared' = FALSE
  BY <1>1 DEF DiskStep, WriteRecord
<1>5. wal' \in Seq(Record)
  BY <1>1, <1>3, <1>4, AppendProperties DEF TypeOK
<1>6. voted' \in State
  <2>1. CASE todo[1].kind = "state"
    BY <1>3, <1>4, <2>1 DEF State
  <2>2. CASE todo[1].kind # "state"
    BY <1>1, <1>4, <2>2 DEF TypeOK
  <2> QED
    BY <2>1, <2>2
<1>7. TypeOK'
  <2>1. acked' \subseteq Entry /\ unwritten' \subseteq Entry
    BY FrameKeeps
  <2> QED
    BY <1>1, <1>4, <1>5, <1>6, <2>1 DEF TypeOK, Frame
<1> QED
  BY <1>2, <1>3, <1>4, <1>7

\* An entry behind all that is read is added to it.
LEMMA EntryWritten ==
    ASSUME StorageInv, DiskStep, todo[1].kind = "entry", ReadBefore(todo[1].entry.index)
    PROVE  /\ DiskOK' /\ VoteKept'
           /\ OnDisk'.readable =>
                 /\ OnDisk.readable
                 /\ ToSet(OnDisk'.entries) = ToSet(OnDisk.entries) \cup {todo[1].entry}
           /\ OnDisk'.readable => \A x : Found(x) \/ x = todo[1].entry => Found(x)'
<1> DEFINE e == todo[1].entry
<1>1. /\ TypeOK' /\ todo[1] \in Record /\ wal' = Append(wal, todo[1])
      /\ snapshot' = snapshot /\ voted' = voted /\ cleared' = cleared
  BY WriteRecordTypes
<1>2. TypeOK /\ DiskOK /\ VoteKept
  BY DEF StorageInv
<1>3. e \in Entry /\ e.index \in Nat
  BY <1>1, RecordKinds DEF Entry
<1>4. /\ OnDisk' \in DiskState
      /\ OnDisk'.readable => OnDisk.readable
      /\ ~OnDisk'.readable => OnDisk'.entries = OnDisk.entries
      /\ OnDisk'.term = OnDisk.term /\ OnDisk'.vote = OnDisk.vote
      /\ OnDisk'.readable => OnDisk'.entries = ReplayEntry(OnDisk.entries, e)
  BY <1>1, <1>2, RecordRead
<1>5. OnDisk.entries \in Seq(Entry) /\ Rising(OnDisk.entries) /\ snapshot \in Nat
  BY <1>2, ReadEntries
<1>6. OnDisk'.readable => /\ ToSet(OnDisk'.entries) = ToSet(OnDisk.entries) \cup {e}
                          /\ Rising(OnDisk'.entries)
  <2>1. SUFFICES ASSUME OnDisk'.readable
                 PROVE  /\ ToSet(OnDisk'.entries) = ToSet(OnDisk.entries) \cup {e}
                        /\ Rising(OnDisk'.entries)
    OBVIOUS
  <2>2. \A x \in ToSet(OnDisk.entries) : x.index < e.index
    BY <1>4, <2>1 DEF ReadBefore
  <2>3. PICK s : s = OnDisk.entries
    OBVIOUS
  <2>4. /\ ToSet(ReplayEntry(s, e)) = ToSet(s) \cup {e}
        /\ Rising(ReplayEntry(s, e))
    BY <1>3, <1>5, <2>2, <2>3, ReplayEntryBehind
  <2> QED
    BY <1>4, <2>1, <2>3, <2>4
<1>7. DiskOK'
  BY <1>4, <1>5, <1>6 DEF DiskOK
<1>8. VoteKept'
  BY <1>1, <1>2, <1>4 DEF VoteKept
<1>9. \A x : Found(x) <=> \/ x.index <= snapshot
                          \/ x \in ToSet(OnDisk.entries) /\ x.index > snapshot
  BY <1>2, ReadEntries
<1>10. \A x : Found(x)' <=> \/ x.index <= snapshot
                            \/ x \in ToSet(OnDisk'.entries) /\ x.index > snapshot
  <2>1. OnDisk' \in DiskState /\ snapshot' \in Nat
    BY <1>1, <1>4, <1>5
  <2>2. OnDisk'.entries \in Seq(Entry)
    BY <2>1 DEF DiskState
  <2>3. \A x : x \in ToSet(LoadedLog(OnDisk'.entries, snapshot))
                  <=> x \in ToSet(OnDisk'.entries) /\ x.index > snapshot
    BY <1>5, <2>2, LoadedLogIs
  <2> QED
    BY <1>1, <2>3 DEF Found, RecoveredLog
<1>11. OnDisk'.readable => \A x : Found(x) => Found(x)'
  BY <1>6, <1>9, <1>10
<1>12. OnDisk'.readable => \A x : x = e => Found(x)'
  <2>1. e.index <= snapshot \/ e.index > snapshot
    BY <1>3, <1>5
  <2>2. OnDisk'.readable => e \in ToSet(OnDisk'.entries)
    BY <1>6
  <2> QED
    BY <1>10, <2>1, <2>2
<1> QED
  BY <1>4, <1>6, <1>7, <1>8, <1>11, <1>12

\* A truncate marker drops what is read from its index on.
LEMMA TruncateWritten ==
    ASSUME StorageInv, DiskStep, todo[1].kind = "truncate", AckedBefore(todo[1].index),
           Len(todo) # 1
    PROVE  /\ DiskOK' /\ VoteKept' /\ LostOnlyBySnapshots'
           /\ OnDisk'.readable =>
                 /\ OnDisk.readable
                 /\ \A x \in ToSet(OnDisk'.entries) :
                       x \in ToSet(OnDisk.entries) /\ x.index < todo[1].index
<1> DEFINE n == todo[1].index
<1>1. /\ TypeOK' /\ todo[1] \in Record /\ wal' = Append(wal, todo[1])
      /\ snapshot' = snapshot /\ voted' = voted /\ unwritten' = unwritten
      /\ cleared' = cleared
  BY WriteRecordTypes
<1>2. /\ TypeOK /\ DiskOK /\ VoteKept /\ LostOnlyBySnapshots
      /\ acked' = acked /\ holed' = holed
  BY DiskStepFrame DEF StorageInv, Frame
<1>3. n \in Nat
  BY <1>1, RecordKinds
<1>4. /\ OnDisk' \in DiskState
      /\ OnDisk'.readable => OnDisk.readable
      /\ ~OnDisk'.readable => OnDisk'.entries = OnDisk.entries
      /\ OnDisk'.term = OnDisk.term /\ OnDisk'.vote = OnDisk.vote
      /\ OnDisk'.readable => OnDisk'.entries = ReplayTruncate(OnDisk.entries, n)
  BY <1>1, <1>2, RecordRead
<1>5. OnDisk.entries \in Seq(Entry) /\ Rising(OnDisk.entries) /\ snapshot \in Nat
  BY <1>2, ReadEntries
<1>6. OnDisk'.readable =>
         /\ \A x : x \in ToSet(OnDisk'.entries) <=> x \in ToSet(OnDisk.entries) /\ x.index < n
         /\ Rising(OnDisk'.entries)
  <2>3. PICK s : s = OnDisk.entries
    OBVIOUS
  <2>4. /\ \A x : x \in ToSet(ReplayTruncate(s, n)) <=> x \in ToSet(s) /\ x.index < n
        /\ Rising(ReplayTruncate(s, n))
    BY <1>3, <1>5, <2>3, ReplayTruncateIs
  <2> QED
    BY <1>4, <2>3, <2>4
<1>7. DiskOK'
  BY <1>4, <1>5, <1>6 DEF DiskOK
<1>8. VoteKept'
  BY <1>1, <1>2, <1>4 DEF VoteKept
<1>9. \A x : Found(x) <=> \/ x.index <= snapshot
                          \/ x \in ToSet(OnDisk.entries) /\ x.index > snapshot
  BY <1>2, ReadEntries
<1>10. \A x : Found(x)' <=> \/ x.index <= snapshot
                            \/ x \in ToSet(OnDisk'.entries) /\ x.index > snapshot
  <2>1. OnDisk' \in DiskState
    BY <1>4
  <2>2. OnDisk'.entries \in Seq(Entry)
    BY <2>1 DEF DiskState
  <2>3. \A x : x \in ToSet(LoadedLog(OnDisk'.entries, snapshot))
                  <=> x \in ToSet(OnDisk'.entries) /\ x.index > snapshot
    BY <1>5, <2>2, LoadedLogIs
  <2> QED
    BY <1>1, <2>3 DEF Found, RecoveredLog
<1>11. LostOnlyBySnapshots'
  <2>1. SUFFICES ASSUME OnDisk'.readable, ~holed, NEW x \in acked \ unwritten
                 PROVE  Found(x)'
    BY <1>1, <1>2 DEF LostOnlyBySnapshots
  <2>2. Found(x)
    BY <1>2, <1>4, <2>1 DEF LostOnlyBySnapshots
  <2>3. x.index <= snapshot \/ x.index < n
    BY <2>1 DEF AckedBefore
  <2> QED
    BY <1>6, <1>9, <1>10, <2>1, <2>2, <2>3
<1> QED
  BY <1>4, <1>6, <1>7, <1>8, <1>11

\* The last record of a handler is a vote.
LEMMA PhaseStateStep ==
    ASSUME StorageInv, DiskStep, snapshot = lastIncludedIndex, PhaseState
    PROVE  StorageInv'
<1>1. Len(todo) = 1 /\ todo[1].kind = "state"
  BY DEF PhaseState
<1>2. /\ TypeOK' /\ todo[1] \in Record /\ wal' = Append(wal, todo[1])
      /\ snapshot' = snapshot /\ unwritten' = unwritten
      /\ voted' = [term |-> todo[1].term, vote |-> todo[1].vote] /\ cleared' = FALSE
  BY <1>1, WriteRecordTypes
<1>3. Frame /\ TypeOK /\ DiskOK
  BY DiskStepFrame DEF StorageInv
<1>4. /\ OnDisk' \in DiskState
      /\ OnDisk'.readable => OnDisk.readable
      /\ OnDisk'.entries = OnDisk.entries
      /\ OnDisk'.readable => OnDisk'.term = todo[1].term /\ OnDisk'.vote = todo[1].vote
  BY <1>1, <1>2, <1>3, RecordRead
<1>5. DiskOK' /\ VoteKept'
  BY <1>2, <1>3, <1>4 DEF DiskOK, VoteKept
<1>6. /\ acked' = acked \cup ToSet(log) /\ log' = log /\ todo' = << >>
      /\ lastIncludedIndex' = lastIncludedIndex /\ status' = "up" /\ holed' = holed
  <2>1. Len(todo') = 0 /\ todo' \in Seq(DiskOp)
    BY <1>1, <1>3 DEF Frame
  <2>2. todo' = << >>
    BY <2>1, EmptySeq
  <2> QED
    BY <1>1, <1>3, <2>2 DEF Frame
<1>7. PhaseIdle'
  BY <1>2, <1>4, <1>6 DEF PhaseState, PhaseIdle, ReadInMemory, ReadUpToLast
<1>8. LostOnlyBySnapshots'
  <2>1. \A x : Found(x)' <=> Found(x)
    BY <1>2, <1>4 DEF Found, RecoveredLog
  <2>2. SUFFICES ASSUME OnDisk'.readable, ~holed,
                        NEW x \in (acked \cup ToSet(log)) \ unwritten
                 PROVE  Found(x)
    BY <1>2, <1>6, <2>1 DEF LostOnlyBySnapshots
  <2>3. x \in acked \ unwritten \/ x.index <= snapshot
    BY DEF PhaseState
  <2> QED
    BY <1>4, <2>2, <2>3 DEF StorageInv, LostOnlyBySnapshots, Found
<1>9. PhaseOK'
  BY <1>2, <1>6, <1>7 DEF PhaseOK
<1> QED
  BY <1>2, <1>5, <1>8, <1>9, FrameKeeps DEF StorageInv

\* The last record of a handler is its entry.
LEMMA PhaseEntryStep ==
    ASSUME StorageInv, DiskStep, snapshot = lastIncludedIndex, PhaseEntry
    PROVE  StorageInv'
<1> DEFINE e == todo[1].entry
<1>1. /\ Len(todo) = 1 /\ todo[1].kind = "entry" /\ ReadBefore(e.index) /\ ReadInMemory
      /\ log # << >> /\ Last(log) = e /\ \A x \in ToSet(log) : x = e \/ x \in acked
  BY DEF PhaseEntry, OnlyNew
<1>2. /\ TypeOK' /\ todo[1] \in Record /\ snapshot' = snapshot /\ unwritten' = unwritten
  BY <1>1, WriteRecordTypes
<1>3. /\ DiskOK' /\ VoteKept'
      /\ OnDisk'.readable =>
            /\ OnDisk.readable
            /\ ToSet(OnDisk'.entries) = ToSet(OnDisk.entries) \cup {e}
      /\ OnDisk'.readable => \A x : Found(x) \/ x = e => Found(x)'
  BY <1>1, EntryWritten
<1>4. Frame /\ TypeOK /\ DiskOK
  BY DiskStepFrame DEF StorageInv
<1>6. /\ acked' = acked \cup ToSet(log) /\ log' = log /\ todo' = << >>
      /\ lastIncludedIndex' = lastIncludedIndex /\ status' = "up" /\ holed' = holed
  <2>1. Len(todo') = 0 /\ todo' \in Seq(DiskOp)
    BY <1>1, <1>4 DEF Frame
  <2>2. todo' = << >>
    BY <2>1, EmptySeq
  <2> QED
    BY <1>1, <1>4, <2>2 DEF Frame
<1>7. e \in ToSet(log) /\ lastLogIndex(log, lastIncludedIndex) = e.index
  <2>1. log \in Seq(Entry)
    BY <1>4 DEF TypeOK
  <2>2. Len(log) \in Nat /\ DOMAIN log = 1..Len(log) /\ Len(log) # 0
    BY <1>1, <2>1, LenProperties, EmptySeq
  <2>3. PICK m \in Nat : m = Len(log)
    BY <2>2
  <2>4. m \in 1..Len(log)
    <3>1. m \in 1..m
      BY <2>2, <2>3
    <3> QED
      BY <2>3, <3>1
  <2> QED
    BY <1>1, <2>2, <2>3, <2>4 DEF ToSet, Last, lastLogIndex
<1>8. ReadInMemory'
  BY <1>1, <1>2, <1>3, <1>6, <1>7 DEF ReadInMemory
<1>9. ReadUpToLast'
  <2>1. SUFFICES ASSUME OnDisk'.readable, NEW x \in ToSet(OnDisk'.entries)
                 PROVE  x.index <= e.index
    BY <1>6, <1>7 DEF ReadUpToLast
  <2>2. x = e \/ x \in ToSet(OnDisk.entries)
    BY <1>3, <2>1
  <2>3. e.index \in Nat
    BY <1>1, <1>2, RecordKinds DEF Entry
  <2>4. CASE x = e
    BY <2>3, <2>4
  <2>5. CASE x \in ToSet(OnDisk.entries)
    <3>1. x.index < e.index /\ x.index \in Nat
      BY <1>1, <1>3, <1>4, <2>1, <2>5, ReadEntries DEF ReadBefore
    <3> QED
      BY <2>3, <3>1
  <2> QED
    BY <2>2, <2>4, <2>5
<1>10. PhaseIdle'
  BY <1>6, <1>8, <1>9 DEF PhaseIdle
<1>11. LostOnlyBySnapshots'
  <2>1. SUFFICES ASSUME OnDisk'.readable, ~holed,
                        NEW x \in (acked \cup ToSet(log)) \ unwritten
                 PROVE  Found(x)'
    BY <1>2, <1>6 DEF LostOnlyBySnapshots
  <2>2. x \in acked \ unwritten \/ x = e
    BY <1>1
  <2>3. x \in acked \ unwritten => Found(x)
    BY <1>3, <2>1 DEF StorageInv, LostOnlyBySnapshots
  <2> QED
    BY <1>3, <2>1, <2>2, <2>3
<1>12. PhaseOK'
  BY <1>2, <1>6, <1>10 DEF PhaseOK
<1> QED
  BY <1>2, <1>3, <1>11, <1>12, FrameKeeps DEF StorageInv

\* The truncate marker before an entry.
LEMMA PhaseTruncateStep ==
    ASSUME StorageInv, DiskStep, snapshot = lastIncludedIndex, PhaseTruncate
    PROVE  StorageInv'
<1>1. /\ Len(todo) = 2 /\ todo[1].kind = "truncate" /\ AckedBefore(todo[1].index)
      /\ ReadBelowInMemory(todo[1].index) /\ todo[2].kind = "entry"
      /\ todo[2].entry.index = todo[1].index /\ OnlyNew(todo[2].entry)
  BY DEF PhaseTruncate, EntryAt
<1>2. TypeOK' /\ snapshot' = snapshot /\ unwritten' = unwritten
  BY <1>1, WriteRecordTypes
<1>3. /\ DiskOK' /\ VoteKept' /\ LostOnlyBySnapshots'
      /\ OnDisk'.readable =>
            /\ OnDisk.readable
            /\ \A x \in ToSet(OnDisk'.entries) :
                  x \in ToSet(OnDisk.entries) /\ x.index < todo[1].index
  BY <1>1, TruncateWritten
<1>4. /\ Len(todo') = 1 /\ todo'[1] = todo[2] /\ acked' = acked /\ log' = log
      /\ lastIncludedIndex' = lastIncludedIndex /\ status' = "up"
  <2>1. Frame
    BY DiskStepFrame
  <2>2. 1 \in 1..(Len(todo) - 1)
    BY <1>1
  <2> QED
    BY <1>1, <2>1, <2>2 DEF Frame
<1>5. PhaseEntry'
  BY <1>1, <1>2, <1>3, <1>4
     DEF PhaseEntry, ReadInMemory, ReadBelowInMemory, ReadBefore, OnlyNew
<1>6. PhaseOK'
  BY <1>2, <1>4, <1>5 DEF PhaseOK
<1> QED
  BY <1>2, <1>3, <1>6, FrameKeeps DEF StorageInv

\* Reset: what is above the snapshot leaves the disk.
LEMMA PhaseResetStep ==
    ASSUME StorageInv, DiskStep, snapshot = lastIncludedIndex, PhaseReset
    PROVE  StorageInv'
<1>1. Len(todo) = 2 /\ todo[1].kind = "reset" /\ todo[2].kind = "state"
  BY DEF PhaseReset
<1>2. Frame /\ todo[1] = Head(todo) /\ TypeOK
  BY DiskStepFrame DEF StorageInv
<1>3. /\ wal' = << >> /\ snapshot' = snapshot /\ voted' = voted /\ cleared' = TRUE
      /\ unwritten' = unwritten \cup {x \in acked \cup ToSet(log) : x.index > snapshot}
  BY <1>1, <1>2 DEF DiskStep, Reset, LosesIn
<1>4. OnDisk' = Replaying
  BY <1>3, ReplayEmpty DEF OnDisk
<1>5. /\ Len(todo') = 1 /\ todo'[1] = todo[2] /\ acked' = acked /\ log' = log
      /\ lastIncludedIndex' = lastIncludedIndex /\ status' = "up"
      /\ snapshotThreshold' = snapshotThreshold
  <2>1. 1 \in 1..(Len(todo) - 1)
    BY <1>1
  <2> QED
    BY <1>1, <1>2, <2>1 DEF Frame
<1>6. TypeOK'
  <2>1. acked' \subseteq Entry /\ unwritten' \subseteq Entry
    BY FrameKeeps
  <2>2. wal' \in Seq(Record)
    BY <1>3
  <2> QED
    BY <1>2, <1>3, <2>1, <2>2 DEF TypeOK, Frame
<1>7. ToSet(OnDisk'.entries) = {} /\ OnDisk' \in DiskState /\ Rising(OnDisk'.entries)
  BY <1>4 DEF Replaying, DiskState, Rising, ToSet
<1>8. DiskOK'
  BY <1>7 DEF DiskOK
<1>9. VoteKept'
  BY <1>3, <1>4 DEF VoteKept, Replaying
<1>10. \A x \in acked \cup ToSet(log) : x \in Entry /\ x.index \in Nat /\ snapshot \in Nat
  <2>1. log \in Seq(Entry) /\ acked \subseteq Entry /\ snapshot \in Nat
    BY <1>2 DEF TypeOK
  <2>2. \A k \in DOMAIN log : log[k] \in Entry
    BY <2>1, LenProperties, ElementOfSeq
  <2> QED
    BY <2>1, <2>2 DEF ToSet, Entry
<1>11. LostOnlyBySnapshots'
  <2>1. SUFFICES ASSUME NEW x \in acked \ unwritten' PROVE Found(x)'
    BY <1>5 DEF LostOnlyBySnapshots
  <2>2. x.index <= snapshot
    BY <1>3, <1>10
  <2> QED
    BY <1>3, <2>2 DEF Found
<1>12. PhaseState'
  <2>1. ReadInMemory' /\ ReadUpToLast'
    BY <1>7 DEF ReadInMemory, ReadUpToLast
  <2>2. \A x \in ToSet(log) : x.index <= snapshot \/ x \in unwritten'
    BY <1>3, <1>10
  <2> QED
    BY <1>1, <1>3, <1>5, <2>1, <2>2 DEF PhaseState
<1>13. PhaseOK'
  BY <1>3, <1>5, <1>12 DEF PhaseOK
<1> QED
  BY <1>6, <1>8, <1>9, <1>11, <1>13, FrameKeeps DEF StorageInv

\* SaveSnapshot: the snapshot takes the place of what it covers, and an older
\* one takes what it does not cover from the disk.
LEMMA PhaseSaveStep ==
    ASSUME StorageInv, DiskStep, Compacts(0)
    PROVE  StorageInv'
<1>1. /\ Len(todo) = 3 /\ todo[1].kind = "save" /\ todo[1].index = lastIncludedIndex
      /\ todo[2].kind = "reset" /\ todo[3].kind = "state"
  BY DEF Compacts
<1>2. Frame /\ todo[1] = Head(todo) /\ TypeOK /\ DiskOK
  BY DiskStepFrame DEF StorageInv
<1>3. /\ wal' = wal /\ snapshot' = lastIncludedIndex /\ voted' = voted /\ cleared' = cleared
      /\ unwritten' = unwritten \cup
            {x \in acked \cup ToSet(log) : x.index \in (lastIncludedIndex + 1)..snapshot}
  BY <1>1, <1>2 DEF DiskStep, SaveSnapshot, LosesIn
<1>4. OnDisk' = OnDisk
  BY <1>3 DEF OnDisk
<1>5. /\ Len(todo') = 2 /\ todo'[1] = todo[2] /\ todo'[2] = todo[3] /\ acked' = acked
      /\ log' = log /\ holed' = holed
      /\ lastIncludedIndex' = lastIncludedIndex /\ status' = "up"
      /\ snapshotThreshold' = snapshotThreshold
  <2>1. 1 \in 1..(Len(todo) - 1) /\ 2 \in 1..(Len(todo) - 1)
    BY <1>1
  <2> QED
    BY <1>1, <1>2, <2>1 DEF Frame
<1>6. TypeOK'
  <2>1. acked' \subseteq Entry /\ unwritten' \subseteq Entry
    BY FrameKeeps
  <2> QED
    BY <1>2, <1>3, <2>1 DEF TypeOK, Frame
<1>7. DiskOK' /\ VoteKept'
  BY <1>3, <1>4, <1>5 DEF StorageInv, DiskOK, VoteKept
<1>8. LostOnlyBySnapshots'
  <2>1. SUFFICES ASSUME OnDisk.readable, ~holed, NEW x \in acked \ unwritten'
                 PROVE  Found(x)'
    BY <1>4, <1>5 DEF LostOnlyBySnapshots
  <2>2. x.index \in Nat /\ snapshot \in Nat /\ lastIncludedIndex \in Nat
    BY <1>2 DEF TypeOK, Entry
  <2>3. Found(x) /\ ~(x.index \in (lastIncludedIndex + 1)..snapshot)
    BY <1>3, <2>1 DEF StorageInv, LostOnlyBySnapshots
  <2>4. x.index <= snapshot \/ (x \in ToSet(OnDisk.entries) /\ x.index > snapshot)
    <3>1. \A y : Found(y) <=> \/ y.index <= snapshot
                              \/ y \in ToSet(OnDisk.entries) /\ y.index > snapshot
      BY <1>2, ReadEntries
    <3> QED
      BY <2>3, <3>1, Zenon
  <2>5. x.index <= lastIncludedIndex
        \/ x \in ToSet(LoadedLog(OnDisk.entries, lastIncludedIndex))
    <3>1. OnDisk.entries \in Seq(Entry)
      BY <1>2, ReadEntries
    <3>2. x \in ToSet(LoadedLog(OnDisk.entries, lastIncludedIndex))
             <=> x \in ToSet(OnDisk.entries) /\ x.index > lastIncludedIndex
      BY <2>2, <3>1, LoadedLogIs
    <3> QED
      BY <2>2, <2>3, <2>4, <3>2
  <2> QED
    BY <1>3, <1>4, <2>5 DEF Found, RecoveredLog
<1>9. PhaseReset'
  BY <1>1, <1>5 DEF PhaseReset
<1>10. PhaseOK'
  BY <1>3, <1>5, <1>9 DEF PhaseOK
<1> QED
  BY <1>6, <1>7, <1>8, <1>10, FrameKeeps DEF StorageInv

\* The entry of a handler that compacts.
LEMMA PhaseEntryCompactStep ==
    ASSUME StorageInv, DiskStep, snapshot <= lastIncludedIndex, PhaseEntryCompact
    PROVE  StorageInv'
<1>1. /\ Len(todo) = 4 /\ todo[1].kind = "entry" /\ ReadBefore(todo[1].entry.index)
      /\ todo[2].kind = "save" /\ todo[2].index = lastIncludedIndex
      /\ todo[3].kind = "reset" /\ todo[4].kind = "state"
  BY DEF PhaseEntryCompact, Compacts
<1>2. TypeOK' /\ snapshot' = snapshot /\ unwritten' = unwritten
  BY <1>1, WriteRecordTypes
<1>3. /\ DiskOK' /\ VoteKept'
      /\ OnDisk'.readable => OnDisk.readable /\ \A x : Found(x) => Found(x)'
  BY <1>1, EntryWritten
<1>4. /\ Len(todo') = 3 /\ todo'[1] = todo[2] /\ todo'[2] = todo[3] /\ todo'[3] = todo[4]
      /\ acked' = acked /\ holed' = holed /\ snapshotThreshold' = snapshotThreshold
      /\ lastIncludedIndex' = lastIncludedIndex /\ status' = "up"
  <2>1. Frame
    BY DiskStepFrame
  <2>2. 1 \in 1..(Len(todo) - 1) /\ 2 \in 1..(Len(todo) - 1) /\ 3 \in 1..(Len(todo) - 1)
    BY <1>1
  <2> QED
    BY <1>1, <2>1, <2>2 DEF Frame
<1>5. LostOnlyBySnapshots'
  BY <1>2, <1>3, <1>4 DEF StorageInv, LostOnlyBySnapshots
<1>6. Compacts(0)'
  BY <1>1, <1>4 DEF Compacts
<1>7. PhaseOK'
  BY <1>2, <1>4, <1>6 DEF PhaseOK
<1> QED
  BY <1>2, <1>3, <1>5, <1>7, FrameKeeps DEF StorageInv

\* The truncate marker of a handler that compacts.
LEMMA PhaseTruncateCompactStep ==
    ASSUME StorageInv, DiskStep, snapshot <= lastIncludedIndex, PhaseTruncateCompact
    PROVE  StorageInv'
<1>1. /\ Len(todo) = 5 /\ todo[1].kind = "truncate" /\ AckedBefore(todo[1].index)
      /\ todo[2].kind = "entry" /\ todo[2].entry.index = todo[1].index
      /\ todo[3].kind = "save" /\ todo[3].index = lastIncludedIndex
      /\ todo[4].kind = "reset" /\ todo[5].kind = "state"
  BY DEF PhaseTruncateCompact, Compacts, EntryAt
<1>2. TypeOK' /\ snapshot' = snapshot
  BY <1>1, WriteRecordTypes
<1>3. /\ DiskOK' /\ VoteKept' /\ LostOnlyBySnapshots'
      /\ OnDisk'.readable => \A x \in ToSet(OnDisk'.entries) : x.index < todo[1].index
  BY <1>1, TruncateWritten
<1>4. /\ Len(todo') = 4 /\ todo'[1] = todo[2] /\ todo'[2] = todo[3] /\ todo'[3] = todo[4]
      /\ todo'[4] = todo[5] /\ snapshotThreshold' = snapshotThreshold
      /\ lastIncludedIndex' = lastIncludedIndex /\ status' = "up"
  <2>1. Frame
    BY DiskStepFrame
  <2>2. /\ 1 \in 1..(Len(todo) - 1) /\ 2 \in 1..(Len(todo) - 1) /\ 3 \in 1..(Len(todo) - 1)
        /\ 4 \in 1..(Len(todo) - 1)
    BY <1>1
  <2> QED
    BY <1>1, <2>1, <2>2 DEF Frame
<1>5. PhaseEntryCompact'
  BY <1>1, <1>3, <1>4 DEF PhaseEntryCompact, Compacts, ReadBefore
<1>6. PhaseOK'
  BY <1>2, <1>4, <1>5 DEF PhaseOK
<1> QED
  BY <1>2, <1>3, <1>6, FrameKeeps DEF StorageInv

LEMMA DiskStepInv ==
    ASSUME StorageInv, DiskStep
    PROVE  StorageInv'
<1>1. status = "up" /\ todo # << >>
  BY DEF DiskStep
<1>2. ~PhaseIdle
  BY <1>1 DEF PhaseIdle
<1> QED
  BY <1>1, <1>2, PhaseStateStep, PhaseEntryStep, PhaseTruncateStep, PhaseResetStep,
     PhaseSaveStep, PhaseEntryCompactStep, PhaseTruncateCompactStep DEF StorageInv, PhaseOK

LEMMA StorageInit ==
    ASSUME Init
    PROVE  StorageInv
<1>1. /\ wal = << >> /\ log = << >> /\ todo = << >> /\ acked = {} /\ unwritten = {}
      /\ snapshot = 0 /\ lastIncludedIndex = 0 /\ commitIndex = 0 /\ status = "up"
      /\ cleared = FALSE /\ holed = FALSE /\ crashes = 0 /\ currentTerm = 0 /\ votedFor = Nil
      /\ state = "Follower" /\ voted = [term |-> 0, vote |-> Nil]
      /\ snapshotThreshold \in Thresholds
  BY DEF Init
<1>2. OnDisk = Replaying
  BY <1>1, ReplayEmpty DEF OnDisk
<1>3. TypeOK
  <2>1. << >> \in Seq(Entry) /\ << >> \in Seq(DiskOp) /\ << >> \in Seq(Record)
    OBVIOUS
  <2>2. voted \in State
    BY <1>1 DEF State
  <2>3. /\ votedFor \in Node \cup {Nil} /\ state \in {"Follower", "Candidate", "Leader"}
        /\ status \in {"up", "down", "failed"} /\ cleared \in BOOLEAN /\ holed \in BOOLEAN
        /\ acked \subseteq Entry /\ unwritten \subseteq Entry
    BY <1>1
  <2>4. /\ currentTerm \in Nat
        /\ {lastIncludedIndex, commitIndex, snapshot, crashes} \subseteq Nat
    BY <1>1
  <2>5. log \in Seq(Entry) /\ todo \in Seq(DiskOp) /\ wal \in Seq(Record)
    BY <1>1, <2>1
  <2> QED
    BY <1>1, <2>2, <2>3, <2>4, <2>5 DEF TypeOK
<1>4. ToSet(OnDisk.entries) = {} /\ OnDisk \in DiskState /\ Rising(OnDisk.entries)
  BY <1>2 DEF Replaying, DiskState, Rising, ToSet
<1>5. DiskOK /\ MemoryOK /\ AckedInMemory /\ LostOnlyBySnapshots
  BY <1>1, <1>4 DEF DiskOK, MemoryOK, AckedInMemory, LostOnlyBySnapshots, Gapless
<1>6. VoteKept
  BY <1>1, <1>2 DEF VoteKept, Replaying
<1>7. PhaseIdle
  <2>1. ToSet(log) = {}
    BY <1>1 DEF ToSet
  <2> QED
    BY <1>1, <1>4, <2>1 DEF PhaseIdle, ReadInMemory, ReadUpToLast
<1>8. PhaseOK
  BY <1>1, <1>7 DEF PhaseOK
<1> QED
  BY <1>3, <1>5, <1>6, <1>8 DEF StorageInv

LEMMA StorageStutter ==
    ASSUME StorageInv, UNCHANGED vars
    PROVE  StorageInv'
<1>1. /\ log' = log /\ state' = state /\ currentTerm' = currentTerm /\ votedFor' = votedFor
      /\ lastIncludedIndex' = lastIncludedIndex /\ commitIndex' = commitIndex
      /\ snapshotThreshold' = snapshotThreshold /\ status' = status /\ todo' = todo
      /\ wal' = wal /\ snapshot' = snapshot /\ crashes' = crashes /\ acked' = acked
      /\ voted' = voted /\ unwritten' = unwritten /\ cleared' = cleared /\ holed' = holed
  BY DEF vars, memory, disk, history
<1>2. OnDisk' = OnDisk /\ RecoveredLog' = RecoveredLog
  BY <1>1 DEF OnDisk, RecoveredLog
<1>3. TypeOK' /\ DiskOK' /\ MemoryOK' /\ AckedInMemory' /\ VoteKept'
  BY <1>1, <1>2 DEF StorageInv, TypeOK, DiskOK, MemoryOK, AckedInMemory, VoteKept
<1>4. LostOnlyBySnapshots'
  BY <1>1, <1>2 DEF StorageInv, LostOnlyBySnapshots, Found
<1>5. PhaseOK'
  BY <1>1, <1>2 DEF StorageInv, PhaseOK, PhaseIdle, PhaseState, PhaseEntry, PhaseTruncate,
     PhaseReset, PhaseEntryCompact, PhaseTruncateCompact, Compacts, EntryAt, OnlyNew,
     ReadInMemory, ReadUpToLast, ReadBefore, ReadBelowInMemory, AckedBefore
<1> QED
  BY <1>3, <1>4, <1>5 DEF StorageInv

LEMMA StorageNext ==
    ASSUME StorageInv, [Next]_vars
    PROVE  StorageInv'
<1>1. CASE \E c \in Node, term \in 1..MaxTerm : CastVote(c, term)
  BY <1>1, CastVoteInv
<1>2. CASE \E term \in 1..MaxTerm : LearnTerm(term)
  BY <1>2, LearnTermInv
<1>3. CASE AppendOwn
  BY <1>3, AppendOwnInv
<1>4. CASE \E n \in 1..MaxIndex : CommitOwn(n)
  BY <1>4, CommitOwnInv
<1>5. CASE \E idx \in 1..MaxIndex, term \in 1..MaxTerm, l \in Node, n \in 0..MaxIndex :
              ReceiveEntry([index |-> idx, term |-> term], l, n)
  <2>1. PICK idx \in 1..MaxIndex, term \in 1..MaxTerm, l \in Node, n \in 0..MaxIndex :
            ReceiveEntry([index |-> idx, term |-> term], l, n)
    BY <1>5
  <2>2. [index |-> idx, term |-> term] \in Entry /\ n \in Nat
    BY StorageAssumption DEF Entry
  <2> QED
    BY <2>1, <2>2, ReceiveEntryInv
<1>6. CASE \E l \in Node : ReceiveChunk(l)
  BY <1>6, ReceiveChunkInv
<1>7. CASE \E l \in Node, n \in Installs, t \in 0..MaxTerm : restoreSnapshot(l, n, t)
  <2>1. PICK l \in Node, n \in Installs, t \in 0..MaxTerm : restoreSnapshot(l, n, t)
    BY <1>7
  <2>2. n \in Nat /\ t \in Nat
    BY StorageAssumption
  <2> QED
    BY <2>1, <2>2, restoreSnapshotInv
<1>8. CASE DiskStep
  BY <1>8, DiskStepInv
<1>9. CASE Crash
  BY <1>9, CrashInv
<1>10. CASE loadState
  BY <1>10, loadStateInv
<1>11. CASE UNCHANGED vars
  BY <1>11, StorageStutter
<1> QED
  BY <1>1, <1>2, <1>3, <1>4, <1>5, <1>6, <1>7, <1>8, <1>9, <1>10, <1>11 DEF Next
-----------------------------------------------------------------------------
(***************************************************************************)
(* Theorems.                                                               *)
(***************************************************************************)
\* At every moment, also between two disk operations of a handler and after a
\* crash inside a write, what Replay would read, the log in memory and what has
\* been acknowledged stand in the relation the operations that are left allow.
THEOREM StorageAccounted == Spec => []StorageInv
<1>1. Init => StorageInv
  BY StorageInit
<1>2. StorageInv /\ [Next]_vars => StorageInv'
  BY StorageNext
<1> QED
  BY <1>1, <1>2, PTL DEF Spec

\* The handlers of raft.go, writeRecord, SaveSnapshot, Reset and loadState
\* keep every variable in its type: the index of every entry is positive, and
\* the WAL holds whole records and records cut short by a crash, no others.
THEOREM StorageTypeCorrect == Spec => []TypeOK
<1>1. StorageInv => TypeOK
  BY DEF StorageInv
<1> QED
  BY <1>1, StorageAccounted, PTL

\* Whatever the crashes, a restart finds every acknowledged entry in the
\* snapshot or by Replay, but for those that takeSnapshot or restoreSnapshot
\* removed from the WAL and did not write again or that were in a snapshot
\* file that restoreSnapshot replaced by an older one, until a restart or a
\* snapshot has left a log with a hole.
THEOREM LossesAreSnapshots == Spec => []LostOnlyBySnapshots
<1>1. StorageInv => LostOnlyBySnapshots
  BY DEF StorageInv
<1> QED
  BY <1>1, StorageAccounted, PTL

\* A restart finds the last term and vote that AppendState has synced, so that
\* no node votes twice in a term, except between the Reset and the AppendState
\* of takeSnapshot and restoreSnapshot: a crash there leaves neither.
THEOREM VotesKept == Spec => []VoteKept
<1>1. StorageInv => VoteKept
  BY DEF StorageInv
<1> QED
  BY <1>1, StorageAccounted, PTL

\* Between two handlers Replay and loadState bring back no entry that the node
\* has truncated: the marker AppendTruncate and the rule for an entry whose
\* index is already there undo what was written before.
THEOREM NothingResurrected == Spec => []NoResurrection
<1>1. ASSUME StorageInv PROVE NoResurrection
  <2>1. SUFFICES ASSUME Idle, OnDisk.readable, NEW x \in ToSet(RecoveredLog)
                 PROVE  x \in ToSet(log)
    BY DEF NoResurrection
  <2>2. ReadInMemory /\ TypeOK /\ DiskOK
    BY <1>1, <2>1, IdleFacts DEF StorageInv
  <2>3. x \in ToSet(OnDisk.entries) /\ x.index > snapshot
    BY <2>1, <2>2, ReadEntries, LoadedLogIs DEF RecoveredLog
  <2> QED
    BY <2>1, <2>2, <2>3 DEF ReadInMemory
<1> QED
  BY <1>1, StorageAccounted, PTL

\* The log that loadState would build has rising indexes above the snapshot's,
\* also when the process ended between SaveSnapshot and Reset and the WAL still
\* holds what the snapshot covers.
THEOREM RecoveryOrdered == Spec => []RecoveredOrdered
<1>1. ASSUME StorageInv PROVE RecoveredOrdered
  <2>1. TypeOK /\ DiskOK
    BY <1>1 DEF StorageInv
  <2>2. OnDisk.entries \in Seq(Entry) /\ Rising(OnDisk.entries) /\ snapshot \in Nat
    BY <2>1, ReadEntries
  <2>3. PICK t : t = RecoveredLog
    OBVIOUS
  <2>4. t \in Seq(Entry) /\ Rising(t) /\ \A x \in ToSet(t) : x.index > snapshot
    BY <2>2, <2>3, LoadedLogIs DEF RecoveredLog
  <2>5. PICK m \in Nat : m = Len(t)
    BY <2>4, LenProperties
  <2>6. ASSUME NEW k \in 1..(m - 1) PROVE t[k].index < t[k + 1].index
    <3>1. k \in 1..m /\ k + 1 \in 1..m /\ k < k + 1
      BY <2>5
    <3> QED
      BY <2>4, <2>5, <3>1 DEF Rising
  <2> QED
    BY <2>3, <2>4, <2>5, <2>6 DEF RecoveredOrdered
<1> QED
  BY <1>1, StorageAccounted, PTL
=============================================================================
