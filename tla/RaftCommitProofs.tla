-------------------------- MODULE RaftCommitProofs --------------------------
(***************************************************************************)
(* The logs of an odd cluster match: two logs that hold an entry of the    *)
(* same term at the same index are equal up to it.                         *)
(*                                                                         *)
(* LogMatching is not inductive: what a leader wrote and then lost, and    *)
(* what is on its way in a request to append, can come back into a log.    *)
(* The invariant is about a ledger LL, which holds for each term the       *)
(* longest log its leader has had.  A leader never shortens its log, so    *)
(* the ledger only grows, and every entry in a log or in a request is one  *)
(* of the ledger, together with all that precedes it there.  Raft has no   *)
(* variable that remembers the ledger; the invariant says that one exists. *)
(***************************************************************************)
EXTENDS RaftProofs

Ledger == [Nat -> Seq(Entry)]

\* The log lg holds an entry of term t at index n.
Has(lg, t, n) == n \in 1..Len(lg) /\ lg[n].term = t

\* The logs a and b both reach index n and are equal up to it.
Same(a, b, n) ==
    /\ n <= Len(a) /\ n <= Len(b)
    /\ \A k \in 1..n : a[k] = b[k]

\* Up to each of its entries, lg is what the leader of the entry's term had.
Agrees(lg, LL) == \A n \in 1..Len(lg) : Same(lg, LL[lg[n].term], n)

\* What a request to append carries is in the log of its sender.
Carries(m, lg) ==
    /\ m.prevTerm # 0 => Has(lg, m.prevTerm, m.prevIndex)
    /\ \A k \in 1..Len(m.entries) :
          m.prevIndex + k <= Len(lg) /\ m.entries[k] = lg[m.prevIndex + k]

ElectedWrote(LL) == \A t \in Nat : LL[t] # << >> => \E c \in Server : Elected(c, t)
LeadersHold(LL) ==
    \A i \in Server : state[i] = "Leader" => log[i] = LL[currentTerm[i]]
LogsAgree(LL) == \A i \in Server : Agrees(log[i], LL)
LedgerAgrees(LL) == \A t \in Nat : Agrees(LL[t], LL)
RequestsAgree(LL) ==
    \A m \in msgs : m.type = "AppendEntries" => Carries(m, LL[m.term])

LedgerOK(LL) ==
    /\ LL \in Ledger
    /\ ElectedWrote(LL)
    /\ LeadersHold(LL)
    /\ LogsAgree(LL)
    /\ LedgerAgrees(LL)
    /\ RequestsAgree(LL)

\* The inductive invariant behind LogMatching.
LogInv == \E LL \in Ledger : LedgerOK(LL)
-----------------------------------------------------------------------------
(***************************************************************************)
(* Logs and the ledger.                                                    *)
(***************************************************************************)
\* Every entry is of a term that is a natural number above 0.
LEMMA EntryAt ==
    ASSUME NEW lg \in Seq(Entry), NEW n \in 1..Len(lg)
    PROVE  lg[n] \in Entry /\ lg[n].term \in Nat /\ lg[n].term > 0 /\ n \in Nat
<1>1. lg[n] \in Entry
  BY ElementOfSeq
<1> QED
  BY <1>1, LenProperties DEF Entry

LEMMA SameSym ==
    ASSUME NEW a, NEW b, NEW n, Same(a, b, n)
    PROVE  Same(b, a, n)
  BY DEF Same

LEMMA SameTrans ==
    ASSUME NEW a, NEW b, NEW c, NEW n, Same(a, b, n), Same(b, c, n)
    PROVE  Same(a, c, n)
  BY DEF Same

LEMMA SameShorter ==
    ASSUME NEW a \in Seq(Entry), NEW b \in Seq(Entry), NEW n \in Nat, NEW k \in Nat,
           k <= n, Same(a, b, n)
    PROVE  Same(a, b, k)
  BY LenProperties DEF Same

LEMMA SameHas ==
    ASSUME NEW a \in Seq(Entry), NEW b \in Seq(Entry), NEW n \in Nat, Same(a, b, n),
           NEW t, NEW k, k \in 1..n, Has(a, t, k)
    PROVE  Has(b, t, k)
  BY LenProperties DEF Same, Has

LEMMA SameRefl ==
    ASSUME NEW a \in Seq(Entry)
    PROVE  Same(a, a, Len(a))
  BY LenProperties DEF Same

\* An entry of term t at index n: the log is the ledger's up to there.
LEMMA HasAgrees ==
    ASSUME NEW LL \in Ledger, NEW lg \in Seq(Entry), Agrees(lg, LL),
           NEW t, NEW n, Has(lg, t, n)
    PROVE  /\ t \in Nat /\ t > 0 /\ n \in Nat /\ n >= 1
           /\ LL[t] \in Seq(Entry)
           /\ Same(lg, LL[t], n) /\ Has(LL[t], t, n)
<1>1. n \in 1..Len(lg) /\ lg[n].term = t
  BY DEF Has
<1>2. t \in Nat /\ t > 0 /\ n \in Nat /\ n >= 1
  BY <1>1, EntryAt
<1>3. LL[t] \in Seq(Entry)
  BY <1>2 DEF Ledger
<1>4. Same(lg, LL[t], n)
  BY <1>1 DEF Agrees
<1>5. Has(LL[t], t, n)
  BY <1>1, <1>2, <1>3, <1>4, SameHas
<1> QED
  BY <1>2, <1>3, <1>4, <1>5

\* Two logs of the ledger with an entry of the same term at the same index.
LEMMA SameTermSame ==
    ASSUME NEW LL \in Ledger, NEW a \in Seq(Entry), NEW b \in Seq(Entry),
           Agrees(a, LL), Agrees(b, LL), NEW t, NEW n, Has(a, t, n), Has(b, t, n)
    PROVE  Same(a, b, n)
<1>1. Same(a, LL[t], n) /\ Same(b, LL[t], n)
  BY HasAgrees
<1> QED
  BY <1>1, SameSym, SameTrans

LEMMA PrefixAgrees ==
    ASSUME NEW LL \in Ledger, NEW a \in Seq(Entry), NEW b \in Seq(Entry),
           Agrees(a, LL), Same(b, a, Len(b))
    PROVE  Agrees(b, LL)
<1> SUFFICES ASSUME NEW n \in 1..Len(b) PROVE Same(b, LL[b[n].term], n)
  BY DEF Agrees
<1>1. n \in Nat /\ Len(b) \in Nat /\ n <= Len(b)
  BY LenProperties
<1>2. Same(b, a, n)
  BY <1>1, SameShorter
<1>3. n \in 1..Len(a) /\ a[n] = b[n]
  BY <1>1, <1>2, LenProperties DEF Same
<1>4. Same(a, LL[b[n].term], n)
  BY <1>3 DEF Agrees
<1> QED
  BY <1>2, <1>4, SameTrans

\* The ledger LL grows to LM: no term loses or changes an entry.
Grows(LL, LM) == \A t \in Nat : Same(LL[t], LM[t], Len(LL[t]))

LEMMA GrownAgrees ==
    ASSUME NEW LL \in Ledger, NEW LM \in Ledger, Grows(LL, LM),
           NEW lg \in Seq(Entry), Agrees(lg, LL)
    PROVE  Agrees(lg, LM)
<1> SUFFICES ASSUME NEW n \in 1..Len(lg) PROVE Same(lg, LM[lg[n].term], n)
  BY DEF Agrees
<1> DEFINE t == lg[n].term
<1>1. t \in Nat /\ n \in Nat
  BY EntryAt
<1>2. LL[t] \in Seq(Entry) /\ LM[t] \in Seq(Entry) /\ Len(LL[t]) \in Nat
  BY <1>1, LenProperties DEF Ledger
<1>3. Same(lg, LL[t], n)
  BY DEF Agrees
<1> HIDE DEF t
<1>4. Same(LL[t], LM[t], Len(LL[t])) /\ n <= Len(LL[t])
  BY <1>1, <1>3 DEF Grows, Same
<1>5. Same(LL[t], LM[t], n)
  BY <1>1, <1>2, <1>4, SameShorter
<1> QED
  BY <1>3, <1>5, SameTrans DEF t

\* What a request carries is still in the grown ledger.
LEMMA GrownCarries ==
    ASSUME NEW a \in Seq(Entry), NEW b \in Seq(Entry), Same(a, b, Len(a)),
           NEW m \in AppendEntriesMsg, Carries(m, a)
    PROVE  Carries(m, b)
<1>1. /\ m.prevIndex \in Nat /\ Len(a) \in Nat /\ Len(b) \in Nat
      /\ Len(m.entries) \in Nat
  BY LenProperties DEF AppendEntriesMsg
<1>2. ASSUME m.prevTerm # 0 PROVE Has(b, m.prevTerm, m.prevIndex)
  BY <1>1, <1>2 DEF Carries, Has, Same
<1>3. ASSUME NEW k \in 1..Len(m.entries)
      PROVE  m.prevIndex + k <= Len(b) /\ m.entries[k] = b[m.prevIndex + k]
  <2>1. m.prevIndex + k <= Len(a) /\ m.entries[k] = a[m.prevIndex + k]
    BY DEF Carries
  <2>2. m.prevIndex + k \in 1..Len(a)
    BY <1>1, <2>1
  <2> QED
    BY <1>1, <2>1, <2>2 DEF Same
<1> QED
  BY <1>2, <1>3 DEF Carries

\* The ledger in which the leader of term t has the log lg.
Entered(LL, t, lg) == [LL EXCEPT ![t] = lg]

LEMMA EnteredAt ==
    ASSUME NEW LL \in Ledger, NEW t \in Nat, NEW lg \in Seq(Entry)
    PROVE  /\ Entered(LL, t, lg) \in Ledger /\ Entered(LL, t, lg)[t] = lg
           /\ \A u \in Nat \ {t} : Entered(LL, t, lg)[u] = LL[u]
  BY DEF Entered, Ledger

\* The leader of term t appends an entry to its log lg.
LEMMA LedgerGrowth ==
    ASSUME NEW LL \in Ledger, NEW t \in Nat, NEW lg \in Seq(Entry), NEW e \in Entry,
           e.term = t, Agrees(lg, LL), Same(LL[t], lg, Len(LL[t])),
           NEW LM, LM = Entered(LL, t, Append(lg, e))
    PROVE  /\ LM \in Ledger /\ Grows(LL, LM)
           /\ LM[t] = Append(lg, e) /\ LM[t] # << >>
           /\ \A u \in Nat \ {t} : LM[u] = LL[u]
           /\ Agrees(LM[t], LM)
<1> DEFINE x == Append(lg, e)
<1>1. /\ x \in Seq(Entry) /\ x # << >> /\ Len(x) = Len(lg) + 1
      /\ \A k \in 1..Len(lg) : x[k] = lg[k]
      /\ x[Len(lg) + 1] = e
      /\ Len(lg) \in Nat
  BY AppendProperties, LenProperties
<1> HIDE DEF x
<1>2. LM \in Ledger /\ LM[t] = x /\ \A u \in Nat \ {t} : LM[u] = LL[u]
  <2>1. LM = Entered(LL, t, x)
    BY DEF x
  <2>2. x \in Seq(Entry)
    BY <1>1
  <2>3. /\ Entered(LL, t, x) \in Ledger /\ Entered(LL, t, x)[t] = x
        /\ \A u \in Nat \ {t} : Entered(LL, t, x)[u] = LL[u]
    BY <2>2, EnteredAt, Zenon
  <2> QED
    BY <2>1, <2>3
<1>3. Same(lg, x, Len(lg))
  BY <1>1 DEF Same
<1>4. Grows(LL, LM)
  <2> SUFFICES ASSUME NEW u \in Nat PROVE Same(LL[u], LM[u], Len(LL[u]))
    BY DEF Grows
  <2>1. LL[u] \in Seq(Entry)
    BY DEF Ledger
  <2>2. CASE u = t
    <3>1. Len(LL[t]) \in Nat /\ Len(LL[t]) <= Len(lg)
      BY <2>1, <2>2, LenProperties DEF Same
    <3>2. Same(lg, x, Len(LL[t]))
      BY <1>1, <1>3, <3>1, SameShorter
    <3> QED
      BY <1>2, <2>2, <3>2, SameTrans
  <2>3. CASE u # t
    BY <1>2, <2>1, <2>3, SameRefl
  <2> QED
    BY <2>2, <2>3
<1>5. Agrees(x, LM)
  <2> SUFFICES ASSUME NEW n \in 1..Len(x) PROVE Same(x, LM[x[n].term], n)
    BY DEF Agrees
  <2>1. CASE n = Len(lg) + 1
    <3>1. x[n].term = t /\ n = Len(x)
      BY <1>1, <2>1
    <3> QED
      BY <1>1, <1>2, <3>1, SameRefl
  <2>2. CASE n # Len(lg) + 1
    <3>1. n \in 1..Len(lg) /\ x[n] = lg[n] /\ n \in Nat /\ n <= Len(lg)
      BY <1>1, <2>2
    <3>2. Agrees(lg, LM)
      BY <1>2, <1>4, GrownAgrees
    <3>3. Same(lg, LM[x[n].term], n)
      BY <3>1, <3>2 DEF Agrees
    <3>4. Same(lg, x, n)
      BY <1>1, <1>3, <3>1, SameShorter
    <3> QED
      BY <3>3, <3>4, SameSym, SameTrans
  <2> QED
    BY <2>1, <2>2
<1> QED
  BY <1>1, <1>2, <1>4, <1>5 DEF x
-----------------------------------------------------------------------------
(***************************************************************************)
(* The log that processAppendEntries builds.                               *)
(***************************************************************************)
\* As far as the terms of the request's entries are those of the log, the log
\* is the sender's.
LEMMA Matched ==
    ASSUME NEW LL \in Ledger, NEW lg \in Seq(Entry), Agrees(lg, LL),
           NEW m \in AppendEntriesMsg, Agrees(LL[m.term], LL),
           Carries(m, LL[m.term]), PrevMatches(lg, m),
           NEW q \in 0..Len(m.entries),
           \A k \in 1..q : getEntryTerm(lg, m.prevIndex + k) = m.entries[k].term
    PROVE  Same(lg, LL[m.term], m.prevIndex + q)
<1> DEFINE ll == LL[m.term]
           prev == m.prevIndex
           n == prev + q
<1>1. /\ prev \in Nat /\ m.term \in Nat /\ m.entries \in Seq(Entry) /\ q \in Nat
      /\ Len(m.entries) \in Nat /\ Len(lg) \in Nat
  BY LenProperties DEF AppendEntriesMsg
<1>2. ll \in Seq(Entry) /\ Len(ll) \in Nat
  BY <1>1, LenProperties DEF Ledger
<1>3. prev <= Len(lg) /\ getEntryTerm(lg, prev) = m.prevTerm
  BY DEF PrevMatches
<1>4. CASE n = 0
  BY <1>1, <1>2, <1>4 DEF Same
<1>5. CASE q > 0
  <2>1. q \in 1..Len(m.entries)
    BY <1>1, <1>5
  <2>2. n <= Len(ll) /\ m.entries[q] = ll[n]
    BY <2>1 DEF Carries
  <2>3. m.entries[q].term \in Nat /\ m.entries[q].term > 0
    BY <1>1, <2>1, EntryAt
  <2>4. n \in 1..Len(lg) /\ getEntryTerm(lg, n) = m.entries[q].term
    <3>1. q \in 1..q
      BY <1>1, <1>5
    <3>2. getEntryTerm(lg, n) = m.entries[q].term
      BY <3>1
    <3>3. getEntryTerm(lg, n) # 0
      BY <2>3, <3>2
    <3> QED
      BY <3>2, <3>3, getEntryTermType
  <2>5. n \in 1..Len(ll)
    BY <1>1, <1>2, <1>5, <2>2
  <2>6. Has(lg, m.entries[q].term, n) /\ Has(ll, m.entries[q].term, n)
    BY <2>2, <2>4, <2>5 DEF Has, getEntryTerm
  <2> HIDE DEF ll, n
  <2> QED
    BY <1>2, <2>6, SameTermSame DEF ll, n
<1>6. CASE q = 0 /\ prev > 0
  <2>1. prev \in 1..Len(lg)
    BY <1>1, <1>3, <1>6
  <2>2. m.prevTerm # 0
    BY <1>3, <2>1, getEntryTermType
  <2>3. Has(ll, m.prevTerm, prev)
    BY <2>2 DEF Carries
  <2>4. Has(lg, m.prevTerm, prev)
    BY <1>3, <2>1 DEF Has, getEntryTerm
  <2>5. n = prev
    BY <1>1, <1>6
  <2> HIDE DEF ll, n
  <2>6. Same(lg, ll, prev)
    BY <1>2, <2>3, <2>4, SameTermSame DEF ll
  <2> QED
    BY <2>5, <2>6 DEF ll, n
<1> QED
  BY <1>1, <1>4, <1>5, <1>6

\* What is kept of the log, followed by the first q of the new entries: all of
\* it is the sender's log.  Up to the first new entry nothing was lost, and
\* that entry differs from what the log held in its place.
LEMMA Written ==
    ASSUME NEW LL \in Ledger, NEW lg \in Seq(Entry), Agrees(lg, LL),
           NEW m \in AppendEntriesMsg, Agrees(LL[m.term], LL),
           Carries(m, LL[m.term]), PrevMatches(lg, m), NewEntries(lg, m) # {},
           NEW q \in 0..(Len(m.entries) - FirstNew(lg, m) + 1)
    PROVE  LET f == FirstNew(lg, m)
               p == m.prevIndex + f
               x == SubSeq(lg, 1, p - 1) \o SubSeq(m.entries, f, f + q - 1)
           IN
           /\ x \in Seq(Entry) /\ Len(x) = p - 1 + q
           /\ Same(x, LL[m.term], Len(x))
           /\ Same(lg, LL[m.term], p - 1) /\ p \in 1..Len(LL[m.term])
           /\ ~Has(lg, LL[m.term][p].term, p)
<1> DEFINE ll == LL[m.term]
           f == FirstNew(lg, m)
           p == m.prevIndex + f
           a == SubSeq(lg, 1, p - 1)
           b == SubSeq(m.entries, f, f + q - 1)
           x == a \o b
<1> HIDE DEF x, a, b
<1>1. /\ m.prevIndex \in Nat /\ m.term \in Nat /\ m.entries \in Seq(Entry)
      /\ Len(m.entries) \in Nat /\ Len(lg) \in Nat
  BY LenProperties DEF AppendEntriesMsg
<1>2. ll \in Seq(Entry) /\ Len(ll) \in Nat
  BY <1>1, LenProperties DEF Ledger
<1>3. /\ f \in 1..Len(m.entries) /\ m.prevIndex + f - 1 <= Len(lg)
      /\ \A k \in 1..(f - 1) : getEntryTerm(lg, m.prevIndex + k) = m.entries[k].term
  BY FirstNewBounds
<1>4. f \in NewEntries(lg, m)
  <2>1. NewEntries(lg, m) \subseteq Nat
    BY DEF NewEntries
  <2> QED
    BY <2>1, MinOfNats DEF FirstNew
<1>q. q \in 0..(Len(m.entries) - f + 1)
  OBVIOUS
<1> HIDE DEF f
<1>5. f - 1 \in 0..Len(m.entries) /\ p - 1 = m.prevIndex + (f - 1)
      /\ p \in Nat /\ p - 1 \in Nat /\ q \in Nat /\ f \in Nat /\ f >= 1
      /\ p - 1 <= Len(lg) /\ f + q - 1 <= Len(m.entries)
  <2>1. f \in Nat /\ f >= 1 /\ f - 1 \in 0..Len(m.entries)
    BY <1>1, <1>3
  <2>2. p \in Nat /\ p - 1 \in Nat /\ p - 1 = m.prevIndex + (f - 1)
    BY <1>1, <2>1
  <2>3. p - 1 <= Len(lg)
    BY <1>1, <1>3, <2>1, <2>2
  <2>4. q \in Nat /\ f + q - 1 <= Len(m.entries)
    BY <1>1, <1>q, <2>1
  <2> QED
    BY <2>1, <2>2, <2>3, <2>4
<1>6. Same(lg, ll, p - 1)
  BY <1>3, <1>5, Matched
<1>7. \A k \in 1..Len(m.entries) :
         m.prevIndex + k <= Len(ll) /\ m.entries[k] = ll[m.prevIndex + k]
  BY DEF Carries
<1>8. p \in 1..Len(ll) /\ m.entries[f] = ll[p]
  <2>1. m.prevIndex + f = p /\ p >= 1
    BY <1>1, <1>3
  <2>2. m.prevIndex + f <= Len(ll) /\ m.entries[f] = ll[m.prevIndex + f]
    BY <1>3, <1>7
  <2> QED
    BY <1>2, <1>5, <2>1, <2>2
<1>9. getEntryTerm(lg, p) # ll[p].term
  BY <1>4, <1>8 DEF NewEntries
<1>10. ~Has(lg, ll[p].term, p)
  BY <1>9 DEF Has, getEntryTerm
<1>11. /\ a \in Seq(Entry) /\ Len(a) = p - 1
       /\ \A k \in 1..(p - 1) : a[k] = lg[k]
  <2>1. \A k \in 1..(p - 1) : lg[k] \in Entry
    BY <1>1, <1>3, <1>5, ElementOfSeq
  <2> HIDE DEF p
  <2>2. /\ a \in Seq(Entry) /\ Len(a) = (IF 1 <= p - 1 THEN (p - 1) - 1 + 1 ELSE 0)
        /\ \A k \in 1..((p - 1) - 1 + 1) : a[k] = lg[1 + k - 1]
    BY <1>5, <2>1, SubSeqProperties DEF a
  <2> QED
    BY <1>5, <2>2
<1>12. /\ b \in Seq(Entry) /\ Len(b) = q
       /\ \A k \in 1..q : b[k] = m.entries[f + k - 1] /\ f + k - 1 \in 1..Len(m.entries)
  <2>1. \A k \in f..(f + q - 1) : m.entries[k] \in Entry
    <3> SUFFICES ASSUME NEW k \in f..(f + q - 1) PROVE m.entries[k] \in Entry
      OBVIOUS
    <3>1. k \in 1..Len(m.entries)
      BY <1>1, <1>5
    <3> QED
      BY <1>1, <3>1, ElementOfSeq
  <2> DEFINE n == f + q - 1
  <2>2. f \in Int /\ n \in Int /\ \A k \in f..n : m.entries[k] \in Entry
    BY <1>5, <2>1
  <2>3. b = SubSeq(m.entries, f, n)
    BY DEF b
  <2> HIDE DEF n
  <2>4. /\ b \in Seq(Entry)
        /\ Len(b) = (IF f <= n THEN n - f + 1 ELSE 0)
        /\ \A k \in 1..(n - f + 1) : b[k] = m.entries[f + k - 1]
    BY <2>2, <2>3, SubSeqProperties
  <2> QED
    BY <1>1, <1>5, <2>4 DEF n
<1>13. /\ x \in Seq(Entry) /\ Len(x) = (p - 1) + q
       /\ \A k \in 1..((p - 1) + q) : x[k] = IF k <= p - 1 THEN a[k] ELSE b[k - (p - 1)]
  <2>1. x = a \o b
    BY DEF x
  <2>2. /\ x \in Seq(Entry) /\ Len(x) = Len(a) + Len(b)
        /\ \A k \in 1..(Len(a) + Len(b)) :
              x[k] = IF k <= Len(a) THEN a[k] ELSE b[k - Len(a)]
    BY <1>11, <1>12, <2>1, ConcatProperties
  <2> HIDE DEF p
  <2> QED
    BY <1>11, <1>12, <2>2
<1>14. Same(x, ll, Len(x))
  <2>1. ASSUME NEW k \in 1..Len(x) PROVE x[k] = ll[k] /\ k <= Len(ll)
    <3>1. CASE k <= p - 1
      BY <1>2, <1>5, <1>6, <1>11, <1>13, <3>1 DEF Same
    <3>2. CASE ~(k <= p - 1)
      <4> DEFINE d == k - (p - 1)
                 g == f + d - 1
      <4>0. k \in Int /\ d \in Int /\ m.prevIndex + g = k
        <5>1. k \in Int
          BY <1>5, <1>13
        <5>2. p - 1 = m.prevIndex + (f - 1) /\ p \in Nat
          BY <1>5
        <5> HIDE DEF p
        <5>3. d \in Int
          BY <5>1, <5>2
        <5>4. d = k - (p - 1)
          OBVIOUS
        <5> HIDE DEF d
        <5> QED
          BY <1>1, <1>5, <5>1, <5>2, <5>3, <5>4, SMTT(30)
      <4>1. d \in 1..q /\ x[k] = b[d]
        <5> HIDE DEF p
        <5>1. d \in 1..q
          BY <1>5, <1>13, <3>2
        <5>2. k \in 1..((p - 1) + q)
          BY <1>13
        <5> QED
          BY <1>13, <3>2, <5>1, <5>2
      <4>2. b[d] = m.entries[g] /\ g \in 1..Len(m.entries)
        BY <1>12, <4>1
      <4> HIDE DEF d, g
      <4> QED
        BY <1>7, <4>0, <4>1, <4>2
    <3> QED
      BY <3>1, <3>2
  <2>2. Len(x) \in Nat
    BY <1>5, <1>13
  <2>3. Len(x) <= Len(ll)
    <3>1. CASE Len(x) = 0
      BY <1>2, <3>1
    <3>2. CASE Len(x) # 0
      BY <2>1, <2>2, <3>2
    <3> QED
      BY <3>1, <3>2
  <2> QED
    BY <2>1, <2>2, <2>3 DEF Same
<1> QED
  BY <1>6, <1>8, <1>10, <1>13, <1>14 DEF x, a, b, f
-----------------------------------------------------------------------------
(***************************************************************************)
(* The steps of the ledger.                                                *)
(***************************************************************************)
\* Any two majorities of an odd cluster share a node.
LEMMA SharedNode ==
    ASSUME Odd(Cardinality(Server)), NEW p \in Server, NEW q \in Server, NEW V, NEW W,
           HasMajority(Config(p), p, V), HasMajority(Config(q), q, W)
    PROVE  \E x \in Server : x \in V /\ x \in W
<1> DEFINE C == [old |-> {}, new |-> Server, joint |-> FALSE]
<1>1. Config(p) = C /\ Config(q) = C
  BY Peers
<1>2. C.new = Server /\ C.joint = FALSE
  OBVIOUS
<1> HIDE DEF C
<1> QED
  BY <1>1, <1>2, ServerAssumption, SteadyQuorumsIntersect

\* One leader in a term, in the state that a step leads to.
LEMMA OneLeaderNext ==
    ASSUME Odd(Cardinality(Server)), TypeOK', VoteInv',
           NEW e \in elections', NEW f \in elections', e.term = f.term
    PROVE  e.leader = f.leader
<1> DEFINE c == e.leader
           d == f.leader
<1>1. /\ c \in Server /\ d \in Server
      /\ HasMajority(Config(c), c, e.voters)
      /\ HasMajority(Config(d), d, f.voters)
      /\ \A v \in e.voters : [voter |-> v, term |-> e.term, cand |-> c] \in ballots'
      /\ \A v \in f.voters : [voter |-> v, term |-> e.term, cand |-> d] \in ballots'
  BY DEF VoteInv, LeadersElected, Config, TypeOK, Election, FirstVote
<1> HIDE DEF c, d
<1>2. PICK x \in Server : x \in e.voters /\ x \in f.voters
  BY <1>1, SharedNode
<1>3. /\ [voter |-> x, term |-> e.term, cand |-> c] \in ballots'
      /\ [voter |-> x, term |-> e.term, cand |-> d] \in ballots'
  BY <1>1, <1>2
<1> QED
  BY <1>3 DEF VoteInv, BallotsPersisted, c, d

\* A step after which the ledger is the same: no leader has changed its log,
\* and every log and every request still agrees with the ledger.
LEMMA LedgerKept ==
    ASSUME NEW LL, LedgerOK(LL), elections \subseteq elections',
           \A k \in Server : state'[k] = "Leader" =>
              state[k] = "Leader" /\ currentTerm'[k] = currentTerm[k] /\ log'[k] = log[k],
           \A k \in Server : Agrees(log'[k], LL),
           \A m \in msgs' : m.type = "AppendEntries"
              => m \in msgs \/ Carries(m, LL[m.term])
    PROVE  LedgerOK(LL)'
<1>1. ElectedWrote(LL)'
  BY DEF LedgerOK, ElectedWrote, Elected
<1>2. LeadersHold(LL)'
  BY DEF LedgerOK, LeadersHold
<1>3. LogsAgree(LL)' /\ LedgerAgrees(LL)'
  BY DEF LedgerOK, LogsAgree, LedgerAgrees
<1>4. RequestsAgree(LL)'
  BY DEF LedgerOK, RequestsAgree
<1> QED
  BY <1>1, <1>2, <1>3, <1>4 DEF LedgerOK

\* A leader appends an entry of its term, as its first or as a later one.
LEMMA LedgerAppended ==
    ASSUME Odd(Cardinality(Server)), TypeOK, TypeOK', VoteInv',
           NEW LL, LedgerOK(LL), NEW i \in Server, NEW e \in Entry,
           e.term = currentTerm[i], currentTerm' = currentTerm, msgs' = msgs,
           log' = [log EXCEPT ![i] = Append(log[i], e)],
           state' = [state EXCEPT ![i] = "Leader"], elections \subseteq elections',
           Same(LL[currentTerm[i]], log[i], Len(LL[currentTerm[i]])),
           NEW LM, LM = Entered(LL, currentTerm[i], Append(log[i], e))
    PROVE  LedgerOK(LM)' /\ Grows(LL, LM)
<1>t. PICK t \in Nat : t = currentTerm[i]
  BY DEF TypeOK
<1>0. LL \in Ledger /\ log[i] \in Seq(Entry) /\ Agrees(log[i], LL)
  BY DEF LedgerOK, LogsAgree, TypeOK
<1>l. /\ LM = Entered(LL, t, Append(log[i], e))
      /\ e.term = t /\ Same(LL[t], log[i], Len(LL[t]))
  BY <1>t
<1>1. /\ LM \in Ledger /\ Grows(LL, LM)
      /\ LM[t] = Append(log[i], e) /\ LM[t] # << >>
      /\ \A u \in Nat \ {t} : LM[u] = LL[u]
      /\ Agrees(LM[t], LM)
  BY <1>0, <1>l, LedgerGrowth
<1>2. /\ log'[i] = LM[t] /\ state'[i] = "Leader"
      /\ \A k \in Server \ {i} : log'[k] = log[k] /\ state'[k] = state[k]
  BY <1>1 DEF TypeOK
<1>3. \A k \in Server : state'[k] = "Leader" =>
         \E f \in elections' : f.leader = k /\ f.term = currentTerm[k]
  BY DEF VoteInv, LeadersElected, Elected
<1>4. ElectedWrote(LM)'
  <2> SUFFICES ASSUME NEW u \in Nat, LM[u] # << >>
               PROVE  \E c \in Server : Elected(c, u)'
    BY DEF ElectedWrote
  <2>1. CASE u = t
    BY <1>t, <1>2, <1>3, <2>1 DEF Elected
  <2>2. CASE u # t
    BY <1>1, <2>2 DEF LedgerOK, ElectedWrote, Elected
  <2> QED
    BY <2>1, <2>2
<1>5. LeadersHold(LM)'
  <2> SUFFICES ASSUME NEW k \in Server, state'[k] = "Leader"
               PROVE  log'[k] = LM[currentTerm'[k]]
    BY DEF LeadersHold
  <2>1. CASE k = i
    BY <1>t, <1>2, <2>1
  <2>2. CASE k # i
    <3>1. log[k] = LL[currentTerm[k]] /\ currentTerm[k] \in Nat
      BY <1>2, <2>2 DEF LedgerOK, LeadersHold, TypeOK
    <3>2. currentTerm[k] # t
      BY <1>t, <1>2, <1>3, <2>2, OneLeaderNext
    <3> QED
      BY <1>1, <1>2, <2>2, <3>1, <3>2
  <2> QED
    BY <2>1, <2>2
<1>6. LogsAgree(LM)'
  <2> SUFFICES ASSUME NEW k \in Server PROVE Agrees(log'[k], LM)
    BY DEF LogsAgree
  <2>1. CASE k = i
    BY <1>1, <1>2, <2>1
  <2>2. CASE k # i
    <3>1. log[k] \in Seq(Entry) /\ Agrees(log[k], LL)
      BY DEF LedgerOK, LogsAgree, TypeOK
    <3> QED
      BY <1>0, <1>1, <1>2, <2>2, <3>1, GrownAgrees
  <2> QED
    BY <2>1, <2>2
<1>7. LedgerAgrees(LM)'
  <2> SUFFICES ASSUME NEW u \in Nat PROVE Agrees(LM[u], LM)
    BY DEF LedgerAgrees
  <2>1. CASE u = t
    BY <1>1, <2>1
  <2>2. CASE u # t
    <3>1. LL[u] \in Seq(Entry) /\ Agrees(LL[u], LL)
      BY DEF LedgerOK, LedgerAgrees, Ledger
    <3> QED
      BY <1>0, <1>1, <2>2, <3>1, GrownAgrees
  <2> QED
    BY <2>1, <2>2
<1>8. RequestsAgree(LM)'
  <2> SUFFICES ASSUME NEW m \in msgs, m.type = "AppendEntries"
               PROVE  Carries(m, LM[m.term])
    BY DEF RequestsAgree
  <2>1. m \in AppendEntriesMsg /\ m.term \in Nat
    BY MessageKinds DEF TypeOK, AppendEntriesMsg
  <2>2. Carries(m, LL[m.term])
    BY DEF LedgerOK, RequestsAgree
  <2>3. /\ LL[m.term] \in Seq(Entry) /\ LM[m.term] \in Seq(Entry)
        /\ Same(LL[m.term], LM[m.term], Len(LL[m.term]))
    BY <1>0, <1>1, <2>1 DEF Ledger, Grows
  <2> QED
    BY <2>1, <2>2, <2>3, GrownCarries
<1> QED
  BY <1>1, <1>4, <1>5, <1>6, <1>7, <1>8 DEF LedgerOK
-----------------------------------------------------------------------------
(***************************************************************************)
(* One lemma per kind of step.  Each says which ledger the next state has. *)
(***************************************************************************)
\* A step that changes no log, sends no request to append and makes no leader.
LEMMA QuietLedger ==
    ASSUME NEW LL, LedgerOK(LL), log' = log, elections \subseteq elections',
           \A k \in Server : state'[k] = "Leader" =>
              state[k] = "Leader" /\ currentTerm'[k] = currentTerm[k],
           \A m \in msgs' : m.type = "AppendEntries" => m \in msgs
    PROVE  LedgerOK(LL)'
<1>1. \A k \in Server : Agrees(log'[k], LL)
  BY DEF LedgerOK, LogsAgree
<1> QED
  BY <1>1, LedgerKept

\* What replicateToPeer sends it has read in the log of the leader.
LEMMA ReplicateCarries ==
    ASSUME TypeOK, NEW i \in Server, NEW j \in Server, ReplicateToPeer(i, j),
           NEW m \in msgs', m \notin msgs
    PROVE  /\ m.type = "AppendEntries" /\ m.from = i /\ m.to = j /\ j # i
           /\ m.term = currentTerm[i] /\ m.leaderCommit = commitIndex[i]
           /\ Carries(m, log[i]) /\ m.prevIndex + 1 = nextIndex[i][j]
           /\ m.prevIndex \in Nat
           /\ m.prevIndex <= Len(log[i]) => m.prevIndex + Len(m.entries) = Len(log[i])
<1> DEFINE prev == nextIndex[i][j] - 1
           n == Len(log[i])
           es == SubSeq(log[i], prev + 1, n)
<1>1. j # i /\ state[i] = "Leader"
  BY Peers DEF ReplicateToPeer
<1>2. nextIndex[i][j] \in Nat /\ nextIndex[i][j] >= 1
  BY <1>1 DEF TypeOK, IndexOK
<1>3. prev \in Nat /\ prev + 1 = nextIndex[i][j]
  BY <1>2
<1>4. /\ m.type = "AppendEntries" /\ m.from = i /\ m.to = j
      /\ m.term = currentTerm[i] /\ m.leaderCommit = commitIndex[i]
      /\ m.prevIndex = prev /\ m.prevTerm = getEntryTerm(log[i], prev)
      /\ m.entries = es
  BY DEF ReplicateToPeer
<1>5. log[i] \in Seq(Entry) /\ n \in Nat
  BY LenProperties DEF TypeOK
<1> HIDE DEF prev, n
<1>6. /\ Len(es) = (IF prev + 1 <= n THEN n - prev ELSE 0)
      /\ \A k \in 1..Len(es) : prev + k <= n /\ es[k] = log[i][prev + k]
  <2>1. \A k \in (prev + 1)..n : log[i][k] \in Entry
    <3> SUFFICES ASSUME NEW k \in (prev + 1)..n PROVE log[i][k] \in Entry
      OBVIOUS
    <3>1. k \in 1..Len(log[i])
      BY <1>3, <1>5 DEF n
    <3> QED
      BY <1>5, <3>1, ElementOfSeq
  <2>2. PICK a \in Nat : a = prev + 1
    BY <1>3
  <2>3. /\ Len(SubSeq(log[i], a, n)) = (IF a <= n THEN n - a + 1 ELSE 0)
        /\ \A k \in 1..(n - a + 1) : SubSeq(log[i], a, n)[k] = log[i][a + k - 1]
    BY <1>5, <2>1, <2>2, SubSeqProperties
  <2>4. es = SubSeq(log[i], a, n)
    BY <2>2
  <2> HIDE DEF es
  <2>5. Len(es) = (IF prev + 1 <= n THEN n - prev ELSE 0)
    BY <1>3, <1>5, <2>2, <2>3, <2>4
  <2>6. ASSUME NEW k \in 1..Len(es) PROVE prev + k <= n /\ es[k] = log[i][prev + k]
    <3>1. k \in 1..(n - a + 1) /\ a + k - 1 = prev + k /\ prev + k <= n
      BY <1>3, <1>5, <2>2, <2>5
    <3> QED
      BY <2>3, <2>4, <3>1
  <2> QED
    BY <2>5, <2>6
<1> HIDE DEF es
<1>7. m.prevTerm # 0 => Has(log[i], m.prevTerm, m.prevIndex)
  BY <1>4, <1>5, getEntryTermType DEF Has, getEntryTerm
<1>8. Carries(m, log[i])
  BY <1>4, <1>6, <1>7 DEF Carries, n
<1>9. m.prevIndex <= n => m.prevIndex + Len(m.entries) = n
  BY <1>3, <1>4, <1>5, <1>6
<1> QED
  BY <1>1, <1>3, <1>4, <1>8, <1>9 DEF n

LEMMA ReplicateLedger ==
    ASSUME TypeOK, NEW LL, LedgerOK(LL), NEW i \in Server, NEW j \in Server,
           ReplicateToPeer(i, j)
    PROVE  LedgerOK(LL)'
<1> USE DEF nodeVars, logVars, history
<1>1. log' = log /\ state' = state /\ currentTerm' = currentTerm /\ elections' = elections
  BY DEF ReplicateToPeer
<1>2. ASSUME NEW m \in msgs', m.type = "AppendEntries"
      PROVE  m \in msgs \/ Carries(m, LL[m.term])
  <2>1. SUFFICES ASSUME m \notin msgs PROVE Carries(m, LL[m.term])
    OBVIOUS
  <2>2. m.term = currentTerm[i] /\ Carries(m, log[i])
    BY <2>1, ReplicateCarries
  <2>3. log[i] = LL[currentTerm[i]]
    BY DEF ReplicateToPeer, LedgerOK, LeadersHold
  <2> QED
    BY <2>2, <2>3
<1>3. \A k \in Server : Agrees(log'[k], LL)
  BY <1>1 DEF LedgerOK, LogsAgree
<1> QED
  BY <1>1, <1>2, <1>3, LedgerKept

\* A candidate wins a term in which nobody was elected: the ledger has nothing
\* of that term yet, and gets the log of the winner with its no-op entry.
LEMMA WinLedger ==
    ASSUME Odd(Cardinality(Server)), TypeOK, VoteInv, TypeOK', VoteInv',
           NEW LL, LedgerOK(LL), NEW i \in Server, NEW V, state[i] = "Candidate",
           transitionToLeader(i, currentTerm[i], V),
           currentTerm' = currentTerm, msgs' = msgs,
           NEW e, e = [term |-> currentTerm[i], cmd |-> Noop],
           NEW LM, LM = Entered(LL, currentTerm[i], Append(log[i], e))
    PROVE  /\ LL[currentTerm[i]] = << >> /\ e \in Entry /\ e.term = currentTerm[i]
           /\ log' = [log EXCEPT ![i] = Append(log[i], e)]
           /\ \A c \in Server : ~Elected(c, currentTerm[i])
           /\ LedgerOK(LM)' /\ Grows(LL, LM)
<1>1. PICK t \in Nat : t = currentTerm[i]
  BY DEF TypeOK
<1> DEFINE won == [leader |-> i, term |-> t, voters |-> V]
<1>2. t >= 1 /\ ~Elected(i, t)
  BY <1>1 DEF TypeOK, IndexOK, VoteInv, LeadersElected
<1>3. e \in Entry /\ e.term = t
  BY <1>1, <1>2 DEF Entry
<1>4. /\ log' = [log EXCEPT ![i] = Append(log[i], e)]
      /\ state' = [state EXCEPT ![i] = "Leader"]
      /\ elections' = elections \cup {won}
  BY <1>1 DEF transitionToLeader
<1>5. \A c \in Server : ~Elected(c, t)
  <2> SUFFICES ASSUME NEW c \in Server, NEW f \in elections, f.leader = c, f.term = t
               PROVE  FALSE
    BY DEF Elected
  <2>1. won \in elections' /\ won.leader = i /\ won.term = t /\ f \in elections'
    BY <1>4
  <2> HIDE DEF won
  <2>2. i = c
    BY <2>1, OneLeaderNext
  <2> QED
    BY <1>2, <2>2 DEF Elected
<1>6. LL[t] = << >>
  BY <1>5 DEF LedgerOK, ElectedWrote
<1>7. Same(LL[t], log[i], Len(LL[t]))
  <2>1. log[i] \in Seq(Entry) /\ Len(log[i]) \in Nat /\ Len(<< >>) = 0
    BY LenProperties DEF TypeOK
  <2> QED
    BY <1>6, <2>1 DEF Same
<1>8. elections \subseteq elections'
  BY <1>4
<1>9. LedgerOK(LM)' /\ Grows(LL, LM)
  BY <1>1, <1>3, <1>4, <1>7, <1>8, LedgerAppended
<1> QED
  BY <1>1, <1>3, <1>4, <1>5, <1>6, <1>9

\* A proposal at a leader, whose log is the ledger's of its term.
LEMMA ProposeLedger ==
    ASSUME Odd(Cardinality(Server)), TypeOK, TypeOK', VoteInv',
           NEW LL, LedgerOK(LL), NEW i \in Server, NEW c \in Command,
           ClientCommand(i, c),
           NEW e, e = [term |-> currentTerm[i], cmd |-> c],
           NEW LM, LM = Entered(LL, currentTerm[i], Append(log[i], e))
    PROVE  /\ LL[currentTerm[i]] = log[i] /\ e \in Entry /\ e.term = currentTerm[i]
           /\ log' = [log EXCEPT ![i] = Append(log[i], e)]
           /\ LedgerOK(LM)' /\ Grows(LL, LM)
<1> USE DEF nodeVars, history
<1>1. currentTerm[i] \in Nat /\ currentTerm[i] >= 1 /\ state[i] = "Leader"
  BY DEF ClientCommand, TypeOK, IndexOK
<1>2. e \in Entry /\ e.term = currentTerm[i]
  BY <1>1 DEF Entry
<1>3. /\ log' = [log EXCEPT ![i] = Append(log[i], e)]
      /\ state' = [state EXCEPT ![i] = "Leader"]
      /\ currentTerm' = currentTerm /\ msgs' = msgs /\ elections' = elections
  <2>1. state' = state
    BY DEF ClientCommand
  <2>2. state = [state EXCEPT ![i] = "Leader"]
    BY <1>1 DEF TypeOK
  <2>3. state' = [state EXCEPT ![i] = "Leader"]
    BY <2>1, <2>2, Zenon
  <2> QED
    BY <2>3 DEF ClientCommand
<1>4. LL[currentTerm[i]] = log[i]
  BY <1>1 DEF LedgerOK, LeadersHold
<1>5. Same(LL[currentTerm[i]], log[i], Len(LL[currentTerm[i]]))
  BY <1>4, SameRefl DEF TypeOK
<1>6. LedgerOK(LM)' /\ Grows(LL, LM)
  BY <1>2, <1>3, <1>5, LedgerAppended
<1> QED
  BY <1>2, <1>3, <1>4, <1>6

\* What the ledger says of a request to append and of the log it meets.
LEMMA RequestFacts ==
    ASSUME TypeOK, NEW LL, LedgerOK(LL), NEW m \in msgs, m.type = "AppendEntries"
    PROVE  /\ m \in AppendEntriesMsg /\ m.term \in Nat /\ m.to \in Server
           /\ LL \in Ledger /\ LL[m.term] \in Seq(Entry) /\ Agrees(LL[m.term], LL)
           /\ Carries(m, LL[m.term])
           /\ log[m.to] \in Seq(Entry) /\ Agrees(log[m.to], LL)
<1>1. m \in AppendEntriesMsg /\ m.term \in Nat /\ m.to \in Server
  BY MessageKinds DEF TypeOK, AppendEntriesMsg
<1> QED
  BY <1>1 DEF LedgerOK, LedgerAgrees, RequestsAgree, LogsAgree, Ledger, TypeOK

\* The log after an accepted request: unchanged, or the beginning of the log of
\* the sender, with everything kept that was the sender's.
LEMMA AppendedLogLedger ==
    ASSUME NEW LL \in Ledger, NEW lg \in Seq(Entry), Agrees(lg, LL),
           NEW m \in AppendEntriesMsg, Agrees(LL[m.term], LL),
           Carries(m, LL[m.term]), PrevMatches(lg, m)
    PROVE  /\ AppendedLog(lg, m) \in Seq(Entry) /\ Agrees(AppendedLog(lg, m), LL)
           /\ Same(AppendedLog(lg, m), LL[m.term], m.prevIndex + Len(m.entries))
           /\ \/ AppendedLog(lg, m) = lg
              \/ Len(AppendedLog(lg, m)) = m.prevIndex + Len(m.entries)
<1>0. /\ m.prevIndex \in Nat /\ m.term \in Nat /\ Len(m.entries) \in Nat
      /\ LL[m.term] \in Seq(Entry)
  BY LenProperties DEF AppendEntriesMsg, Ledger
<1>1. CASE NewEntries(lg, m) = {}
  <2>1. AppendedLog(lg, m) = lg
    BY <1>1 DEF AppendedLog
  <2>2. \A k \in 1..Len(m.entries) : getEntryTerm(lg, m.prevIndex + k) = m.entries[k].term
    BY <1>1 DEF NewEntries
  <2>3. Len(m.entries) \in 0..Len(m.entries)
    BY <1>0
  <2>4. Same(lg, LL[m.term], m.prevIndex + Len(m.entries))
    BY <2>2, <2>3, Matched
  <2> QED
    BY <2>1, <2>4
<1>2. CASE NewEntries(lg, m) # {}
  <2> DEFINE f == FirstNew(lg, m)
             p == m.prevIndex + f
             q == Len(m.entries) - f + 1
             x == SubSeq(lg, 1, p - 1) \o SubSeq(m.entries, f, f + q - 1)
  <2>1. f \in 1..Len(m.entries)
    BY <1>2, FirstNewBounds
  <2>2. q \in 0..(Len(m.entries) - FirstNew(lg, m) + 1)
    BY <1>0, <2>1
  <2>3. /\ x \in Seq(Entry) /\ Len(x) = p - 1 + q /\ Same(x, LL[m.term], Len(x))
    <3> HIDE DEF q
    <3> QED
      BY <1>2, <2>2, Written
  <2>4. f + q - 1 = Len(m.entries) /\ p - 1 + q = m.prevIndex + Len(m.entries)
        /\ p - 1 = m.prevIndex + f - 1
    <3> HIDE DEF f
    <3>1. f \in Int
      BY <2>1
    <3> QED
      BY <1>0, <3>1
  <2>5. AppendedLog(lg, m) = x
    <3>1. AppendedLog(lg, m) = SubSeq(lg, 1, m.prevIndex + f - 1)
                               \o SubSeq(m.entries, f, Len(m.entries))
      BY <1>2 DEF AppendedLog
    <3> HIDE DEF f, p, q
    <3> QED
      BY <2>4, <3>1
  <2> HIDE DEF f, p, q, x
  <2>6. Agrees(x, LL)
    BY <1>0, <2>3, PrefixAgrees
  <2>7. Len(x) = m.prevIndex + Len(m.entries)
    BY <2>3, <2>4
  <2> QED
    BY <2>3, <2>5, <2>6, <2>7
<1> QED
  BY <1>1, <1>2

\* A node that leads after a request to append led before it, in the same term,
\* and has not accepted it: the request would be one of its own.
LEMMA LeaderRefuses ==
    ASSUME Odd(Cardinality(Server)), TypeOK, VoteInv, NEW m \in msgs,
           HandleAppendEntries(m), NEW k \in Server, state'[k] = "Leader"
    PROVE  state[k] = "Leader" /\ currentTerm'[k] = currentTerm[k] /\ log'[k] = log[k]
<1> USE DEF nodeVars, logVars
<1> DEFINE i == m.to
<1>1. /\ i \in Server /\ m.term \in Nat /\ currentTerm[i] \in Nat
      /\ m.type = "AppendEntries"
  <2>1. m \in Message /\ currentTerm \in [Server -> Nat]
    BY DEF TypeOK
  <2>2. m.type = "AppendEntries"
    BY DEF HandleAppendEntries
  <2>3. m \in AppendEntriesMsg
    BY <2>1, <2>2, MessageKinds
  <2> QED
    BY <2>1, <2>2, <2>3 DEF AppendEntriesMsg
<1>0. \/ m.term < currentTerm[i] /\ UNCHANGED <<state, currentTerm, log>>
      \/ /\ m.term >= currentTerm[i]
         /\ state' = [state EXCEPT ![i] = IF StepsDown(m, i) THEN "Follower" ELSE @]
         /\ currentTerm' = [currentTerm EXCEPT ![i] = m.term]
         /\ log' = log \/ \E x : log' = [log EXCEPT ![i] = x]
  BY DEF HandleAppendEntries
<1>2. CASE m.term < currentTerm[i]
  BY <1>0, <1>1, <1>2
<1>3. CASE m.term >= currentTerm[i]
  <2>1. /\ state' = [state EXCEPT ![i] = IF StepsDown(m, i) THEN "Follower" ELSE @]
        /\ currentTerm' = [currentTerm EXCEPT ![i] = m.term]
        /\ log' = log \/ \E x : log' = [log EXCEPT ![i] = x]
    BY <1>0, <1>1, <1>3
  <2>2. CASE k # i
    BY <1>1, <2>1, <2>2 DEF TypeOK
  <2>3. CASE k = i
    <3>1. state'[i] = IF StepsDown(m, i) THEN "Follower" ELSE state[i]
      BY <1>1, <2>1 DEF TypeOK
    <3>2. ~StepsDown(m, i) /\ state[i] = "Leader"
      BY <2>3, <3>1
    <3>3. m.term = currentTerm[i]
      BY <1>1, <1>3, <3>2 DEF StepsDown
    <3>4. m.from # i /\ Elected(m.from, m.term) /\ Elected(i, m.term)
      BY <1>1, <3>2, <3>3 DEF VoteInv, LeadersElected
    <3>5. ElectionSafety
      BY OneLeader
    <3> QED
      BY <3>4, <3>5 DEF ElectionSafety, Elected
  <2> QED
    BY <2>2, <2>3
<1> QED
  BY <1>1, <1>2, <1>3

LEMMA AcceptLedger ==
    ASSUME Odd(Cardinality(Server)), TypeOK, VoteInv, NEW LL, LedgerOK(LL),
           NEW m \in msgs, HandleAppendEntries(m)
    PROVE  LedgerOK(LL)'
<1> USE DEF logVars, history
<1> DEFINE i == m.to
<1>1. m.type = "AppendEntries" /\ elections' = elections
  BY DEF HandleAppendEntries
<1>2. i \in Server /\ \A k \in Server : Agrees(log[k], LL)
  BY <1>1, RequestFacts DEF LedgerOK, LogsAgree
<1>3. ASSUME NEW k \in Server PROVE Agrees(log'[k], LL)
  <2>1. CASE log' = log
    BY <1>2, <2>1
  <2>2. CASE log' # log
    <3>1. PrevMatches(log[i], m) /\ log' = [log EXCEPT ![i] = AppendedLog(log[i], m)]
      BY <2>2 DEF HandleAppendEntries
    <3>2. Agrees(AppendedLog(log[i], m), LL)
      BY <1>1, <3>1, RequestFacts, AppendedLogLedger
    <3>3. log'[k] = IF k = i THEN AppendedLog(log[i], m) ELSE log[k]
      BY <1>2, <3>1 DEF TypeOK
    <3> QED
      BY <1>2, <3>2, <3>3
  <2> QED
    BY <2>1, <2>2
<1>4. \A n \in msgs' : n.type = "AppendEntries" => n \in msgs
  BY DEF HandleAppendEntries, AppendReply
<1> QED
  BY <1>1, <1>3, <1>4, LeaderRefuses, LedgerKept

\* A restart: the node that starts with a log of the ledger does not lead.
LEMMA loadStateLedger ==
    ASSUME TypeOK, NEW LL, LedgerOK(LL), NEW i \in Server, NEW lg, Agrees(lg, LL),
           loadState(i, lg)
    PROVE  LedgerOK(LL)'
<1>1. /\ state' = [state EXCEPT ![i] = "Follower"] /\ log' = [log EXCEPT ![i] = lg]
      /\ \E t : currentTerm' = [currentTerm EXCEPT ![i] = t]
      /\ msgs' = msgs /\ elections' = elections
  BY DEF loadState, history
<1>2. ASSUME NEW k \in Server
      PROVE  /\ state'[k] = "Leader" => /\ state[k] = "Leader"
                                        /\ currentTerm'[k] = currentTerm[k]
                                        /\ log'[k] = log[k]
             /\ Agrees(log'[k], LL)
  BY <1>1 DEF TypeOK, LedgerOK, LogsAgree
<1> QED
  BY <1>1, <1>2, LedgerKept

\* What is in the WAL when a node ends inside processAppendEntries.
LEMMA CrashedLog ==
    ASSUME TypeOK, NEW LL, LedgerOK(LL), NEW m \in msgs, CrashWhileAppending(m)
    PROVE  \E lg \in Seq(Entry), p \in Nat :
              /\ loadState(m.to, lg) /\ Agrees(lg, LL)
              /\ p >= 1 /\ p - 1 <= Len(lg) /\ p <= Len(LL[m.term])
              /\ Same(lg, LL[m.term], Len(lg)) /\ Same(log[m.to], LL[m.term], p - 1)
              /\ ~Has(log[m.to], LL[m.term][p].term, p)
<1> DEFINE i == m.to
           f == FirstNew(log[i], m)
           p == m.prevIndex + f
<1>1. /\ m.type = "AppendEntries" /\ PrevMatches(log[i], m)
      /\ NewEntries(log[i], m) # {}
  BY DEF CrashWhileAppending
<1>2. PICK n \in 0..(Len(m.entries) - f) :
         loadState(i, SubSeq(log[i], 1, m.prevIndex + f - 1)
                      \o SubSeq(m.entries, f, f + n - 1))
  BY DEF CrashWhileAppending
<1> DEFINE x == SubSeq(log[i], 1, p - 1) \o SubSeq(m.entries, f, f + n - 1)
<1>3. /\ m \in AppendEntriesMsg /\ LL \in Ledger
      /\ LL[m.term] \in Seq(Entry) /\ Agrees(LL[m.term], LL) /\ Carries(m, LL[m.term])
      /\ log[i] \in Seq(Entry) /\ Agrees(log[i], LL)
  BY <1>1, RequestFacts
<1>4. m.prevIndex \in Nat /\ Len(m.entries) \in Nat /\ f \in 1..Len(m.entries)
  BY <1>1, <1>3, FirstNewBounds, LenProperties DEF AppendEntriesMsg
<1>5. n \in 0..(Len(m.entries) - FirstNew(log[i], m) + 1)
  BY <1>4
<1>6. /\ x \in Seq(Entry) /\ Len(x) = p - 1 + n /\ Same(x, LL[m.term], Len(x))
      /\ Same(log[i], LL[m.term], p - 1) /\ p \in 1..Len(LL[m.term])
      /\ ~Has(log[i], LL[m.term][p].term, p)
  BY <1>1, <1>3, <1>5, Written
<1>7. loadState(i, x)
  <2>1. p - 1 = m.prevIndex + f - 1
    BY <1>4
  <2> HIDE DEF p, f
  <2> QED
    BY <1>2, <2>1
<1> HIDE DEF p, f, x
<1>8. p \in Nat /\ p >= 1 /\ p <= Len(LL[m.term]) /\ p - 1 <= Len(x)
  <2>1. p \in Nat /\ n \in Nat
    BY <1>4 DEF p
  <2> QED
    BY <1>3, <1>6, <2>1, LenProperties
<1>9. Agrees(x, LL)
  BY <1>3, <1>6, PrefixAgrees
<1> QED
  BY <1>6, <1>7, <1>8, <1>9

\* Handlers that leave the log alone and make nobody a leader.
LEMMA QuietHandlers ==
    ASSUME TypeOK,
           \/ \E i \in Server : ElectionTimeout(i)
           \/ \E i \in Server, c \in Command : RejectCommand(i, c)
           \/ \E m \in msgs : HandlePreVote(m)
           \/ \E m \in msgs : HandlePreVoteReply(m)
           \/ \E m \in msgs : HandleRequestVote(m)
           \/ \E m \in msgs : HandleAppendReply(m)
           \/ UNCHANGED vars
    PROVE  /\ log' = log /\ elections' = elections
           /\ \A k \in Server : state'[k] = "Leader" =>
                 state[k] = "Leader" /\ currentTerm'[k] = currentTerm[k]
           /\ \A m \in msgs' : m.type = "AppendEntries" => m \in msgs
<1> USE DEF nodeVars, voteVars, logVars, leaderVars, clientVars, history
<1>0. msgs \subseteq Message /\ \A k \in Server : currentTerm[k] \in Nat
  BY DEF TypeOK
<1>1. CASE \/ \E i \in Server : ElectionTimeout(i)
           \/ \E i \in Server, c \in Command : RejectCommand(i, c)
           \/ \E m \in msgs : HandlePreVote(m)
           \/ UNCHANGED vars
  <2>1. log' = log /\ elections' = elections /\ state' = state /\ currentTerm' = currentTerm
    BY <1>1 DEF ElectionTimeout, RejectCommand, HandlePreVote, vars
  <2>2. ASSUME NEW n \in msgs', n.type = "AppendEntries" PROVE n \in msgs
    <3>1. CASE \E i \in Server : ElectionTimeout(i)
      BY <2>2, <3>1 DEF ElectionTimeout
    <3>2. CASE \E m \in msgs : HandlePreVote(m)
      BY <2>2, <3>2 DEF HandlePreVote
    <3>3. CASE msgs' = msgs
      BY <3>3
    <3> QED
      BY <1>1, <3>1, <3>2, <3>3 DEF RejectCommand, vars
  <2> QED
    BY <2>1, <2>2
<1>2. CASE \E m \in msgs : HandlePreVoteReply(m)
  <2> PICK m \in msgs : HandlePreVoteReply(m)
    BY <1>2
  <2>1. m.to \in Server
    BY <1>0, MessageKinds
  <2>2. log' = log /\ elections' = elections
    BY DEF HandlePreVoteReply
  <2>3. \/ UNCHANGED <<state, currentTerm, msgs>>
        \/ /\ state' = [state EXCEPT ![m.to] = "Candidate"]
           /\ \E t : currentTerm' = [currentTerm EXCEPT ![m.to] = t]
           /\ RequestVotes(m.to, currentTerm[m.to] + 1)
    BY DEF HandlePreVoteReply, transitionToCandidate
  <2>4. ASSUME NEW n \in msgs', n.type = "AppendEntries" PROVE n \in msgs
    BY <2>3, <2>4 DEF RequestVotes
  <2> QED
    BY <2>1, <2>2, <2>3, <2>4 DEF TypeOK
<1>3. CASE \E m \in msgs : HandleRequestVote(m)
  <2> PICK m \in msgs : HandleRequestVote(m)
    BY <1>3
  <2>1. m.to \in Server /\ m.term \in Nat
    BY <1>0, MessageKinds DEF HandleRequestVote, RequestVoteMsg
  <2>2. /\ log' = log /\ elections' = elections
        /\ \A n \in msgs' : n.type = "AppendEntries" => n \in msgs
    BY DEF HandleRequestVote, VoteReply
  <2>3. \/ UNCHANGED <<state, currentTerm>>
        \/ /\ m.term >= currentTerm[m.to]
           /\ \/ m.term > currentTerm[m.to] /\ state' = [state EXCEPT ![m.to] = "Follower"]
              \/ ~(m.term > currentTerm[m.to]) /\ state' = state
           /\ currentTerm' = [currentTerm EXCEPT ![m.to] = m.term]
    BY DEF HandleRequestVote
  <2>4. CASE UNCHANGED <<state, currentTerm>>
    BY <2>2, <2>4
  <2>5. CASE /\ m.term > currentTerm[m.to] /\ state' = [state EXCEPT ![m.to] = "Follower"]
             /\ currentTerm' = [currentTerm EXCEPT ![m.to] = m.term]
    BY <2>1, <2>2, <2>5 DEF TypeOK
  <2>6. CASE /\ m.term = currentTerm[m.to] /\ state' = state
             /\ currentTerm' = [currentTerm EXCEPT ![m.to] = m.term]
    BY <2>1, <2>2, <2>6 DEF TypeOK
  <2> QED
    BY <1>0, <2>1, <2>3, <2>4, <2>5, <2>6
<1>4. CASE \E m \in msgs : HandleAppendReply(m)
  <2> PICK m \in msgs : HandleAppendReply(m)
    BY <1>4
  <2>1. m.to \in Server
    BY <1>0, MessageKinds
  <2>2. log' = log /\ elections' = elections /\ msgs' = msgs
    BY DEF HandleAppendReply
  <2>3. \/ UNCHANGED <<state, currentTerm>>
        \/ /\ state' = [state EXCEPT ![m.to] = "Follower"]
           /\ \E t : currentTerm' = [currentTerm EXCEPT ![m.to] = t]
    BY DEF HandleAppendReply, transitionToFollower
  <2> QED
    BY <2>1, <2>2, <2>3 DEF TypeOK
<1> QED
  BY <1>1, <1>2, <1>3, <1>4

\* processRequestVoteResponse: the node wins, or it counts or steps down.
LEMMA VoteReplyCases ==
    ASSUME TypeOK, NEW m \in msgs, HandleVoteReply(m)
    PROVE  \/ /\ state[m.to] = "Candidate"
              /\ HasMajority(Config(m.to), m.to, votesReceived[m.to] \cup {m.from})
              /\ transitionToLeader(m.to, currentTerm[m.to],
                                    votesReceived[m.to] \cup {m.from})
              /\ UNCHANGED <<currentTerm, msgs, commitIndex, applied, wal, ballots,
                             proposals, replies>>
           \/ /\ log' = log /\ elections' = elections
              /\ \A k \in Server : state'[k] = "Leader" =>
                    state[k] = "Leader" /\ currentTerm'[k] = currentTerm[k]
              /\ msgs' = msgs
<1> USE DEF clientVars
<1>1. m.to \in Server
  BY MessageKinds DEF TypeOK
<1>2. UNCHANGED <<wal, commitIndex, applied, msgs, ballots>>
  BY DEF HandleVoteReply
<1>3. CASE m.term > currentTerm[m.to] /\ transitionToFollower(m.to, m.term)
           /\ UNCHANGED <<log, elections>>
  BY <1>1, <1>2, <1>3 DEF transitionToFollower, TypeOK
<1>4. CASE /\ m.term = currentTerm[m.to] /\ state[m.to] = "Candidate"
           /\ IF HasMajority(Config(m.to), m.to, votesReceived[m.to] \cup {m.from})
              THEN transitionToLeader(m.to, m.term, votesReceived[m.to] \cup {m.from})
              ELSE UNCHANGED <<state, log, leaderVars, elections>>
           /\ UNCHANGED <<currentTerm, votedFor, clientVars>>
  BY <1>1, <1>2, <1>4
<1> QED
  BY <1>3, <1>4 DEF HandleVoteReply

LEMMA InitLogInv == Init => LogInv
<1> SUFFICES ASSUME Init PROVE LogInv
  OBVIOUS
<1> DEFINE LL == [t \in Nat |-> << >>]
<1>1. LL \in Ledger /\ \A t \in Nat : LL[t] = << >>
  BY EmptySeq DEF Ledger
<1>2. Agrees(<< >>, LL)
  BY DEF Agrees
<1>3. LedgerOK(LL)
  <2> HIDE DEF LL
  <2> QED
    BY <1>1, <1>2 DEF Init, LedgerOK, ElectedWrote, LeadersHold, LogsAgree,
                      LedgerAgrees, RequestsAgree
<1> HIDE DEF LL
<1> QED
  BY <1>1, <1>3 DEF LogInv

LEMMA NextLogInv ==
    ASSUME Odd(Cardinality(Server)), TypeOK, VoteInv, LogInv, [Next]_vars
    PROVE  LogInv'
<1> USE DEF nodeVars, history
<1>0. TypeOK' /\ VoteInv'
  BY NextTypeOK, NextVoteInv
<1>1. PICK LL \in Ledger : LedgerOK(LL)
  BY DEF LogInv
<1>2. SUFFICES \E LM : LedgerOK(LM)'
  BY DEF LogInv, LedgerOK
<1>3. CASE \/ \E i \in Server : ElectionTimeout(i)
           \/ \E i \in Server, c \in Command : RejectCommand(i, c)
           \/ \E m \in msgs : HandlePreVote(m)
           \/ \E m \in msgs : HandlePreVoteReply(m)
           \/ \E m \in msgs : HandleRequestVote(m)
           \/ \E m \in msgs : HandleAppendReply(m)
           \/ UNCHANGED vars
  BY <1>1, <1>3, QuietHandlers, QuietLedger
<1>4. CASE \E m \in msgs : HandleVoteReply(m)
  <2> PICK m \in msgs : HandleVoteReply(m)
    BY <1>4
  <2>1. m.to \in Server
    BY MessageKinds DEF TypeOK
  <2>2. CASE /\ state[m.to] = "Candidate"
             /\ transitionToLeader(m.to, currentTerm[m.to],
                                   votesReceived[m.to] \cup {m.from})
             /\ UNCHANGED <<currentTerm, msgs>>
    BY <1>0, <1>1, <2>1, <2>2, WinLedger
  <2>3. CASE /\ log' = log /\ elections' = elections
             /\ \A k \in Server : state'[k] = "Leader" =>
                   state[k] = "Leader" /\ currentTerm'[k] = currentTerm[k]
             /\ msgs' = msgs
    BY <1>1, <2>3, QuietLedger
  <2> QED
    BY <2>2, <2>3, VoteReplyCases
<1>5. CASE \E i \in Server, c \in Command : ClientCommand(i, c)
  BY <1>0, <1>1, <1>5, ProposeLedger
<1>6. CASE \E i, j \in Server : ReplicateToPeer(i, j)
  BY <1>1, <1>6, ReplicateLedger
<1>7. CASE \E m \in msgs : HandleAppendEntries(m)
  BY <1>1, <1>7, AcceptLedger
<1>8. CASE \E i \in Server : Restart(i)
  BY <1>1, <1>8, loadStateLedger DEF Restart, LedgerOK, LogsAgree
<1>9. CASE \E m \in msgs : CrashWhileAppending(m)
  <2> PICK m \in msgs : CrashWhileAppending(m)
    BY <1>9
  <2>1. m.to \in Server
    BY MessageKinds DEF TypeOK
  <2>2. PICK lg : loadState(m.to, lg) /\ Agrees(lg, LL)
    BY <1>1, CrashedLog
  <2> QED
    BY <1>1, <2>1, <2>2, loadStateLedger
<1> QED
  BY <1>3, <1>4, <1>5, <1>6, <1>7, <1>8, <1>9 DEF Next

\* Every log and every request to append of an odd cluster is taken from one
\* ledger of what the leaders wrote, in every state of Spec.
THEOREM LogsFromLedger ==
    ASSUME Odd(Cardinality(Server))
    PROVE  Spec => []LogInv
<1>1. Init => TypeOK /\ VoteInv /\ LogInv
  BY InitTypeOK, InitVoteInv, InitLogInv
<1>2. TypeOK /\ VoteInv /\ LogInv /\ [Next]_vars => (TypeOK /\ VoteInv /\ LogInv)'
  BY NextTypeOK, NextVoteInv, NextLogInv
<1> QED
  BY <1>1, <1>2, PTL DEF Spec

\* The step from the ledger to the property.
LEMMA MatchingFromLedger == TypeOK /\ LogInv => LogMatching
<1> SUFFICES ASSUME TypeOK, LogInv, NEW i \in Server, NEW j \in Server,
                    NEW n \in 1..Min({Len(log[i]), Len(log[j])}),
                    log[i][n].term = log[j][n].term
             PROVE  SubSeq(log[i], 1, n) = SubSeq(log[j], 1, n)
  BY DEF LogMatching
<1>1. PICK LL \in Ledger : LedgerOK(LL)
  BY DEF LogInv
<1>2. /\ log[i] \in Seq(Entry) /\ log[j] \in Seq(Entry)
      /\ Len(log[i]) \in Nat /\ Len(log[j]) \in Nat
      /\ Agrees(log[i], LL) /\ Agrees(log[j], LL)
  BY <1>1, LenProperties DEF TypeOK, LedgerOK, LogsAgree
<1>3. n \in 1..Len(log[i]) /\ n \in 1..Len(log[j])
  <2> DEFINE S == {Len(log[i]), Len(log[j])}
  <2>1. Min(S) \in Nat /\ Min(S) <= Len(log[i]) /\ Min(S) <= Len(log[j])
    BY <1>2, MinOfNats
  <2> QED
    BY <1>2, <2>1
<1>4. Same(log[i], log[j], n)
  BY <1>2, <1>3, SameTermSame DEF Has
<1>5. ASSUME NEW a \in Seq(Entry), n \in 1..Len(a)
      PROVE  /\ SubSeq(a, 1, n) \in Seq(Entry) /\ Len(SubSeq(a, 1, n)) = n
             /\ \A k \in 1..n : SubSeq(a, 1, n)[k] = a[k]
  <2>1. n \in Int /\ n >= 1 /\ Len(a) \in Nat /\ n <= Len(a)
    BY <1>5, LenProperties
  <2>2. \A k \in 1..n : a[k] \in Entry
    BY <2>1, ElementOfSeq
  <2> QED
    BY <2>1, <2>2, SubSeqProperties
<1>6. /\ SubSeq(log[i], 1, n) \in Seq(Entry) /\ Len(SubSeq(log[i], 1, n)) = n
      /\ SubSeq(log[j], 1, n) \in Seq(Entry) /\ Len(SubSeq(log[j], 1, n)) = n
      /\ \A k \in 1..n : SubSeq(log[i], 1, n)[k] = SubSeq(log[j], 1, n)[k]
  BY <1>2, <1>3, <1>4, <1>5 DEF Same
<1> QED
  BY <1>6, SeqEqual

\* Two logs of an odd cluster that hold an entry of the same term at the same
\* index are equal up to it, although a restart may take a node back to an
\* older term and requests to append arrive late, twice and out of order.
THEOREM LogsMatch ==
    ASSUME Odd(Cardinality(Server))
    PROVE  Spec => []LogMatching
<1>1. TypeOK /\ LogInv => LogMatching
  BY MatchingFromLedger
<1> QED
  BY <1>1, TypeCorrect, LogsFromLedger, PTL
-----------------------------------------------------------------------------
(***************************************************************************)
(* What an odd cluster has committed stays committed, as long as no        *)
(* restart takes a node back to an older term.                             *)
(*                                                                         *)
(* transitionToFollower does not write the new term to the WAL, so a node  *)
(* that has acknowledged entries of a term can forget it in a restart and  *)
(* help to elect a leader without them: in general an acknowledged command *)
(* can be lost.  TermsKept leaves out the behaviours in which a restart    *)
(* loses a term, and nothing else: nodes may still restart at any other    *)
(* moment, and messages may be lost, repeated and reordered.               *)
(*                                                                         *)
(* The argument is about the ledger of the first part.  An entry is chosen *)
(* when a majority has acknowledged it to the leader of its term.  A node  *)
(* keeps what it has acknowledged until a later leader without the entry   *)
(* is elected, and a vote says that the candidate has what the voter has   *)
(* kept.  So the first leader without a chosen entry would need the vote   *)
(* of a node that keeps it.                                                *)
(***************************************************************************)
\* No step takes a node back to an older term.  A node that crashes inside
\* processAppendEntries has entered the term of the request by then.
TermsKeptStep ==
    /\ \A i \in Server : currentTerm'[i] >= currentTerm[i]
    /\ (\E m \in msgs : CrashWhileAppending(m))
          => \E m \in msgs : CrashWhileAppending(m) /\ currentTerm'[m.to] >= m.term

TermsKept == [][TermsKeptStep]_vars
-----------------------------------------------------------------------------
(***************************************************************************)
(* The invariant.                                                          *)
(***************************************************************************)
\* Node j holds the entry at index n of term t, or held it once: it led the
\* term, or it told the leader of the term so.
Acknowledged(j, t, n) ==
    \/ Elected(j, t)
    \/ \E m \in msgs : /\ m.type = "AppendReply" /\ m.success
                       /\ m.from = j /\ m.term = t /\ m.match >= n

Chosen(LL, t, n) ==
    /\ Has(LL[t], t, n)
    /\ \E q \in Server, Q \in SUBSET Server :
          HasMajority(Config(q), q, Q) /\ \A j \in Q : Acknowledged(j, t, n)

\* A leader of a later term, up to u, does not have the entry.
Overruled(LL, t, n, u) ==
    \E s \in Nat : t < s /\ s <= u /\ LL[s] # << >> /\ ~Has(LL[s], t, n)

\* Terms do not decrease in a log, and a leader's log ends in its own term.
Ordered(LL) ==
    \A t \in Nat :
        /\ \A a, b \in 1..Len(LL[t]) : a <= b => LL[t][a].term <= LL[t][b].term
        /\ LL[t] # << >> => LL[t][Len(LL[t])].term = t

TermsReached ==
    \A i \in Server : \A n \in 1..Len(log[i]) : log[i][n].term <= currentTerm[i]

\* A request for votes describes the log the candidate has, also after it won.
Candidacy(LL, m) ==
    m.type = "RequestVote" =>
        /\ m.term <= wal[m.from].term
        /\ m.lastTerm < m.term
        /\ state[m.from] = "Candidate" /\ currentTerm[m.from] = m.term
              => m.lastIndex = Len(log[m.from]) /\ m.lastTerm = lastLogTerm(log[m.from])
        /\ Elected(m.from, m.term)
              => /\ m.lastIndex <= Len(LL[m.term])
                 /\ m.lastTerm = getEntryTerm(LL[m.term], m.lastIndex)

\* What is committed up to index c is chosen in a term that is at most u.
ChosenUpTo(LL, c, u) ==
    \E t \in Nat, k \in Nat : t <= u /\ c <= k /\ Chosen(LL, t, k)

\* A request to append ends with an entry of its term, and the commit index it
\* carries is one of chosen entries.
Request(LL, m) ==
    m.type = "AppendEntries" =>
        /\ Has(LL[m.term], m.term, m.prevIndex + Len(m.entries))
        /\ m.leaderCommit > 0 => ChosenUpTo(LL, m.leaderCommit, m.term)

\* The index in a reply is one of the leader's log.
Reply(LL, m) ==
    m.type = "AppendReply" =>
        /\ m.from # m.to
        /\ m.match <= Len(LL[m.term])
        /\ m.success => Has(LL[m.term], m.term, m.match)

\* The reply from which leader i knows that node j holds the entry at index n.
Reported(j, t, n) ==
    \E m \in msgs : /\ m.type = "AppendReply" /\ m.success
                    /\ m.from = j /\ m.term = t /\ m.match = n

\* The indexes a leader keeps of its followers.
Leads(i) ==
    /\ matchIndex[i][i] = 0
    /\ state[i] = "Leader" =>
          /\ log[i] # << >>
          /\ \A j \in Server \ {i} :
                /\ nextIndex[i][j] <= Len(log[i]) + 1
                /\ matchIndex[i][j] > 0 => Reported(j, currentTerm[i], matchIndex[i][j])

\* What a node has acknowledged it keeps until a later leader overrules it.
Kept(LL) ==
    \A j \in Server, t \in Nat, n \in Nat :
        Has(LL[t], t, n) /\ Acknowledged(j, t, n) =>
            /\ t <= currentTerm[j]
            /\ Has(log[j], t, n) \/ Overruled(LL, t, n, currentTerm[j])

\* A vote that counts, or that may still count.
Counts(b) ==
    \/ \E e \in elections : e.term = b.term /\ b.voter \in e.voters
    \/ \A e \in elections : e.term # b.term

\* A candidate whose log is at least as far as an entry of term t at index n.
AsFar(c, u, t, n) ==
    \E m \in msgs : /\ m.type = "RequestVote" /\ m.from = c /\ m.term = u
                    /\ m.lastTerm > t \/ (m.lastTerm = t /\ m.lastIndex >= n)

\* Who votes has kept what it acknowledged in an earlier term, and the log of
\* the candidate is at least as far.
Vote(LL, b) ==
    \A t \in Nat, n \in Nat :
        t < b.term /\ Counts(b) /\ Has(LL[t], t, n) /\ Acknowledged(b.voter, t, n) =>
            Overruled(LL, t, n, b.term - 1) \/ AsFar(b.cand, b.term, t, n)

\* Up to the index n the log lg is that of a chosen entry of a term up to u.
Settled(LL, lg, n, u) ==
    \E t \in Nat, k \in Nat :
        t <= u /\ n <= k /\ Chosen(LL, t, k) /\ Same(lg, LL[t], n)

Commits(LL, i) ==
    commitIndex[i] > 0 => Settled(LL, log[i], commitIndex[i], currentTerm[i])

\* lastApplied is the commit index whenever a handler ends.
Applies(i) ==
    /\ Len(applied[i]) = commitIndex[i]
    /\ Same(applied[i], log[i], commitIndex[i])

\* A pending proposal is where its leader put it.
Proposes(LL, p) == Has(LL[p.term], p.term, p.index) /\ LL[p.term][p.index].cmd = p.cmd

\* The command is among the chosen entries.
ChosenCommand(LL, c) ==
    \E t \in Nat, k \in Nat : Chosen(LL, t, k) /\ \E n \in 1..k : LL[t][n].cmd = c

Candidacies(LL) == \A m \in msgs : Candidacy(LL, m)
Requested(LL)   == \A m \in msgs : Request(LL, m)
Replied(LL)     == \A m \in msgs : Reply(LL, m)
Leading         == \A i \in Server : Leads(i)
Voted(LL)       == \A b \in ballots : Vote(LL, b)
Committed(LL)   == \A i \in Server : Commits(LL, i)
AppliedIs       == \A i \in Server : Applies(i)
Proposed(LL)    == \A i \in Server : \A p \in proposals[i] : Proposes(LL, p)
Told(LL)        == \A c \in Command : replies[c] = "success" => ChosenCommand(LL, c)

CommitOK(LL) ==
    /\ Ordered(LL) /\ TermsReached
    /\ Candidacies(LL) /\ Requested(LL) /\ Replied(LL) /\ Leading
    /\ Kept(LL) /\ Voted(LL)
    /\ Committed(LL) /\ AppliedIs
    /\ Proposed(LL) /\ Told(LL)

\* The inductive invariant of Spec /\ TermsKept.
CommitInv == \E LL \in Ledger : LedgerOK(LL) /\ CommitOK(LL)
-----------------------------------------------------------------------------
(***************************************************************************)
(* Facts about one state.                                                  *)
(***************************************************************************)
LEMMA LedgerLog ==
    ASSUME NEW LL, LedgerOK(LL), NEW t \in Nat
    PROVE  LL \in Ledger /\ LL[t] \in Seq(Entry) /\ Len(LL[t]) \in Nat /\ Agrees(LL[t], LL)
<1>1. LL \in Ledger /\ LL[t] \in Seq(Entry) /\ Agrees(LL[t], LL)
  BY DEF LedgerOK, LedgerAgrees, Ledger
<1> QED
  BY <1>1, LenProperties

LEMMA NodeLog ==
    ASSUME TypeOK, NEW LL, LedgerOK(LL), NEW i \in Server
    PROVE  log[i] \in Seq(Entry) /\ Len(log[i]) \in Nat /\ Agrees(log[i], LL)
<1>1. log[i] \in Seq(Entry) /\ Agrees(log[i], LL)
  BY DEF LedgerOK, LogsAgree, TypeOK
<1> QED
  BY <1>1, LenProperties

\* Terms do not decrease in a log that agrees with the ledger.
LEMMA LogOrdered ==
    ASSUME NEW LL \in Ledger, Ordered(LL), NEW lg \in Seq(Entry), Agrees(lg, LL),
           NEW a \in 1..Len(lg), NEW b \in 1..Len(lg), a <= b
    PROVE  lg[a].term <= lg[b].term
<1> DEFINE t == lg[b].term
<1>0. t \in Nat /\ b \in Nat /\ a \in Nat /\ a >= 1
  BY EntryAt
<1>1. t \in Nat /\ b \in Nat /\ a \in Nat /\ a >= 1 /\ LL[t] \in Seq(Entry)
  BY <1>0 DEF Ledger
<1>2. Same(lg, LL[t], b)
  BY DEF Agrees
<1> HIDE DEF t
<1>3. Len(LL[t]) \in Nat /\ a \in 1..Len(LL[t]) /\ b \in 1..Len(LL[t])
  BY <1>1, <1>2, LenProperties DEF Same
<1>4. lg[a] = LL[t][a] /\ lg[b] = LL[t][b]
  BY <1>1, <1>2 DEF Same
<1>5. LL[t][a].term <= LL[t][b].term
  BY <1>1, <1>3 DEF Ordered
<1> QED
  BY <1>4, <1>5

\* No entry of a ledger's log is of a later term than its leader's.
LEMMA LedgerTerms ==
    ASSUME NEW LL \in Ledger, Ordered(LL), NEW t \in Nat, NEW n \in 1..Len(LL[t])
    PROVE  LL[t][n].term <= t
<1>1. LL[t] \in Seq(Entry) /\ Len(LL[t]) \in Nat
  BY LenProperties DEF Ledger
<1>2. LL[t] # << >> /\ Len(LL[t]) \in 1..Len(LL[t]) /\ n <= Len(LL[t])
  <2>1. Len(<< >>) = 0
    OBVIOUS
  <2> QED
    BY <1>1, <2>1
<1> QED
  BY <1>2 DEF Ordered

\* An entry of term t is not behind the end of the log.
LEMMA LastTermOf ==
    ASSUME NEW LL \in Ledger, Ordered(LL), NEW lg \in Seq(Entry), Agrees(lg, LL),
           NEW t, NEW n, Has(lg, t, n)
    PROVE  /\ t \in Nat /\ t > 0 /\ n \in Nat /\ n <= Len(lg) /\ Len(lg) \in Nat
           /\ lastLogTerm(lg) \in Nat /\ t <= lastLogTerm(lg)
<1>1. /\ t \in Nat /\ t > 0 /\ n \in 1..Len(lg) /\ n \in Nat /\ lg[n].term = t
      /\ Len(lg) \in Nat /\ n <= Len(lg) /\ Len(lg) \in 1..Len(lg)
  BY HasAgrees, LenProperties DEF Has
<1>2. lg[n].term <= lg[Len(lg)].term
  BY <1>1, LogOrdered
<1>3. lastLogTerm(lg) = lg[Len(lg)].term
  BY <1>1 DEF lastLogTerm, getEntryTerm
<1>4. lastLogTerm(lg) \in Nat
  BY getEntryTermType DEF lastLogTerm
<1> QED
  BY <1>1, <1>2, <1>3, <1>4

\* A chosen entry is in the log of every later leader.
LEMMA ChosenKept ==
    ASSUME Odd(Cardinality(Server)), TypeOK, VoteInv, NEW LL, LedgerOK(LL),
           CommitOK(LL), NEW t \in Nat, NEW n \in Nat, Chosen(LL, t, n),
           NEW u \in Nat, u > t, LL[u] # << >>
    PROVE  Has(LL[u], t, n)
<1> DEFINE S == {s \in Nat : t < s /\ LL[s] # << >> /\ ~Has(LL[s], t, n)}
<1> SUFFICES ASSUME ~Has(LL[u], t, n) PROVE FALSE
  OBVIOUS
<1>1. S \subseteq Nat /\ S # {}
  OBVIOUS
<1>2. PICK s \in S : \A r \in S : s <= r
  BY <1>1, MinOfNats
<1>3. /\ s \in Nat /\ t < s /\ LL[s] # << >> /\ ~Has(LL[s], t, n)
      /\ \A r \in Nat : t < r /\ r < s /\ LL[r] # << >> => Has(LL[r], t, n)
  BY <1>2
<1> HIDE DEF S
<1>4. Has(LL[t], t, n)
  BY DEF Chosen
<1>5. PICK e \in elections : e.term = s
  BY <1>3 DEF LedgerOK, ElectedWrote, Elected
<1>6. PICK q \in Server, Q \in SUBSET Server :
         HasMajority(Config(q), q, Q) /\ \A j \in Q : Acknowledged(j, t, n)
  BY DEF Chosen
<1>7. e.leader \in Server /\ HasMajority(Config(e.leader), e.leader, e.voters)
  BY DEF TypeOK, Election, VoteInv, LeadersElected
<1>8. PICK j \in Server : j \in Q /\ j \in e.voters
  BY <1>6, <1>7, SharedNode
<1> DEFINE b == [voter |-> j, term |-> s, cand |-> e.leader]
<1>9. b \in ballots
  BY <1>5, <1>8 DEF VoteInv, LeadersElected, FirstVote
<1>10. b.voter = j /\ b.term = s /\ b.cand = e.leader
  OBVIOUS
<1> HIDE DEF b
<1>11. Overruled(LL, t, n, s - 1) \/ AsFar(e.leader, s, t, n)
  <2>1. Counts(b) /\ Acknowledged(j, t, n)
    BY <1>5, <1>6, <1>8, <1>10 DEF Counts
  <2> QED
    BY <1>3, <1>4, <1>9, <1>10, <2>1 DEF CommitOK, Voted, Vote
<1>12. ~Overruled(LL, t, n, s - 1)
  BY <1>3 DEF Overruled
<1>13. PICK m \in msgs : /\ m.type = "RequestVote" /\ m.from = e.leader /\ m.term = s
                         /\ m.lastTerm > t \/ (m.lastTerm = t /\ m.lastIndex >= n)
  BY <1>11, <1>12 DEF AsFar
<1>14. m.lastTerm \in Nat /\ m.lastIndex \in Nat
  BY <1>13, MessageKinds DEF TypeOK, RequestVoteMsg
<1>15. /\ m.lastTerm < s /\ m.lastIndex <= Len(LL[s])
       /\ m.lastTerm = getEntryTerm(LL[s], m.lastIndex)
  BY <1>5, <1>13 DEF CommitOK, Candidacies, Candidacy, Elected
<1>16. /\ LL \in Ledger /\ LL[s] \in Seq(Entry) /\ Agrees(LL[s], LL)
       /\ LL[t] \in Seq(Entry) /\ Agrees(LL[t], LL)
  BY <1>3, LedgerLog
<1>17. n \in Nat /\ n >= 1 /\ t > 0
  BY <1>4, <1>16, HasAgrees
<1> DEFINE v == m.lastTerm
           x == m.lastIndex
<1>18. Has(LL[s], v, x)
  <2>1. v # 0
    BY <1>13, <1>14, <1>17
  <2> QED
    BY <1>15, <1>16, <2>1, getEntryTermType DEF Has, getEntryTerm
<1>19. v \in Nat /\ x \in Nat /\ Same(LL[s], LL[v], x) /\ Has(LL[v], v, x)
       /\ LL[v] \in Seq(Entry)
  BY <1>16, <1>18, HasAgrees
<1> HIDE DEF v, x
<1>20. n <= x /\ Has(LL[v], t, n)
  <2>1. CASE v = t
    BY <1>4, <1>13, <1>17, <2>1 DEF v, x
  <2>2. CASE v > t
    <3>1. v < s
      BY <1>15 DEF v
    <3>2. LL[v] # << >>
      <4>1. Len(<< >>) = 0
        OBVIOUS
      <4> QED
        BY <1>19, <4>1 DEF Has
    <3>3. Has(LL[v], t, n)
      BY <1>3, <1>19, <2>2, <3>1, <3>2
    <3>4. n <= x
      <4>1. SUFFICES ASSUME x <= n PROVE FALSE
        BY <1>17, <1>19
      <4>2. LL[v][x].term <= LL[v][n].term
        BY <1>19, <3>3, <4>1 DEF CommitOK, Ordered, Has
      <4> QED
        BY <1>19, <2>2, <3>3, <4>2 DEF Has
    <3> QED
      BY <3>3, <3>4
  <2> QED
    BY <1>13, <2>1, <2>2 DEF v
<1>21. Has(LL[s], t, n)
  <2>1. n \in 1..x
    BY <1>17, <1>19, <1>20
  <2>2. Same(LL[v], LL[s], x)
    BY <1>19, SameSym
  <2> QED
    BY <1>16, <1>19, <1>20, <2>1, <2>2, SameHas
<1> QED
  BY <1>3, <1>21

\* So the log of a later leader is the same up to a chosen entry.
LEMMA ChosenSame ==
    ASSUME Odd(Cardinality(Server)), TypeOK, VoteInv, NEW LL, LedgerOK(LL),
           CommitOK(LL), NEW t \in Nat, NEW k \in Nat, Chosen(LL, t, k),
           NEW u \in Nat, t <= u, LL[u] # << >>
    PROVE  Same(LL[u], LL[t], k)
<1>1. Has(LL[t], t, k)
  BY DEF Chosen
<1>2. Has(LL[u], t, k)
  <2>1. CASE u = t
    BY <1>1, <2>1
  <2>2. CASE u > t
    BY <2>2, ChosenKept
  <2> QED
    BY <2>1, <2>2
<1>3. LL \in Ledger /\ LL[u] \in Seq(Entry) /\ Agrees(LL[u], LL)
  BY LedgerLog
<1> QED
  BY <1>2, <1>3, HasAgrees

\* What a majority acknowledged, a majority holds.
LEMMA ChosenHeld ==
    ASSUME Odd(Cardinality(Server)), TypeOK, VoteInv, NEW LL, LedgerOK(LL),
           CommitOK(LL), NEW t \in Nat, NEW k \in Nat, Chosen(LL, t, k)
    PROVE  \E q \in Server, Q \in SUBSET Server :
              HasMajority(Config(q), q, Q) /\ \A j \in Q : Same(log[j], LL[t], k)
<1>1. PICK q \in Server, Q \in SUBSET Server :
         HasMajority(Config(q), q, Q) /\ \A j \in Q : Acknowledged(j, t, k)
  BY DEF Chosen
<1>2. ASSUME NEW j \in Q PROVE Same(log[j], LL[t], k)
  <2>1. Has(LL[t], t, k) /\ Acknowledged(j, t, k) /\ j \in Server
    BY <1>1 DEF Chosen
  <2>2. Has(log[j], t, k) \/ Overruled(LL, t, k, currentTerm[j])
    BY <2>1 DEF CommitOK, Kept
  <2>3. ~Overruled(LL, t, k, currentTerm[j])
    BY ChosenKept DEF Overruled
  <2>4. LL \in Ledger /\ log[j] \in Seq(Entry) /\ Agrees(log[j], LL)
    BY <2>1, NodeLog DEF LedgerOK
  <2> QED
    BY <2>2, <2>3, <2>4, HasAgrees
<1> QED
  BY <1>1, <1>2
-----------------------------------------------------------------------------
(***************************************************************************)
(* What a step cannot undo.                                                *)
(***************************************************************************)
\* The ledger grows, and a leader adds only entries of its own term to what
\* it has.
Extends(LL, LM) ==
    /\ LL \in Ledger /\ LM \in Ledger /\ Grows(LL, LM)
    /\ \A s \in Nat, t \in Nat, n \in Nat :
          t # s /\ LL[s] # << >> /\ Has(LM[s], t, n) => Has(LL[s], t, n)

\* Nothing that was sent, won or voted is forgotten, and no term goes back.
Onward ==
    /\ msgs \subseteq msgs' /\ elections \subseteq elections' /\ ballots \subseteq ballots'
    /\ \A k \in Server : currentTerm'[k] >= currentTerm[k]

LEMMA ExtendsItself ==
    ASSUME NEW LL, LedgerOK(LL)
    PROVE  Extends(LL, LL)
<1>1. LL \in Ledger /\ \A t \in Nat : LL[t] \in Seq(Entry)
  BY DEF LedgerOK, Ledger
<1> QED
  BY <1>1, SameRefl DEF Extends, Grows

LEMMA ExtendedHas ==
    ASSUME NEW LL, NEW LM, Extends(LL, LM), NEW s \in Nat, NEW t, NEW n,
           Has(LL[s], t, n)
    PROVE  Has(LM[s], t, n) /\ Same(LL[s], LM[s], n)
<1>1. LL[s] \in Seq(Entry) /\ LM[s] \in Seq(Entry) /\ Len(LL[s]) \in Nat
  BY LenProperties DEF Extends, Ledger
<1>2. Same(LL[s], LM[s], Len(LL[s])) /\ n \in 1..Len(LL[s]) /\ n \in Nat /\ n <= Len(LL[s])
  BY <1>1 DEF Extends, Grows, Has
<1>3. Same(LL[s], LM[s], n)
  BY <1>1, <1>2, SameShorter
<1> QED
  BY <1>1, <1>2, <1>3, SameHas DEF Same

LEMMA ExtendedOverruled ==
    ASSUME NEW LL, NEW LM, Extends(LL, LM), NEW t \in Nat, NEW n \in Nat,
           NEW u \in Nat, NEW v \in Nat, u <= v, Overruled(LL, t, n, u)
    PROVE  Overruled(LM, t, n, v)
<1>1. PICK s \in Nat : t < s /\ s <= u /\ LL[s] # << >> /\ ~Has(LL[s], t, n)
  BY DEF Overruled
<1>2. ~Has(LM[s], t, n)
  BY <1>1 DEF Extends
<1>3. LM[s] # << >>
  <2>1. LL[s] \in Seq(Entry) /\ LM[s] \in Seq(Entry) /\ Len(LL[s]) \in Nat /\ Len(LM[s]) \in Nat
    BY LenProperties DEF Extends, Ledger
  <2>2. Len(LL[s]) <= Len(LM[s])
    BY DEF Extends, Grows, Same
  <2>3. Len(LL[s]) # 0 /\ Len(<< >>) = 0
    BY <1>1, <2>1, EmptySeq
  <2> QED
    BY <2>1, <2>2, <2>3
<1>4. s <= v
  BY <1>1
<1> QED
  BY <1>1, <1>2, <1>3, <1>4 DEF Overruled

LEMMA AckedStays ==
    ASSUME Onward, NEW j, NEW t, NEW n, Acknowledged(j, t, n)
    PROVE  Acknowledged(j, t, n)'
  BY DEF Onward, Acknowledged, Elected

LEMMA ChosenStays ==
    ASSUME Onward, NEW LL, NEW LM, Extends(LL, LM), NEW t \in Nat, NEW n \in Nat,
           Chosen(LL, t, n)
    PROVE  Chosen(LM, t, n)' /\ Same(LL[t], LM[t], n)
<1>1. Has(LM[t], t, n) /\ Same(LL[t], LM[t], n)
  BY ExtendedHas DEF Chosen
<1>2. PICK q \in Server, Q \in SUBSET Server :
         HasMajority(Config(q), q, Q) /\ \A j \in Q : Acknowledged(j, t, n)
  BY DEF Chosen
<1>3. \A j \in Q : Acknowledged(j, t, n)'
  BY <1>2, AckedStays
<1> QED
  BY <1>1, <1>2, <1>3 DEF Chosen

LEMMA ChosenUpToStays ==
    ASSUME Onward, NEW LL, NEW LM, Extends(LL, LM), NEW c, NEW u, ChosenUpTo(LL, c, u)
    PROVE  ChosenUpTo(LM, c, u)'
  BY ChosenStays DEF ChosenUpTo

LEMMA SettledStays ==
    ASSUME Onward, NEW LL, NEW LM, Extends(LL, LM), NEW a \in Seq(Entry), NEW n \in Nat,
           NEW u \in Nat, NEW v \in Nat, u <= v, Settled(LL, a, n, u),
           NEW b \in Seq(Entry), Same(a, b, n)
    PROVE  Settled(LM, b, n, v)'
<1>1. PICK t \in Nat, k \in Nat :
         t <= u /\ n <= k /\ Chosen(LL, t, k) /\ Same(a, LL[t], n)
  BY DEF Settled
<1>2. Chosen(LM, t, k)' /\ Same(LL[t], LM[t], k)
  BY <1>1, ChosenStays
<1>3. LL[t] \in Seq(Entry) /\ LM[t] \in Seq(Entry)
  BY DEF Extends, Ledger
<1>4. Same(LL[t], LM[t], n)
  BY <1>1, <1>2, <1>3, SameShorter
<1>5. Same(b, LM[t], n)
  BY <1>1, <1>4, SameSym, SameTrans
<1>6. t <= v
  BY <1>1
<1> QED
  BY <1>1, <1>2, <1>5, <1>6 DEF Settled
-----------------------------------------------------------------------------
(***************************************************************************)
(* One lemma per part of the invariant: what a step has to respect for the *)
(* part to stay true.                                                      *)
(***************************************************************************)
LEMMA TermsReachedKept ==
    ASSUME TypeOK, TypeOK', Onward, TermsReached, log' = log
    PROVE  TermsReached'
<1> SUFFICES ASSUME NEW i \in Server, NEW n \in 1..Len(log[i])
             PROVE  log[i][n].term <= currentTerm'[i]
  BY DEF TermsReached
<1>1. /\ log[i][n].term \in Nat /\ currentTerm[i] \in Nat /\ currentTerm'[i] \in Nat
  BY EntryAt DEF TypeOK
<1>2. log[i][n].term <= currentTerm[i] /\ currentTerm[i] <= currentTerm'[i]
  BY DEF TermsReached, Onward
<1> QED
  BY <1>1, <1>2

LEMMA CandidacyKept ==
    ASSUME TypeOK, TypeOK', NEW LL, NEW LM, Extends(LL, LM), elections' = elections,
           NEW m \in msgs, Candidacy(LL, m), NEW k, k = m.from,
           wal'[k].term >= wal[k].term,
           state'[k] = "Candidate" /\ currentTerm'[k] = m.term =>
              /\ state[k] = "Candidate" /\ currentTerm'[k] = currentTerm[k]
              /\ log'[k] = log[k]
    PROVE  Candidacy(LM, m)'
<1> SUFFICES ASSUME m.type = "RequestVote" PROVE Candidacy(LM, m)'
  BY DEF Candidacy
<1>1. m.from \in Server /\ m.term \in Nat /\ m.lastIndex \in Nat
  BY MessageKinds DEF TypeOK, RequestVoteMsg
<1>2. wal[m.from].term \in Nat /\ wal'[m.from].term \in Nat
  BY <1>1 DEF TypeOK
<1>3. m.term <= wal'[m.from].term
  BY <1>1, <1>2 DEF Candidacy
<1>4. ASSUME m.lastIndex <= Len(LL[m.term])
      PROVE  /\ m.lastIndex <= Len(LM[m.term])
             /\ getEntryTerm(LM[m.term], m.lastIndex) = getEntryTerm(LL[m.term], m.lastIndex)
  <2>1. LL[m.term] \in Seq(Entry) /\ LM[m.term] \in Seq(Entry)
    BY <1>1 DEF Extends, Ledger
  <2>2. Len(LL[m.term]) \in Nat /\ Len(LM[m.term]) \in Nat
    BY <2>1, LenProperties
  <2>3. Same(LL[m.term], LM[m.term], Len(LL[m.term]))
    BY <1>1 DEF Extends, Grows
  <2> QED
    BY <1>1, <1>4, <2>2, <2>3 DEF Same, getEntryTerm
<1> QED
  BY <1>1, <1>3, <1>4 DEF Candidacy, Elected

LEMMA CandidaciesKept ==
    ASSUME TypeOK, TypeOK', NEW LL, NEW LM, Extends(LL, LM), elections' = elections,
           Candidacies(LL), \A m \in msgs' : m.type = "RequestVote" => m \in msgs,
           \A k \in Server : wal'[k].term >= wal[k].term,
           \A k \in Server : state'[k] = "Candidate" =>
              /\ state[k] = "Candidate" /\ currentTerm'[k] = currentTerm[k]
              /\ log'[k] = log[k]
    PROVE  Candidacies(LM)'
<1> SUFFICES ASSUME NEW m \in msgs', m.type = "RequestVote" PROVE Candidacy(LM, m)'
  BY DEF Candidacies, Candidacy
<1>1. PICK k \in Server : k = m.from /\ m \in msgs
  BY MessageKinds DEF TypeOK
<1>2. Candidacy(LL, m)
  BY <1>1 DEF Candidacies
<1> QED
  BY <1>1, <1>2, CandidacyKept

LEMMA RequestKept ==
    ASSUME TypeOK, Onward, NEW LL, NEW LM, Extends(LL, LM), NEW m \in msgs, Request(LL, m)
    PROVE  Request(LM, m)'
<1> SUFFICES ASSUME m.type = "AppendEntries" PROVE Request(LM, m)'
  BY DEF Request
<1>1. m.term \in Nat
  BY MessageKinds DEF TypeOK, AppendEntriesMsg
<1>2. Has(LM[m.term], m.term, m.prevIndex + Len(m.entries))
  BY <1>1, ExtendedHas DEF Request
<1>3. m.leaderCommit > 0 => ChosenUpTo(LM, m.leaderCommit, m.term)'
  BY ChosenUpToStays DEF Request
<1> QED
  BY <1>2, <1>3 DEF Request

LEMMA RequestedKept ==
    ASSUME TypeOK, Onward, NEW LL, NEW LM, Extends(LL, LM), Requested(LL),
           \A m \in msgs' : m.type = "AppendEntries" => m \in msgs
    PROVE  Requested(LM)'
<1> SUFFICES ASSUME NEW m \in msgs', m.type = "AppendEntries" PROVE Request(LM, m)'
  BY DEF Requested, Request
<1> QED
  BY RequestKept DEF Requested

LEMMA ReplyKept ==
    ASSUME TypeOK, NEW LL, NEW LM, Extends(LL, LM), NEW m \in msgs, Reply(LL, m)
    PROVE  Reply(LM, m)
<1> SUFFICES ASSUME m.type = "AppendReply" PROVE Reply(LM, m)
  BY DEF Reply
<1>1. m.term \in Nat /\ m.match \in Nat
  BY MessageKinds DEF TypeOK, AppendReplyMsg
<1>2. Len(LL[m.term]) \in Nat /\ Len(LM[m.term]) \in Nat
  BY <1>1, LenProperties DEF Extends, Ledger
<1>3. Len(LL[m.term]) <= Len(LM[m.term])
  BY <1>1 DEF Extends, Grows, Same
<1>4. m.success => Has(LM[m.term], m.term, m.match)
  BY <1>1, ExtendedHas DEF Reply
<1> QED
  BY <1>1, <1>2, <1>3, <1>4 DEF Reply

LEMMA RepliedKept ==
    ASSUME TypeOK, NEW LL, NEW LM, Extends(LL, LM), Replied(LL),
           \A m \in msgs' : m.type = "AppendReply" => m \in msgs
    PROVE  Replied(LM)'
<1> SUFFICES ASSUME NEW m \in msgs', m.type = "AppendReply" PROVE Reply(LM, m)
  BY DEF Replied, Reply
<1> QED
  BY ReplyKept DEF Replied

LEMMA LeadsKept ==
    ASSUME TypeOK, TypeOK', Onward, NEW i \in Server, Leads(i),
           matchIndex'[i] = matchIndex[i], nextIndex'[i] = nextIndex[i],
           state'[i] = "Leader" => /\ state[i] = "Leader" /\ currentTerm'[i] = currentTerm[i]
                                   /\ Len(log[i]) <= Len(log'[i])
    PROVE  Leads(i)'
<1>0. matchIndex'[i][i] = 0
  BY DEF Leads
<1> SUFFICES ASSUME state'[i] = "Leader"
             PROVE  /\ log'[i] # << >>
                    /\ \A j \in Server \ {i} :
                          /\ nextIndex'[i][j] <= Len(log'[i]) + 1
                          /\ matchIndex'[i][j] > 0
                                => Reported(j, currentTerm[i], matchIndex[i][j])'
  BY <1>0 DEF Leads, Reported
<1>1. /\ log[i] \in Seq(Entry) /\ log'[i] \in Seq(Entry)
      /\ Len(log[i]) \in Nat /\ Len(log'[i]) \in Nat
  BY LenProperties DEF TypeOK
<1>2. log'[i] # << >>
  <2>1. Len(log[i]) # 0 /\ Len(<< >>) = 0
    BY <1>1, EmptySeq DEF Leads
  <2> QED
    BY <1>1, <2>1
<1>3. ASSUME NEW j \in Server \ {i}
      PROVE  /\ nextIndex'[i][j] <= Len(log'[i]) + 1
             /\ matchIndex'[i][j] > 0 => Reported(j, currentTerm[i], matchIndex[i][j])'
  <2>1. nextIndex[i][j] \in Nat /\ nextIndex[i][j] <= Len(log[i]) + 1
    BY DEF Leads, TypeOK
  <2>2. matchIndex[i][j] > 0 => Reported(j, currentTerm[i], matchIndex[i][j])
    BY DEF Leads
  <2> QED
    BY <1>1, <2>1, <2>2 DEF Onward, Reported
<1> QED
  BY <1>2, <1>3

\* A new acknowledgement is of an entry of the term the node is in now, and the
\* node holds the entry.
NewAcks(LL, LM) ==
    \A j \in Server, t \in Nat, n \in Nat :
        Has(LM[t], t, n) /\ Acknowledged(j, t, n)' =>
            \/ Has(LL[t], t, n) /\ Acknowledged(j, t, n)
            \/ currentTerm[j] <= t /\ t <= currentTerm'[j] /\ Has(log'[j], t, n)

\* Node j loses an entry only when the leader of a later term overrules it.
LosesOverruled(LL, j) ==
    \A t \in Nat, n \in Nat :
        Has(log[j], t, n) => Has(log'[j], t, n) \/ Overruled(LL, t, n, currentTerm'[j])

LEMMA NoNewAcks ==
    ASSUME NEW LL, elections' = elections,
           \A m \in msgs' : m.type = "AppendReply" /\ m.success => m \in msgs
    PROVE  NewAcks(LL, LL)
  BY DEF NewAcks, Acknowledged, Elected

LEMMA KeptKept ==
    ASSUME TypeOK, TypeOK', Onward, NEW LL, NEW LM, Extends(LL, LM), Kept(LL),
           NewAcks(LL, LM),
           \A j \in Server : log'[j] = log[j] \/ LosesOverruled(LL, j)
    PROVE  Kept(LM)'
<1> SUFFICES ASSUME NEW j \in Server, NEW t \in Nat, NEW n \in Nat,
                    Has(LM[t], t, n), Acknowledged(j, t, n)'
             PROVE  /\ t <= currentTerm'[j]
                    /\ Has(log'[j], t, n) \/ Overruled(LM, t, n, currentTerm'[j])
  BY DEF Kept
<1>1. currentTerm[j] \in Nat /\ currentTerm'[j] \in Nat /\ currentTerm[j] <= currentTerm'[j]
  BY DEF TypeOK, Onward
<1>2. CASE currentTerm[j] <= t /\ t <= currentTerm'[j] /\ Has(log'[j], t, n)
  BY <1>2
<1>3. CASE Has(LL[t], t, n) /\ Acknowledged(j, t, n)
  <2>1. t <= currentTerm[j] /\ (Has(log[j], t, n) \/ Overruled(LL, t, n, currentTerm[j]))
    BY <1>3 DEF Kept
  <2>2. CASE Overruled(LL, t, n, currentTerm[j])
    BY <1>1, <2>1, <2>2, ExtendedOverruled
  <2>3. CASE Has(log[j], t, n)
    <3>1. Has(log'[j], t, n) \/ Overruled(LL, t, n, currentTerm'[j])
      BY <2>3 DEF LosesOverruled
    <3> QED
      BY <1>1, <2>1, <3>1, ExtendedOverruled
  <2> QED
    BY <2>1, <2>2, <2>3
<1> QED
  BY <1>2, <1>3 DEF NewAcks

LEMMA VoteKept ==
    ASSUME TypeOK, VoteInv, Onward, NEW LL, NEW LM, Extends(LL, LM), NewAcks(LL, LM),
           NEW b \in ballots, Vote(LL, b), Counts(b)' => Counts(b)
    PROVE  Vote(LM, b)'
<1> SUFFICES ASSUME NEW t \in Nat, NEW n \in Nat, t < b.term, Counts(b)',
                    Has(LM[t], t, n), Acknowledged(b.voter, t, n)'
             PROVE  Overruled(LM, t, n, b.term - 1) \/ AsFar(b.cand, b.term, t, n)'
  BY DEF Vote
<1>1. /\ b.voter \in Server /\ b.term \in Nat
      /\ wal[b.voter].term \in Nat /\ currentTerm[b.voter] \in Nat
  BY DEF TypeOK, Ballot
<1>2. b.term <= currentTerm[b.voter]
  BY <1>1 DEF VoteInv, BallotsPersisted
<1>3. Has(LL[t], t, n) /\ Acknowledged(b.voter, t, n)
  BY <1>1, <1>2 DEF NewAcks
<1>4. Overruled(LL, t, n, b.term - 1) \/ AsFar(b.cand, b.term, t, n)
  BY <1>3 DEF Vote
<1>5. b.term - 1 \in Nat
  BY <1>1
<1>6. CASE Overruled(LL, t, n, b.term - 1)
  BY <1>5, <1>6, ExtendedOverruled
<1>7. CASE AsFar(b.cand, b.term, t, n)
  BY <1>7 DEF AsFar, Onward
<1> QED
  BY <1>4, <1>6, <1>7

LEMMA VotedKept ==
    ASSUME TypeOK, VoteInv, Onward, NEW LL, NEW LM, Extends(LL, LM), NewAcks(LL, LM),
           Voted(LL), elections' = elections, ballots' = ballots
    PROVE  Voted(LM)'
<1> SUFFICES ASSUME NEW b \in ballots PROVE Vote(LM, b)'
  BY DEF Voted
<1>1. Counts(b)' => Counts(b)
  BY DEF Counts
<1> QED
  BY <1>1, VoteKept DEF Voted

LEMMA CommitsKept ==
    ASSUME TypeOK, TypeOK', Onward, NEW LL, NEW LM, Extends(LL, LM), NEW i \in Server,
           Commits(LL, i), commitIndex'[i] = commitIndex[i],
           Same(log[i], log'[i], commitIndex[i])
    PROVE  Commits(LM, i)'
<1> SUFFICES ASSUME commitIndex[i] > 0
             PROVE  Settled(LM, log[i], commitIndex[i], currentTerm[i])'
  BY DEF Commits
<1>1. PICK a \in Seq(Entry), b \in Seq(Entry), n \in Nat, u \in Nat, v \in Nat :
         /\ a = log[i] /\ b = log'[i] /\ n = commitIndex[i]
         /\ u = currentTerm[i] /\ v = currentTerm'[i]
  BY DEF TypeOK
<1>2. u <= v /\ Settled(LL, a, n, u) /\ Same(a, b, n)
  BY <1>1 DEF Commits, Onward
<1>3. Settled(LM, b, n, v)'
  BY <1>2, SettledStays
<1> QED
  BY <1>1, <1>3

LEMMA AppliesKept ==
    ASSUME TypeOK, NEW i \in Server, Applies(i), commitIndex'[i] = commitIndex[i],
           applied'[i] = applied[i], Same(log[i], log'[i], commitIndex[i])
    PROVE  Applies(i)'
  BY SameTrans DEF Applies

LEMMA ProposesKept ==
    ASSUME TypeOK, NEW LL, NEW LM, Extends(LL, LM), NEW p \in Proposal, Proposes(LL, p)
    PROVE  Proposes(LM, p)
<1>1. PICK t \in Nat, n \in Nat : t = p.term /\ n = p.index
  BY DEF Proposal
<1>2. Has(LL[t], t, n)
  BY <1>1 DEF Proposes
<1>3. Has(LM[t], t, n) /\ Same(LL[t], LM[t], n)
  BY <1>2, ExtendedHas
<1>4. LM[t][n] = LL[t][n]
  BY <1>3 DEF Has, Same
<1> QED
  BY <1>1, <1>3, <1>4 DEF Proposes

LEMMA ProposedKept ==
    ASSUME TypeOK, NEW LL, NEW LM, Extends(LL, LM), Proposed(LL),
           \A i \in Server : proposals'[i] \subseteq proposals[i]
    PROVE  Proposed(LM)'
<1> SUFFICES ASSUME NEW i \in Server, NEW p \in proposals'[i] PROVE Proposes(LM, p)
  BY DEF Proposed, Proposes
<1>1. p \in proposals[i] /\ p \in Proposal
  BY DEF TypeOK
<1> QED
  BY <1>1, ProposesKept DEF Proposed

LEMMA ChosenCommandStays ==
    ASSUME Onward, NEW LL, NEW LM, Extends(LL, LM), NEW c, ChosenCommand(LL, c)
    PROVE  ChosenCommand(LM, c)'
<1>1. PICK t \in Nat, k \in Nat : Chosen(LL, t, k) /\ \E n \in 1..k : LL[t][n].cmd = c
  BY DEF ChosenCommand
<1>2. Chosen(LM, t, k)' /\ Same(LL[t], LM[t], k)
  BY <1>1, ChosenStays
<1> QED
  BY <1>1, <1>2 DEF ChosenCommand, Same

LEMMA ToldKept ==
    ASSUME Onward, NEW LL, NEW LM, Extends(LL, LM), Told(LL),
           \A c \in Command : replies'[c] = "success" => replies[c] = "success"
    PROVE  Told(LM)'
  BY ChosenCommandStays DEF Told
-----------------------------------------------------------------------------
(***************************************************************************)
(* Steps that leave the logs alone.                                        *)
(***************************************************************************)
\* transitionToFollower tells no client that its command succeeded.
LEMMA CancelTellsNobody ==
    ASSUME TypeOK, NEW i \in Server, CancelProposals(i)
    PROVE  /\ \A k \in Server : proposals'[k] \subseteq proposals[k]
           /\ \A c \in Command : replies'[c] = "success" => replies[c] = "success"
<1>1. \A k \in Server : proposals'[k] \subseteq proposals[k]
  BY DEF CancelProposals, TypeOK
<1>2. ASSUME NEW c \in Command, replies'[c] = "success" PROVE replies[c] = "success"
  <2>1. replies'[c] = IF \E p \in {} : p.cmd = c THEN "success"
                      ELSE IF \E p \in proposals[i] : p.cmd = c THEN "failure"
                      ELSE replies[c]
    BY DEF CancelProposals, Answer
  <2> QED
    BY <1>2, <2>1
<1> QED
  BY <1>1, <1>2

\* No log changes, and no request to append is answered with success.
LEMMA CalmCommit ==
    ASSUME TypeOK, TypeOK', VoteInv, NEW LL, LedgerOK(LL), CommitOK(LL), Onward,
           log' = log, elections' = elections,
           \A m \in msgs' : m.type = "AppendReply" /\ m.success => m \in msgs,
           \A k \in Server :
              \/ commitIndex'[k] = commitIndex[k] /\ applied'[k] = applied[k]
              \/ commitIndex'[k] = 0 /\ applied'[k] = << >>,
           \A k \in Server : proposals'[k] \subseteq proposals[k],
           \A c \in Command : replies'[c] = "success" => replies[c] = "success",
           Candidacies(LL)', Requested(LL)', Replied(LL)', Leading', Voted(LL)'
    PROVE  CommitOK(LL)'
<1>0. Extends(LL, LL)
  BY ExtendsItself
<1>1. TermsReached'
  BY TermsReachedKept DEF CommitOK
<1>3. Kept(LL)'
  <2>1. NewAcks(LL, LL)
    BY NoNewAcks
  <2> QED
    BY <1>0, <2>1, KeptKept DEF CommitOK
<1>4. ASSUME NEW k \in Server PROVE Commits(LL, k)' /\ Applies(k)'
  <2>1. log[k] \in Seq(Entry) /\ Len(log[k]) \in Nat /\ commitIndex[k] \in Nat
    BY LenProperties DEF TypeOK
  <2>2. Applies(k) /\ Commits(LL, k)
    BY DEF CommitOK, AppliedIs, Committed
  <2>3. CASE commitIndex'[k] = commitIndex[k] /\ applied'[k] = applied[k]
    <3>1. commitIndex[k] <= Len(log[k])
      BY <2>2 DEF Applies, Same
    <3>2. Same(log[k], log'[k], commitIndex[k])
      BY <2>1, <3>1 DEF Same
    <3> QED
      BY <1>0, <2>2, <2>3, <3>2, CommitsKept, AppliesKept
  <2>4. CASE commitIndex'[k] = 0 /\ applied'[k] = << >>
    BY <2>1, <2>4 DEF Commits, Applies, Same
  <2> QED
    BY <2>3, <2>4
<1>5. Committed(LL)' /\ AppliedIs'
  BY <1>4 DEF Committed, AppliedIs
<1>6. Proposed(LL)' /\ Told(LL)'
  BY <1>0, ProposedKept, ToldKept DEF CommitOK
<1> QED
  BY <1>1, <1>3, <1>5, <1>6 DEF CommitOK

\* Neither is such a request sent or answered.
LEMMA QuietCommit ==
    ASSUME TypeOK, TypeOK', VoteInv, NEW LL, LedgerOK(LL), CommitOK(LL), Onward,
           log' = log, elections' = elections,
           \A m \in msgs' : m.type = "AppendEntries" \/ m.type = "AppendReply" => m \in msgs,
           \A k \in Server :
              \/ commitIndex'[k] = commitIndex[k] /\ applied'[k] = applied[k]
              \/ commitIndex'[k] = 0 /\ applied'[k] = << >>,
           \A k \in Server : proposals'[k] \subseteq proposals[k],
           \A c \in Command : replies'[c] = "success" => replies[c] = "success",
           Candidacies(LL)', Leading', Voted(LL)'
    PROVE  CommitOK(LL)'
<1>0. Extends(LL, LL)
  BY ExtendsItself
<1>1. Requested(LL)' /\ Replied(LL)'
  BY <1>0, RequestedKept, RepliedKept DEF CommitOK
<1> QED
  BY <1>1, CalmCommit

\* A step in which nodes only step down or enter a later term, and nothing is
\* sent but pre-votes and answers to votes.
LEMMA IdleCommit ==
    ASSUME TypeOK, TypeOK', VoteInv, NEW LL, LedgerOK(LL), CommitOK(LL),
           UNCHANGED <<log, commitIndex, applied, matchIndex, nextIndex, wal, ballots, elections>>,
           msgs \subseteq msgs',
           \A m \in msgs' : m.type \in {"RequestVote", "AppendEntries", "AppendReply"}
              => m \in msgs,
           \A k \in Server :
              \/ state'[k] = state[k] /\ currentTerm'[k] = currentTerm[k]
              \/ state'[k] = "Follower" /\ currentTerm'[k] >= currentTerm[k],
           \A k \in Server : proposals'[k] \subseteq proposals[k],
           \A c \in Command : replies'[c] = "success" => replies[c] = "success"
    PROVE  CommitOK(LL)'
<1>0. Extends(LL, LL)
  BY ExtendsItself
<1>1. Onward /\ \A k \in Server : wal'[k].term >= wal[k].term
  <2>1. \A k \in Server : wal[k].term \in Nat /\ currentTerm[k] \in Nat
    BY DEF TypeOK
  <2> QED
    BY <2>1 DEF Onward
<1>2. Candidacies(LL)'
  <2>1. \A k \in Server : state'[k] = "Candidate" =>
           state[k] = "Candidate" /\ currentTerm'[k] = currentTerm[k] /\ log'[k] = log[k]
    OBVIOUS
  <2> QED
    BY <1>0, <1>1, <2>1, CandidaciesKept DEF CommitOK
<1>3. Leading'
  <2> SUFFICES ASSUME NEW k \in Server PROVE Leads(k)'
    BY DEF Leading
  <2>1. Leads(k) /\ Len(log[k]) \in Nat
    BY LenProperties DEF CommitOK, Leading, TypeOK
  <2> QED
    BY <1>1, <2>1, LeadsKept
<1>4. Voted(LL)'
  <2>1. NewAcks(LL, LL)
    BY NoNewAcks
  <2> QED
    BY <1>0, <1>1, <2>1, VotedKept DEF CommitOK
<1> QED
  BY <1>1, <1>2, <1>3, <1>4, QuietCommit

\* The last term of a node's log is not beyond its current term.
LEMMA LastReached ==
    ASSUME TypeOK, TermsReached, NEW i \in Server
    PROVE  /\ lastLogTerm(log[i]) \in Nat /\ lastLogTerm(log[i]) <= currentTerm[i]
           /\ Len(log[i]) \in Nat /\ log[i] \in Seq(Entry)
<1>1. log[i] \in Seq(Entry) /\ Len(log[i]) \in Nat /\ currentTerm[i] \in Nat
  BY LenProperties DEF TypeOK
<1>2. lastLogTerm(log[i]) \in Nat
  BY <1>1, getEntryTermType DEF lastLogTerm
<1>3. lastLogTerm(log[i]) <= currentTerm[i]
  BY <1>1 DEF lastLogTerm, getEntryTerm, TermsReached
<1> QED
  BY <1>1, <1>2, <1>3

\* A vote of node i, in a term it enters or in which it has not voted yet, for
\* a candidate whose log is at least as far as its own.
LEMMA NewVote ==
    ASSUME TypeOK, NEW LL, LedgerOK(LL), CommitOK(LL), elections' = elections,
           \A m \in msgs' : m.type = "AppendReply" => m \in msgs,
           NEW i \in Server, NEW u \in Nat, currentTerm[i] <= u,
           NEW b, b.voter = i, b.term = u,
           currentTerm[i] = u /\ Counts(b)' => LL[u] = << >>,
           NEW m \in msgs', m.type = "RequestVote", m.from = b.cand, m.term = u,
           LogOK(m, log[i]), m.lastTerm \in Nat, m.lastIndex \in Nat
    PROVE  Vote(LL, b)'
<1> SUFFICES ASSUME NEW t \in Nat, NEW n \in Nat, t < u, Counts(b)',
                    Has(LL[t], t, n), Acknowledged(i, t, n)'
             PROVE  Overruled(LL, t, n, u - 1) \/ AsFar(b.cand, u, t, n)'
  BY DEF Vote
<1>1. Acknowledged(i, t, n)
  BY DEF Acknowledged, Elected
<1>2. Has(log[i], t, n) \/ Overruled(LL, t, n, currentTerm[i])
  BY <1>1 DEF CommitOK, Kept
<1>3. CASE Overruled(LL, t, n, currentTerm[i])
  <2>1. PICK s \in Nat : t < s /\ s <= currentTerm[i] /\ LL[s] # << >> /\ ~Has(LL[s], t, n)
    BY <1>3 DEF Overruled
  <2>2. currentTerm[i] \in Nat
    BY DEF TypeOK
  <2>3. s <= u - 1
    BY <2>1, <2>2
  <2> QED
    BY <2>1, <2>3 DEF Overruled
<1>4. CASE Has(log[i], t, n)
  <2>1. LL \in Ledger /\ log[i] \in Seq(Entry) /\ Agrees(log[i], LL)
    BY NodeLog DEF LedgerOK
  <2>2. /\ n <= Len(log[i]) /\ Len(log[i]) \in Nat
        /\ lastLogTerm(log[i]) \in Nat /\ t <= lastLogTerm(log[i])
    BY <1>4, <2>1, LastTermOf DEF CommitOK
  <2>3. m.lastTerm > t \/ (m.lastTerm = t /\ m.lastIndex >= n)
    BY <2>2 DEF LogOK
  <2> QED
    BY <2>3 DEF AsFar
<1> QED
  BY <1>2, <1>3, <1>4

\* transitionToCandidate and startElection.
LEMMA CandidateCommit ==
    ASSUME TypeOK, TypeOK', VoteInv, NEW LL, LedgerOK(LL), CommitOK(LL),
           NEW i \in Server, state' = [state EXCEPT ![i] = "Candidate"],
           transitionToCandidate(i), RequestVotes(i, currentTerm[i] + 1),
           UNCHANGED <<log, commitIndex, applied, matchIndex, nextIndex, proposals,
                       replies, elections>>
    PROVE  CommitOK(LL)'
<1>0. Extends(LL, LL)
  BY ExtendsItself
<1>1. PICK u \in Nat : u = currentTerm[i] + 1
  BY DEF TypeOK
<1>2. /\ currentTerm' = [currentTerm EXCEPT ![i] = u]
      /\ wal' = [wal EXCEPT ![i] = [term |-> u, votedFor |-> i]]
      /\ RecordBallot(i, u, i)
  BY <1>1 DEF transitionToCandidate, AppendState
<1>3. /\ currentTerm[i] \in Nat /\ wal[i].term \in Nat /\ wal[i].term <= currentTerm[i]
      /\ currentTerm[i] < u /\ currentTerm'[i] = u /\ wal'[i].term = u
      /\ \A k \in Server \ {i} : /\ currentTerm'[k] = currentTerm[k] /\ wal'[k] = wal[k]
                                 /\ state'[k] = state[k]
  BY <1>1, <1>2 DEF TypeOK, VoteInv, BallotsPersisted
<1>4. ASSUME NEW k \in Server
      PROVE  currentTerm'[k] >= currentTerm[k] /\ wal'[k].term >= wal[k].term
  <2>1. currentTerm[k] \in Nat /\ wal[k].term \in Nat
    BY DEF TypeOK
  <2> QED
    BY <1>3, <2>1
<1>5. msgs \subseteq msgs'
  BY DEF RequestVotes
<1>6. ballots \subseteq ballots'
  BY <1>2 DEF RecordBallot
<1>7. Onward
  BY <1>4, <1>5, <1>6 DEF Onward
<1>8. ASSUME NEW m \in msgs', m \notin msgs
      PROVE  /\ m.type = "RequestVote" /\ m.from = i /\ m.term = u
             /\ m.lastIndex = Len(log[i]) /\ m.lastTerm = lastLogTerm(log[i])
  BY <1>1, <1>8 DEF RequestVotes
<1>9. lastLogTerm(log[i]) \in Nat /\ lastLogTerm(log[i]) <= currentTerm[i] /\ Len(log[i]) \in Nat
  BY LastReached DEF CommitOK
<1>10. Candidacies(LL)'
  <2> SUFFICES ASSUME NEW m \in msgs', m.type = "RequestVote" PROVE Candidacy(LL, m)'
    BY DEF Candidacies, Candidacy
  <2>1. CASE m \notin msgs
    <3>1. ~(\E e \in elections' : e.leader = i /\ e.term = u)
      <4> SUFFICES ASSUME NEW e \in elections, e.leader = i, e.term = u PROVE FALSE
        OBVIOUS
      <4>1. e.term <= wal[i].term
        BY DEF VoteInv, LeadersElected
      <4> QED
        BY <1>3, <4>1
    <3>2. m.lastTerm < u /\ m.term <= wal'[i].term
      BY <1>3, <1>8, <1>9, <2>1
    <3> QED
      BY <1>3, <1>8, <2>1, <3>1, <3>2 DEF Candidacy, Elected
  <2>2. CASE m \in msgs
    <3>1. PICK k \in Server : k = m.from
      BY <2>2, MessageKinds DEF TypeOK
    <3>2. Candidacy(LL, m) /\ m.term \in Nat
      <4>1. m \in Message
        BY <2>2 DEF TypeOK
      <4>2. m.term \in Nat
        BY <4>1, MessageKinds DEF RequestVoteMsg
      <4> QED
        BY <2>2, <4>2 DEF CommitOK, Candidacies
    <3>3. m.term <= wal[k].term
      BY <3>1, <3>2 DEF Candidacy
    <3>4. state'[k] = "Candidate" /\ currentTerm'[k] = m.term =>
             state[k] = "Candidate" /\ currentTerm'[k] = currentTerm[k] /\ log'[k] = log[k]
      BY <1>3, <3>2, <3>3
    <3> QED
      BY <1>0, <1>4, <2>2, <3>1, <3>2, <3>4, CandidacyKept
  <2> QED
    BY <2>1, <2>2
<1>11. Leading'
  <2> SUFFICES ASSUME NEW k \in Server PROVE Leads(k)'
    BY DEF Leading
  <2>1. Leads(k) /\ Len(log[k]) \in Nat
    BY LenProperties DEF CommitOK, Leading, TypeOK
  <2>2. state'[k] = "Leader" => state[k] = "Leader" /\ currentTerm'[k] = currentTerm[k]
    BY <1>3 DEF TypeOK
  <2> QED
    BY <1>7, <2>1, <2>2, LeadsKept
<1>12. \A m \in msgs' : m.type = "AppendEntries" \/ m.type = "AppendReply" => m \in msgs
  BY <1>8
<1>13. Voted(LL)'
  <2> SUFFICES ASSUME NEW b \in ballots' PROVE Vote(LL, b)'
    BY DEF Voted
  <2>1. CASE b \in ballots
    <3>1. NewAcks(LL, LL) /\ (Counts(b)' => Counts(b))
      BY <1>12, NoNewAcks DEF Counts
    <3> QED
      BY <1>0, <1>7, <2>1, <3>1, VoteKept DEF CommitOK, Voted
  <2>2. CASE b \notin ballots
    <3>1. b.voter = i /\ b.term = u /\ b.cand = i
      BY <1>2, <2>2 DEF RecordBallot
    <3>2. PICK j \in effectivePeers(i) : TRUE
      <4>1. \E j \in Server : j # i
        <5> SUFFICES ASSUME Server = {i} PROVE FALSE
          OBVIOUS
        <5>1. Cardinality({i}) = 1
          BY FS_Singleton
        <5> QED
          BY <5>1, ServerAssumption
      <4> QED
        BY <4>1, Peers
    <3> DEFINE m == [type |-> "RequestVote", from |-> i, to |-> j, inc |-> incarnation[i],
                     term |-> u, lastIndex |-> Len(log[i]),
                     lastTerm |-> lastLogTerm(log[i])]
    <3>3. m \in msgs'
      BY <1>1 DEF RequestVotes
    <3>4. /\ m.type = "RequestVote" /\ m.from = i /\ m.term = u
          /\ m.lastIndex = Len(log[i]) /\ m.lastTerm = lastLogTerm(log[i])
      OBVIOUS
    <3> HIDE DEF m
    <3>5. PICK x \in msgs' : x = m
      BY <3>3
    <3>6. LogOK(x, log[i]) /\ x.lastTerm \in Nat /\ x.lastIndex \in Nat
      BY <1>9, <3>4, <3>5 DEF LogOK
    <3>7. currentTerm[i] # u /\ currentTerm[i] <= u
      BY <1>3
    <3> QED
      BY <1>12, <3>1, <3>4, <3>5, <3>6, <3>7, NewVote
  <2> QED
    BY <2>1, <2>2
<1> QED
  BY <1>7, <1>10, <1>11, <1>12, <1>13, QuietCommit

\* A vote is granted.
LEMMA GrantCommit ==
    ASSUME TypeOK, TypeOK', VoteInv, NEW LL, LedgerOK(LL), CommitOK(LL),
           NEW m \in msgs, m.type = "RequestVote", NEW i \in Server, i = m.to,
           m.term >= currentTerm[i], LogOK(m, log[i]),
           state' = state \/ state' = [state EXCEPT ![i] = "Follower"],
           m.term # currentTerm[i] => state'[i] = "Follower",
           currentTerm' = [currentTerm EXCEPT ![i] = m.term],
           VoteReply(m, m.term, TRUE),
           AppendState(i, m.term, m.from), RecordBallot(i, m.term, m.from),
           UNCHANGED <<log, commitIndex, applied, matchIndex, nextIndex, elections>>,
           \A k \in Server : proposals'[k] \subseteq proposals[k],
           \A c \in Command : replies'[c] = "success" => replies[c] = "success"
    PROVE  CommitOK(LL)'
<1>0. Extends(LL, LL)
  BY ExtendsItself
<1>m. m \in Message
  BY DEF TypeOK
<1>n. m \in RequestVoteMsg
  BY <1>m, MessageKinds
<1>1. PICK u \in Nat : u = m.term
  BY <1>n DEF RequestVoteMsg
<1>2. /\ currentTerm[i] \in Nat /\ wal[i].term \in Nat /\ wal[i].term <= currentTerm[i]
      /\ currentTerm[i] <= u
  BY <1>1 DEF TypeOK, VoteInv, BallotsPersisted
<1>3. /\ currentTerm'[i] = u /\ wal'[i].term = u
      /\ \A k \in Server \ {i} : currentTerm'[k] = currentTerm[k] /\ wal'[k] = wal[k]
  BY <1>1 DEF TypeOK, AppendState
<1>4. ASSUME NEW k \in Server
      PROVE  currentTerm'[k] >= currentTerm[k] /\ wal'[k].term >= wal[k].term
  <2>1. currentTerm[k] \in Nat /\ wal[k].term \in Nat
    BY DEF TypeOK
  <2> QED
    BY <1>2, <1>3, <2>1
<1>5. /\ msgs \subseteq msgs'
      /\ \A x \in msgs' : x.type \in {"RequestVote", "AppendEntries", "AppendReply"}
            => x \in msgs
  BY DEF VoteReply
<1>6. ballots \subseteq ballots'
  BY DEF RecordBallot
<1>7. Onward
  BY <1>4, <1>5, <1>6 DEF Onward
<1>8. ASSUME NEW k \in Server, state'[k] # "Follower"
      PROVE  state'[k] = state[k] /\ currentTerm'[k] = currentTerm[k]
  <2>1. state'[k] = state[k]
    <3>1. state \in [Server -> {"Follower", "Candidate", "Leader"}]
      BY DEF TypeOK
    <3>2. CASE state' = state
      BY <3>2
    <3>3. CASE state' = [state EXCEPT ![i] = "Follower"]
      BY <1>8, <3>1, <3>3
    <3> QED
      BY <3>2, <3>3
  <2> QED
    BY <1>1, <1>2, <1>3, <1>8, <2>1
<1>9. Candidacies(LL)'
  <2>1. \A k \in Server : state'[k] = "Candidate" =>
           state[k] = "Candidate" /\ currentTerm'[k] = currentTerm[k] /\ log'[k] = log[k]
    BY <1>8
  <2> QED
    BY <1>0, <1>4, <1>5, <2>1, CandidaciesKept DEF CommitOK
<1>10. Leading'
  <2> SUFFICES ASSUME NEW k \in Server PROVE Leads(k)'
    BY DEF Leading
  <2>1. Leads(k) /\ Len(log[k]) \in Nat
    BY LenProperties DEF CommitOK, Leading, TypeOK
  <2>2. state'[k] = "Leader" => state[k] = "Leader" /\ currentTerm'[k] = currentTerm[k]
    BY <1>8
  <2> QED
    BY <1>7, <2>1, <2>2, LeadsKept
<1>11. Voted(LL)'
  <2> SUFFICES ASSUME NEW b \in ballots' PROVE Vote(LL, b)'
    BY DEF Voted
  <2>1. CASE b \in ballots
    <3>1. NewAcks(LL, LL) /\ (Counts(b)' => Counts(b))
      BY <1>5, NoNewAcks DEF Counts
    <3> QED
      BY <1>0, <1>7, <2>1, <3>1, VoteKept DEF CommitOK, Voted
  <2>2. CASE b \notin ballots
    <3>1. /\ b.voter = i /\ b.term = u /\ b.cand = m.from
          /\ \A d \in ballots : ~(d.voter = i /\ d.term = u)
      BY <1>1, <2>2 DEF RecordBallot
    <3>2. ASSUME Counts(b)' PROVE LL[u] = << >>
      <4> SUFFICES ASSUME LL[u] # << >> PROVE FALSE
        OBVIOUS
      <4>1. \E e \in elections : e.term = u
        BY DEF LedgerOK, ElectedWrote, Elected
      <4>2. PICK e \in elections : e.term = u /\ i \in e.voters
        BY <3>1, <3>2, <4>1 DEF Counts
      <4>3. FirstVote(i, u, e.leader)
        BY <4>2 DEF VoteInv, LeadersElected
      <4> QED
        BY <3>1, <4>3 DEF FirstVote
    <3>3. m \in msgs' /\ m.lastTerm \in Nat /\ m.lastIndex \in Nat
      BY <1>5, <1>n DEF RequestVoteMsg
    <3> QED
      BY <1>1, <1>2, <1>5, <3>1, <3>2, <3>3, NewVote
  <2> QED
    BY <2>1, <2>2
<1> QED
  BY <1>5, <1>7, <1>9, <1>10, <1>11, QuietCommit

\* A node restarts with its log, in the term it was in.
LEMMA RestartCommit ==
    ASSUME TypeOK, TypeOK', VoteInv, NEW LL, LedgerOK(LL), CommitOK(LL),
           NEW i \in Server, Restart(i), \A k \in Server : currentTerm'[k] >= currentTerm[k]
    PROVE  CommitOK(LL)'
<1> USE DEF history
<1>0. Extends(LL, LL)
  BY ExtendsItself
<1>1. UNCHANGED <<wal, replies, msgs, ballots, elections>>
  BY DEF Restart, loadState
<1>2. Onward /\ \A k \in Server : wal'[k].term >= wal[k].term
  <2>1. \A k \in Server : wal[k].term \in Nat
    BY DEF TypeOK
  <2> QED
    BY <1>1, <2>1 DEF Onward
<1>3. log' = log
  BY DEF Restart, loadState, TypeOK
<1>4. ASSUME NEW k \in Server, k # i
      PROVE  /\ state'[k] = state[k] /\ currentTerm'[k] = currentTerm[k]
             /\ commitIndex'[k] = commitIndex[k] /\ applied'[k] = applied[k]
             /\ matchIndex'[k] = matchIndex[k] /\ nextIndex'[k] = nextIndex[k]
             /\ proposals'[k] = proposals[k]
  BY <1>4 DEF Restart, loadState, TypeOK
<1>5. /\ state'[i] = "Follower" /\ commitIndex'[i] = 0 /\ applied'[i] = << >>
      /\ matchIndex'[i][i] = 0 /\ proposals'[i] = {}
  BY DEF Restart, loadState, TypeOK
<1>6. Candidacies(LL)'
  <2>1. \A k \in Server : state'[k] = "Candidate" =>
           state[k] = "Candidate" /\ currentTerm'[k] = currentTerm[k] /\ log'[k] = log[k]
    BY <1>3, <1>4, <1>5
  <2> QED
    BY <1>0, <1>1, <1>2, <2>1, CandidaciesKept DEF CommitOK
<1>7. Leading'
  <2> SUFFICES ASSUME NEW k \in Server PROVE Leads(k)'
    BY DEF Leading
  <2>1. CASE k = i
    BY <1>5, <2>1 DEF Leads
  <2>2. CASE k # i
    <3>1. Leads(k) /\ Len(log[k]) \in Nat
      BY LenProperties DEF CommitOK, Leading, TypeOK
    <3> QED
      BY <1>2, <1>3, <1>4, <2>2, <3>1, LeadsKept
  <2> QED
    BY <2>1, <2>2
<1>8. Voted(LL)'
  <2>1. NewAcks(LL, LL)
    BY <1>1, NoNewAcks
  <2> QED
    BY <1>0, <1>1, <1>2, <2>1, VotedKept DEF CommitOK
<1>9. \A k \in Server :
         /\ \/ commitIndex'[k] = commitIndex[k] /\ applied'[k] = applied[k]
            \/ commitIndex'[k] = 0 /\ applied'[k] = << >>
         /\ proposals'[k] \subseteq proposals[k]
  BY <1>4, <1>5
<1> QED
  BY <1>1, <1>2, <1>3, <1>6, <1>7, <1>8, <1>9, QuietCommit

LEMMA PreVoteCommit ==
    ASSUME TypeOK, TypeOK', VoteInv, NEW LL, LedgerOK(LL), CommitOK(LL),
           \/ \E i \in Server : ElectionTimeout(i)
           \/ \E i \in Server, c \in Command : RejectCommand(i, c)
           \/ \E m \in msgs : HandlePreVote(m)
           \/ UNCHANGED vars
    PROVE  CommitOK(LL)'
<1> USE DEF nodeVars, voteVars, logVars, leaderVars, clientVars, history
<1>1. /\ UNCHANGED <<state, currentTerm, log, commitIndex, applied, matchIndex,
                     nextIndex, wal, ballots, elections, proposals>>
      /\ msgs \subseteq msgs'
  BY DEF ElectionTimeout, RejectCommand, HandlePreVote, vars
<1>2. ASSUME NEW n \in msgs', n.type \in {"RequestVote", "AppendEntries", "AppendReply"}
      PROVE  n \in msgs
  <2>1. CASE \E i \in Server : ElectionTimeout(i)
    BY <1>2, <2>1 DEF ElectionTimeout
  <2>2. CASE \E m \in msgs : HandlePreVote(m)
    BY <1>2, <2>2 DEF HandlePreVote
  <2>3. CASE msgs' = msgs
    BY <2>3
  <2> QED
    BY <2>1, <2>2, <2>3 DEF RejectCommand, vars
<1>3. ASSUME NEW d \in Command, replies'[d] = "success" PROVE replies[d] = "success"
  <2>1. CASE \E i \in Server, c \in Command : RejectCommand(i, c)
    <3>1. PICK c \in Command : replies' = [replies EXCEPT ![c] = "failure"]
      BY <2>1 DEF RejectCommand
    <3> QED
      BY <1>3, <3>1 DEF TypeOK
  <2>2. CASE replies' = replies
    BY <1>3, <2>2
  <2> QED
    BY <2>1, <2>2 DEF ElectionTimeout, HandlePreVote, vars
<1> QED
  BY <1>1, <1>2, <1>3, IdleCommit

LEMMA PreVoteReplyCommit ==
    ASSUME TypeOK, TypeOK', VoteInv, NEW LL, LedgerOK(LL), CommitOK(LL),
           NEW m \in msgs, HandlePreVoteReply(m)
    PROVE  CommitOK(LL)'
<1> USE DEF nodeVars, logVars, leaderVars, clientVars
<1>1. m.to \in Server
  BY MessageKinds DEF TypeOK
<1>2. UNCHANGED <<log, commitIndex, applied, matchIndex, nextIndex, proposals, replies,
                  elections>>
  BY DEF HandlePreVoteReply
<1>3. CASE UNCHANGED <<state, currentTerm, wal, msgs, ballots>>
  BY <1>2, <1>3, IdleCommit
<1>4. CASE /\ state' = [state EXCEPT ![m.to] = "Candidate"]
           /\ transitionToCandidate(m.to) /\ RequestVotes(m.to, currentTerm[m.to] + 1)
  BY <1>1, <1>2, <1>4, CandidateCommit
<1> QED
  BY <1>3, <1>4 DEF HandlePreVoteReply

LEMMA RequestVoteCommit ==
    ASSUME TypeOK, TypeOK', VoteInv, NEW LL, LedgerOK(LL), CommitOK(LL),
           NEW m \in msgs, HandleRequestVote(m)
    PROVE  CommitOK(LL)'
<1> USE DEF nodeVars, logVars, leaderVars, clientVars
<1> DEFINE i == m.to
           newer == m.term > currentTerm[i]
           vote == IF newer THEN Nil ELSE votedFor[i]
           grant == vote \in {Nil, m.from} /\ LogOK(m, log[i])
<1>1. m.type = "RequestVote" /\ m \in Message
  BY DEF HandleRequestVote, TypeOK
<1>2. i \in Server /\ m.term \in Nat /\ currentTerm[i] \in Nat
  <2>1. m.to \in Server /\ m \in RequestVoteMsg
    BY <1>1, MessageKinds
  <2> QED
    BY <2>1 DEF RequestVoteMsg, TypeOK
<1>3. UNCHANGED <<log, commitIndex, applied, matchIndex, nextIndex, elections>>
  BY DEF HandleRequestVote
<1>4. /\ msgs \subseteq msgs'
      /\ \A x \in msgs' : x.type \in {"RequestVote", "AppendEntries", "AppendReply"}
            => x \in msgs
  BY DEF HandleRequestVote, VoteReply
<1>5. CASE UNCHANGED <<state, currentTerm, wal, proposals, replies, ballots>>
  BY <1>3, <1>4, <1>5, IdleCommit
<1>6. CASE /\ m.term >= currentTerm[i]
           /\ IF newer THEN /\ state' = [state EXCEPT ![i] = "Follower"]
                            /\ CancelProposals(i)
                       ELSE UNCHANGED <<state, clientVars>>
           /\ currentTerm' = [currentTerm EXCEPT ![i] = m.term]
           /\ VoteReply(m, m.term, grant)
           /\ \/ grant /\ AppendState(i, m.term, m.from) /\ RecordBallot(i, m.term, m.from)
              \/ ~grant /\ UNCHANGED <<wal, ballots>>
  <2>1. /\ \A k \in Server : proposals'[k] \subseteq proposals[k]
        /\ \A c \in Command : replies'[c] = "success" => replies[c] = "success"
    BY <1>2, <1>6, CancelTellsNobody
  <2>2. CASE grant
    <3>1. /\ VoteReply(m, m.term, TRUE) /\ LogOK(m, log[i])
          /\ AppendState(i, m.term, m.from) /\ RecordBallot(i, m.term, m.from)
      BY <1>6, <2>2 DEF VoteReply
    <3>2. state' = state \/ state' = [state EXCEPT ![i] = "Follower"]
      BY <1>6
    <3>3. ASSUME m.term # currentTerm[i] PROVE state'[i] = "Follower"
      <4>1. state \in [Server -> {"Follower", "Candidate", "Leader"}]
        BY DEF TypeOK
      <4>2. state' = [state EXCEPT ![i] = "Follower"]
        BY <1>2, <1>6, <3>3
      <4> QED
        BY <1>2, <4>1, <4>2
    <3> QED
      BY <1>1, <1>2, <1>3, <1>6, <2>1, <3>1, <3>2, <3>3, GrantCommit
  <2>3. CASE ~grant
    <3>1. UNCHANGED <<wal, ballots>>
      BY <1>6, <2>3
    <3>2. ASSUME NEW k \in Server
          PROVE  \/ state'[k] = state[k] /\ currentTerm'[k] = currentTerm[k]
                 \/ state'[k] = "Follower" /\ currentTerm'[k] >= currentTerm[k]
      <4>1. currentTerm'[k] = IF k = i THEN m.term ELSE currentTerm[k]
        BY <1>6 DEF TypeOK
      <4>2. CASE newer
        <5>1. state'[k] = IF k = i THEN "Follower" ELSE state[k]
          <6>1. state' = [state EXCEPT ![i] = "Follower"]
            BY <1>6, <4>2
          <6>2. state \in [Server -> {"Follower", "Candidate", "Leader"}]
            BY DEF TypeOK
          <6> QED
            BY <1>2, <6>1, <6>2
        <5>2. currentTerm[k] \in Nat /\ (k = i => m.term >= currentTerm[k])
          BY <1>2, <1>6 DEF TypeOK
        <5> QED
          BY <1>2, <4>1, <5>1, <5>2
      <4>3. CASE ~newer
        <5>1. state' = state /\ m.term = currentTerm[i]
          BY <1>2, <1>6, <4>3
        <5> QED
          BY <4>1, <5>1
      <4> QED
        BY <4>2, <4>3
    <3> QED
      BY <1>3, <1>4, <2>1, <3>1, <3>2, IdleCommit
  <2> QED
    BY <2>2, <2>3
<1> QED
  BY <1>5, <1>6 DEF HandleRequestVote

\* A node that meets a later term steps down.
LEMMA StepDownCommit ==
    ASSUME TypeOK, TypeOK', VoteInv, NEW LL, LedgerOK(LL), CommitOK(LL),
           NEW i \in Server, NEW u \in Nat, u > currentTerm[i], transitionToFollower(i, u),
           UNCHANGED <<log, commitIndex, applied, matchIndex, nextIndex, wal, ballots,
                       elections, msgs>>
    PROVE  CommitOK(LL)'
<1>1. /\ \A k \in Server : proposals'[k] \subseteq proposals[k]
      /\ \A c \in Command : replies'[c] = "success" => replies[c] = "success"
  BY CancelTellsNobody DEF transitionToFollower
<1>2. \A k \in Server :
         \/ state'[k] = state[k] /\ currentTerm'[k] = currentTerm[k]
         \/ state'[k] = "Follower" /\ currentTerm'[k] >= currentTerm[k]
  BY DEF transitionToFollower, TypeOK
<1> QED
  BY <1>1, <1>2, IdleCommit
-----------------------------------------------------------------------------
(***************************************************************************)
(* A leader appends an entry of its term: as its first one when it wins,   *)
(* and for every proposal.                                                 *)
(***************************************************************************)
LEMMA AppendedOrdered ==
    ASSUME TypeOK, NEW LL, LedgerOK(LL), Ordered(LL), TermsReached,
           NEW i \in Server, NEW u \in Nat, u = currentTerm[i], NEW e \in Entry, e.term = u,
           NEW x, x = Append(log[i], e), NEW LM, LM[u] = x,
           \A s \in Nat \ {u} : LM[s] = LL[s]
    PROVE  Ordered(LM)
<1>1. /\ x \in Seq(Entry) /\ Len(x) = Len(log[i]) + 1 /\ Len(log[i]) \in Nat
      /\ \A k \in 1..Len(log[i]) : x[k] = log[i][k]
      /\ x[Len(log[i]) + 1] = e
  BY AppendProperties, LenProperties DEF TypeOK
<1>2. ASSUME NEW a \in 1..Len(x), NEW b \in 1..Len(x), a <= b PROVE x[a].term <= x[b].term
  <2>1. a \in Nat /\ b \in Nat /\ b <= Len(log[i]) + 1 /\ a >= 1
    BY <1>1
  <2>2. CASE b <= Len(log[i])
    <3>1. a \in 1..Len(log[i]) /\ b \in 1..Len(log[i])
      BY <1>1, <1>2, <2>1, <2>2
    <3>2. log[i] \in Seq(Entry) /\ Agrees(log[i], LL) /\ LL \in Ledger
      BY NodeLog DEF LedgerOK
    <3>3. log[i][a].term <= log[i][b].term
      BY <1>2, <3>1, <3>2, LogOrdered
    <3> QED
      BY <1>1, <3>1, <3>3
  <2>3. CASE b = Len(log[i]) + 1 /\ a <= Len(log[i])
    <3>1. a \in 1..Len(log[i])
      BY <1>1, <2>1, <2>3
    <3>2. log[i][a].term <= u
      BY <3>1 DEF TermsReached
    <3> QED
      BY <1>1, <2>3, <3>1, <3>2
  <2>4. CASE b = Len(log[i]) + 1 /\ a = b
    BY <1>1, <2>4
  <2> QED
    BY <1>1, <1>2, <2>1, <2>2, <2>3, <2>4
<1>3. x[Len(x)].term = u
  BY <1>1
<1> SUFFICES ASSUME NEW s \in Nat
             PROVE  /\ \A a, b \in 1..Len(LM[s]) :
                          a <= b => LM[s][a].term <= LM[s][b].term
                    /\ LM[s] # << >> => LM[s][Len(LM[s])].term = s
  BY DEF Ordered
<1>4. CASE s = u
  BY <1>2, <1>3, <1>4
<1>5. CASE s # u
  BY <1>5 DEF Ordered
<1> QED
  BY <1>4, <1>5

LEMMA AppendedCommit ==
    ASSUME Odd(Cardinality(Server)), TypeOK, TypeOK', VoteInv, VoteInv',
           NEW LL, LedgerOK(LL), CommitOK(LL),
           NEW i \in Server, NEW u \in Nat, u = currentTerm[i], NEW e \in Entry, e.term = u,
           NEW x, x = Append(log[i], e), LL[u] = << >> \/ LL[u] = log[i],
           NEW LM \in Ledger, LM[u] = x, \A s \in Nat \ {u} : LM[s] = LL[s], Grows(LL, LM),
           log' = [log EXCEPT ![i] = x], state'[i] = "Leader",
           UNCHANGED <<currentTerm, msgs, commitIndex, applied, wal, ballots>>,
           \/ elections' = elections
           \/ /\ \A f \in elections : f.term # u /\ f \in elections'
              /\ \A f \in elections' : f \in elections \/ f.term = u
    PROVE  /\ Extends(LL, LM) /\ Onward
           /\ Ordered(LM) /\ TermsReached' /\ Requested(LM)' /\ Replied(LM)'
           /\ Kept(LM)' /\ Voted(LM)' /\ Committed(LM)' /\ AppliedIs'
<1>1. /\ x \in Seq(Entry) /\ Len(x) = Len(log[i]) + 1 /\ Len(log[i]) \in Nat
      /\ \A k \in 1..Len(log[i]) : x[k] = log[i][k]
      /\ x[Len(log[i]) + 1] = e
  BY AppendProperties, LenProperties DEF TypeOK
<1>2. log'[i] = x /\ \A k \in Server \ {i} : log'[k] = log[k]
  BY DEF TypeOK
<1>3. Ordered(LM)
  BY AppendedOrdered DEF CommitOK
<1>4. Extends(LL, LM)
  <2>1. LL \in Ledger
    BY DEF LedgerOK
  <2> SUFFICES ASSUME NEW s \in Nat, NEW t \in Nat, NEW n \in Nat,
                      t # s, LL[s] # << >>, Has(LM[s], t, n)
               PROVE  Has(LL[s], t, n)
    BY <2>1 DEF Extends
  <2>2. CASE s # u
    BY <2>2
  <2>3. CASE s = u
    <3>1. LL[s] = log[i] /\ n \in 1..Len(x) /\ x[n].term = t
      BY <2>3 DEF Has
    <3>2. n # Len(log[i]) + 1
      BY <1>1, <2>3, <3>1
    <3>3. n \in 1..Len(log[i])
      BY <1>1, <3>1, <3>2
    <3> QED
      BY <1>1, <3>1, <3>3 DEF Has
  <2> QED
    BY <2>2, <2>3
<1>5. Onward
  <2>1. \A k \in Server : currentTerm[k] \in Nat
    BY DEF TypeOK
  <2> QED
    BY <2>1 DEF Onward
<1>6. TermsReached'
  <2> SUFFICES ASSUME NEW k \in Server, NEW n \in 1..Len(log'[k])
               PROVE  log'[k][n].term <= currentTerm[k]
    BY DEF TermsReached
  <2>1. CASE k # i
    BY <1>2, <2>1 DEF CommitOK, TermsReached
  <2>2. CASE k = i /\ n \in 1..Len(log[i])
    <3>1. log'[k][n] = log[i][n]
      BY <1>1, <1>2, <2>2
    <3> QED
      BY <2>2, <3>1 DEF CommitOK, TermsReached
  <2>3. CASE k = i /\ n \notin 1..Len(log[i])
    <3>1. n = Len(log[i]) + 1
      BY <1>1, <1>2, <2>3
    <3> QED
      BY <1>1, <1>2, <2>3, <3>1
  <2> QED
    BY <2>1, <2>2, <2>3
<1>7. Requested(LM)' /\ Replied(LM)'
  BY <1>4, <1>5, RequestedKept, RepliedKept DEF CommitOK
<1>8. PICK f \in elections' : f.leader = i /\ f.term = u
  BY DEF VoteInv, LeadersElected, Elected
<1>9. NewAcks(LL, LM)
  <2> SUFFICES ASSUME NEW j \in Server, NEW t \in Nat, NEW n \in Nat,
                      Has(LM[t], t, n), Acknowledged(j, t, n)'
               PROVE  \/ Has(LL[t], t, n) /\ Acknowledged(j, t, n)
                      \/ currentTerm[j] <= t /\ t <= currentTerm'[j] /\ Has(log'[j], t, n)
    BY DEF NewAcks
  <2>1. CASE t # u
    <3>1. Elected(j, t)' => Elected(j, t)
      BY <2>1 DEF Elected
    <3> QED
      BY <2>1, <3>1 DEF Acknowledged
  <2>2. CASE t = u /\ Elected(j, t)'
    <3>1. PICK g \in elections' : g.leader = j /\ g.term = u
      BY <2>2 DEF Elected
    <3>2. j = i
      BY <1>8, <3>1, OneLeaderNext
    <3>3. Has(log'[j], t, n)
      BY <1>2, <2>2, <3>2
    <3>4. currentTerm[j] <= t /\ t <= currentTerm'[j]
      BY <2>2, <3>2
    <3> QED
      BY <3>3, <3>4
  <2>3. CASE t = u /\ ~Elected(j, t)'
    <3>1. PICK r \in msgs : /\ r.type = "AppendReply" /\ r.success
                            /\ r.from = j /\ r.term = t /\ r.match >= n
      BY <2>3 DEF Acknowledged
    <3>2. Has(LL[u], u, r.match)
      BY <2>3, <3>1 DEF CommitOK, Replied, Reply
    <3>3. LL[u] = log[i]
      <4>1. Len(<< >>) = 0
        OBVIOUS
      <4> QED
        BY <3>2, <4>1 DEF Has
    <3>4. n \in 1..Len(log[i])
      <4>1. r.match \in 1..Len(log[i])
        BY <3>2, <3>3 DEF Has
      <4>2. n \in 1..Len(x)
        BY <2>3 DEF Has
      <4> QED
        BY <1>1, <3>1, <4>1, <4>2
    <3>5. Has(LL[t], t, n)
      BY <1>1, <2>3, <3>3, <3>4 DEF Has
    <3> QED
      BY <3>1, <3>5 DEF Acknowledged
  <2> QED
    BY <2>1, <2>2, <2>3
<1>10. Kept(LM)'
  <2>1. LosesOverruled(LL, i)
    <3> SUFFICES ASSUME NEW t \in Nat, NEW n \in Nat, Has(log[i], t, n)
                 PROVE  Has(log'[i], t, n)
      BY DEF LosesOverruled
    <3>1. n \in 1..Len(x) /\ n \in 1..Len(log[i])
      BY <1>1 DEF Has
    <3> QED
      BY <1>1, <1>2, <3>1 DEF Has
  <2>2. \A j \in Server : log'[j] = log[j] \/ LosesOverruled(LL, j)
    BY <1>2, <2>1
  <2> QED
    BY <1>4, <1>5, <1>9, <2>2, KeptKept DEF CommitOK
<1>11. Voted(LM)'
  <2> SUFFICES ASSUME NEW b \in ballots PROVE Vote(LM, b)'
    BY DEF Voted
  <2>1. Counts(b)' => Counts(b)
    BY DEF Counts
  <2> QED
    BY <1>4, <1>5, <1>9, <2>1, VoteKept DEF CommitOK, Voted
<1>12. ASSUME NEW k \in Server PROVE Commits(LM, k)' /\ Applies(k)'
  <2>1. log[k] \in Seq(Entry) /\ Len(log[k]) \in Nat /\ commitIndex[k] \in Nat
    BY LenProperties DEF TypeOK
  <2>2. Applies(k) /\ Commits(LL, k)
    BY DEF CommitOK, AppliedIs, Committed
  <2>3. commitIndex[k] <= Len(log[k])
    BY <2>2 DEF Applies, Same
  <2>4. Same(log[k], log'[k], commitIndex[k])
    <3>1. CASE k = i
      BY <1>1, <1>2, <2>1, <2>3, <3>1 DEF Same
    <3>2. CASE k # i
      BY <1>2, <2>1, <2>3, <3>2 DEF Same
    <3> QED
      BY <3>1, <3>2
  <2> QED
    BY <1>4, <1>5, <2>2, <2>4, CommitsKept, AppliesKept
<1> QED
  BY <1>3, <1>4, <1>5, <1>6, <1>7, <1>10, <1>11, <1>12 DEF Committed, AppliedIs

LEMMA WinCommit ==
    ASSUME Odd(Cardinality(Server)), TypeOK, TypeOK', VoteInv, VoteInv',
           NEW LL, LedgerOK(LL), CommitOK(LL), NEW i \in Server, NEW V,
           state[i] = "Candidate", transitionToLeader(i, currentTerm[i], V),
           UNCHANGED <<currentTerm, msgs, commitIndex, applied, wal, ballots, proposals,
                       replies>>
    PROVE  \E LM : Extends(LL, LM) /\ LedgerOK(LM)' /\ CommitOK(LM)'
<1>1. PICK u \in Nat : u = currentTerm[i]
  BY DEF TypeOK
<1>2. PICK e : e = [term |-> u, cmd |-> Noop]
  OBVIOUS
<1>3. PICK x : x = Append(log[i], e)
  OBVIOUS
<1>4. PICK LM : LM = Entered(LL, u, x)
  OBVIOUS
<1>5. /\ LL[u] = << >> /\ e \in Entry /\ e.term = u
      /\ log' = [log EXCEPT ![i] = x]
      /\ \A c \in Server : ~Elected(c, u)
      /\ LedgerOK(LM)' /\ Grows(LL, LM)
  BY <1>1, <1>2, <1>3, <1>4, WinLedger
<1>6. /\ x \in Seq(Entry) /\ Len(x) = Len(log[i]) + 1 /\ Len(log[i]) \in Nat
      /\ \A k \in 1..Len(log[i]) : x[k] = log[i][k]
  BY <1>3, <1>5, AppendProperties, LenProperties DEF TypeOK
<1>7. LM \in Ledger /\ LM[u] = x /\ \A s \in Nat \ {u} : LM[s] = LL[s]
  BY <1>4, <1>6, EnteredAt DEF LedgerOK
<1>8. /\ state' = [state EXCEPT ![i] = "Leader"]
      /\ elections' = elections \cup {[leader |-> i, term |-> u, voters |-> V]}
  BY <1>1 DEF transitionToLeader
<1>9. /\ state'[i] = "Leader" /\ \A k \in Server \ {i} : state'[k] = state[k]
      /\ log'[i] = x /\ \A k \in Server \ {i} : log'[k] = log[k]
  BY <1>5, <1>8 DEF TypeOK
<1>10. /\ \A f \in elections : f.term # u /\ f \in elections'
       /\ \A f \in elections' : f \in elections \/ (f.term = u /\ f.leader = i)
  <2>1. elections \subseteq Election
    BY DEF TypeOK
  <2>2. ASSUME NEW f \in elections PROVE f.term # u
    BY <1>5, <2>1 DEF Election, Elected
  <2> QED
    BY <1>8, <2>2
<1>11. /\ Extends(LL, LM) /\ Onward
       /\ Ordered(LM) /\ TermsReached' /\ Requested(LM)' /\ Replied(LM)'
       /\ Kept(LM)' /\ Voted(LM)' /\ Committed(LM)' /\ AppliedIs'
  BY <1>1, <1>3, <1>5, <1>7, <1>9, <1>10, AppendedCommit
<1>12. Candidacies(LM)'
  <2> SUFFICES ASSUME NEW m \in msgs, m.type = "RequestVote" PROVE Candidacy(LM, m)'
    BY DEF Candidacies, Candidacy
  <2>1. PICK k \in Server, v \in Nat : k = m.from /\ v = m.term
    <3>1. m \in Message
      BY DEF TypeOK
    <3> QED
      BY <3>1, MessageKinds DEF RequestVoteMsg
  <2>2. Candidacy(LL, m)
    BY DEF CommitOK, Candidacies
  <2>3. /\ m.term <= wal'[k].term /\ m.lastTerm < m.term
        /\ state'[k] = "Candidate" /\ currentTerm'[k] = m.term
              => m.lastIndex = Len(log'[k]) /\ m.lastTerm = lastLogTerm(log'[k])
    BY <1>9, <2>1, <2>2 DEF Candidacy
  <2>4. ASSUME NEW f \in elections', f.leader = k, f.term = v
        PROVE  /\ m.lastIndex <= Len(LM[v])
               /\ m.lastTerm = getEntryTerm(LM[v], m.lastIndex)
    <3>1. CASE f \in elections
      <4>1. LM[v] = LL[v]
        BY <1>7, <1>10, <2>4, <3>1
      <4> QED
        BY <2>1, <2>2, <2>4, <3>1, <4>1 DEF Candidacy, Elected
    <3>2. CASE f.term = u /\ f.leader = i
      <4>1. m.lastIndex = Len(log[i]) /\ m.lastTerm = getEntryTerm(log[i], Len(log[i]))
        BY <1>1, <2>1, <2>2, <2>4, <3>2 DEF Candidacy, lastLogTerm
      <4>2. getEntryTerm(x, Len(log[i])) = getEntryTerm(log[i], Len(log[i]))
        BY <1>6 DEF getEntryTerm
      <4> QED
        BY <1>6, <1>7, <2>4, <3>2, <4>1, <4>2
    <3> QED
      BY <1>10, <3>1, <3>2
  <2> QED
    BY <2>1, <2>3, <2>4 DEF Candidacy, Elected
<1>13. Leading'
  <2> SUFFICES ASSUME NEW k \in Server PROVE Leads(k)'
    BY DEF Leading
  <2>0. Leads(k) /\ Len(log[k]) \in Nat
    BY LenProperties DEF CommitOK, Leading, TypeOK
  <2>1. CASE k = i
    <3>1. /\ \A j \in Server : nextIndex'[i][j] = IF j \in effectivePeers(i)
                                 THEN Len(log[i]) + 1 ELSE nextIndex[i][j]
          /\ \A j \in Server : matchIndex'[i][j] = IF j \in effectivePeers(i)
                                 THEN 0 ELSE matchIndex[i][j]
      BY DEF transitionToLeader, TypeOK
    <3>2. effectivePeers(i) = Server \ {i}
      BY Peers
    <3>3. matchIndex[i][i] = 0
      BY <2>0, <2>1 DEF Leads
    <3>4. log'[i] # << >>
      <4>1. Len(<< >>) = 0
        OBVIOUS
      <4> QED
        BY <1>6, <1>9, <4>1
    <3>5. /\ matchIndex'[i][i] = 0
          /\ \A j \in Server \ {i} : /\ matchIndex'[i][j] = 0
                                     /\ nextIndex'[i][j] <= Len(log'[i]) + 1
      BY <1>6, <1>9, <3>1, <3>2, <3>3
    <3> QED
      BY <2>1, <3>4, <3>5 DEF Leads
  <2>2. CASE k # i
    <3>1. matchIndex'[k] = matchIndex[k] /\ nextIndex'[k] = nextIndex[k]
      BY <2>2 DEF transitionToLeader, TypeOK
    <3> QED
      BY <1>9, <1>11, <2>0, <2>2, <3>1, LeadsKept
  <2> QED
    BY <2>1, <2>2
<1>14. Proposed(LM)' /\ Told(LM)'
  BY <1>11, ProposedKept, ToldKept DEF CommitOK
<1> QED
  BY <1>5, <1>11, <1>12, <1>13, <1>14 DEF CommitOK

LEMMA ProposeCommit ==
    ASSUME Odd(Cardinality(Server)), TypeOK, TypeOK', VoteInv, VoteInv',
           NEW LL, LedgerOK(LL), CommitOK(LL), NEW i \in Server, NEW c \in Command,
           ClientCommand(i, c)
    PROVE  \E LM : Extends(LL, LM) /\ LedgerOK(LM)' /\ CommitOK(LM)'
<1> USE DEF nodeVars, leaderVars, history
<1>1. PICK u \in Nat : u = currentTerm[i]
  BY DEF TypeOK
<1>2. PICK e : e = [term |-> u, cmd |-> c]
  OBVIOUS
<1>3. PICK x : x = Append(log[i], e)
  OBVIOUS
<1>4. PICK LM : LM = Entered(LL, u, x)
  OBVIOUS
<1>5. /\ LL[u] = log[i] /\ e \in Entry /\ e.term = u
      /\ log' = [log EXCEPT ![i] = x]
      /\ LedgerOK(LM)' /\ Grows(LL, LM)
  BY <1>1, <1>2, <1>3, <1>4, ProposeLedger
<1>6. /\ x \in Seq(Entry) /\ Len(x) = Len(log[i]) + 1 /\ Len(log[i]) \in Nat
      /\ x[Len(log[i]) + 1] = e
  BY <1>3, <1>5, AppendProperties, LenProperties DEF TypeOK
<1>7. LM \in Ledger /\ LM[u] = x /\ \A s \in Nat \ {u} : LM[s] = LL[s]
  BY <1>4, <1>6, EnteredAt DEF LedgerOK
<1>8. /\ state[i] = "Leader" /\ state' = state /\ currentTerm' = currentTerm /\ wal' = wal
      /\ commitIndex' = commitIndex /\ applied' = applied /\ msgs' = msgs
      /\ matchIndex' = matchIndex /\ nextIndex' = nextIndex
      /\ ballots' = ballots /\ elections' = elections
      /\ replies' = [replies EXCEPT ![c] = "pending"]
      /\ proposals' = [proposals EXCEPT ![i] = @ \cup
             {[index |-> Len(x), term |-> u, cmd |-> c]}]
  BY <1>1, <1>2, <1>3 DEF ClientCommand
<1>9. /\ log'[i] = x /\ \A k \in Server \ {i} : log'[k] = log[k]
  BY <1>5 DEF TypeOK
<1>10. /\ Extends(LL, LM) /\ Onward
       /\ Ordered(LM) /\ TermsReached' /\ Requested(LM)' /\ Replied(LM)'
       /\ Kept(LM)' /\ Voted(LM)' /\ Committed(LM)' /\ AppliedIs'
  BY <1>1, <1>3, <1>5, <1>7, <1>8, AppendedCommit
<1>11. Candidacies(LM)'
  <2>1. \A k \in Server : state'[k] = "Candidate" =>
           state[k] = "Candidate" /\ currentTerm'[k] = currentTerm[k] /\ log'[k] = log[k]
    BY <1>8, <1>9
  <2>2. \A k \in Server : wal'[k].term >= wal[k].term
    <3>1. ASSUME NEW k \in Server PROVE wal[k].term \in Nat
      BY DEF TypeOK
    <3> QED
      BY <1>8, <3>1
  <2> QED
    BY <1>8, <1>10, <2>1, <2>2, CandidaciesKept DEF CommitOK
<1>12. Leading'
  <2> SUFFICES ASSUME NEW k \in Server PROVE Leads(k)'
    BY DEF Leading
  <2>1. Leads(k) /\ Len(log[k]) \in Nat
    BY LenProperties DEF CommitOK, Leading, TypeOK
  <2>2. Len(log[k]) <= Len(log'[k])
    BY <1>6, <1>9, <2>1
  <2> QED
    BY <1>8, <1>10, <2>1, <2>2, LeadsKept
<1>13. Proposed(LM)'
  <2> SUFFICES ASSUME NEW k \in Server, NEW p \in proposals'[k] PROVE Proposes(LM, p)
    BY DEF Proposed, Proposes
  <2>1. CASE p \in proposals[k]
    <3>1. p \in Proposal /\ Proposes(LL, p)
      BY <2>1 DEF TypeOK, CommitOK, Proposed
    <3> QED
      BY <1>10, <3>1, ProposesKept
  <2>2. CASE p \notin proposals[k]
    <3>1. p.term = u /\ p.index = Len(x) /\ p.cmd = c
      BY <1>8, <2>2 DEF TypeOK
    <3>2. Has(x, u, Len(x)) /\ x[Len(x)].cmd = c
      BY <1>2, <1>5, <1>6 DEF Has
    <3> QED
      BY <1>7, <3>1, <3>2 DEF Proposes
  <2> QED
    BY <2>1, <2>2
<1>14. Told(LM)'
  <2>1. \A d \in Command : replies'[d] = "success" => replies[d] = "success"
    BY <1>8 DEF TypeOK
  <2> QED
    BY <1>10, <2>1, ToldKept DEF CommitOK
<1> QED
  BY <1>5, <1>10, <1>11, <1>12, <1>13, <1>14 DEF CommitOK
-----------------------------------------------------------------------------
(***************************************************************************)
(* Replication.                                                            *)
(***************************************************************************)
\* What replicateToPeer sends reaches to the end of the leader's log.
LEMMA ReplicateCommit ==
    ASSUME TypeOK, TypeOK', VoteInv, NEW LL, LedgerOK(LL), CommitOK(LL),
           NEW i \in Server, NEW j \in Server, ReplicateToPeer(i, j)
    PROVE  CommitOK(LL)'
<1> USE DEF nodeVars, logVars, leaderVars, clientVars, history
<1>0. Extends(LL, LL)
  BY ExtendsItself
<1>1. /\ UNCHANGED <<state, currentTerm, wal, log, commitIndex, applied, matchIndex,
                     nextIndex, proposals, replies, ballots, elections>>
      /\ msgs \subseteq msgs' /\ state[i] = "Leader"
  BY DEF ReplicateToPeer
<1>2. ASSUME NEW m \in msgs', m \notin msgs
      PROVE  /\ m.type = "AppendEntries" /\ j # i
             /\ m.term = currentTerm[i] /\ m.leaderCommit = commitIndex[i]
             /\ m.prevIndex + 1 = nextIndex[i][j] /\ m.prevIndex \in Nat
             /\ m.prevIndex <= Len(log[i]) => m.prevIndex + Len(m.entries) = Len(log[i])
  BY <1>2, ReplicateCarries
<1>3. Onward
  <2>1. \A k \in Server : currentTerm[k] \in Nat
    BY DEF TypeOK
  <2> QED
    BY <1>1, <2>1 DEF Onward
<1>4. Requested(LL)'
  <2> SUFFICES ASSUME NEW m \in msgs' PROVE Request(LL, m)'
    BY DEF Requested
  <2>1. CASE m \in msgs
    BY <1>0, <1>3, <2>1, RequestKept DEF CommitOK, Requested
  <2>2. CASE m \notin msgs
    <3>1. PICK u \in Nat, n \in Nat, l \in Nat :
             u = currentTerm[i] /\ n = commitIndex[i] /\ l = Len(log[i])
      BY LenProperties DEF TypeOK
    <3>2. /\ log[i] \in Seq(Entry) /\ log[i] # << >>
          /\ nextIndex[i][j] <= Len(log[i]) + 1
      BY <1>1, <1>2, <2>2 DEF CommitOK, Leading, Leads, TypeOK
    <3>3. m.prevIndex + Len(m.entries) = l
      BY <1>2, <2>2, <3>1, <3>2
    <3>4. log[i] = LL[u]
      BY <1>1, <3>1 DEF LedgerOK, LeadersHold
    <3>5. Has(LL[u], u, l)
      <4>1. l # 0
        BY <3>1, <3>2, EmptySeq
      <4>2. LL[u][Len(LL[u])].term = u
        BY <3>2, <3>4 DEF CommitOK, Ordered
      <4> QED
        BY <3>1, <3>4, <4>1, <4>2 DEF Has
    <3>6. ASSUME n > 0 PROVE ChosenUpTo(LL, n, u)'
      <4>1. ChosenUpTo(LL, n, u)
        BY <3>1, <3>6 DEF CommitOK, Committed, Commits, Settled, ChosenUpTo
      <4> QED
        BY <1>0, <1>3, <4>1, ChosenUpToStays
    <3> QED
      BY <1>2, <2>2, <3>1, <3>3, <3>5, <3>6 DEF Request
  <2> QED
    BY <2>1, <2>2
<1>5. \A m \in msgs' : m.type # "AppendEntries" => m \in msgs
  BY <1>2
<1>6. Candidacies(LL)'
  <2>1. \A k \in Server : wal'[k].term >= wal[k].term
    <3>1. \A k \in Server : wal[k].term \in Nat
      BY DEF TypeOK
    <3>2. wal' = wal
      BY <1>1
    <3> QED
      BY <3>1, <3>2
  <2>2. \A m \in msgs' : m.type = "RequestVote" => m \in msgs
    BY <1>5
  <2> QED
    BY <1>0, <1>1, <2>1, <2>2, CandidaciesKept DEF CommitOK
<1>7. Leading'
  <2> SUFFICES ASSUME NEW k \in Server PROVE Leads(k)'
    BY DEF Leading
  <2>1. Leads(k) /\ Len(log[k]) \in Nat
    BY LenProperties DEF CommitOK, Leading, TypeOK
  <2> QED
    BY <1>1, <1>3, <2>1, LeadsKept
<1>8. \A m \in msgs' : m.type = "AppendReply" => m \in msgs
  BY <1>5
<1>9. Voted(LL)'
  <2>1. NewAcks(LL, LL)
    BY <1>1, <1>8, NoNewAcks
  <2> QED
    BY <1>0, <1>1, <1>3, <2>1, VotedKept DEF CommitOK
<1>10. Replied(LL)'
  BY <1>0, <1>8, RepliedKept DEF CommitOK
<1> QED
  BY <1>1, <1>3, <1>4, <1>6, <1>7, <1>8, <1>9, <1>10, CalmCommit

\* What applyLogs makes of the applied entries a, with the log lg up to n.
Longer(a, lg, n) == a \o SubSeq(lg, Len(a) + 1, n)

\* applyLogs adds to what is applied exactly the next entries of the log.
LEMMA AppliedMore ==
    ASSUME NEW a \in Seq(Entry), NEW lg \in Seq(Entry), NEW n \in Nat,
           Len(a) <= n, n <= Len(lg), Same(a, lg, Len(a))
    PROVE  Len(Longer(a, lg, n)) = n /\ Same(Longer(a, lg, n), lg, n)
<1>1. PICK l \in Nat : l = Len(a)
  BY LenProperties
<1>2. PICK g \in Nat : g = l + 1
  OBVIOUS
<1>x. PICK x : x = Longer(a, lg, n)
  OBVIOUS
<1>3. PICK b : b = SubSeq(lg, g, n)
  OBVIOUS
<1>4. Len(lg) \in Nat /\ l <= n /\ n <= Len(lg) /\ \A k \in 1..l : a[k] = lg[k]
  BY <1>1, LenProperties DEF Same
<1>5. /\ b \in Seq(Entry) /\ Len(b) = (IF g <= n THEN n - g + 1 ELSE 0)
      /\ \A k \in 1..(n - g + 1) : b[k] = lg[g + k - 1]
  <2>1. ASSUME NEW k \in g..n PROVE lg[k] \in Entry
    <3>1. k \in 1..Len(lg)
      BY <1>2, <1>4
    <3> QED
      BY <3>1, ElementOfSeq
  <2> QED
    BY <1>3, <2>1, SubSeqProperties
<1>6. Len(b) = n - l
  BY <1>2, <1>4, <1>5
<1>7. /\ Len(x) = Len(a) + Len(b)
      /\ \A k \in 1..(Len(a) + Len(b)) : x[k] = IF k <= Len(a) THEN a[k] ELSE b[k - Len(a)]
  <2>1. x = a \o b
    BY <1>1, <1>2, <1>3, <1>x DEF Longer
  <2> QED
    BY <1>5, <2>1, ConcatProperties
<1>8. Len(x) = n
  BY <1>1, <1>4, <1>6, <1>7
<1>9. ASSUME NEW k \in 1..n PROVE x[k] = lg[k]
  <2>1. k \in Nat /\ x[k] = IF k <= l THEN a[k] ELSE b[k - l]
    BY <1>1, <1>4, <1>6, <1>7
  <2>2. CASE k <= l
    BY <1>4, <2>1, <2>2
  <2>3. CASE k > l
    <3>1. PICK d \in Nat : d = k - l
      BY <2>1, <2>3
    <3>2. d \in 1..(n - g + 1) /\ g + d - 1 = k
      BY <1>2, <2>1, <2>3, <3>1
    <3>3. b[d] = lg[k]
      BY <1>5, <3>2
    <3> QED
      BY <2>1, <2>3, <3>1, <3>3
  <2> QED
    BY <2>1, <2>2, <2>3
<1> QED
  BY <1>4, <1>8, <1>9, <1>x DEF Same

\* applyLogs on the log lg up to the settled index n: the clients that are told
\* success are those of chosen entries.
LEMMA applyLogsCommit ==
    ASSUME TypeOK, NEW LL, LedgerOK(LL), Proposed(LL), NEW i \in Server, Applies(i),
           NEW lg \in Seq(Entry), Agrees(lg, LL), Same(applied[i], lg, commitIndex[i]),
           NEW n \in Nat, commitIndex[i] <= n, n <= Len(lg),
           NEW props, props \subseteq proposals[i], applyLogs(i, lg, n, props),
           log'[i] = lg, NEW u, Settled(LL, lg, n, u)'
    PROVE  /\ Applies(i)' /\ commitIndex'[i] = n
           /\ \A k \in Server \ {i} : /\ commitIndex'[k] = commitIndex[k]
                                      /\ applied'[k] = applied[k]
           /\ \A k \in Server : proposals'[k] \subseteq proposals[k]
           /\ \A c \in Command :
                 replies'[c] = "success" => replies[c] = "success" \/ ChosenCommand(LL, c)'
<1>1. /\ commitIndex'[i] = n
      /\ applied'[i] = applied[i] \o SubSeq(lg, Len(applied[i]) + 1, n)
      /\ \A k \in Server \ {i} : commitIndex'[k] = commitIndex[k] /\ applied'[k] = applied[k]
      /\ \A k \in Server : proposals'[k] \subseteq proposals[k]
  BY DEF applyLogs, TypeOK
<1>2. Applies(i)'
  <2>1. PICK a \in Seq(Entry) : a = applied[i]
    BY DEF TypeOK
  <2>2. PICK x : x = applied'[i]
    OBVIOUS
  <2>3. Len(a) <= n /\ Same(a, lg, Len(a)) /\ x = Longer(a, lg, n)
    BY <1>1, <2>1, <2>2 DEF Applies, Longer
  <2>4. Len(x) = n /\ Same(x, lg, n)
    BY <2>3, AppliedMore
  <2> QED
    BY <1>1, <2>2, <2>4 DEF Applies
<1>3. ASSUME NEW c \in Command, replies'[c] = "success", replies[c] # "success"
      PROVE  ChosenCommand(LL, c)'
  <2> DEFINE done == {p \in proposals[i] : p \in props => p.index <= n}
             ok == {p \in done \cap props : p.term = getEntryTerm(lg, p.index)}
  <2>1. Answer(ok, done)
    BY DEF applyLogs
  <2>2. replies'[c] = IF \E p \in ok : p.cmd = c THEN "success"
                      ELSE IF \E p \in done : p.cmd = c THEN "failure"
                      ELSE replies[c]
    BY <2>1 DEF Answer
  <2>3. PICK p \in ok : p.cmd = c
    BY <1>3, <2>2
  <2>4. /\ p \in proposals[i] /\ p.index <= n /\ p.term = getEntryTerm(lg, p.index)
    BY <2>3
  <2>5. PICK v \in Nat, k \in Nat : v = p.term /\ k = p.index
    BY <2>4 DEF TypeOK, Proposal
  <2>6. Has(LL[v], v, k) /\ LL[v][k].cmd = c
    BY <2>3, <2>4, <2>5 DEF Proposed, Proposes
  <2>7. LL \in Ledger /\ LL[v] \in Seq(Entry) /\ Agrees(LL[v], LL)
    BY LedgerLog
  <2>8. k >= 1 /\ v > 0
    BY <2>6, <2>7, HasAgrees
  <2>9. Has(lg, v, k)
    BY <2>4, <2>5, <2>8 DEF getEntryTerm, Has
  <2>10. lg[k] = LL[v][k]
    <3>1. Same(lg, LL[v], k)
      BY <2>7, <2>9, HasAgrees
    <3> QED
      BY <2>8, <3>1 DEF Same
  <2>11. PICK t \in Nat, h \in Nat : n <= h /\ Chosen(LL, t, h)' /\ Same(lg, LL[t], n)
    BY DEF Settled
  <2>12. k \in 1..n /\ k \in 1..h
    BY <2>4, <2>5, <2>8, <2>11
  <2>13. LL[t][k].cmd = c
    BY <2>6, <2>10, <2>11, <2>12 DEF Same
  <2> QED
    BY <2>11, <2>12, <2>13 DEF ChosenCommand
<1> QED
  BY <1>1, <1>2, <1>3

\* The indexes of a leader after a reply of its term.
LEMMA LeadsReply ==
    ASSUME TypeOK, TypeOK', NEW LL, LedgerOK(LL), CommitOK(LL),
           NEW m \in msgs, m.type = "AppendReply", NEW i \in Server, i = m.to,
           m.term = currentTerm[i], state[i] = "Leader",
           nextIndex' = [nextIndex EXCEPT ![i][m.from] = m.match + 1],
           \/ matchIndex' = matchIndex
           \/ /\ m.success
              /\ matchIndex' = [matchIndex EXCEPT ![i] = [matchIndex[i] EXCEPT ![m.from] = m.match]],
           Onward, UNCHANGED <<log, state, currentTerm>>
    PROVE  Leading'
<1>1. m \in Message
  BY DEF TypeOK
<1>2. PICK f \in Server, h \in Nat : f = m.from /\ h = m.match
  BY <1>1, MessageKinds DEF AppendReplyMsg
<1>3. f # i /\ h <= Len(log[i])
  BY <1>2 DEF CommitOK, Replied, Reply, LedgerOK, LeadersHold
<1>4. /\ \A k \in Server \ {i} : matchIndex'[k] = matchIndex[k] /\ nextIndex'[k] = nextIndex[k]
      /\ nextIndex'[i][f] = h + 1
      /\ \A j \in Server \ {f} : nextIndex'[i][j] = nextIndex[i][j]
      /\ \A j \in Server \ {f} : matchIndex'[i][j] = matchIndex[i][j]
      /\ matchIndex'[i][f] = matchIndex[i][f] \/ (m.success /\ matchIndex'[i][f] = h)
  <2>1. nextIndex \in [Server -> [Server -> Nat]] /\ matchIndex \in [Server -> [Server -> Nat]]
    BY DEF TypeOK
  <2>2. /\ \A k \in Server \ {i} : nextIndex'[k] = nextIndex[k]
        /\ nextIndex'[i][f] = h + 1
        /\ \A j \in Server \ {f} : nextIndex'[i][j] = nextIndex[i][j]
    BY <1>2, <2>1
  <2>3. CASE matchIndex' = matchIndex
    BY <2>2, <2>3
  <2>4. CASE /\ m.success
             /\ matchIndex' = [matchIndex EXCEPT ![i] = [matchIndex[i] EXCEPT ![m.from] = m.match]]
    BY <1>2, <2>1, <2>2, <2>4
  <2> QED
    BY <2>3, <2>4
<1> SUFFICES ASSUME NEW k \in Server PROVE Leads(k)'
  BY DEF Leading
<1>5. Leads(k) /\ Len(log[k]) \in Nat
  BY LenProperties DEF CommitOK, Leading, TypeOK
<1>6. CASE k # i
  BY <1>4, <1>5, <1>6, LeadsKept
<1>7. CASE k = i
  <2>1. matchIndex'[i][i] = 0 /\ log'[i] # << >>
    BY <1>3, <1>4, <1>5, <1>7 DEF Leads
  <2>2. ASSUME NEW j \in Server \ {i}
        PROVE  /\ nextIndex'[i][j] <= Len(log[i]) + 1
               /\ matchIndex'[i][j] > 0 => Reported(j, currentTerm[i], matchIndex[i][j])'
    <3>1. /\ nextIndex[i][j] <= Len(log[i]) + 1
          /\ matchIndex[i][j] > 0 => Reported(j, currentTerm[i], matchIndex[i][j])
      BY <1>5, <1>7 DEF Leads
    <3>2. nextIndex'[i][j] <= Len(log[i]) + 1
      BY <1>3, <1>4, <1>5, <1>7, <3>1
    <3>3. ASSUME matchIndex'[i][j] > 0 PROVE Reported(j, currentTerm[i], matchIndex[i][j])'
      <4>1. CASE matchIndex'[i][j] = matchIndex[i][j]
        BY <3>1, <3>3, <4>1 DEF Reported, Onward
      <4>2. CASE j = f /\ m.success /\ matchIndex'[i][f] = h
        BY <1>2, <4>2 DEF Reported, Onward
      <4> QED
        BY <1>4, <4>1, <4>2
    <3> QED
      BY <3>2, <3>3
  <2> QED
    BY <1>7, <2>1, <2>2 DEF Leads
<1> QED
  BY <1>6, <1>7

\* The commit index of a leader moves to an entry that a majority acknowledged.
LEMMA CommitToChosen ==
    ASSUME TypeOK, VoteInv, NEW LL, LedgerOK(LL), CommitOK(LL),
           NEW m \in msgs, m.type = "AppendReply", m.success, NEW i \in Server, i = m.to,
           NEW u \in Nat, u = currentTerm[i], m.term = u, state[i] = "Leader",
           NEW mi, mi = [matchIndex[i] EXCEPT ![m.from] = m.match],
           NEW n, n = CommitTo(i, mi), n > commitIndex[i]
    PROVE  n \in Nat /\ n <= Len(log[i]) /\ Chosen(LL, u, n) /\ Same(log[i], LL[u], n)
<1>0. commitIndex[i] \in Nat /\ Len(log[i]) \in Nat /\ log[i] \in Seq(Entry)
  BY LenProperties DEF TypeOK
<1>1. n \in Nat /\ n <= Len(log[i])
  BY CommitToType
<1> DEFINE S == {commitIndex[i]} \cup {k \in (commitIndex[i] + 1)..Len(log[i]) :
                    /\ getEntryTerm(log[i], k) = currentTerm[i]
                    /\ checkCommitMajority(i, mi, k)}
<1>2. n \in S
  <2>1. n = Max(S)
    BY DEF CommitTo
  <2>2. S \subseteq Nat /\ S # {}
    BY <1>0
  <2>3. \A k \in S : k <= commitIndex[i] + Len(log[i])
    BY <1>0
  <2>4. commitIndex[i] + Len(log[i]) \in Nat
    BY <1>0
  <2> HIDE DEF S
  <2> QED
    BY <2>1, <2>2, <2>3, <2>4, MaxOfNats
<1>3. /\ getEntryTerm(log[i], n) = u /\ checkCommitMajority(i, mi, n)
      /\ n \in 1..Len(log[i])
  BY <1>0, <1>1, <1>2
<1> HIDE DEF S
<1>4. log[i] = LL[u]
  BY DEF LedgerOK, LeadersHold
<1>5. Has(LL[u], u, n)
  BY <1>3, <1>4 DEF Has, getEntryTerm
<1> DEFINE Q == {i} \cup {j \in Server : mi[j] >= n}
<1>6. HasMajority(Config(i), i, Q) /\ Q \in SUBSET Server
  BY <1>3 DEF checkCommitMajority
<1>7. ASSUME NEW j \in Q PROVE Acknowledged(j, u, n)
  <2>1. CASE j = i
    BY <2>1 DEF VoteInv, LeadersElected, Acknowledged
  <2>2. CASE j # i
    <3>1. j \in Server /\ mi[j] >= n
      BY <2>2
    <3>2. matchIndex[i] \in [Server -> Nat] /\ matchIndex[i][j] \in Nat
      BY <3>1 DEF TypeOK
    <3>3. CASE j = m.from
      BY <3>1, <3>2, <3>3 DEF Acknowledged
    <3>4. CASE j # m.from
      <4>1. mi[j] = matchIndex[i][j]
        BY <3>1, <3>2, <3>4
      <4>2. matchIndex[i][j] > 0 /\ matchIndex[i][j] >= n
        BY <1>3, <3>1, <3>2, <4>1
      <4>3. Reported(j, u, matchIndex[i][j])
        BY <2>2, <3>1, <4>2 DEF CommitOK, Leading, Leads
      <4> QED
        BY <4>2, <4>3 DEF Reported, Acknowledged
    <3> QED
      BY <3>3, <3>4
  <2> QED
    BY <2>1, <2>2
<1> HIDE DEF Q
<1>8. Chosen(LL, u, n)
  BY <1>5, <1>6, <1>7 DEF Chosen
<1>9. Same(log[i], LL[u], n)
  BY <1>0, <1>3, <1>4 DEF Same
<1> QED
  BY <1>1, <1>8, <1>9

LEMMA AppendReplyCommit ==
    ASSUME TypeOK, TypeOK', VoteInv, NEW LL, LedgerOK(LL), CommitOK(LL),
           NEW m \in msgs, HandleAppendReply(m)
    PROVE  CommitOK(LL)'
<1> USE DEF logVars, leaderVars, clientVars, history
<1> DEFINE i == m.to
<1>0. Extends(LL, LL)
  BY ExtendsItself
<1>1. m \in Message /\ m.type = "AppendReply" /\ UNCHANGED <<wal, msgs, ballots, elections>>
  BY DEF TypeOK, HandleAppendReply
<1>2. i \in Server /\ m.term \in Nat /\ currentTerm[i] \in Nat
  <2>1. m.to \in Server /\ m \in AppendReplyMsg
    BY <1>1, MessageKinds
  <2> QED
    BY <2>1 DEF AppendReplyMsg, TypeOK
<1>3. CASE /\ m.term > currentTerm[i] /\ transitionToFollower(i, m.term)
           /\ UNCHANGED <<log, commitIndex, applied, matchIndex, nextIndex>>
  BY <1>1, <1>2, <1>3, StepDownCommit
<1>4. CASE /\ m.term = currentTerm[i] /\ state[i] = "Leader"
           /\ nextIndex' = [nextIndex EXCEPT ![i][m.from] = m.match + 1]
           /\ UNCHANGED <<log, state, currentTerm, votedFor>>
           /\ \/ /\ m.success
                 /\ matchIndex' = [matchIndex EXCEPT ![i] =
                                      [matchIndex[i] EXCEPT ![m.from] = m.match]]
                 /\ LET c == CommitTo(i, [matchIndex[i] EXCEPT ![m.from] = m.match])
                    IN  IF c > commitIndex[i] THEN applyLogs(i, log[i], c, proposals[i])
                        ELSE UNCHANGED <<commitIndex, applied, clientVars>>
              \/ ~m.success /\ UNCHANGED <<matchIndex, commitIndex, applied, clientVars>>
  <2>1. Onward /\ \A k \in Server : wal'[k].term >= wal[k].term
    <3>1. \A k \in Server : currentTerm[k] \in Nat /\ wal[k].term \in Nat
      BY DEF TypeOK
    <3>2. UNCHANGED <<currentTerm, wal, msgs, ballots, elections>>
      BY <1>1, <1>4
    <3> QED
      BY <3>1, <3>2 DEF Onward
  <2>2. Leading'
    <3>1. \/ matchIndex' = matchIndex
          \/ /\ m.success
             /\ matchIndex' = [matchIndex EXCEPT ![i] = [matchIndex[i] EXCEPT ![m.from] = m.match]]
      BY <1>4
    <3> QED
      BY <1>1, <1>2, <1>4, <2>1, <3>1, LeadsReply
  <2>3. Candidacies(LL)'
    BY <1>0, <1>1, <1>4, <2>1, CandidaciesKept DEF CommitOK
  <2>4. NewAcks(LL, LL)
    BY <1>1, NoNewAcks
  <2>5. Voted(LL)'
    BY <1>0, <1>1, <2>1, <2>4, VotedKept DEF CommitOK
  <2>6. CASE UNCHANGED <<commitIndex, applied, proposals, replies>>
    BY <1>1, <1>4, <2>1, <2>2, <2>3, <2>5, <2>6, QuietCommit
  <2>7. CASE ~UNCHANGED <<commitIndex, applied, proposals, replies>>
    <3>1. PICK mi : mi = [matchIndex[i] EXCEPT ![m.from] = m.match]
      OBVIOUS
    <3>2. PICK n : n = CommitTo(i, mi)
      OBVIOUS
    <3>3. m.success /\ n > commitIndex[i] /\ applyLogs(i, log[i], n, proposals[i])
      BY <1>4, <2>7, <3>1, <3>2
    <3>4. PICK u \in Nat : u = currentTerm[i]
      BY <1>2
    <3>5. PICK lg \in Seq(Entry) : lg = log[i]
      BY <1>2 DEF TypeOK
    <3>6. n \in Nat /\ n <= Len(lg) /\ Chosen(LL, u, n) /\ Same(lg, LL[u], n)
      BY <1>1, <1>2, <1>4, <3>1, <3>2, <3>3, <3>4, <3>5, CommitToChosen
    <3>7. Settled(LL, lg, n, u)
      BY <3>6 DEF Settled
    <3>9. Same(lg, lg, n)
      BY <3>6 DEF Same
    <3>10. Settled(LL, lg, n, u)'
      BY <1>0, <2>1, <3>6, <3>7, <3>9, SettledStays
    <3>11. Applies(i) /\ Agrees(lg, LL) /\ Proposed(LL)
      BY <1>2, <3>5, NodeLog DEF CommitOK, AppliedIs
    <3>12. Same(applied[i], lg, commitIndex[i]) /\ commitIndex[i] <= n
      BY <1>2, <3>3, <3>5, <3>6, <3>11 DEF Applies, TypeOK
    <3>13. applyLogs(i, lg, n, proposals[i]) /\ log'[i] = lg
      BY <1>4, <3>3, <3>5
    <3>14. /\ Applies(i)' /\ commitIndex'[i] = n
           /\ \A k \in Server \ {i} : /\ commitIndex'[k] = commitIndex[k]
                                      /\ applied'[k] = applied[k]
           /\ \A k \in Server : proposals'[k] \subseteq proposals[k]
           /\ \A c \in Command :
                 replies'[c] = "success" => replies[c] = "success" \/ ChosenCommand(LL, c)'
      BY <1>2, <3>6, <3>10, <3>11, <3>12, <3>13, applyLogsCommit
    <3>15. TermsReached' /\ Requested(LL)' /\ Replied(LL)' /\ Kept(LL)'
      BY <1>0, <1>1, <1>4, <2>1, <2>4, TermsReachedKept, RequestedKept, RepliedKept,
         KeptKept DEF CommitOK
    <3>16. ASSUME NEW k \in Server PROVE Commits(LL, k)' /\ Applies(k)'
      <4>1. CASE k = i
        BY <1>4, <3>4, <3>5, <3>10, <3>13, <3>14, <4>1 DEF Commits
      <4>2. CASE k # i
        <5>1. Applies(k) /\ Commits(LL, k) /\ Len(log[k]) \in Nat /\ commitIndex[k] \in Nat
          BY LenProperties DEF CommitOK, AppliedIs, Committed, TypeOK
        <5>2. Same(log[k], log'[k], commitIndex[k])
          BY <1>4, <5>1 DEF Applies, Same
        <5> QED
          BY <1>0, <2>1, <3>14, <4>2, <5>1, <5>2, CommitsKept, AppliesKept
      <4> QED
        BY <4>1, <4>2
    <3>17. Proposed(LL)'
      BY <1>0, <3>11, <3>14, ProposedKept
    <3>18. Told(LL)'
      BY <1>0, <2>1, <3>14, ChosenCommandStays DEF Told, CommitOK
    <3> QED
      BY <2>2, <2>3, <2>5, <3>15, <3>16, <3>17, <3>18 DEF CommitOK, Committed, AppliedIs
  <2> QED
    BY <2>6, <2>7
<1> QED
  BY <1>3, <1>4 DEF HandleAppendReply
-----------------------------------------------------------------------------
(***************************************************************************)
(* What a request to append does to the log of a follower.                 *)
(***************************************************************************)
\* The log lg is cut where it first differs from the leader's log ll, and x has
\* taken its place.
Cut(lg, x, ll) ==
    \E p \in Nat : /\ p >= 1 /\ p - 1 <= Len(x) /\ p <= Len(ll)
                   /\ Same(lg, ll, p - 1) /\ ~Has(lg, ll[p].term, p)

LEMMA AppendedCut ==
    ASSUME NEW LL \in Ledger, NEW lg \in Seq(Entry), Agrees(lg, LL),
           NEW m \in AppendEntriesMsg, Agrees(LL[m.term], LL),
           Carries(m, LL[m.term]), PrevMatches(lg, m)
    PROVE  \/ AppendedLog(lg, m) = lg
           \/ Cut(lg, AppendedLog(lg, m), LL[m.term])
<1> SUFFICES ASSUME NewEntries(lg, m) # {} PROVE Cut(lg, AppendedLog(lg, m), LL[m.term])
  BY DEF AppendedLog
<1>0. /\ m.prevIndex \in Nat /\ m.term \in Nat /\ Len(m.entries) \in Nat
      /\ LL[m.term] \in Seq(Entry)
  BY LenProperties DEF AppendEntriesMsg, Ledger
<1> DEFINE f == FirstNew(lg, m)
           p == m.prevIndex + f
           q == Len(m.entries) - f + 1
           x == SubSeq(lg, 1, p - 1) \o SubSeq(m.entries, f, f + q - 1)
<1>1. f \in 1..Len(m.entries)
  BY FirstNewBounds
<1>2. q \in 0..(Len(m.entries) - FirstNew(lg, m) + 1)
  BY <1>0, <1>1
<1>3. /\ Len(x) = p - 1 + q
      /\ Same(lg, LL[m.term], p - 1) /\ p \in 1..Len(LL[m.term])
      /\ ~Has(lg, LL[m.term][p].term, p)
  <2> HIDE DEF q
  <2> QED
    BY <1>2, Written
<1>4. f + q - 1 = Len(m.entries) /\ p - 1 = m.prevIndex + f - 1 /\ p \in Nat /\ q \in Nat
  <2> HIDE DEF f
  <2>1. f \in Int /\ f >= 1 /\ f <= Len(m.entries)
    BY <1>1
  <2> QED
    BY <1>0, <2>1
<1>5. AppendedLog(lg, m) = x
  <2>1. AppendedLog(lg, m) = SubSeq(lg, 1, m.prevIndex + f - 1)
                             \o SubSeq(m.entries, f, Len(m.entries))
    BY DEF AppendedLog
  <2> HIDE DEF f, p, q
  <2> QED
    BY <1>4, <2>1
<1> HIDE DEF f, p, q, x
<1>6. p - 1 <= Len(x) /\ p >= 1 /\ p <= Len(LL[m.term])
  BY <1>0, <1>3, <1>4, LenProperties
<1> QED
  BY <1>3, <1>4, <1>5, <1>6 DEF Cut

\* An entry behind the cut is overruled by the leader of term u.
LEMMA CutLoses ==
    ASSUME NEW LL \in Ledger, NEW lg \in Seq(Entry), Agrees(lg, LL), NEW u \in Nat,
           LL[u] \in Seq(Entry), Agrees(LL[u], LL), NEW x \in Seq(Entry),
           Same(x, LL[u], Len(x)), Cut(lg, x, LL[u]),
           NEW t \in Nat, NEW n \in Nat, t <= u, Has(lg, t, n)
    PROVE  Has(x, t, n) \/ Overruled(LL, t, n, u)
<1>0. Len(lg) \in Nat /\ Len(x) \in Nat /\ Len(LL[u]) \in Nat
  BY LenProperties
<1>1. PICK p \in Nat : /\ p >= 1 /\ p - 1 <= Len(x) /\ p <= Len(LL[u])
                       /\ Same(lg, LL[u], p - 1) /\ ~Has(lg, LL[u][p].term, p)
  BY DEF Cut
<1>2. n \in 1..Len(lg) /\ n >= 1 /\ lg[n].term = t
  BY DEF Has
<1>3. CASE n <= p - 1
  <2>1. n \in 1..(p - 1)
    BY <1>1, <1>2, <1>3
  <2>2. lg[n] = LL[u][n]
    BY <1>1, <2>1 DEF Same
  <2>3. n \in 1..Len(x)
    BY <1>0, <1>1, <2>1
  <2>4. x[n] = LL[u][n]
    BY <2>3 DEF Same
  <2> QED
    BY <1>2, <2>2, <2>3, <2>4 DEF Has
<1>4. CASE p <= n
  <2>1. ~Has(LL[u], t, n)
    <3> SUFFICES ASSUME Has(LL[u], t, n) PROVE FALSE
      OBVIOUS
    <3>1. Same(lg, LL[u], n)
      BY SameTermSame
    <3>2. p \in 1..n /\ p \in 1..Len(lg)
      BY <1>0, <1>1, <1>2, <1>4
    <3>3. lg[p] = LL[u][p]
      BY <3>1, <3>2 DEF Same
    <3> QED
      BY <1>1, <3>2, <3>3 DEF Has
  <2>2. t # u
    BY <2>1, HasAgrees
  <2>3. LL[u] # << >>
    <3>1. Len(<< >>) = 0
      OBVIOUS
    <3> QED
      BY <1>0, <1>1, <3>1
  <2>4. t < u
    BY <2>2
  <2> QED
    BY <2>1, <2>3, <2>4 DEF Overruled
<1> QED
  BY <1>1, <1>3, <1>4

\* What is the leader's is before the cut.
LEMMA CutKeeps ==
    ASSUME NEW lg \in Seq(Entry), NEW x \in Seq(Entry), NEW ll \in Seq(Entry),
           Same(x, ll, Len(x)), Cut(lg, x, ll), NEW c \in Nat, Same(lg, ll, c)
    PROVE  Same(lg, x, c)
<1>0. Len(lg) \in Nat /\ Len(x) \in Nat /\ Len(ll) \in Nat
  BY LenProperties
<1>1. PICK p \in Nat : p >= 1 /\ p - 1 <= Len(x) /\ p <= Len(ll) /\ ~Has(lg, ll[p].term, p)
  BY DEF Cut
<1>2. c < p
  <2> SUFFICES ASSUME p <= c PROVE FALSE
    BY <1>1
  <2>1. p \in 1..c /\ p \in 1..Len(lg) /\ lg[p] = ll[p]
    BY <1>0, <1>1 DEF Same
  <2> QED
    BY <1>1, <2>1 DEF Has
<1>3. c <= Len(x)
  BY <1>0, <1>1, <1>2
<1>4. Same(x, ll, c)
  BY <1>0, <1>3, SameShorter
<1> QED
  BY <1>4, SameSym, SameTrans

\* The log of a follower after an accepted request is all of the leader's, and
\* ends with an entry of the leader's term.
LEMMA AcceptedLog ==
    ASSUME TypeOK, NEW LL, LedgerOK(LL), CommitOK(LL),
           NEW m \in msgs, m.type = "AppendEntries", NEW i \in Server, i = m.to,
           NEW u \in Nat, u = m.term, currentTerm[i] <= u, PrevMatches(log[i], m),
           NEW lg, lg = AppendedLog(log[i], m)
    PROVE  /\ lg \in Seq(Entry) /\ Len(lg) \in Nat /\ Agrees(lg, LL)
           /\ Same(lg, LL[u], Len(lg)) /\ Has(LL[u], u, Len(lg)) /\ LL[u] # << >>
           /\ lg = log[i] \/ Cut(log[i], lg, LL[u])
<1>1. /\ m \in AppendEntriesMsg /\ LL \in Ledger /\ LL[u] \in Seq(Entry)
      /\ Agrees(LL[u], LL) /\ Carries(m, LL[u])
      /\ log[i] \in Seq(Entry) /\ Agrees(log[i], LL)
  BY RequestFacts
<1>2. PICK h : h = m.prevIndex + Len(m.entries)
  OBVIOUS
<1>3. /\ lg \in Seq(Entry) /\ Agrees(lg, LL) /\ Same(lg, LL[u], h)
      /\ lg = log[i] \/ Len(lg) = h
  BY <1>1, <1>2, AppendedLogLedger
<1>4. lg = log[i] \/ Cut(log[i], lg, LL[u])
  BY <1>1, AppendedCut
<1>5. Has(LL[u], u, h)
  BY <1>2 DEF CommitOK, Requested, Request
<1>6. h \in Nat /\ h >= 1
  BY <1>1, <1>5, HasAgrees
<1>7. LL[u] # << >> /\ Len(lg) \in Nat
  <2>1. Len(<< >>) = 0
    OBVIOUS
  <2> QED
    BY <1>3, <1>5, <2>1, LenProperties DEF Has
<1>8. Same(lg, LL[u], Len(lg)) /\ Has(LL[u], u, Len(lg))
  <2>1. CASE Len(lg) = h
    BY <1>3, <1>5, <2>1
  <2>2. CASE lg = log[i]
    <3>1. Same(LL[u], lg, h) /\ h \in 1..h
      BY <1>3, <1>6, SameSym
    <3>2. Has(lg, u, h)
      BY <1>1, <1>3, <1>5, <1>6, <3>1, SameHas
    <3>3. h \in 1..Len(lg) /\ Len(lg) \in 1..Len(lg) /\ h <= Len(lg) /\ lg[h].term = u
      BY <1>6, <1>7, <3>2 DEF Has
    <3>4. lg[h].term <= lg[Len(lg)].term
      BY <1>1, <1>3, <3>3, LogOrdered DEF CommitOK
    <3>5. lg[Len(lg)].term <= currentTerm[i] /\ currentTerm[i] \in Nat
      BY <2>2, <3>3 DEF CommitOK, TermsReached, TypeOK
    <3>6. lg[Len(lg)].term \in Nat
      BY <1>3, <3>3, EntryAt
    <3>7. lg[Len(lg)].term = u
      BY <3>3, <3>4, <3>5, <3>6
    <3>8. Has(lg, u, Len(lg))
      BY <3>3, <3>7 DEF Has
    <3> QED
      BY <1>1, <1>3, <3>8, HasAgrees
  <2> QED
    BY <1>3, <2>1, <2>2
<1> QED
  BY <1>3, <1>4, <1>7, <1>8

\* All entries of a log that is the leader's are of its term or an earlier one.
LEMMA PrefixTerms ==
    ASSUME NEW LL \in Ledger, Ordered(LL), NEW u \in Nat, NEW lg \in Seq(Entry),
           Same(lg, LL[u], Len(lg)), NEW n \in 1..Len(lg)
    PROVE  lg[n].term <= u
<1>1. LL[u] \in Seq(Entry) /\ Len(LL[u]) \in Nat /\ Len(lg) \in Nat
  BY LenProperties DEF Ledger
<1>2. n \in 1..Len(LL[u]) /\ lg[n] = LL[u][n]
  BY <1>1 DEF Same
<1> QED
  BY <1>2, LedgerTerms

\* What a node has committed is in the log of a leader of its term or later.
LEMMA CommittedSame ==
    ASSUME Odd(Cardinality(Server)), TypeOK, VoteInv, NEW LL, LedgerOK(LL), CommitOK(LL),
           NEW i \in Server, NEW u \in Nat, currentTerm[i] <= u, LL[u] # << >>
    PROVE  Same(log[i], LL[u], commitIndex[i])
<1>0. /\ commitIndex[i] \in Nat /\ currentTerm[i] \in Nat /\ log[i] \in Seq(Entry)
      /\ Len(log[i]) \in Nat /\ LL[u] \in Seq(Entry) /\ Len(LL[u]) \in Nat
  BY LenProperties, LedgerLog DEF TypeOK
<1>1. CASE commitIndex[i] = 0
  BY <1>0, <1>1 DEF Same
<1>2. CASE commitIndex[i] > 0
  <2>1. PICK t \in Nat, k \in Nat : /\ t <= currentTerm[i] /\ commitIndex[i] <= k
                                    /\ Chosen(LL, t, k) /\ Same(log[i], LL[t], commitIndex[i])
    BY <1>2 DEF CommitOK, Committed, Commits, Settled
  <2>2. t <= u
    BY <1>0, <2>1
  <2>3. Same(LL[u], LL[t], k)
    BY <2>1, <2>2, ChosenSame
  <2>4. LL[t] \in Seq(Entry)
    BY LedgerLog
  <2>5. Same(LL[u], LL[t], commitIndex[i])
    BY <1>0, <2>1, <2>3, <2>4, SameShorter
  <2> QED
    BY <2>1, <2>5, SameSym, SameTrans
<1> QED
  BY <1>0, <1>1, <1>2
-----------------------------------------------------------------------------
(***************************************************************************)
(* processAppendEntries.                                                   *)
(***************************************************************************)
\* What holds whether the request is refused or accepted.
LEMMA AppendEntriesCalm ==
    ASSUME Odd(Cardinality(Server)), TypeOK, TypeOK', VoteInv, NEW LL, LedgerOK(LL),
           CommitOK(LL), NEW m \in msgs, HandleAppendEntries(m)
    PROVE  /\ Onward /\ Candidacies(LL)' /\ Requested(LL)' /\ Leading'
           /\ UNCHANGED <<wal, matchIndex, nextIndex, ballots, elections>>
<1> USE DEF nodeVars, logVars, leaderVars, history
<1> DEFINE i == m.to
<1>0. Extends(LL, LL)
  BY ExtendsItself
<1>1. /\ i \in Server /\ m.term \in Nat /\ currentTerm[i] \in Nat
      /\ m.type = "AppendEntries"
  BY MessageKinds DEF TypeOK, HandleAppendEntries, AppendEntriesMsg
<1>2. UNCHANGED <<wal, matchIndex, nextIndex, ballots, elections>>
  BY DEF HandleAppendEntries
<1>3. /\ msgs \subseteq msgs'
      /\ \A n \in msgs' : n.type # "AppendReply" => n \in msgs
  BY DEF HandleAppendEntries, AppendReply
<1>4. \/ m.term < currentTerm[i] /\ UNCHANGED <<state, currentTerm, log>>
      \/ /\ m.term >= currentTerm[i]
         /\ state' = [state EXCEPT ![i] = IF StepsDown(m, i) THEN "Follower" ELSE @]
         /\ currentTerm' = [currentTerm EXCEPT ![i] = m.term]
         /\ log' = log \/ \E x : log' = [log EXCEPT ![i] = x]
  BY DEF HandleAppendEntries
<1>5. \A k \in Server : /\ currentTerm[k] \in Nat /\ wal[k].term \in Nat
                        /\ state[k] \in {"Follower", "Candidate", "Leader"}
  BY DEF TypeOK
<1>6. /\ state \in [Server -> {"Follower", "Candidate", "Leader"}]
      /\ currentTerm \in [Server -> Nat] /\ log \in [Server -> Seq(Entry)]
  BY DEF TypeOK
<1>7. ASSUME NEW k \in Server
      PROVE  /\ currentTerm'[k] >= currentTerm[k]
             /\ state'[k] = "Candidate" =>
                   /\ state[k] = "Candidate" /\ currentTerm'[k] = currentTerm[k]
                   /\ log'[k] = log[k]
  <2>1. CASE m.term < currentTerm[i]
    BY <1>1, <1>4, <1>5, <2>1
  <2>2. CASE m.term >= currentTerm[i] /\ k # i
    BY <1>1, <1>4, <1>5, <1>6, <2>2
  <2>3. CASE m.term >= currentTerm[i] /\ k = i
    <3>1. /\ state'[i] = IF StepsDown(m, i) THEN "Follower" ELSE state[i]
          /\ currentTerm'[i] = m.term
      BY <1>1, <1>4, <1>6, <2>3
    <3>2. state'[i] # "Candidate"
      BY <3>1 DEF StepsDown
    <3> QED
      BY <2>3, <3>1, <3>2
  <2> QED
    BY <1>1, <2>1, <2>2, <2>3
<1>8. Onward
  BY <1>2, <1>3, <1>7 DEF Onward
<1>9. Candidacies(LL)'
  <2>1. \A k \in Server : wal'[k].term >= wal[k].term
    BY <1>2, <1>5
  <2> QED
    BY <1>0, <1>2, <1>3, <1>7, <2>1, CandidaciesKept DEF CommitOK
<1>10. Requested(LL)'
  BY <1>0, <1>3, <1>8, RequestedKept DEF CommitOK
<1>11. ASSUME NEW k \in Server PROVE Leads(k)'
  <2>1. Leads(k) /\ Len(log[k]) \in Nat
    BY <1>6, LenProperties DEF CommitOK, Leading
  <2>2. state'[k] = "Leader" => /\ state[k] = "Leader" /\ currentTerm'[k] = currentTerm[k]
                                /\ Len(log[k]) <= Len(log'[k])
    BY <2>1, LeaderRefuses
  <2> QED
    BY <1>2, <1>8, <2>1, <2>2, LeadsKept
<1> QED
  BY <1>2, <1>8, <1>9, <1>10, <1>11 DEF Leading

\* A request that is stale or does not match the log.
LEMMA RefuseCommit ==
    ASSUME Odd(Cardinality(Server)), TypeOK, TypeOK', VoteInv, NEW LL, LedgerOK(LL),
           CommitOK(LL), NEW m \in msgs, HandleAppendEntries(m),
           NEW v \in Nat, NEW x, AppendReply(m, v, FALSE, x),
           x \in Nat => x <= Len(LL[v]),
           UNCHANGED <<log, commitIndex, applied>>,
           \A k \in Server : proposals'[k] \subseteq proposals[k],
           \A c \in Command : replies'[c] = "success" => replies[c] = "success"
    PROVE  CommitOK(LL)'
<1>0. Extends(LL, LL)
  BY ExtendsItself
<1>1. /\ Onward /\ Candidacies(LL)' /\ Requested(LL)' /\ Leading'
      /\ UNCHANGED <<ballots, elections>>
  BY AppendEntriesCalm
<1>2. m.type = "AppendEntries" /\ m.from # m.to
  BY DEF HandleAppendEntries, VoteInv, LeadersElected
<1>3. PICK r : /\ r.type = "AppendReply" /\ r.from = m.to /\ r.to = m.from
               /\ r.term = v /\ r.success = FALSE /\ r.match = x
               /\ msgs' = msgs \cup {r}
  BY DEF AppendReply
<1>4. r \in Message
  BY <1>3 DEF TypeOK
<1>5. x \in Nat
  BY <1>3, <1>4, MessageKinds DEF AppendReplyMsg
<1>6. Reply(LL, r)
  BY <1>2, <1>3, <1>5 DEF Reply
<1>7. Replied(LL)'
  BY <1>3, <1>6 DEF CommitOK, Replied, Reply
<1>8. \A n \in msgs' : n.type = "AppendReply" /\ n.success => n \in msgs
  BY <1>3
<1>9. Voted(LL)'
  <2>1. NewAcks(LL, LL)
    BY <1>1, <1>8, NoNewAcks
  <2> QED
    BY <1>0, <1>1, <2>1, VotedKept DEF CommitOK
<1> QED
  BY <1>1, <1>7, <1>8, <1>9, CalmCommit

\* The log of node i becomes lg, which is the leader's of term u.
LEMMA ReplacedLog ==
    ASSUME TypeOK, NEW LL, LedgerOK(LL), CommitOK(LL), NEW i \in Server, NEW u \in Nat,
           currentTerm[i] <= u, currentTerm'[i] = u,
           \A k \in Server : currentTerm'[k] \in Nat /\ currentTerm'[k] >= currentTerm[k],
           NEW lg \in Seq(Entry), Same(lg, LL[u], Len(lg)),
           lg = log[i] \/ Cut(log[i], lg, LL[u]),
           log'[i] = lg, \A k \in Server \ {i} : log'[k] = log[k]
    PROVE  TermsReached' /\ \A j \in Server : log'[j] = log[j] \/ LosesOverruled(LL, j)
<1>2. LL \in Ledger /\ LL[u] \in Seq(Entry) /\ Agrees(LL[u], LL)
  BY LedgerLog
<1>3. ASSUME NEW k \in Server, NEW n \in 1..Len(log'[k])
      PROVE  log'[k][n].term <= currentTerm'[k]
  <2>1. CASE k = i
    BY <1>2, <2>1, PrefixTerms DEF CommitOK
  <2>2. CASE k # i
    <3>1. log'[k] = log[k] /\ log[k] \in Seq(Entry) /\ currentTerm[k] \in Nat
      BY <2>2 DEF TypeOK
    <3>2. log[k][n].term \in Nat /\ log[k][n].term <= currentTerm[k]
      BY <3>1, EntryAt DEF CommitOK, TermsReached
    <3> QED
      BY <3>1, <3>2
  <2> QED
    BY <2>1, <2>2
<1>4. ASSUME lg # log[i] PROVE LosesOverruled(LL, i)
  <2> SUFFICES ASSUME NEW t \in Nat, NEW n \in Nat, Has(log[i], t, n)
               PROVE  Has(lg, t, n) \/ Overruled(LL, t, n, u)
    BY DEF LosesOverruled
  <2>1. log[i] \in Seq(Entry) /\ Agrees(log[i], LL) /\ currentTerm[i] \in Nat
    BY NodeLog DEF TypeOK
  <2>2. t <= currentTerm[i]
    BY DEF CommitOK, TermsReached, Has
  <2>3. t <= u
    BY <2>1, <2>2
  <2> QED
    BY <1>2, <1>4, <2>1, <2>3, CutLoses
<1> QED
  BY <1>3, <1>4 DEF TermsReached

\* The request is accepted.  The follower's log is the leader's, up to an entry
\* of the leader's term, and nothing that it has committed is cut off.
LEMMA AcceptCommit ==
    ASSUME Odd(Cardinality(Server)), TypeOK, TypeOK', VoteInv, NEW LL, LedgerOK(LL),
           CommitOK(LL), NEW m \in msgs, HandleAppendEntries(m),
           NEW i \in Server, i = m.to, NEW u \in Nat, u = m.term, currentTerm[i] <= u,
           PrevMatches(log[i], m), NEW lg, lg = AppendedLog(log[i], m),
           log' = [log EXCEPT ![i] = lg], currentTerm' = [currentTerm EXCEPT ![i] = u],
           AppendReply(m, u, TRUE, Len(lg)),
           \/ /\ UNCHANGED <<commitIndex, applied>>
              /\ \A k \in Server : proposals'[k] \subseteq proposals[k]
              /\ \A c \in Command : replies'[c] = "success" => replies[c] = "success"
           \/ /\ m.leaderCommit > commitIndex[i]
              /\ \E props : /\ props \subseteq proposals[i]
                            /\ applyLogs(i, lg, Min({m.leaderCommit, Len(lg)}), props)
    PROVE  CommitOK(LL)'
<1>0. Extends(LL, LL) /\ LL \in Ledger /\ LL[u] \in Seq(Entry) /\ Len(LL[u]) \in Nat
  BY ExtendsItself, LedgerLog
<1>1. /\ Onward /\ Candidacies(LL)' /\ Requested(LL)' /\ Leading'
      /\ UNCHANGED <<ballots, elections>>
  BY AppendEntriesCalm
<1>2. m.type = "AppendEntries" /\ m.from # m.to
  BY DEF HandleAppendEntries, VoteInv, LeadersElected
<1>3. /\ lg \in Seq(Entry) /\ Len(lg) \in Nat /\ Agrees(lg, LL)
      /\ Same(lg, LL[u], Len(lg)) /\ Has(LL[u], u, Len(lg)) /\ LL[u] # << >>
      /\ lg = log[i] \/ Cut(log[i], lg, LL[u])
  BY <1>2, AcceptedLog
<1>4. PICK r : /\ r.type = "AppendReply" /\ r.from = i /\ r.to = m.from
               /\ r.term = u /\ r.success = TRUE /\ r.match = Len(lg)
               /\ msgs' = msgs \cup {r}
  BY DEF AppendReply
<1>5. Replied(LL)'
  <2>1. Reply(LL, r)
    BY <1>0, <1>2, <1>3, <1>4 DEF Reply, Same
  <2> QED
    BY <1>4, <2>1 DEF CommitOK, Replied, Reply
<1>6. currentTerm[i] \in Nat /\ currentTerm'[i] = u
      /\ \A k \in Server : currentTerm'[k] \in Nat /\ currentTerm'[k] >= currentTerm[k]
  <2>1. currentTerm \in [Server -> Nat]
    BY DEF TypeOK
  <2> QED
    BY <1>1, <2>1 DEF Onward
<1>7. /\ TermsReached' /\ \A j \in Server : log'[j] = log[j] \/ LosesOverruled(LL, j)
      /\ log'[i] = lg /\ \A k \in Server \ {i} : log'[k] = log[k]
  <2>1. log'[i] = lg /\ \A k \in Server \ {i} : log'[k] = log[k]
    BY DEF TypeOK
  <2> QED
    BY <1>3, <1>6, <2>1, ReplacedLog
<1>8. NewAcks(LL, LL)
  <2> SUFFICES ASSUME NEW j \in Server, NEW t \in Nat, NEW n \in Nat,
                      Has(LL[t], t, n), Acknowledged(j, t, n)', ~Acknowledged(j, t, n)
               PROVE  currentTerm[j] <= t /\ t <= currentTerm'[j] /\ Has(log'[j], t, n)
    BY DEF NewAcks
  <2>1. PICK a \in msgs' : /\ a.type = "AppendReply" /\ a.success
                           /\ a.from = j /\ a.term = t /\ a.match >= n
    BY <1>1 DEF Acknowledged, Elected
  <2>2. a = r
    BY <1>4, <2>1 DEF Acknowledged
  <2>3. j = i /\ t = u /\ n <= Len(lg)
    BY <1>3, <1>4, <2>1, <2>2
  <2>4. Has(lg, u, n)
    BY <1>0, <1>3, <2>3 DEF Has, Same
  <2> QED
    BY <1>6, <1>7, <2>3, <2>4
<1>9. Kept(LL)' /\ Voted(LL)'
  BY <1>0, <1>1, <1>7, <1>8, KeptKept, VotedKept DEF CommitOK
<1>10. PICK c \in Nat : c = commitIndex[i]
  BY DEF TypeOK
<1>11. log[i] \in Seq(Entry) /\ Len(log[i]) \in Nat /\ Same(log[i], lg, c)
  <2>1. log[i] \in Seq(Entry) /\ Len(log[i]) \in Nat
    BY NodeLog
  <2>2. Same(log[i], LL[u], c)
    BY <1>3, <1>10, CommittedSame
  <2>3. CASE lg = log[i]
    BY <1>3, <1>10, <2>1, <2>2, <2>3 DEF Same
  <2>4. CASE Cut(log[i], lg, LL[u])
    BY <1>0, <1>3, <1>10, <2>1, <2>2, <2>4, CutKeeps
  <2> QED
    BY <1>3, <2>1, <2>3, <2>4
<1>12. ASSUME NEW k \in Server, commitIndex'[k] = commitIndex[k], applied'[k] = applied[k]
       PROVE  Commits(LL, k)' /\ Applies(k)'
  <2>1. Applies(k) /\ Commits(LL, k) /\ Len(log[k]) \in Nat /\ commitIndex[k] \in Nat
    BY LenProperties DEF CommitOK, AppliedIs, Committed, TypeOK
  <2>2. Same(log[k], log'[k], commitIndex[k])
    <3>1. CASE k = i
      BY <1>7, <1>10, <1>11, <3>1
    <3>2. CASE k # i
      BY <1>7, <2>1, <3>2 DEF Applies, Same
    <3> QED
      BY <3>1, <3>2
  <2> QED
    BY <1>0, <1>1, <1>12, <2>1, <2>2, CommitsKept, AppliesKept
<1>13. CASE /\ UNCHANGED <<commitIndex, applied>>
            /\ \A k \in Server : proposals'[k] \subseteq proposals[k]
            /\ \A d \in Command : replies'[d] = "success" => replies[d] = "success"
  <2>1. \A k \in Server : Commits(LL, k)' /\ Applies(k)'
    BY <1>12, <1>13
  <2>2. Proposed(LL)' /\ Told(LL)'
    BY <1>0, <1>1, <1>13, ProposedKept, ToldKept DEF CommitOK
  <2> QED
    BY <1>1, <1>5, <1>7, <1>9, <2>1, <2>2 DEF CommitOK, Committed, AppliedIs
<1>14. CASE /\ m.leaderCommit > commitIndex[i]
            /\ \E props : /\ props \subseteq proposals[i]
                          /\ applyLogs(i, lg, Min({m.leaderCommit, Len(lg)}), props)
  <2>1. PICK d \in Nat : d = m.leaderCommit
    <3>1. m \in Message
      BY DEF TypeOK
    <3> QED
      BY <1>2, <3>1, MessageKinds DEF AppendEntriesMsg
  <2>2. PICK n : n = Min({m.leaderCommit, Len(lg)})
    OBVIOUS
  <2>3. n \in Nat /\ n <= d /\ n <= Len(lg) /\ c <= n /\ d > 0
    <3>1. n \in {d, Len(lg)} /\ n <= d /\ n <= Len(lg)
      BY <1>3, <2>1, <2>2, MinOfNats
    <3>2. d > c
      BY <1>10, <1>14, <2>1
    <3>3. c <= Len(lg)
      BY <1>11 DEF Same
    <3> QED
      BY <1>3, <1>10, <2>1, <3>1, <3>2, <3>3
  <2>4. PICK props : props \subseteq proposals[i] /\ applyLogs(i, lg, n, props)
    BY <1>14, <2>2
  <2>5. Settled(LL, lg, n, u)
    <3>1. PICK t \in Nat, k \in Nat : t <= u /\ d <= k /\ Chosen(LL, t, k)
      BY <1>2, <2>1, <2>3 DEF CommitOK, Requested, Request, ChosenUpTo
    <3>2. Same(LL[u], LL[t], k)
      BY <1>3, <3>1, ChosenSame
    <3>3. n <= k /\ LL[t] \in Seq(Entry)
      BY <2>1, <2>3, <3>1, LedgerLog
    <3>4. Same(LL[u], LL[t], n) /\ Same(lg, LL[u], n)
      BY <1>0, <1>3, <2>3, <3>2, <3>3, SameShorter
    <3> QED
      BY <3>1, <3>3, <3>4, SameTrans DEF Settled
  <2>6. Same(lg, lg, n)
    BY <2>3 DEF Same
  <2>7. Settled(LL, lg, n, u)'
    BY <1>0, <1>1, <1>3, <2>3, <2>5, <2>6, SettledStays
  <2>8. Applies(i) /\ Proposed(LL)
    BY DEF CommitOK, AppliedIs
  <2>9. Same(applied[i], lg, commitIndex[i]) /\ commitIndex[i] <= n
    BY <1>10, <1>11, <2>3, <2>8, SameTrans DEF Applies
  <2>10. /\ Applies(i)' /\ commitIndex'[i] = n
         /\ \A k \in Server \ {i} : /\ commitIndex'[k] = commitIndex[k]
                                    /\ applied'[k] = applied[k]
         /\ \A k \in Server : proposals'[k] \subseteq proposals[k]
         /\ \A e \in Command :
               replies'[e] = "success" => replies[e] = "success" \/ ChosenCommand(LL, e)'
    BY <1>3, <1>7, <2>3, <2>4, <2>7, <2>8, <2>9, applyLogsCommit
  <2>11. Commits(LL, i)'
    BY <1>6, <1>7, <2>7, <2>10 DEF Commits
  <2>12. ASSUME NEW k \in Server PROVE Commits(LL, k)' /\ Applies(k)'
    BY <1>12, <2>10, <2>11
  <2>13. Proposed(LL)'
    BY <1>0, <2>8, <2>10, ProposedKept
  <2>14. Told(LL)'
    BY <1>0, <1>1, <2>10, ChosenCommandStays DEF Told, CommitOK
  <2> QED
    BY <1>1, <1>5, <1>7, <1>9, <2>12, <2>13, <2>14 DEF CommitOK, Committed, AppliedIs
<1> QED
  BY <1>13, <1>14

LEMMA AppendEntriesCommit ==
    ASSUME Odd(Cardinality(Server)), TypeOK, TypeOK', VoteInv, NEW LL, LedgerOK(LL),
           CommitOK(LL), NEW m \in msgs, HandleAppendEntries(m)
    PROVE  CommitOK(LL)'
<1> USE DEF nodeVars, logVars, clientVars
<1>1. PICK i \in Server : i = m.to
  BY MessageKinds DEF TypeOK
<1>2. m \in AppendEntriesMsg /\ m.type = "AppendEntries"
  BY MessageKinds DEF TypeOK, HandleAppendEntries
<1>3. PICK u \in Nat : u = m.term
  BY <1>2 DEF AppendEntriesMsg
<1>4. PICK v \in Nat : v = currentTerm[i]
  BY <1>1 DEF TypeOK
<1>5. LL[v] \in Seq(Entry) /\ Len(LL[v]) \in Nat /\ Len(LL[u]) \in Nat
  BY LedgerLog
<1>6. CASE u < v /\ AppendReply(m, v, FALSE, 0) /\ UNCHANGED <<logVars, clientVars>>
  <2>1. 0 <= Len(LL[v])
    BY <1>5
  <2> QED
    BY <1>6, <2>1, RefuseCommit
<1>7. CASE \E x \in {Len(log[i]), m.prevIndex - 1} :
              /\ x = Len(log[i]) => Len(log[i]) < m.prevIndex \/ x = m.prevIndex - 1
              /\ AppendReply(m, u, FALSE, x) /\ UNCHANGED logVars
              /\ CancelProposals(i) \/ UNCHANGED clientVars
  <2>1. PICK x : /\ x \in {Len(log[i]), m.prevIndex - 1}
                 /\ x = Len(log[i]) => Len(log[i]) < m.prevIndex \/ x = m.prevIndex - 1
                 /\ AppendReply(m, u, FALSE, x)
    BY <1>7
  <2>2. m.prevIndex \in Nat /\ Len(m.entries) \in Nat /\ Len(log[i]) \in Nat
    BY <1>1, <1>2, LenProperties DEF AppendEntriesMsg, TypeOK
  <2>3. Has(LL[u], u, m.prevIndex + Len(m.entries))
    BY <1>2, <1>3 DEF CommitOK, Requested, Request
  <2>4. m.prevIndex + Len(m.entries) <= Len(LL[u])
    BY <1>5, <2>2, <2>3 DEF Has
  <2>5. x <= Len(LL[u])
    BY <1>5, <2>1, <2>2, <2>4
  <2>6. /\ \A k \in Server : proposals'[k] \subseteq proposals[k]
        /\ \A c \in Command : replies'[c] = "success" => replies[c] = "success"
    BY <1>7, CancelTellsNobody
  <2> QED
    BY <1>7, <2>1, <2>5, <2>6, RefuseCommit
<1>8. CASE /\ u >= v /\ PrevMatches(log[i], m)
           /\ currentTerm' = [currentTerm EXCEPT ![i] = u]
           /\ \E lg : /\ lg = AppendedLog(log[i], m) /\ log' = [log EXCEPT ![i] = lg]
                      /\ AppendReply(m, u, TRUE, Len(lg))
                      /\ \/ /\ UNCHANGED <<commitIndex, applied>>
                            /\ CancelProposals(i) \/ UNCHANGED clientVars
                         \/ /\ m.leaderCommit > commitIndex[i]
                            /\ \E props \in {{}, proposals[i]} :
                                  applyLogs(i, lg, Min({m.leaderCommit, Len(lg)}), props)
  <2>1. PICK lg : /\ lg = AppendedLog(log[i], m) /\ log' = [log EXCEPT ![i] = lg]
                  /\ AppendReply(m, u, TRUE, Len(lg))
                  /\ \/ /\ UNCHANGED <<commitIndex, applied>>
                        /\ CancelProposals(i) \/ UNCHANGED clientVars
                     \/ /\ m.leaderCommit > commitIndex[i]
                        /\ \E props \in {{}, proposals[i]} :
                              applyLogs(i, lg, Min({m.leaderCommit, Len(lg)}), props)
    BY <1>8
  <2>2. currentTerm[i] <= u
    BY <1>4, <1>8
  <2>3. CASE UNCHANGED <<commitIndex, applied>> /\ (CancelProposals(i) \/ UNCHANGED clientVars)
    <3>1. /\ \A k \in Server : proposals'[k] \subseteq proposals[k]
          /\ \A c \in Command : replies'[c] = "success" => replies[c] = "success"
      BY <2>3, CancelTellsNobody
    <3> QED
      BY <1>1, <1>3, <1>8, <2>1, <2>2, <2>3, <3>1, AcceptCommit
  <2>4. CASE /\ m.leaderCommit > commitIndex[i]
             /\ \E props \in {{}, proposals[i]} :
                   applyLogs(i, lg, Min({m.leaderCommit, Len(lg)}), props)
    <3>1. \E props : /\ props \subseteq proposals[i]
                     /\ applyLogs(i, lg, Min({m.leaderCommit, Len(lg)}), props)
      BY <2>4, Zenon
    <3> QED
      BY <1>1, <1>3, <1>8, <2>1, <2>2, <2>4, <3>1, AcceptCommit
  <2> QED
    BY <2>1, <2>3, <2>4
<1>9. \/ u < v /\ AppendReply(m, v, FALSE, 0) /\ UNCHANGED <<logVars, clientVars>>
      \/ \E x \in {Len(log[i]), m.prevIndex - 1} :
            /\ x = Len(log[i]) => Len(log[i]) < m.prevIndex \/ x = m.prevIndex - 1
            /\ AppendReply(m, u, FALSE, x) /\ UNCHANGED logVars
            /\ CancelProposals(i) \/ UNCHANGED clientVars
      \/ /\ u >= v /\ PrevMatches(log[i], m)
         /\ currentTerm' = [currentTerm EXCEPT ![i] = u]
         /\ \E lg : /\ lg = AppendedLog(log[i], m) /\ log' = [log EXCEPT ![i] = lg]
                    /\ AppendReply(m, u, TRUE, Len(lg))
                    /\ \/ /\ UNCHANGED <<commitIndex, applied>>
                          /\ CancelProposals(i) \/ UNCHANGED clientVars
                       \/ /\ m.leaderCommit > commitIndex[i]
                          /\ \E props \in {{}, proposals[i]} :
                                applyLogs(i, lg, Min({m.leaderCommit, Len(lg)}), props)
  <2>1. m.prevIndex \in Nat /\ Len(log[i]) \in Nat
    BY <1>1, <1>2, LenProperties DEF AppendEntriesMsg, TypeOK
  <2> QED
    BY <1>1, <1>3, <1>4, <2>1 DEF HandleAppendEntries
<1> QED
  BY <1>6, <1>7, <1>8, <1>9

\* A crash inside processAppendEntries after which the node is still in the term
\* of the request.
LEMMA CrashCommit ==
    ASSUME TypeOK, TypeOK', VoteInv, NEW LL, LedgerOK(LL), CommitOK(LL),
           NEW m \in msgs, CrashWhileAppending(m), currentTerm'[m.to] >= m.term,
           \A k \in Server : currentTerm'[k] >= currentTerm[k]
    PROVE  CommitOK(LL)'
<1> USE DEF history
<1>0. Extends(LL, LL)
  BY ExtendsItself
<1>1. PICK i \in Server : i = m.to
  BY MessageKinds DEF TypeOK
<1>2. PICK u \in Nat : u = m.term /\ u >= currentTerm[i]
  <2>1. m \in Message /\ m.type = "AppendEntries" /\ m.term >= currentTerm[m.to]
    BY DEF TypeOK, CrashWhileAppending
  <2> QED
    BY <1>1, <2>1, MessageKinds DEF AppendEntriesMsg
<1>3. PICK lg \in Seq(Entry) :
         /\ loadState(i, lg) /\ Agrees(lg, LL) /\ Same(lg, LL[u], Len(lg))
         /\ Cut(log[i], lg, LL[u])
  <2>1. PICK lg \in Seq(Entry), p \in Nat :
           /\ loadState(m.to, lg) /\ Agrees(lg, LL)
           /\ p >= 1 /\ p - 1 <= Len(lg) /\ p <= Len(LL[m.term])
           /\ Same(lg, LL[m.term], Len(lg)) /\ Same(log[m.to], LL[m.term], p - 1)
           /\ ~Has(log[m.to], LL[m.term][p].term, p)
    BY CrashedLog
  <2> QED
    BY <1>1, <1>2, <2>1 DEF Cut
<1>4. UNCHANGED <<wal, replies, msgs, ballots, elections>>
  BY <1>3 DEF loadState
<1>5. Onward /\ \A k \in Server : wal'[k].term >= wal[k].term
  <2>1. \A k \in Server : wal[k].term \in Nat
    BY DEF TypeOK
  <2> QED
    BY <1>4, <2>1 DEF Onward
<1>6. ASSUME NEW k \in Server, k # i
      PROVE  /\ state'[k] = state[k] /\ currentTerm'[k] = currentTerm[k]
             /\ commitIndex'[k] = commitIndex[k] /\ applied'[k] = applied[k]
             /\ matchIndex'[k] = matchIndex[k] /\ nextIndex'[k] = nextIndex[k]
             /\ proposals'[k] = proposals[k] /\ log'[k] = log[k]
  BY <1>3, <1>6 DEF loadState, TypeOK
<1>7. /\ state'[i] = "Follower" /\ commitIndex'[i] = 0 /\ applied'[i] = << >>
      /\ matchIndex'[i][i] = 0 /\ proposals'[i] = {} /\ log'[i] = lg
      /\ currentTerm'[i] = wal[i].term
  BY <1>3 DEF loadState, TypeOK
<1>8. \A k \in Server : currentTerm[k] \in Nat /\ currentTerm'[k] \in Nat /\ wal[k].term \in Nat
  <2>1. currentTerm \in [Server -> Nat] /\ currentTerm' \in [Server -> Nat]
    BY DEF TypeOK
  <2>2. \A k \in Server : wal[k].term \in Nat
    BY DEF TypeOK
  <2> QED
    BY <2>1, <2>2
<1>9. currentTerm'[i] = u
  <2>1. wal[i].term <= currentTerm[i]
    BY DEF VoteInv, BallotsPersisted
  <2> QED
    BY <1>1, <1>2, <1>7, <1>8, <2>1
<1>10. TermsReached' /\ \A j \in Server : log'[j] = log[j] \/ LosesOverruled(LL, j)
  <2>1. currentTerm[i] <= u /\ \A k \in Server \ {i} : log'[k] = log[k]
    BY <1>2, <1>6, <1>8
  <2> QED
    BY <1>3, <1>7, <1>8, <1>9, <2>1, ReplacedLog
<1>11. NewAcks(LL, LL)
  BY <1>4, NoNewAcks
<1>12. Kept(LL)' /\ Voted(LL)'
  BY <1>0, <1>4, <1>5, <1>10, <1>11, KeptKept, VotedKept DEF CommitOK
<1>13. Candidacies(LL)' /\ Requested(LL)' /\ Replied(LL)'
  <2>1. \A k \in Server : state'[k] = "Candidate" =>
           state[k] = "Candidate" /\ currentTerm'[k] = currentTerm[k] /\ log'[k] = log[k]
    BY <1>6, <1>7
  <2> QED
    BY <1>0, <1>4, <1>5, <2>1, CandidaciesKept, RequestedKept, RepliedKept DEF CommitOK
<1>14. ASSUME NEW k \in Server PROVE Leads(k)' /\ Commits(LL, k)' /\ Applies(k)'
  <2>1. CASE k = i
    <3>1. Len(<< >>) = 0 /\ Len(lg) \in Nat
      BY <1>3, LenProperties
    <3> QED
      BY <1>7, <2>1, <3>1 DEF Leads, Commits, Applies, Same
  <2>2. CASE k # i
    <3>1. /\ Leads(k) /\ Applies(k) /\ Commits(LL, k)
          /\ Len(log[k]) \in Nat /\ commitIndex[k] \in Nat
      BY LenProperties DEF CommitOK, Leading, AppliedIs, Committed, TypeOK
    <3>2. Same(log[k], log'[k], commitIndex[k]) /\ Len(log[k]) <= Len(log'[k])
      BY <1>6, <2>2, <3>1 DEF Applies, Same
    <3> QED
      BY <1>0, <1>5, <1>6, <2>2, <3>1, <3>2, LeadsKept, CommitsKept, AppliesKept
  <2> QED
    BY <2>1, <2>2
<1>15. Proposed(LL)' /\ Told(LL)'
  <2>1. \A k \in Server : proposals'[k] \subseteq proposals[k]
    BY <1>6, <1>7
  <2> QED
    BY <1>0, <1>4, <1>5, <2>1, ProposedKept, ToldKept DEF CommitOK
<1> QED
  BY <1>10, <1>12, <1>13, <1>14, <1>15 DEF CommitOK, Leading, Committed, AppliedIs

LEMMA VoteReplyCommit ==
    ASSUME Odd(Cardinality(Server)), TypeOK, TypeOK', VoteInv, VoteInv',
           NEW LL, LedgerOK(LL), CommitOK(LL), NEW m \in msgs, HandleVoteReply(m)
    PROVE  \E LM : Extends(LL, LM) /\ LedgerOK(LM)' /\ CommitOK(LM)'
<1> USE DEF leaderVars, clientVars
<1>0. Extends(LL, LL)
  BY ExtendsItself
<1>1. PICK i \in Server : i = m.to
  BY MessageKinds DEF TypeOK
<1>2. m \in VoteReplyMsg /\ m.type = "VoteReply"
  BY MessageKinds DEF TypeOK, HandleVoteReply
<1>3. PICK u \in Nat : u = m.term
  BY <1>2 DEF VoteReplyMsg
<1>4. UNCHANGED <<wal, commitIndex, applied, msgs, ballots>>
  BY DEF HandleVoteReply
<1>5. CASE /\ u > currentTerm[i] /\ transitionToFollower(i, u)
           /\ UNCHANGED <<log, leaderVars, elections>>
  <2>1. CommitOK(LL)'
    BY <1>4, <1>5, StepDownCommit
  <2>2. \A k \in Server : state'[k] = "Leader" =>
           state[k] = "Leader" /\ currentTerm'[k] = currentTerm[k]
    BY <1>5 DEF transitionToFollower, TypeOK
  <2>3. LedgerOK(LL)'
    BY <1>4, <1>5, <2>2, QuietLedger
  <2> QED
    BY <1>0, <2>1, <2>3
<1>6. CASE UNCHANGED <<state, currentTerm, log, leaderVars, clientVars, elections>>
  <2>1. \A k \in Server : currentTerm[k] \in Nat
    BY DEF TypeOK
  <2>2. CommitOK(LL)'
    BY <1>4, <1>6, <2>1, IdleCommit
  <2>3. LedgerOK(LL)'
    BY <1>4, <1>6, QuietLedger
  <2> QED
    BY <1>0, <2>2, <2>3
<1>7. CASE \E V : /\ state[i] = "Candidate" /\ transitionToLeader(i, currentTerm[i], V)
                  /\ UNCHANGED <<currentTerm, clientVars>>
  BY <1>4, <1>7, WinCommit
<1>8. \/ /\ u > currentTerm[i] /\ transitionToFollower(i, u)
         /\ UNCHANGED <<log, leaderVars, elections>>
      \/ UNCHANGED <<state, currentTerm, log, leaderVars, clientVars, elections>>
      \/ \E V : /\ state[i] = "Candidate" /\ transitionToLeader(i, currentTerm[i], V)
                /\ UNCHANGED <<currentTerm, clientVars>>
  BY <1>1, <1>3 DEF HandleVoteReply
<1> QED
  BY <1>5, <1>6, <1>7, <1>8
-----------------------------------------------------------------------------
(***************************************************************************)
(* The invariant holds.                                                    *)
(***************************************************************************)
LEMMA InitCommitInv == Init => CommitInv
<1> SUFFICES ASSUME Init PROVE CommitInv
  OBVIOUS
<1>1. PICK LL : LL = [t \in Nat |-> << >>]
  OBVIOUS
<1>2. Len(<< >>) = 0 /\ << >> \in Seq(Entry)
  OBVIOUS
<1>3. LL \in Ledger /\ \A t \in Nat : LL[t] = << >>
  BY <1>1 DEF Ledger
<1>4. /\ msgs = {} /\ elections = {} /\ ballots = {}
      /\ \A i \in Server : /\ log[i] = << >> /\ applied[i] = << >> /\ commitIndex[i] = 0
                           /\ matchIndex[i][i] = 0 /\ state[i] = "Follower"
                           /\ proposals[i] = {}
      /\ \A c \in Command : replies[c] = "none"
  BY DEF Init
<1>5. LedgerOK(LL)
  BY <1>2, <1>3, <1>4 DEF LedgerOK, ElectedWrote, LeadersHold, LogsAgree, LedgerAgrees,
     RequestsAgree, Agrees
<1>6. Ordered(LL) /\ TermsReached
  BY <1>2, <1>3, <1>4 DEF Ordered, TermsReached
<1>7. Candidacies(LL) /\ Requested(LL) /\ Replied(LL) /\ Voted(LL)
  BY <1>4 DEF Candidacies, Requested, Replied, Voted
<1>8. Kept(LL)
  BY <1>2, <1>3 DEF Kept, Has
<1>9. Leading /\ Committed(LL) /\ AppliedIs /\ Proposed(LL) /\ Told(LL)
  BY <1>2, <1>4 DEF Leading, Leads, Committed, Commits, AppliedIs, Applies, Same, Proposed,
     Told
<1>10. CommitOK(LL)
  BY <1>6, <1>7, <1>8, <1>9 DEF CommitOK
<1> QED
  BY <1>3, <1>5, <1>10 DEF CommitInv

LEMMA NextCommitOK ==
    ASSUME Odd(Cardinality(Server)), TypeOK, VoteInv, NEW LL, LedgerOK(LL), CommitOK(LL),
           [Next]_vars, [TermsKeptStep]_vars
    PROVE  \E LM : Extends(LL, LM) /\ LedgerOK(LM)' /\ CommitOK(LM)'
<1>1. TypeOK' /\ VoteInv'
  BY NextTypeOK, NextVoteInv
<1>2. Extends(LL, LL)
  BY ExtendsItself
<1>3. ASSUME \/ \E i \in Server : ElectionTimeout(i)
             \/ \E i \in Server, c \in Command : RejectCommand(i, c)
             \/ \E m \in msgs : HandlePreVote(m)
             \/ \E m \in msgs : HandlePreVoteReply(m)
             \/ \E m \in msgs : HandleRequestVote(m)
             \/ \E m \in msgs : HandleAppendReply(m)
             \/ UNCHANGED vars
      PROVE  LedgerOK(LL)'
  <2>1. /\ log' = log /\ elections' = elections
        /\ \A k \in Server : state'[k] = "Leader" =>
              state[k] = "Leader" /\ currentTerm'[k] = currentTerm[k]
        /\ \A m \in msgs' : m.type = "AppendEntries" => m \in msgs
    BY <1>3, QuietHandlers
  <2> QED
    BY <1>2, <2>1, QuietLedger
<1>4. CASE \/ \E i \in Server : ElectionTimeout(i)
           \/ \E i \in Server, c \in Command : RejectCommand(i, c)
           \/ \E m \in msgs : HandlePreVote(m)
           \/ UNCHANGED vars
  <2>1. LedgerOK(LL)' /\ CommitOK(LL)'
    BY <1>1, <1>2, <1>3, <1>4, PreVoteCommit
  <2> QED
    BY <1>2, <2>1
<1>5. ASSUME NEW m \in msgs, HandlePreVoteReply(m)
      PROVE  LedgerOK(LL)' /\ CommitOK(LL)'
  BY <1>1, <1>2, <1>3, <1>5, PreVoteReplyCommit
<1>6. ASSUME NEW m \in msgs, HandleRequestVote(m)
      PROVE  LedgerOK(LL)' /\ CommitOK(LL)'
  BY <1>1, <1>2, <1>3, <1>6, RequestVoteCommit
<1>7. ASSUME NEW m \in msgs, HandleAppendReply(m)
      PROVE  LedgerOK(LL)' /\ CommitOK(LL)'
  BY <1>1, <1>2, <1>3, <1>7, AppendReplyCommit
<1>8. ASSUME NEW m \in msgs, HandleAppendEntries(m)
      PROVE  LedgerOK(LL)' /\ CommitOK(LL)'
  BY <1>1, <1>2, <1>8, AppendEntriesCommit, AcceptLedger
<1>9. ASSUME NEW m \in msgs, HandleVoteReply(m)
      PROVE  \E LM : Extends(LL, LM) /\ LedgerOK(LM)' /\ CommitOK(LM)'
  BY <1>1, <1>2, <1>9, VoteReplyCommit
<1>10. ASSUME NEW i \in Server, NEW j \in Server, ReplicateToPeer(i, j)
       PROVE  LedgerOK(LL)' /\ CommitOK(LL)'
  BY <1>1, <1>2, <1>10, ReplicateCommit, ReplicateLedger
<1>11. ASSUME NEW i \in Server, NEW c \in Command, ClientCommand(i, c)
       PROVE  \E LM : Extends(LL, LM) /\ LedgerOK(LM)' /\ CommitOK(LM)'
  BY <1>1, <1>2, <1>11, ProposeCommit
<1>12. ASSUME TermsKeptStep, NEW i \in Server, Restart(i)
       PROVE  LedgerOK(LL)' /\ CommitOK(LL)'
  <2>1. Agrees(log[i], LL) /\ loadState(i, log[i])
    BY <1>2, <1>12, NodeLog DEF Restart
  <2>2. LedgerOK(LL)'
    BY <1>2, <2>1, loadStateLedger
  <2>3. \A k \in Server : currentTerm'[k] >= currentTerm[k]
    BY <1>12 DEF TermsKeptStep
  <2> QED
    BY <1>1, <1>2, <1>12, <2>2, <2>3, RestartCommit
<1>13. ASSUME TermsKeptStep, \E m \in msgs : CrashWhileAppending(m)
       PROVE  LedgerOK(LL)' /\ CommitOK(LL)'
  <2>1. PICK m \in msgs : CrashWhileAppending(m) /\ currentTerm'[m.to] >= m.term
    BY <1>13 DEF TermsKeptStep
  <2>2. \A k \in Server : currentTerm'[k] >= currentTerm[k]
    BY <1>13 DEF TermsKeptStep
  <2>3. CommitOK(LL)'
    BY <1>1, <1>2, <2>1, <2>2, CrashCommit
  <2>4. \E lg : loadState(m.to, lg) /\ Agrees(lg, LL)
    BY <1>2, <2>1, CrashedLog
  <2>5. m.to \in Server
    BY MessageKinds DEF TypeOK
  <2> QED
    BY <1>2, <2>3, <2>4, <2>5, loadStateLedger
<1>14. CASE ~UNCHANGED vars
  <2>1. Next /\ TermsKeptStep
    BY <1>14
  <2> QED
    BY <1>2, <1>4, <1>5, <1>6, <1>7, <1>8, <1>9, <1>10, <1>11, <1>12, <1>13, <2>1
       DEF Next
<1> QED
  BY <1>4, <1>14

LEMMA NextCommitInv ==
    ASSUME Odd(Cardinality(Server)), TypeOK, VoteInv, CommitInv, [Next]_vars,
           [TermsKeptStep]_vars
    PROVE  CommitInv'
<1>1. PICK LL : LedgerOK(LL) /\ CommitOK(LL)
  BY DEF CommitInv
<1>2. PICK LM : Extends(LL, LM) /\ LedgerOK(LM)' /\ CommitOK(LM)'
  BY <1>1, NextCommitOK
<1> QED
  BY <1>2 DEF CommitInv, Extends

\* Everything acknowledged in an odd cluster whose restarts lose no term is kept,
\* voted for and committed as CommitOK says, in every state: the ledger of
\* processAppendEntries, processRequestVote and processAppendEntriesResponse.
THEOREM CommitsAccounted ==
    ASSUME Odd(Cardinality(Server))
    PROVE  Spec /\ TermsKept => []CommitInv
<1>1. Init => TypeOK /\ VoteInv /\ CommitInv
  BY InitTypeOK, InitVoteInv, InitCommitInv
<1>2. TypeOK /\ VoteInv /\ CommitInv /\ [Next]_vars /\ [TermsKeptStep]_vars
         => (TypeOK /\ VoteInv /\ CommitInv)'
  BY NextTypeOK, NextVoteInv, NextCommitInv
<1> QED
  BY <1>1, <1>2, PTL DEF Spec, TermsKept
-----------------------------------------------------------------------------
(***************************************************************************)
(* What follows from it.                                                   *)
(***************************************************************************)
\* What one node has committed agrees with what is chosen in a later term.
LEMMA ChosenAlike ==
    ASSUME Odd(Cardinality(Server)), TypeOK, VoteInv, NEW LL, LedgerOK(LL), CommitOK(LL),
           NEW s \in Nat, NEW k \in Nat, Chosen(LL, s, k), NEW t \in Nat, NEW l \in Nat,
           Chosen(LL, t, l), s <= t, NEW n \in Nat, n <= k
    PROVE  Same(LL[s], LL[t], n) /\ Same(LL[t], LL[s], n)
<1>1. LL[s] \in Seq(Entry) /\ LL[t] \in Seq(Entry)
  BY LedgerLog
<1>2. LL[t] # << >>
  <2>1. Len(<< >>) = 0
    OBVIOUS
  <2> QED
    BY <2>1 DEF Chosen, Has
<1>3. Same(LL[t], LL[s], k)
  BY <1>2, ChosenSame
<1> QED
  BY <1>1, <1>3, SameShorter, SameSym

LEMMA SafetyFromCommits ==
    ASSUME Odd(Cardinality(Server)), TypeOK, VoteInv, CommitInv
    PROVE  StateMachineSafety
<1> SUFFICES ASSUME NEW i \in Server, NEW j \in Server,
                    NEW n \in 1..Min({Len(applied[i]), Len(applied[j])})
             PROVE  applied[i][n] = applied[j][n]
  BY DEF StateMachineSafety
<1>1. PICK LL : LedgerOK(LL) /\ CommitOK(LL)
  BY DEF CommitInv
<1>2. n \in Nat /\ n >= 1 /\ n <= Len(applied[i]) /\ n <= Len(applied[j])
  <2>1. Len(applied[i]) \in Nat /\ Len(applied[j]) \in Nat
    BY LenProperties DEF TypeOK
  <2> DEFINE S == {Len(applied[i]), Len(applied[j])}
  <2>2. Min(S) \in Nat /\ Min(S) <= Len(applied[i]) /\ Min(S) <= Len(applied[j])
    BY <2>1, MinOfNats
  <2> QED
    BY <2>1, <2>2
<1>3. ASSUME NEW k \in Server, n <= Len(applied[k])
      PROVE  \E t \in Nat, x \in Nat : /\ n <= x /\ Chosen(LL, t, x)
                                       /\ applied[k][n] = LL[t][n]
  <2>1. commitIndex[k] \in Nat /\ Applies(k) /\ Commits(LL, k)
    BY <1>1 DEF CommitOK, AppliedIs, Committed, TypeOK
  <2>2. n <= commitIndex[k] /\ commitIndex[k] > 0 /\ applied[k][n] = log[k][n]
    BY <1>2, <1>3, <2>1 DEF Applies, Same
  <2>3. PICK t \in Nat, x \in Nat : /\ commitIndex[k] <= x /\ Chosen(LL, t, x)
                                    /\ Same(log[k], LL[t], commitIndex[k])
    BY <2>1, <2>2 DEF Commits, Settled
  <2>4. n <= x /\ log[k][n] = LL[t][n]
    BY <1>2, <2>1, <2>2, <2>3 DEF Same
  <2> QED
    BY <2>2, <2>3, <2>4
<1>4. PICK s \in Nat, k \in Nat : n <= k /\ Chosen(LL, s, k) /\ applied[i][n] = LL[s][n]
  BY <1>2, <1>3
<1>5. PICK t \in Nat, l \in Nat : n <= l /\ Chosen(LL, t, l) /\ applied[j][n] = LL[t][n]
  BY <1>2, <1>3
<1>6. Same(LL[s], LL[t], n)
  <2>1. CASE s <= t
    BY <1>1, <1>2, <1>4, <1>5, <2>1, ChosenAlike
  <2>2. CASE t <= s
    BY <1>1, <1>2, <1>4, <1>5, <2>2, ChosenAlike
  <2> QED
    BY <2>1, <2>2
<1> QED
  BY <1>2, <1>4, <1>5, <1>6 DEF Same

\* No two nodes of an odd cluster apply different entries at the same index of
\* kv (applyLogs), as long as no restart loses a term.
THEOREM StateMachinesAgree ==
    ASSUME Odd(Cardinality(Server))
    PROVE  Spec /\ TermsKept => []StateMachineSafety
<1>1. TypeOK /\ VoteInv /\ CommitInv => StateMachineSafety
  BY SafetyFromCommits
<1> QED
  BY <1>1, TypeCorrect, VotesAccounted, CommitsAccounted, PTL

LEMMA CompletenessFromCommits ==
    ASSUME Odd(Cardinality(Server)), TypeOK, VoteInv, CommitInv
    PROVE  LeaderCompleteness
<1> SUFFICES ASSUME NEW i \in Server, NEW j \in Server, state[i] = "Leader",
                    currentTerm[i] >= currentTerm[j]
             PROVE  /\ Len(applied[j]) <= Len(log[i])
                    /\ \A n \in 1..Len(applied[j]) : log[i][n] = applied[j][n]
  BY DEF LeaderCompleteness
<1>1. PICK LL : LedgerOK(LL) /\ CommitOK(LL)
  BY DEF CommitInv
<1>2. PICK u \in Nat : u = currentTerm[i] /\ currentTerm[j] <= u
  BY DEF TypeOK
<1>3. log[i] = LL[u] /\ LL[u] # << >>
  BY <1>1, <1>2 DEF LedgerOK, LeadersHold, CommitOK, Leading, Leads
<1>4. Same(log[j], LL[u], commitIndex[j])
  BY <1>1, <1>2, <1>3, CommittedSame
<1>5. Len(applied[j]) = commitIndex[j] /\ Same(applied[j], log[j], commitIndex[j])
  BY <1>1 DEF CommitOK, AppliedIs, Applies
<1> QED
  BY <1>3, <1>4, <1>5 DEF Same

\* A leader of an odd cluster holds everything a node of its term or an earlier
\* one has applied, as long as no restart loses a term: what logOK of
\* processRequestVote and the current-term rule of the commit are for.
THEOREM LeadersComplete ==
    ASSUME Odd(Cardinality(Server))
    PROVE  Spec /\ TermsKept => []LeaderCompleteness
<1>1. TypeOK /\ VoteInv /\ CommitInv => LeaderCompleteness
  BY CompletenessFromCommits
<1> QED
  BY <1>1, TypeCorrect, VotesAccounted, CommitsAccounted, PTL

\* A set that holds a majority of an odd cluster holds more than half of it.
LEMMA MoreThanHalf ==
    ASSUME Odd(Cardinality(Server)), NEW q \in Server, NEW Q \in SUBSET Server,
           HasMajority(Config(q), q, Q), NEW S \in SUBSET Server, Q \subseteq S
    PROVE  2 * Cardinality(S) > Cardinality(Server)
<1>1. Config(q) = [old |-> {}, new |-> Server, joint |-> FALSE]
  BY Peers
<1>2. MajorityOf(Server, q, Q)
  BY <1>1 DEF HasMajority
<1>3. IsFiniteSet(Server) /\ IsFiniteSet(S)
  BY ServerAssumption, FS_Subset
<1>4. /\ Cardinality(Server) \in Nat /\ Cardinality(Server \cap Q) \in Nat
      /\ 2 * Cardinality(Server \cap Q) >= Cardinality(Server)
  BY <1>2, <1>3, MajorityCount
<1>5. Cardinality(S) \in Nat /\ Cardinality(Server \cap Q) <= Cardinality(S)
  BY <1>3, FS_CardinalityType, FS_Subset
<1>6. PICK k \in Nat : Cardinality(Server) = 2 * k + 1
  BY DEF Odd
<1> QED
  BY <1>4, <1>5, <1>6

LEMMA QuorumFromCommits ==
    ASSUME Odd(Cardinality(Server)), TypeOK, VoteInv, CommitInv
    PROVE  CommittedOnQuorum
<1> SUFFICES ASSUME NEW i \in Server, NEW n \in 1..commitIndex[i]
             PROVE  /\ n <= Len(log[i])
                    /\ 2 * Cardinality({j \in Server : n <= Len(log[j])
                                                          /\ log[j][n] = log[i][n]})
                         > Cardinality(Server)
  BY DEF CommittedOnQuorum
<1>1. PICK LL : LedgerOK(LL) /\ CommitOK(LL)
  BY DEF CommitInv
<1>2. PICK c \in Nat : c = commitIndex[i]
  BY DEF TypeOK
<1>3. n \in Nat /\ n >= 1 /\ n <= c /\ c > 0
  BY <1>2
<1>4. PICK t \in Nat, k \in Nat : c <= k /\ Chosen(LL, t, k) /\ Same(log[i], LL[t], c)
  BY <1>1, <1>2, <1>3 DEF CommitOK, Committed, Commits, Settled
<1>5. PICK q \in Server, Q \in SUBSET Server :
         HasMajority(Config(q), q, Q) /\ \A j \in Q : Same(log[j], LL[t], k)
  BY <1>1, <1>4, ChosenHeld
<1>6. \A j \in Server : Len(log[j]) \in Nat
  BY LenProperties DEF TypeOK
<1>7. n <= Len(log[i]) /\ log[i][n] = LL[t][n]
  BY <1>3, <1>4, <1>6 DEF Same
<1>8. ASSUME NEW j \in Q PROVE n <= Len(log[j]) /\ log[j][n] = log[i][n]
  <2>1. n <= k /\ j \in Server
    BY <1>3, <1>4
  <2> QED
    BY <1>3, <1>4, <1>5, <1>6, <1>7, <2>1 DEF Same
<1> DEFINE S == {j \in Server : n <= Len(log[j]) /\ log[j][n] = log[i][n]}
<1>9. S \in SUBSET Server /\ Q \subseteq S
  BY <1>8
<1> HIDE DEF S
<1>10. 2 * Cardinality(S) > Cardinality(Server)
  BY <1>5, <1>9, MoreThanHalf
<1> QED
  BY <1>7, <1>10 DEF S

\* What a node of an odd cluster believes committed (commitIndex) is in the logs
\* of a majority, as long as no restart loses a term.
THEOREM CommittedOnMajority ==
    ASSUME Odd(Cardinality(Server))
    PROVE  Spec /\ TermsKept => []CommittedOnQuorum
<1>1. TypeOK /\ VoteInv /\ CommitInv => CommittedOnQuorum
  BY QuorumFromCommits
<1> QED
  BY <1>1, TypeCorrect, VotesAccounted, CommitsAccounted, PTL

LEMMA AckedFromCommits ==
    ASSUME Odd(Cardinality(Server)), TypeOK, VoteInv, CommitInv
    PROVE  AckedIsCommitted
<1> SUFFICES ASSUME NEW c \in Command, replies[c] = "success"
             PROVE  2 * Cardinality({j \in Server :
                                       \E n \in 1..Len(log[j]) : log[j][n].cmd = c})
                      > Cardinality(Server)
  BY DEF AckedIsCommitted
<1>1. PICK LL : LedgerOK(LL) /\ CommitOK(LL)
  BY DEF CommitInv
<1>2. PICK t \in Nat, k \in Nat : Chosen(LL, t, k) /\ \E n \in 1..k : LL[t][n].cmd = c
  BY <1>1 DEF CommitOK, Told, ChosenCommand
<1>3. PICK n \in 1..k : LL[t][n].cmd = c
  BY <1>2
<1>4. PICK q \in Server, Q \in SUBSET Server :
         HasMajority(Config(q), q, Q) /\ \A j \in Q : Same(log[j], LL[t], k)
  BY <1>1, <1>2, ChosenHeld
<1>5. ASSUME NEW j \in Q PROVE n \in 1..Len(log[j]) /\ log[j][n].cmd = c
  <2>1. j \in Server /\ log[j] \in Seq(Entry) /\ Len(log[j]) \in Nat
    BY LenProperties DEF TypeOK
  <2> QED
    BY <1>3, <1>4, <2>1 DEF Same
<1> DEFINE S == {j \in Server : \E x \in 1..Len(log[j]) : log[j][x].cmd = c}
<1>6. S \in SUBSET Server /\ Q \subseteq S
  BY <1>5
<1> HIDE DEF S
<1>7. 2 * Cardinality(S) > Cardinality(Server)
  BY <1>4, <1>6, MoreThanHalf
<1> QED
  BY <1>7 DEF S

\* A command whose client applyLogs has told success stays in the logs of a
\* majority of an odd cluster, as long as no restart loses a term.
THEOREM AckedStaysCommitted ==
    ASSUME Odd(Cardinality(Server))
    PROVE  Spec /\ TermsKept => []AckedIsCommitted
<1>1. TypeOK /\ VoteInv /\ CommitInv => AckedIsCommitted
  BY AckedFromCommits
<1> QED
  BY <1>1, TypeCorrect, VotesAccounted, CommitsAccounted, PTL

LEMMA MatchFromCommits ==
    ASSUME TypeOK, CommitInv
    PROVE  MatchIndexSound
<1> SUFFICES ASSUME NEW i \in Server, NEW j \in Server, state[i] = "Leader",
                    currentTerm[j] = currentTerm[i], NEW n \in 1..matchIndex[i][j]
             PROVE  n <= Len(log[i]) /\ n <= Len(log[j]) /\ log[i][n] = log[j][n]
  BY DEF MatchIndexSound
<1>1. PICK LL : LedgerOK(LL) /\ CommitOK(LL)
  BY DEF CommitInv
<1>2. PICK u \in Nat : u = currentTerm[i]
  BY DEF TypeOK
<1>3. PICK k \in Nat : k = matchIndex[i][j]
  BY DEF TypeOK
<1>4. n \in Nat /\ n >= 1 /\ n <= k /\ k > 0
  BY <1>3
<1>5. j # i
  BY <1>1, <1>3, <1>4 DEF CommitOK, Leading, Leads
<1>6. PICK m \in msgs : /\ m.type = "AppendReply" /\ m.success
                        /\ m.from = j /\ m.term = u /\ m.match = k
  BY <1>1, <1>2, <1>3, <1>4, <1>5 DEF CommitOK, Leading, Leads, Reported
<1>7. Has(LL[u], u, k) /\ Acknowledged(j, u, k)
  <2>1. Has(LL[u], u, k)
    BY <1>1, <1>6 DEF CommitOK, Replied, Reply
  <2>2. m.match >= k
    BY <1>6
  <2> QED
    BY <1>6, <2>1, <2>2 DEF Acknowledged
<1>8. ~Overruled(LL, u, k, u)
  BY DEF Overruled
<1>9. Has(log[j], u, k)
  BY <1>1, <1>2, <1>7, <1>8 DEF CommitOK, Kept
<1>10. Same(log[j], LL[u], k)
  BY <1>1, <1>9, NodeLog, HasAgrees DEF LedgerOK
<1>11. log[i] = LL[u] /\ Len(log[i]) \in Nat /\ Len(log[j]) \in Nat
  BY <1>1, <1>2, NodeLog DEF LedgerOK, LeadersHold
<1> QED
  BY <1>4, <1>10, <1>11 DEF Same

\* What a leader of an odd cluster believes a follower of its term to hold
\* (matchIndex, set by processAppendEntriesResponse to the whole length of the
\* follower's log) is what the follower holds, as long as no restart loses a term.
THEOREM MatchesHold ==
    ASSUME Odd(Cardinality(Server))
    PROVE  Spec /\ TermsKept => []MatchIndexSound
<1>1. TypeOK /\ CommitInv => MatchIndexSound
  BY MatchFromCommits
<1> QED
  BY <1>1, TypeCorrect, CommitsAccounted, PTL
=============================================================================
