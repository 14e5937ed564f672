--------------------------- MODULE RequestsProofs ---------------------------
(***************************************************************************)
(* What Requests promises the clients that number their writes, for every  *)
(* set of clients and every number of writes, retries and restarts, and    *)
(* that it implements ExactlyOnce.                                         *)
(***************************************************************************)
EXTENDS Requests, SequenceTheorems, TLAPS

Requested == inflight \cup committed

\* A client that waits or has failed is at a write it has issued, and has made
\* no more attempts than there are requests.
Progress ==
    \A c \in Client : /\ phase[c] # "ready" => num[c] <= MaxWrites
                      /\ attempt[c] <= sent

\* The headers of a client in Numbering reach the log as they are, and no other
\* client uses its id; it has not yet issued what comes after its write.
Numbered ==
    \A r \in Requested :
        /\ r.session \in Numbering => r.write.client = r.session
        /\ r.write.client \in Numbering =>
              /\ r.session = r.write.client
              /\ r.id = r.write.num
              /\ r.write.num <= num[r.write.client]
              /\ phase[r.write.client] = "ready" => r.write.num < num[r.write.client]

\* What dedupTable and kv say of a client in Numbering: the last write that was
\* applied.
TableExact ==
    \A c \in Numbering :
        /\ dedupTable[c] <= num[c]
        /\ phase[c] = "ready" => dedupTable[c] < num[c]
        /\ \A k \in 1..Len(order) : order[k].client = c => order[k].num <= dedupTable[c]
        /\ dedupTable[c] = 0 => kv[c] = Absent
        /\ dedupTable[c] > 0 =>
              LET w == [client |-> c, num |-> dedupTable[c]]
              IN  kv[c] = Effect(w) /\ \E k \in 1..Len(order) : order[k] = w

\* An attempt at the client's present write that went through the log, applied
\* or skipped, leaves that write as the last one applied.
CommittedCounts ==
    \A r \in committed :
        LET c == r.write.client
        IN  c \in Numbering /\ r.write.num = num[c] => dedupTable[c] = num[c]

\* Only writes the client has left behind are acknowledged.
AckedBehind == \A w \in acked : w.client \in Numbering => w.num < num[w.client]

RequestsInv ==
    /\ TypeOK
    /\ Progress
    /\ Numbered
    /\ TableExact
    /\ CommittedCounts
    /\ AckedBehind
    /\ AppliedInOrder
    /\ AckedIsApplied
-----------------------------------------------------------------------------
(***************************************************************************)
(* Facts about single definitions.                                         *)
(***************************************************************************)
LEMMA HeadersOfNumbering ==
    ASSUME TypeOK, NEW c \in Numbering
    PROVE  c \in Client /\ ClientID(c) = c /\ RequestID(c) = num[c]
<1>1. headers[c] = Header
  BY DEF TypeOK, Habits
<1>2. "client" \in headers[c] /\ "request" \in headers[c]
  BY <1>1 DEF Header
<1> QED
  BY <1>2, RequestsAssumption DEF ClientID, RequestID

LEMMA OrderedNums ==
    ASSUME NEW s \in Seq(Write), NEW k \in 1..Len(s)
    PROVE  s[k].num \in Nat
<1>1. s[k] \in Write
  BY ElementOfSeq
<1> QED
  BY <1>1, RequestsAssumption DEF Write

LEMMA EffectType ==
    ASSUME NEW w \in Write
    PROVE  Effect(w) \in 1..MaxWrites \cup {Absent}
  BY DEF Effect, Write

\* The request a client sends is a request, and carries its own id only.
LEMMA ProxyRequestType ==
    ASSUME TypeOK, NEW c \in Client, num[c] <= MaxWrites
    PROVE  /\ ProxyRequest(c) \in Request
           /\ ProxyRequest(c).write = [client |-> c, num |-> num[c]]
           /\ ProxyRequest(c).attempt = attempt[c] + 1
           /\ ProxyRequest(c).session \in {c, Shared, Absent}
           /\ c \in Numbering => /\ ProxyRequest(c).session = c
                                 /\ ProxyRequest(c).id = num[c]
<1>1. CurrentWrite(c) \in Write
  BY RequestsAssumption DEF TypeOK, CurrentWrite, Write
<1>2. ClientID(c) \in {c, Shared, Absent}
  BY DEF ClientID
<1>3. RequestID(c) \in Nat
  BY RequestsAssumption DEF TypeOK, RequestID
<1>4. attempt[c] + 1 \in Nat
  BY RequestsAssumption DEF TypeOK
<1>5. ProxyRequest(c) \in Request
  BY <1>1, <1>2, <1>3, <1>4 DEF ProxyRequest, Request, Session
<1> QED
  BY <1>2, <1>5, HeadersOfNumbering DEF ProxyRequest, CurrentWrite

-----------------------------------------------------------------------------
(***************************************************************************)
(* One lemma per action.                                                   *)
(***************************************************************************)
LEMMA InitRequestsInv == Init => RequestsInv
<1> SUFFICES ASSUME Init PROVE RequestsInv
  OBVIOUS
<1>1. order = << >> /\ Len(order) = 0 /\ order \in Seq(Write)
  BY EmptySeq DEF Init
<1>2. TypeOK
  BY <1>1, RequestsAssumption DEF Init, TypeOK
<1>3. Progress /\ Numbered /\ CommittedCounts /\ AckedBehind /\ AckedIsApplied
  BY DEF Init, Progress, Numbered, Requested, CommittedCounts, AckedBehind, AckedIsApplied
<1>4. TableExact
  BY <1>1, RequestsAssumption DEF Init, TableExact
<1>5. AppliedInOrder
  BY <1>1 DEF AppliedInOrder
<1> QED
  BY <1>2, <1>3, <1>4, <1>5 DEF RequestsInv

LEMMA SendInv ==
    ASSUME RequestsInv, NEW c \in Client, Send(c)
    PROVE  RequestsInv'
<1> USE DEF habits, machine
<1> DEFINE p == ProxyRequest(c)
<1>0. /\ TypeOK /\ Progress /\ Numbered /\ TableExact /\ CommittedCounts
      /\ AckedBehind /\ AppliedInOrder /\ AckedIsApplied
  BY DEF RequestsInv
<1>1. /\ num[c] \in Nat /\ num[c] <= MaxWrites
      /\ sent \in Nat /\ sent < MaxRequests /\ attempt[c] \in Nat
      /\ {MaxWrites, MaxRequests} \subseteq Nat
  BY <1>0, RequestsAssumption DEF TypeOK, Send
<1>2. /\ p \in Request /\ p.write = [client |-> c, num |-> num[c]]
      /\ p.session \in {c, Shared, Absent}
      /\ c \in Numbering => p.session = c /\ p.id = num[c]
  BY <1>0, <1>1, ProxyRequestType
<1>3. /\ inflight' = inflight \cup {p}
      /\ UNCHANGED <<num, acked, committed, kv, dedupTable, order>>
  BY DEF Send
<1> HIDE DEF p
<1>4. attempt[c] + 1 \in 0..MaxRequests
  BY <1>0, <1>1 DEF Progress
<1>5. TypeOK'
  BY <1>0, <1>1, <1>2, <1>3, <1>4 DEF TypeOK, Send
<1>6. Progress'
  BY <1>0, <1>1 DEF TypeOK, Progress, Send
<1>7. Numbered'
  <2>1. phase'[c] = "waiting" /\ \A d \in Client : phase'[d] = "ready" => phase[d] = "ready"
    BY <1>0 DEF TypeOK, Send
  <2>2. \A r \in Requested : r.write.client \in Client
    BY <1>0 DEF TypeOK, Requested, Request, Write
  <2>3. Shared \notin Numbering /\ Absent \notin Numbering
    BY RequestsAssumption
  <2> SUFFICES ASSUME NEW r \in Requested'
               PROVE  /\ r.session \in Numbering => r.write.client = r.session
                      /\ r.write.client \in Numbering =>
                            /\ r.session = r.write.client
                            /\ r.id = r.write.num
                            /\ r.write.num <= num[r.write.client]
                            /\ phase'[r.write.client] = "ready"
                                  => r.write.num < num[r.write.client]
    BY <1>3 DEF Numbered
  <2>4. CASE r = p
    BY <1>1, <1>2, <2>1, <2>3, <2>4
  <2>5. CASE r \in Requested
    BY <1>0, <2>1, <2>2, <2>5 DEF Numbered
  <2> QED
    BY <1>3, <2>4, <2>5 DEF Requested
<1>8. TableExact'
  BY <1>0, <1>3, RequestsAssumption DEF TypeOK, TableExact, Send, Effect
<1>9. (CommittedCounts /\ AckedBehind /\ AppliedInOrder /\ AckedIsApplied)'
  BY <1>0, <1>3 DEF CommittedCounts, AckedBehind, AppliedInOrder, AckedIsApplied
<1> QED
  BY <1>5, <1>6, <1>7, <1>8, <1>9 DEF RequestsInv

\* A request of a client in Numbering that is not skipped is the last of its
\* writes so far.
LEMMA applyCommandInv ==
    ASSUME RequestsInv, NEW r \in inflight, applyCommand(r)
    PROVE  RequestsInv'
<1> USE DEF clients, habits, machine
<1> DEFINE c == r.write.client
           w == r.write
<1>0. /\ TypeOK /\ Progress /\ Numbered /\ TableExact /\ CommittedCounts
      /\ AckedBehind /\ AppliedInOrder /\ AckedIsApplied
  BY DEF RequestsInv
<1>1. /\ r \in Request /\ w \in Write /\ c \in Client /\ w.num \in Nat \ {0}
      /\ r.id \in Nat /\ r.session \in Session /\ w = [client |-> c, num |-> w.num]
  BY <1>0, RequestsAssumption DEF TypeOK, Request, Write
<1>2. /\ inflight' = inflight \ {r} /\ committed' = committed \cup {r}
      /\ UNCHANGED <<num, attempt, phase, acked, sent, headers, direct, restarts,
                     reqIDCounter>>
  BY DEF applyCommand
<1>3. Numbered' /\ Progress' /\ AckedBehind'
  BY <1>0, <1>2 DEF Numbered, Requested, Progress, AckedBehind
<1>4. /\ c \in Numbering => /\ r.session = c /\ r.id = w.num
                             /\ w.num <= num[c] /\ Tracked(r)
      /\ r.session \in Numbering => c = r.session
      /\ \A d \in Numbering : d \in Client /\ num[d] \in Nat /\ dedupTable[d] \in Nat
  <2>1. \A d \in Numbering : d \in Client /\ num[d] \in Nat /\ dedupTable[d] \in Nat
    BY <1>0, RequestsAssumption DEF TypeOK
  <2>2. c \in Numbering => /\ r.session = c /\ r.id = w.num
                            /\ w.num <= num[c] /\ Tracked(r)
    BY <1>0, <1>1, RequestsAssumption DEF Numbered, Requested, Tracked
  <2>3. r.session \in Numbering => c = r.session
    BY <1>0, <1>1 DEF Numbered, Requested
  <2> QED
    BY <2>1, <2>2, <2>3
<1>5. CASE Duplicate(r)
  <2>1. UNCHANGED <<kv, dedupTable, order>>
    BY <1>5 DEF applyCommand
  <2>2. TypeOK' /\ TableExact' /\ AppliedInOrder' /\ AckedIsApplied'
    BY <1>0, <1>1, <1>2, <2>1 DEF TypeOK, TableExact, AppliedInOrder, AckedIsApplied, Effect
  <2>3. ASSUME c \in Numbering, w.num = num[c]
        PROVE  dedupTable[c] = num[c]
    <3>1. r.id <= dedupTable[c] /\ r.id = num[c] /\ dedupTable[c] <= num[c]
      BY <1>0, <1>4, <1>5, <2>3 DEF Duplicate, TableExact
    <3> QED
      BY <1>4, <2>3, <3>1
  <2>4. CommittedCounts'
    BY <1>0, <1>2, <2>1, <2>3 DEF CommittedCounts
  <2> QED
    BY <1>3, <2>2, <2>4 DEF RequestsInv
<1>6. CASE ~Duplicate(r)
  <2>1. /\ kv' = [kv EXCEPT ![c] = Effect(w)]
        /\ dedupTable' = IF Tracked(r) THEN [dedupTable EXCEPT ![r.session] = r.id]
                                       ELSE dedupTable
        /\ order' = Append(order, w)
    BY <1>6 DEF applyCommand, LastAppliedRequestID
  <2>2. /\ order \in Seq(Write) /\ order' \in Seq(Write) /\ Len(order) \in Nat
        /\ Len(order') = Len(order) + 1 /\ order'[Len(order) + 1] = w
        /\ \A k \in 1..Len(order) : order'[k] = order[k]
    BY <1>0, <1>1, <2>1, AppendProperties, LenProperties DEF TypeOK
  <2>3. TypeOK'
    <3>1. dedupTable' \in [Client \cup {Shared} -> Nat]
      BY <1>0, <1>1, <2>1 DEF TypeOK, Tracked
    <3>2. kv' \in [Client -> 1..MaxWrites \cup {Absent}]
      BY <1>0, <1>1, <2>1, EffectType DEF TypeOK
    <3> QED
      BY <1>0, <1>1, <1>2, <2>2, <3>1, <3>2 DEF TypeOK
  <2>4. c \in Numbering => /\ dedupTable[c] < w.num
                           /\ dedupTable' = [dedupTable EXCEPT ![c] = w.num]
    <3> SUFFICES ASSUME c \in Numbering
                 PROVE  /\ dedupTable[c] < w.num
                        /\ dedupTable' = [dedupTable EXCEPT ![c] = w.num]
      OBVIOUS
    <3>1. r.session = c /\ r.id = w.num /\ Tracked(r) /\ dedupTable[c] \in Nat
      BY <1>4
    <3>2. ~(r.id <= dedupTable[c])
      BY <1>6, <3>1 DEF Duplicate
    <3> QED
      BY <1>1, <2>1, <3>1, <3>2
  <2>5. ASSUME NEW d \in Numbering, d # c
        PROVE  dedupTable'[d] = dedupTable[d] /\ kv'[d] = kv[d]
    BY <1>0, <1>1, <1>4, <2>1, <2>5 DEF TypeOK
  <2>6. c \in Numbering => dedupTable'[c] = w.num /\ kv'[c] = Effect(w)
    BY <1>0, <1>1, <2>1, <2>4 DEF TypeOK
  <2>7. \A k \in 1..Len(order') :
           \/ k \in 1..Len(order) /\ order'[k] = order[k]
           \/ k = Len(order) + 1 /\ order'[k] = w
    BY <2>2
  <2>8. TableExact'
    <3> SUFFICES ASSUME NEW d \in Numbering
                 PROVE  /\ dedupTable'[d] <= num[d]
                        /\ phase[d] = "ready" => dedupTable'[d] < num[d]
                        /\ \A k \in 1..Len(order') :
                              order'[k].client = d => order'[k].num <= dedupTable'[d]
                        /\ dedupTable'[d] = 0 => kv'[d] = Absent
                        /\ dedupTable'[d] > 0 =>
                              LET v == [client |-> d, num |-> dedupTable'[d]]
                              IN  kv'[d] = Effect(v) /\ \E k \in 1..Len(order') : order'[k] = v
      BY <1>2 DEF TableExact, Effect
    <3>1. CASE d = c
      <4>1. w.num <= num[c] /\ (phase[c] = "ready" => w.num < num[c])
        BY <1>0, <3>1 DEF Numbered, Requested
      <4>2. \A k \in 1..Len(order) : order[k].client = c => order[k].num <= w.num
        <5>1. \A k \in 1..Len(order) : order[k].num \in Nat
          BY <2>2, OrderedNums
        <5>2. \A k \in 1..Len(order) : order[k].client = c => order[k].num <= dedupTable[c]
          BY <1>0, <3>1 DEF TableExact
        <5> QED
          BY <1>1, <1>4, <2>4, <3>1, <5>1, <5>2
      <4> QED
        BY <1>1, <2>2, <2>6, <2>7, <3>1, <4>1, <4>2
    <3>2. CASE d # c
      <4>1. dedupTable'[d] = dedupTable[d] /\ kv'[d] = kv[d]
        BY <2>5, <3>2
      <4> QED
        BY <1>0, <1>4, <2>2, <2>7, <3>2, <4>1 DEF TableExact
    <3> QED
      BY <3>1, <3>2
  <2>9. CommittedCounts'
    <3> SUFFICES ASSUME NEW q \in committed', q.write.client \in Numbering,
                        q.write.num = num[q.write.client]
                 PROVE  dedupTable'[q.write.client] = num[q.write.client]
      BY <1>2 DEF CommittedCounts
    <3> DEFINE d == q.write.client
    <3>1. CASE q = r
      BY <2>6, <3>1
    <3>2. CASE q # r
      <4>1. dedupTable[d] = num[d]
        BY <1>0, <1>2, <3>2 DEF CommittedCounts
      <4>2. d = c => FALSE
        BY <1>1, <1>4, <2>4, <4>1
      <4> QED
        BY <2>5, <4>1, <4>2
    <3> QED
      BY <3>1, <3>2
  <2>10. AppliedInOrder'
    <3> SUFFICES ASSUME NEW j \in 1..Len(order'), NEW k \in 1..Len(order'), j < k,
                        order'[j].client = order'[k].client,
                        order'[j].client \in Numbering
                 PROVE  order'[j].num < order'[k].num
      BY DEF AppliedInOrder
    <3>1. j \in 1..Len(order) /\ order'[j] = order[j]
      BY <2>2
    <3>2. CASE k \in 1..Len(order)
      BY <1>0, <2>2, <3>1, <3>2 DEF AppliedInOrder
    <3>3. CASE k = Len(order) + 1
      <4>1. order[j].client = c /\ c \in Numbering /\ order'[k] = w
        BY <2>2, <3>1, <3>3
      <4>2. order[j].num <= dedupTable[c] /\ dedupTable[c] < w.num
        BY <1>0, <2>4, <3>1, <4>1 DEF TableExact
      <4>3. order[j].num \in Nat
        BY <2>2, <3>1, OrderedNums
      <4> QED
        BY <1>1, <1>4, <3>1, <4>1, <4>2, <4>3
    <3> QED
      BY <2>2, <3>2, <3>3
  <2>11. AckedIsApplied'
    <3> SUFFICES ASSUME NEW v \in acked, v.client \in Numbering
                 PROVE  \E k \in 1..Len(order') : order'[k] = v
      BY <1>2 DEF AckedIsApplied
    <3>1. PICK k \in 1..Len(order) : order[k] = v
      BY <1>0 DEF AckedIsApplied
    <3> QED
      BY <2>2, <3>1
  <2> QED
    BY <1>3, <2>3, <2>8, <2>9, <2>10, <2>11 DEF RequestsInv
<1> QED
  BY <1>5, <1>6

LEMMA AnsweredInv ==
    ASSUME RequestsInv, NEW r \in committed, Answered(r)
    PROVE  RequestsInv'
<1> USE DEF habits, machine
<1> DEFINE c == r.write.client
           w == r.write
<1>0. /\ TypeOK /\ Progress /\ Numbered /\ TableExact /\ CommittedCounts
      /\ AckedBehind /\ AppliedInOrder /\ AckedIsApplied
  BY DEF RequestsInv
<1>1. /\ r \in Request /\ w \in Write /\ c \in Client /\ w.num \in Nat
      /\ w = [client |-> c, num |-> w.num]
      /\ num[c] \in Nat /\ MaxWrites \in Nat
  BY <1>0, RequestsAssumption DEF TypeOK, Request, Write
<1>2. /\ committed' = committed \ {r}
      /\ UNCHANGED <<headers, direct, sent, inflight, restarts, reqIDCounter, kv,
                     dedupTable, order>>
  BY DEF Answered
<1>3. AppliedInOrder'
  BY <1>0, <1>2 DEF AppliedInOrder
<1>4. CASE phase[c] = "waiting" /\ w.num = num[c] /\ r.attempt = attempt[c]
  <2>1. /\ acked' = acked \cup {w}
        /\ phase' = [phase EXCEPT ![c] = "ready"]
        /\ num' = [num EXCEPT ![c] = @ + 1]
        /\ attempt' = [attempt EXCEPT ![c] = 0]
    BY <1>4 DEF Answered
  <2>2. num[c] <= MaxWrites
    BY <1>0, <1>1, <1>4 DEF Progress
  <2>3. TypeOK'
    <3>1. num' \in [Client -> 1..(MaxWrites + 1)]
      <4>1. num[c] + 1 \in 1..(MaxWrites + 1)
        BY <1>1, <2>2
      <4> QED
        BY <1>0, <2>1, <4>1 DEF TypeOK
    <3>2. attempt' \in [Client -> 0..MaxRequests]
      <4>1. 0 \in 0..MaxRequests
        BY RequestsAssumption
      <4> QED
        BY <1>0, <2>1, <4>1 DEF TypeOK
    <3>3. phase' \in [Client -> {"ready", "waiting", "failed"}] /\ acked' \subseteq Write
      BY <1>0, <1>1, <2>1 DEF TypeOK
    <3> QED
      BY <1>0, <1>2, <3>1, <3>2, <3>3 DEF TypeOK
  <2>4. ASSUME NEW d \in Client
        PROVE  /\ d = c => /\ num'[d] = num[d] + 1 /\ phase'[d] = "ready"
                           /\ attempt'[d] = 0
               /\ d # c => num'[d] = num[d] /\ phase'[d] = phase[d] /\ attempt'[d] = attempt[d]
               /\ num[d] \in Nat
    BY <1>0, <1>1, <2>1 DEF TypeOK
  <2>5. Progress'
    <3>1. sent \in Nat
      BY <1>0, RequestsAssumption DEF TypeOK
    <3> QED
      BY <1>0, <1>2, <2>4, <3>1 DEF Progress
  <2>6. \A q \in Requested : q.write.client \in Client /\ q.write.num \in Nat
    BY <1>0 DEF TypeOK, Requested, Request, Write
  <2>7. Numbered'
    BY <1>0, <1>2, <2>4, <2>6, RequestsAssumption DEF Numbered, Requested
  <2>8. TableExact'
    <3>1. \A d \in Numbering : d \in Client /\ dedupTable[d] \in Nat
      BY <1>0, RequestsAssumption DEF TypeOK
    <3> QED
      BY <1>0, <1>2, <2>4, <3>1 DEF TableExact, Effect
  <2>9. CommittedCounts'
    <3> SUFFICES ASSUME NEW q \in committed', q.write.client \in Numbering,
                        q.write.num = num'[q.write.client]
                 PROVE  dedupTable[q.write.client] = num'[q.write.client]
      BY <1>2 DEF CommittedCounts
    <3> DEFINE d == q.write.client
    <3>1. q \in committed /\ d \in Client /\ q.write.num <= num[d] /\ q.write.num \in Nat
      BY <1>0, <1>2, <2>6 DEF Numbered, Requested
    <3>2. d # c /\ num'[d] = num[d]
      BY <2>4, <3>1
    <3> QED
      BY <1>0, <3>1, <3>2 DEF CommittedCounts
  <2>10. AckedBehind'
    <3>1. \A v \in acked : v.client \in Client /\ v.num \in Nat
      BY <1>0 DEF TypeOK, Write
    <3> QED
      BY <1>0, <1>1, <1>4, <2>1, <2>4, <3>1 DEF AckedBehind
  <2>11. AckedIsApplied'
    <3> SUFFICES ASSUME c \in Numbering
                 PROVE  \E k \in 1..Len(order) : order[k] = w
      BY <1>0, <1>2, <2>1 DEF AckedIsApplied
    <3>1. dedupTable[c] = w.num
      BY <1>0, <1>4 DEF CommittedCounts
    <3>2. w.num > 0
      BY <1>1, RequestsAssumption DEF Write
    <3> QED
      BY <1>0, <1>1, <3>1, <3>2 DEF TableExact
  <2> QED
    BY <1>3, <2>3, <2>5, <2>7, <2>8, <2>9, <2>10, <2>11 DEF RequestsInv
<1>5. CASE ~(phase[c] = "waiting" /\ w.num = num[c] /\ r.attempt = attempt[c])
  <2>1. UNCHANGED <<num, attempt, phase, acked>>
    BY <1>5 DEF Answered
  <2>2. TypeOK' /\ Progress' /\ Numbered'
    BY <1>0, <1>2, <2>1 DEF TypeOK, Progress, Numbered, Requested
  <2>3. TableExact' /\ CommittedCounts' /\ AckedBehind' /\ AckedIsApplied'
    BY <1>0, <1>2, <2>1 DEF TableExact, CommittedCounts, AckedBehind, AckedIsApplied, Effect
  <2> QED
    BY <1>3, <2>2, <2>3 DEF RequestsInv
<1> QED
  BY <1>4, <1>5

LEMMA FailureInv ==
    ASSUME RequestsInv, (\E c \in Client : AttemptFails(c)) \/ GatewayRestart
    PROVE  RequestsInv'
<1> USE DEF habits, machine
<1>0. /\ TypeOK /\ Progress /\ Numbered /\ TableExact /\ CommittedCounts
      /\ AckedBehind /\ AppliedInOrder /\ AckedIsApplied
  BY DEF RequestsInv
<1>1. /\ UNCHANGED <<headers, direct, num, attempt, acked, sent, inflight, committed,
                     kv, dedupTable, order>>
      /\ phase' \in [Client -> {"ready", "waiting", "failed"}]
      /\ \A c \in Client : phase'[c] = phase[c] \/ (phase[c] # "ready" /\ phase'[c] # "ready")
      /\ reqIDCounter' \in Nat /\ restarts' \in 0..MaxRestarts
  <2>1. CASE \E c \in Client : AttemptFails(c)
    BY <1>0, <2>1 DEF AttemptFails, TypeOK
  <2>2. CASE GatewayRestart
    BY <1>0, <2>2, RequestsAssumption DEF GatewayRestart, TypeOK
  <2> QED
    BY <2>1, <2>2
<1>2. TypeOK' /\ Progress'
  BY <1>0, <1>1 DEF TypeOK, Progress
<1>3. Numbered' /\ TableExact'
  BY <1>0, <1>1, RequestsAssumption DEF Numbered, Requested, TableExact, Effect
<1>4. (CommittedCounts /\ AckedBehind /\ AppliedInOrder /\ AckedIsApplied)'
  BY <1>0, <1>1 DEF CommittedCounts, AckedBehind, AppliedInOrder, AckedIsApplied
<1> QED
  BY <1>2, <1>3, <1>4 DEF RequestsInv

LEMMA GiveUpInv ==
    ASSUME RequestsInv, NEW c \in Client, GiveUp(c)
    PROVE  RequestsInv'
<1> USE DEF habits, machine
<1>0. /\ TypeOK /\ Progress /\ Numbered /\ TableExact /\ CommittedCounts
      /\ AckedBehind /\ AppliedInOrder /\ AckedIsApplied
  BY DEF RequestsInv
<1>1. /\ phase' = [phase EXCEPT ![c] = "ready"]
      /\ num' = [num EXCEPT ![c] = @ + 1]
      /\ attempt' = [attempt EXCEPT ![c] = 0]
      /\ UNCHANGED <<headers, direct, acked, sent, inflight, committed, restarts,
                     reqIDCounter, kv, dedupTable, order>>
  BY DEF GiveUp
<1>2. num[c] \in Nat /\ MaxWrites \in Nat /\ num[c] <= MaxWrites
  BY <1>0, RequestsAssumption DEF TypeOK, Progress, GiveUp
<1>3. TypeOK'
  <2>1. num' \in [Client -> 1..(MaxWrites + 1)]
    <3>1. num[c] + 1 \in 1..(MaxWrites + 1)
      BY <1>2
    <3> QED
      BY <1>0, <1>1, <3>1 DEF TypeOK
  <2>2. /\ attempt' \in [Client -> 0..MaxRequests]
        /\ phase' \in [Client -> {"ready", "waiting", "failed"}]
    BY <1>0, <1>1, RequestsAssumption DEF TypeOK
  <2> QED
    BY <1>0, <1>1, <2>1, <2>2 DEF TypeOK
<1>4. ASSUME NEW d \in Client
      PROVE  /\ d = c => num'[d] = num[d] + 1 /\ phase'[d] = "ready" /\ attempt'[d] = 0
             /\ d # c => num'[d] = num[d] /\ phase'[d] = phase[d] /\ attempt'[d] = attempt[d]
             /\ num[d] \in Nat
  BY <1>0, <1>1 DEF TypeOK
<1>5. Progress'
  <2>1. sent \in Nat
    BY <1>0, RequestsAssumption DEF TypeOK
  <2> QED
    BY <1>0, <1>1, <1>4, <2>1 DEF Progress
<1>6. /\ \A q \in Requested : q.write.client \in Client /\ q.write.num \in Nat
      /\ \A v \in acked : v.client \in Client /\ v.num \in Nat
      /\ \A d \in Numbering : d \in Client /\ dedupTable[d] \in Nat
  <2>1. Requested \subseteq Request /\ acked \subseteq Write
    BY <1>0 DEF TypeOK, Requested
  <2>2. \A v \in Write : v.client \in Client /\ v.num \in Nat
    BY RequestsAssumption DEF Write
  <2>3. \A q \in Request : q.write \in Write
    BY DEF Request
  <2>4. \A d \in Numbering : d \in Client /\ dedupTable[d] \in Nat
    BY <1>0, RequestsAssumption DEF TypeOK
  <2> QED
    BY <2>1, <2>2, <2>3, <2>4
<1>7. Numbered' /\ AckedBehind'
  BY <1>0, <1>1, <1>4, <1>6 DEF Numbered, Requested, AckedBehind
<1>8. TableExact'
  BY <1>0, <1>1, <1>4, <1>6 DEF TableExact, Effect
<1>9. CommittedCounts'
  <2> SUFFICES ASSUME NEW q \in committed, q.write.client \in Numbering,
                      q.write.num = num'[q.write.client]
               PROVE  dedupTable[q.write.client] = num'[q.write.client]
    BY <1>1 DEF CommittedCounts
  <2> DEFINE d == q.write.client
  <2>1. d \in Client /\ q.write.num <= num[d] /\ q.write.num \in Nat
    BY <1>0, <1>6 DEF Numbered, Requested
  <2>2. num'[d] = num[d]
    BY <1>4, <2>1
  <2> QED
    BY <1>0, <2>1, <2>2 DEF CommittedCounts
<1>10. AppliedInOrder' /\ AckedIsApplied'
  BY <1>0, <1>1 DEF AppliedInOrder, AckedIsApplied
<1> QED
  BY <1>3, <1>5, <1>7, <1>8, <1>9, <1>10 DEF RequestsInv

LEMMA NextRequestsInv == RequestsInv /\ [Next]_vars => RequestsInv'
<1> SUFFICES ASSUME RequestsInv, [Next]_vars PROVE RequestsInv'
  OBVIOUS
<1>1. CASE Next
  BY <1>1, SendInv, applyCommandInv, AnsweredInv, FailureInv, GiveUpInv DEF Next
<1>2. CASE UNCHANGED vars
  <2>1. UNCHANGED <<headers, direct, num, attempt, phase, acked, sent, inflight,
                    committed, reqIDCounter, restarts, kv, dedupTable, order>>
    BY <1>2 DEF vars, clients, habits, machine
  <2> QED
    BY <2>1 DEF RequestsInv, TypeOK, Progress, Numbered, Requested, TableExact, Effect,
                CommittedCounts, AckedBehind, AppliedInOrder, AckedIsApplied
<1> QED
  BY <1>1, <1>2
-----------------------------------------------------------------------------
LEMMA RequestsInductive == Spec => []RequestsInv
<1>1. Init => RequestsInv
  BY InitRequestsInv
<1>2. RequestsInv /\ [Next]_vars => RequestsInv'
  BY NextRequestsInv
<1> QED
  BY <1>1, <1>2, PTL DEF Spec

\* The clients, the gateway and the state machine stay well typed: no client is
\* beyond its last write and no request carries an id that is not a number.
THEOREM RequestsTypeCorrect == Spec => []TypeOK
<1>1. RequestsInv => TypeOK
  BY DEF RequestsInv
<1> QED
  BY <1>1, RequestsInductive, PTL

\* The dedup test of applyCommand applies the writes of a client that numbers
\* them at most once and in order, however attempts overtake one another and
\* whoever else writes.
THEOREM WritesInOrder == Spec => []AppliedInOrder
<1>1. RequestsInv => AppliedInOrder
  BY DEF RequestsInv
<1> QED
  BY <1>1, RequestsInductive, PTL

\* handlePut and handleDelete answer such a client with ok only for a write that
\* is in the state machine's history, also when the attempt answered was
\* skipped as a duplicate.
THEOREM AcksAreApplied == Spec => []AckedIsApplied
<1>1. RequestsInv => AckedIsApplied
  BY DEF RequestsInv
<1> QED
  BY <1>1, RequestsInductive, PTL

\* Between two writes the store holds what such a client was last answered for.
LEMMA LatestFromInv == RequestsInv => ReadsLatest
<1> SUFFICES ASSUME RequestsInv, NEW c \in Numbering, phase[c] = "ready",
                    [client |-> c, num |-> num[c] - 1] \in acked
             PROVE  kv[c] = Effect([client |-> c, num |-> num[c] - 1])
  BY DEF ReadsLatest
<1> DEFINE last == [client |-> c, num |-> num[c] - 1]
<1>1. /\ c \in Client /\ num[c] \in Nat /\ dedupTable[c] \in Nat
      /\ last \in Write /\ last.num = num[c] - 1 /\ last.client = c
  BY RequestsAssumption DEF RequestsInv, TypeOK
<1>2. PICK k \in 1..Len(order) : order[k] = last
  BY <1>1 DEF RequestsInv, AckedIsApplied
<1>3. num[c] - 1 <= dedupTable[c] /\ dedupTable[c] < num[c]
  <2>1. TableExact
    BY DEF RequestsInv
  <2>2. dedupTable[c] < num[c]
    BY <1>1, <2>1 DEF RequestsInv, TableExact
  <2>3. order[k].client = c => order[k].num <= dedupTable[order[k].client]
    BY <1>1, <2>1 DEF TableExact
  <2> QED
    BY <1>1, <1>2, <2>2, <2>3
<1>4. dedupTable[c] = num[c] - 1
  BY <1>1, <1>3
<1>5. num[c] - 1 > 0
  BY <1>1, RequestsAssumption DEF Write
<1> QED
  BY <1>4, <1>5 DEF RequestsInv, TableExact

\* A client that numbers its writes and reads between two of them sees the one
\* it was answered for: no attempt given up earlier overwrites it afterwards.
THEOREM ReadsSeeLatest == Spec => []ReadsLatest
<1>1. RequestsInv => ReadsLatest
  BY LatestFromInv
<1> QED
  BY <1>1, RequestsInductive, PTL

-----------------------------------------------------------------------------
(***************************************************************************)
(* The refinement.                                                         *)
(***************************************************************************)
LEMMA InitPromise == Init => Promise!Init
<1> SUFFICES ASSUME Init PROVE Promise!Init
  OBVIOUS
<1>1. Promised(ToSet(order)) = {} /\ Promised(acked) = {}
  BY EmptySeq DEF Init, Promised, ToSet
<1>2. Restrict(kv, Numbering) = [c \in Numbering |-> Absent]
  BY RequestsAssumption DEF Init, Restrict
<1> QED
  BY <1>1, <1>2 DEF Promise!Init

\* A write that applyCommand does not skip is an Apply, or invisible.
LEMMA applyCommandRefines ==
    ASSUME RequestsInv, NEW r \in inflight, applyCommand(r)
    PROVE  (\E w \in Promise!Write : Promise!Apply(w)) \/ UNCHANGED Promise!vars
<1> USE DEF clients, machine
<1> DEFINE w == r.write
           c == w.client
<1>1. /\ w \in Write /\ c \in Client /\ w.num \in Nat /\ order \in Seq(Write)
      /\ kv \in [Client -> 1..MaxWrites \cup {Absent}]
  BY RequestsAssumption DEF RequestsInv, TypeOK, Request, Write
<1>2. UNCHANGED acked
  BY DEF applyCommand
<1>3. CASE Duplicate(r)
  BY <1>2, <1>3 DEF applyCommand, Promise!vars
<1>4. CASE ~Duplicate(r)
  <2>1. order' = Append(order, w) /\ kv' = [kv EXCEPT ![c] = Effect(w)]
    BY <1>4 DEF applyCommand
  <2>2. ToSet(order') = ToSet(order) \cup {w}
    <3>1. /\ order' \in Seq(Write) /\ Len(order') = Len(order) + 1
          /\ \A k \in 1..Len(order) : order'[k] = order[k]
          /\ order'[Len(order) + 1] = w
      BY <1>1, <2>1, AppendProperties
    <3>2. DOMAIN order = 1..Len(order) /\ DOMAIN order' = 1..Len(order') /\ Len(order) \in Nat
      BY <1>1, <3>1, LenProperties
    <3> QED
      BY <3>1, <3>2 DEF ToSet
  <2>3. CASE c \in Numbering
    <3>1. Promised(ToSet(order))' = Promised(ToSet(order)) \cup {w}
      BY <2>2, <2>3 DEF Promised
    <3>2. Restrict(kv, Numbering)' =
             [Restrict(kv, Numbering) EXCEPT
                 ![c] = IF w.num \in Deletes THEN Absent ELSE w.num]
      BY <1>1, <2>1, <2>3, RequestsAssumption DEF Restrict, Effect
    <3>3. r.id > dedupTable[c] /\ r.id = w.num /\ dedupTable[c] \in Nat
      <4>1. r.session = c /\ r.id = w.num
        BY <2>3 DEF RequestsInv, Numbered, Requested
      <4>2. dedupTable[c] \in Nat /\ w.num > 0 /\ c # Absent
        BY <1>1, RequestsAssumption DEF RequestsInv, TypeOK, Write
      <4> QED
        BY <1>1, <1>4, <4>1, <4>2 DEF Duplicate, Tracked
    <3>4. ASSUME NEW v \in Promised(ToSet(order)), v.client = c
          PROVE  v.num < w.num
      <4>1. PICK k \in 1..Len(order) : v = order[k]
        BY <1>1, LenProperties DEF Promised, ToSet
      <4>2. v.num <= dedupTable[c] /\ v.num \in Nat
        BY <1>1, <2>3, <3>4, <4>1, OrderedNums DEF RequestsInv, TableExact
      <4> QED
        BY <1>1, <3>3, <4>2
    <3>5. w \in Promise!Write
      BY <1>1, <2>3 DEF Write, Promise!Write
    <3>6. UNCHANGED Promised(acked)
      BY <1>2
    <3>7. Promise!Apply(w)
      BY <3>1, <3>2, <3>4, <3>6 DEF Promise!Apply
    <3> QED
      BY <3>5, <3>7
  <2>4. CASE c \notin Numbering
    <3>1. Promised(ToSet(order))' = Promised(ToSet(order))
      BY <2>2, <2>4 DEF Promised
    <3>2. Restrict(kv, Numbering)' = Restrict(kv, Numbering)
      BY <1>1, <2>1, <2>4, RequestsAssumption DEF Restrict
    <3> QED
      BY <1>2, <3>1, <3>2 DEF Promise!vars
  <2> QED
    BY <2>3, <2>4
<1> QED
  BY <1>3, <1>4

\* An answer is an Acknowledge of a write that has been applied, or invisible.
LEMMA AnsweredRefines ==
    ASSUME RequestsInv, RequestsInv', NEW r \in committed, Answered(r)
    PROVE  (\E w \in Promise!Write : Promise!Acknowledge(w)) \/ UNCHANGED Promise!vars
<1> DEFINE w == r.write
<1>1. w \in Write /\ order \in Seq(Write)
  BY DEF RequestsInv, TypeOK, Request
<1>2. UNCHANGED <<kv, order>>
  BY DEF Answered, machine
<1>3. CASE UNCHANGED acked
  BY <1>2, <1>3 DEF Promise!vars
<1>4. CASE acked' = acked \cup {w}
  <2>1. CASE w.client \in Numbering
    <3>1. PICK k \in 1..Len(order) : order[k] = w
      BY <1>2, <1>4, <2>1 DEF RequestsInv, AckedIsApplied
    <3>2. w \in Promised(ToSet(order))
      BY <1>1, <2>1, <3>1, LenProperties DEF Promised, ToSet
    <3>3. Promised(acked)' = Promised(acked) \cup {w}
      BY <1>4, <2>1 DEF Promised
    <3>4. w \in Promise!Write
      BY <1>1, <2>1 DEF Write, Promise!Write
    <3>5. Promise!Acknowledge(w)
      BY <1>2, <3>2, <3>3 DEF Promise!Acknowledge
    <3> QED
      BY <3>4, <3>5
  <2>2. CASE w.client \notin Numbering
    <3>1. Promised(acked)' = Promised(acked)
      BY <1>4, <2>2 DEF Promised
    <3> QED
      BY <1>2, <3>1 DEF Promise!vars
  <2> QED
    BY <2>1, <2>2
<1> QED
  BY <1>3, <1>4 DEF Answered

LEMMA NextPromise ==
    RequestsInv /\ RequestsInv' /\ [Next]_vars => [Promise!Next]_(Promise!vars)
<1> SUFFICES ASSUME RequestsInv, RequestsInv', [Next]_vars
             PROVE  Promise!Next \/ UNCHANGED Promise!vars
  OBVIOUS
<1>1. CASE \E r \in inflight : applyCommand(r)
  BY <1>1, applyCommandRefines DEF Promise!Next
<1>2. CASE \E r \in committed : Answered(r)
  BY <1>2, AnsweredRefines DEF Promise!Next
<1>3. CASE \/ \E c \in Client : Send(c) \/ AttemptFails(c) \/ GiveUp(c)
           \/ GatewayRestart
           \/ UNCHANGED vars
  <2>1. UNCHANGED <<acked, kv, order>>
    BY <1>3 DEF Send, AttemptFails, GiveUp, GatewayRestart, vars, clients, machine
  <2> QED
    BY <2>1 DEF Promise!vars
<1> QED
  BY <1>1, <1>2, <1>3 DEF Next

\* The path of a write through gateway, node, log and state machine implements
\* ExactlyOnce for the clients that number their writes: applyCommand is its
\* Apply, the answer of handlePut and handleDelete its Acknowledge, and all
\* else is invisible.
THEOREM RequestsRefine == Spec => ImplementsExactlyOnce
<1>1. Init => Promise!Init
  BY InitPromise
<1>2. RequestsInv /\ RequestsInv' /\ [Next]_vars => [Promise!Next]_(Promise!vars)
  BY NextPromise
<1> QED
  BY <1>1, <1>2, RequestsInductive, PTL DEF Spec, ImplementsExactlyOnce, Promise!Spec
=============================================================================
