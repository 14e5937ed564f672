------------------------------ MODULE Requests ------------------------------
(***************************************************************************)
(* A write on its way from a client through the gateway to the key-value   *)
(* state machine: proxyRequest of gateway/gateway.go, handlePut and        *)
(* handleDelete of api/api.go, ProposeWithClient and applyCommand of       *)
(* raft/raft.go.                                                           *)
(*                                                                         *)
(* Each client writes its own key, one write after the other.  A write     *)
(* that fails, for instance because the gateway gave up after 3 s, may     *)
(* still be on its way; the client tries it again or goes on to the next.  *)
(* Writes reach the log in any order and are applied in log order; that    *)
(* the log is one sequence is what module Raft is about.                   *)
(*                                                                         *)
(* A client sends X-Client-ID and X-Request-ID, one of them or neither,    *)
(* through the gateway or to a node.  The gateway fills in what is         *)
(* missing: the client's address, which all clients behind one address     *)
(* share, and a number it counts up from 0.  A node fills in nothing, and  *)
(* a write without both is not checked for duplicates.  The promises are   *)
(* for the clients that send both headers, whatever the others do; they    *)
(* are stated as module ExactlyOnce, which this specification implements.  *)
(***************************************************************************)
EXTENDS Naturals, Sequences, SequencesExt

CONSTANTS
    Client,        \* the clients, all behind one address
    Numbering,     \* those that send both headers; the others do not
    Deletes,       \* which of a client's writes are DELETEs
    Shared,        \* the session id of the address
    Absent,        \* no value under a key
    MaxWrites,     \* bound: writes of each client
    MaxRequests,   \* bound: requests of all clients together
    MaxRestarts    \* bound: restarts of the gateway

ASSUME RequestsAssumption ==
    /\ {Shared, Absent} \cap Client = {}
    /\ Numbering \subseteq Client
    /\ Shared # Absent
    /\ {MaxWrites, MaxRequests, MaxRestarts} \subseteq Nat \ {0}
    /\ Deletes \subseteq 1..MaxWrites
    /\ Absent \notin 0..MaxWrites

VARIABLES
    headers,       \* the headers each client sends, of "client" and "request"
    direct,        \* the clients that write to a node, not to the gateway
    num,           \* the write each client is at
    attempt,       \* the attempts it has made at that write
    phase,         \* "ready", "waiting" for the answer, or "failed"
    acked,         \* the writes that were answered with status ok
    sent,          \* requests sent so far
    inflight,      \* requests on their way to the log
    committed,     \* requests committed and applied, their answer under way
    reqIDCounter,  \* Gateway.reqIDCounter
    restarts,      \* restarts of the gateway so far
    kv,            \* Raft.kv: the last write stored under each client's key
    dedupTable,    \* Raft.dedupTable: LastAppliedRequestID by client id
    order          \* history: the writes applied, in order

habits == <<headers, direct>>
clients == <<num, attempt, phase, acked, sent, habits>>
machine == <<kv, dedupTable, order>>
vars == <<clients, inflight, committed, reqIDCounter, restarts, machine>>
-----------------------------------------------------------------------------
Write == [client : Client, num : 1..MaxWrites]
Header == {"client", "request"}
Habits == {h \in [Client -> SUBSET Header] : {c \in Client : h[c] = Header} = Numbering}
\* Absent stands for the empty ClientID, 0 for a RequestID that is not given.
Session == Client \cup {Shared, Absent}
Request == [write : Write, attempt : Nat, session : Session, id : Nat]

TypeOK ==
    /\ headers \in Habits
    /\ direct \subseteq Client
    /\ num \in [Client -> 1..(MaxWrites + 1)]
    /\ attempt \in [Client -> 0..MaxRequests]
    /\ phase \in [Client -> {"ready", "waiting", "failed"}]
    /\ acked \subseteq Write
    /\ sent \in 0..MaxRequests
    /\ inflight \subseteq Request
    /\ committed \subseteq Request
    /\ reqIDCounter \in Nat
    /\ restarts \in 0..MaxRestarts
    /\ kv \in [Client -> 1..MaxWrites \cup {Absent}]
    /\ dedupTable \in [Client \cup {Shared} -> Nat]
    /\ order \in Seq(Write)

Init ==
    /\ headers \in Habits
    /\ direct \in SUBSET Client
    /\ num = [c \in Client |-> 1]
    /\ attempt = [c \in Client |-> 0]
    /\ phase = [c \in Client |-> "ready"]
    /\ acked = {}
    /\ sent = 0
    /\ inflight = {}
    /\ committed = {}
    /\ reqIDCounter = 0
    /\ restarts = 0
    /\ kv = [c \in Client |-> Absent]
    /\ dedupTable = [s \in Client \cup {Shared} |-> 0]
    /\ order = << >>
-----------------------------------------------------------------------------
CurrentWrite(c) == [client |-> c, num |-> num[c]]

\* Does proxyRequest count up reqIDCounter for the client's request?
InjectsID(c) == c \notin direct /\ "request" \notin headers[c]

\* The ids extractClientMetadata finds in the client's request.
ClientID(c) ==
    IF "client" \in headers[c] THEN c
    ELSE IF c \in direct THEN Absent ELSE Shared
RequestID(c) ==
    IF "request" \in headers[c] THEN num[c]
    ELSE IF c \in direct THEN 0 ELSE reqIDCounter + 1

\* Mutated ProxyRequest: the gateway always counts the requests itself.
ProxyRequestCounted(c) ==
    [write   |-> CurrentWrite(c),
     attempt |-> attempt[c] + 1,
     session |-> ClientID(c),
     id      |-> IF c \in direct THEN RequestID(c) ELSE reqIDCounter + 1]

\* The request as the leader gets it.
ProxyRequest(c) ==
    [write   |-> CurrentWrite(c),
     attempt |-> attempt[c] + 1,
     session |-> ClientID(c),
     id      |-> RequestID(c)]

\* A client sends its write, for the first time or again after a failure.
Send(c) ==
    /\ phase[c] \in {"ready", "failed"}
    /\ num[c] <= MaxWrites
    /\ sent < MaxRequests
    /\ sent' = sent + 1
    /\ phase' = [phase EXCEPT ![c] = "waiting"]
    /\ attempt' = [attempt EXCEPT ![c] = @ + 1]
    /\ inflight' = inflight \cup {ProxyRequest(c)}
    /\ reqIDCounter' = IF InjectsID(c) THEN reqIDCounter + 1 ELSE reqIDCounter
    /\ UNCHANGED <<habits, num, acked, committed, restarts, machine>>

\* Mutated Effect: a DEL stores an empty value.
EffectEmpty(w) == IF w.num \in Deletes THEN 0 ELSE w.num

\* The value under the key after a PUT or a DEL of write w.
Effect(w) == IF w.num \in Deletes THEN Absent ELSE w.num

\* applyCommand deduplicates only requests with both ids.
Tracked(r) == r.session # Absent /\ r.id > 0

\* Mutated Duplicate: the last request applied is not a duplicate, or nothing
\* is.
DuplicateOlder(r) == Tracked(r) /\ r.id < dedupTable[r.session]
NoDuplicate(r) == FALSE

\* The dedup test of applyCommand.
Duplicate(r) == Tracked(r) /\ r.id <= dedupTable[r.session]

\* Mutated LastAppliedRequestID: the next id is recorded.
NextRequestID(r) == r.id + 1

\* What applyCommand records for the client of a request it applies.
LastAppliedRequestID(r) == r.id

\* The request is committed, and applyCommand applies it or skips it; the
\* proposal succeeds in both cases.
applyCommand(r) ==
    /\ r \in inflight
    /\ inflight' = inflight \ {r}
    /\ committed' = committed \cup {r}
    /\ \/ /\ Duplicate(r)
          /\ UNCHANGED machine
       \/ /\ ~Duplicate(r)
          /\ kv' = [kv EXCEPT ![r.write.client] = Effect(r.write)]
          /\ dedupTable' = IF Tracked(r)
                           THEN [dedupTable EXCEPT ![r.session] = LastAppliedRequestID(r)]
                           ELSE dedupTable
          /\ order' = Append(order, r.write)
    /\ UNCHANGED <<clients, reqIDCounter, restarts>>

\* The answer to the attempt that the client waits for arrives.
Answered(r) ==
    LET c == r.write.client IN
    /\ r \in committed
    /\ committed' = committed \ {r}
    /\ IF phase[c] = "waiting" /\ r.write.num = num[c] /\ r.attempt = attempt[c]
       THEN /\ acked' = acked \cup {r.write}
            /\ phase' = [phase EXCEPT ![c] = "ready"]
            /\ num' = [num EXCEPT ![c] = @ + 1]
            /\ attempt' = [attempt EXCEPT ![c] = 0]
       ELSE UNCHANGED <<num, attempt, phase, acked>>
    /\ UNCHANGED <<habits, sent, inflight, reqIDCounter, restarts, machine>>

\* The attempt fails: no leader, a leader that stepped down, or a time-out
\* with the request still under way.
AttemptFails(c) ==
    /\ phase[c] = "waiting"
    /\ phase' = [phase EXCEPT ![c] = "failed"]
    /\ UNCHANGED <<habits, num, attempt, acked, sent, inflight, committed,
                   reqIDCounter, restarts, machine>>

\* The client goes on to its next write without knowing what became of this.
GiveUp(c) ==
    /\ phase[c] = "failed"
    /\ phase' = [phase EXCEPT ![c] = "ready"]
    /\ num' = [num EXCEPT ![c] = @ + 1]
    /\ attempt' = [attempt EXCEPT ![c] = 0]
    /\ UNCHANGED <<habits, acked, sent, inflight, committed, reqIDCounter, restarts,
                   machine>>

\* The gateway ends and starts again: it counts from 0, and whoever waits for
\* an answer gets none.
GatewayRestart ==
    /\ restarts < MaxRestarts
    /\ restarts' = restarts + 1
    /\ reqIDCounter' = 0
    /\ phase' = [c \in Client |-> IF phase[c] = "waiting" /\ c \notin direct
                                  THEN "failed" ELSE phase[c]]
    /\ UNCHANGED <<habits, num, attempt, acked, sent, inflight, committed, machine>>

Next ==
    \/ \E c \in Client : Send(c)
    \/ \E r \in inflight : applyCommand(r)
    \/ \E r \in committed : Answered(r)
    \/ \E c \in Client : AttemptFails(c)
    \/ \E c \in Client : GiveUp(c)
    \/ GatewayRestart

Spec == Init /\ [][Next]_vars
-----------------------------------------------------------------------------
(***************************************************************************)
(* Properties.                                                             *)
(***************************************************************************)
\* The writes of a client are applied in the order it issued them and each at
\* most once, although attempts overtake one another (the dedup test of
\* applyCommand).
AppliedInOrder ==
    \A j, k \in 1..Len(order) :
        j < k /\ order[j].client = order[k].client /\ order[j].client \in Numbering
           => order[j].num < order[k].num

\* A write that handlePut or handleDelete answered with status ok has been
\* applied, and not skipped as a duplicate of another one.
AckedIsApplied ==
    \A w \in acked : w.client \in Numbering => \E k \in 1..Len(order) : order[k] = w

\* Between two writes the state machine holds the client's last write if that
\* was answered: no attempt given up earlier can still overwrite it.
ReadsLatest ==
    \A c \in Numbering :
        LET last == [client |-> c, num |-> num[c] - 1]
        IN  phase[c] = "ready" /\ last \in acked => kv[c] = Effect(last)
-----------------------------------------------------------------------------
(***************************************************************************)
(* What the store promises, seen by the clients that number their writes.  *)
(***************************************************************************)
Promised(W) == {w \in W : w.client \in Numbering}

Promise == INSTANCE ExactlyOnce WITH
    Client <- Numbering,
    done   <- Promised(ToSet(order)),
    acked  <- Promised(acked),
    store  <- Restrict(kv, Numbering)

\* applyCommand and its answers implement ExactlyOnce: to these clients the
\* store looks as if it applied each write at most once and in order, and
\* answered a write only after that, whoever else writes, retries or shares
\* an address with them.
ImplementsExactlyOnce == Promise!Spec
=============================================================================
