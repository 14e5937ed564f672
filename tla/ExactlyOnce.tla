---------------------------- MODULE ExactlyOnce ----------------------------
(***************************************************************************)
(* What README.md promises of a write with ClientID and RequestID: it is   *)
(* applied at most once, in the order of the client's numbers, and is      *)
(* answered with success only when it has been applied.  Nothing is said   *)
(* of how: no requests, retries, gateway or deduplication table.           *)
(***************************************************************************)
EXTENDS Naturals

CONSTANTS
    Client,     \* the clients; each writes its own key
    MaxWrites,  \* the writes of a client are numbered 1..MaxWrites
    Deletes,    \* which of a client's writes are DELETEs
    Absent      \* no value under a key

VARIABLES
    done,       \* the writes applied
    acked,      \* the writes answered with success
    store       \* the value under the key of each client

vars == <<done, acked, store>>

Write == [client : Client, num : 1..MaxWrites]

Init ==
    /\ done = {}
    /\ acked = {}
    /\ store = [c \in Client |-> Absent]

\* A write takes effect, after all those of its client that already have.
Apply(w) ==
    /\ \A v \in done : v.client = w.client => v.num < w.num
    /\ done' = done \cup {w}
    /\ store' = [store EXCEPT ![w.client] = IF w.num \in Deletes THEN Absent ELSE w.num]
    /\ UNCHANGED acked

\* A client learns that its write has taken effect.
Acknowledge(w) ==
    /\ w \in done
    /\ acked' = acked \cup {w}
    /\ UNCHANGED <<done, store>>

Next == \E w \in Write : Apply(w) \/ Acknowledge(w)

Spec == Init /\ [][Next]_vars
=============================================================================
