------------------------------ MODULE Gateway ------------------------------
(***************************************************************************)
(* The gateway of gateway/gateway.go: how it finds the leader by polling   *)
(* the nodes, how it pushes what it found to browsers over server-sent     *)
(* events, and how it forwards a request; with the leader check of         *)
(* handleKV in api/api.go, which redirects.                                *)
(*                                                                         *)
(* The nodes are given by their place in NodeAddrs, whose order matters: a *)
(* poll takes the last node that calls itself leader.  The cluster is an   *)
(* environment here: any node that is up may become leader or stop being   *)
(* one at any time, and two may believe it at once (module Raft says when) *)
(* A poll is not atomic: each node is asked at its own time, and a poll    *)
(* started after a failed request runs beside the one of the ticker.       *)
(***************************************************************************)
EXTENDS Naturals, Sequences, FiniteSetsExt

CONSTANTS
    N,             \* the number of nodes in NodeAddrs
    Extra,         \* polls that failed requests have started, at most so many at once
    Browser,       \* the event-stream clients
    Capacity,      \* of the channel of a client: 8 in the code
    MaxRedirects   \* redirects that http.Client follows: 10 in the code

ASSUME GatewayAssumption == {N, Capacity, MaxRedirects} \subseteq Nat \ {0}

Node == 1..N
None == 0            \* leaderAddr is empty
Ticker == "ticker"   \* the poll of pollLoop
Poller == Extra \cup {Ticker}

VARIABLES
    role, up,     \* the cluster: who calls itself leader, who is reachable
    polls,        \* what each poll is doing
    leaderAddr,   \* Gateway.leaderAddr, and with it the overview
    request,      \* the request being forwarded
    channel,      \* by client: the events in its channel
    stream,       \* by client: "off", "registered" or "on"
    view          \* by client: the leader its browser shows

cluster == <<role, up>>
sse == <<channel, stream, view>>
vars == <<cluster, polls, leaderAddr, request, sse>>
-----------------------------------------------------------------------------
Report == {"leader", "other", "asked"}
Poll == [phase : {"idle"}] \cup [phase : {"asking"}, reports : [Node -> Report]]
        \cup [phase : {"pushing"}, found : Node \cup {None}]
Request == [phase : {"idle"}]
           \cup [phase : {"sent"}, at : Node, redirects : 0..MaxRedirects]

TypeOK ==
    /\ role \in [Node -> {"leader", "follower"}]
    /\ up \in [Node -> BOOLEAN]
    /\ polls \in [Poller -> Poll]
    /\ leaderAddr \in Node \cup {None}
    /\ request \in Request
    /\ channel \in [Browser -> Seq(Node \cup {None})]
    /\ \A b \in Browser : Len(channel[b]) <= Capacity
    /\ stream \in [Browser -> {"off", "registered", "on"}]
    /\ view \in [Browser -> Node \cup {None}]

Idle == [phase |-> "idle"]
Asking == [phase |-> "asking", reports |-> [n \in Node |-> "asked"]]

Init ==
    /\ role = [n \in Node |-> "follower"]
    /\ up = [n \in Node |-> TRUE]
    /\ polls = [p \in Poller |-> Idle]
    /\ leaderAddr = None
    /\ request = Idle
    /\ channel = [b \in Browser |-> << >>]
    /\ stream = [b \in Browser |-> "off"]
    /\ view = [b \in Browser |-> None]
-----------------------------------------------------------------------------
(***************************************************************************)
(* The cluster.                                                            *)
(***************************************************************************)
\* transitionToLeader at node n.
BecomeLeader(n) ==
    /\ up[n] /\ role[n] = "follower"
    /\ role' = [role EXCEPT ![n] = "leader"]
    /\ UNCHANGED <<up, polls, leaderAddr, request, sse>>

\* transitionToFollower at node n.
BecomeFollower(n) ==
    /\ up[n] /\ role[n] = "leader"
    /\ role' = [role EXCEPT ![n] = "follower"]
    /\ UNCHANGED <<up, polls, leaderAddr, request, sse>>

\* Node n ends, or cannot be reached.
GoDown(n) ==
    /\ up[n]
    /\ up' = [up EXCEPT ![n] = FALSE]
    /\ role' = [role EXCEPT ![n] = "follower"]
    /\ UNCHANGED <<polls, leaderAddr, request, sse>>

ComeUp(n) ==
    /\ ~up[n]
    /\ up' = [up EXCEPT ![n] = TRUE]
    /\ UNCHANGED <<role, polls, leaderAddr, request, sse>>
-----------------------------------------------------------------------------
(***************************************************************************)
(* Polling.                                                                *)
(***************************************************************************)
\* The ticker fires while pollLoop waits for it.
Tick ==
    /\ polls[Ticker] = Idle
    /\ polls' = [polls EXCEPT ![Ticker] = Asking]
    /\ UNCHANGED <<cluster, leaderAddr, request, sse>>

\* fetchNodeStatus: node n answers what GetStatus says, or nothing; only an
\* answer "Leader" counts.
FetchNodeStatus(p, n) ==
    /\ polls[p].phase = "asking"
    /\ polls[p].reports[n] = "asked"
    /\ polls' = [polls EXCEPT ![p].reports[n] =
                                     IF up[n] /\ role[n] = "leader"
                                     THEN "leader" ELSE "other"]
    /\ UNCHANGED <<cluster, leaderAddr, request, sse>>

\* Mutated Found: a leader that is known is kept while no other is found.
FoundOrKnown(reports) ==
    Max({n \in Node : reports[n] = "leader" \/ n = leaderAddr} \cup {None})

\* The last node in the list that calls itself leader.
Found(reports) == Max({n \in Node : reports[n] = "leader"} \cup {None})

\* The channels in sseClients.
Clients == {b \in Browser : stream[b] # "off"}

Answered(p) ==
    /\ polls[p].phase = "asking"
    /\ \A n \in Node : polls[p].reports[n] # "asked"

\* Mutated FinishPoll: only a change is pushed.
FinishPollQuiet(p) ==
    /\ Answered(p)
    /\ LET found == Found(polls[p].reports) IN
       /\ leaderAddr' = found
       /\ polls' = [polls EXCEPT ![p] =
             IF found = leaderAddr THEN Idle
             ELSE [phase |-> "pushing", found |-> found]]
    /\ UNCHANGED <<cluster, request, sse>>

\* wg.Wait is over: the poll that ends last decides what the gateway knows.
\* What it found is pushed when it is new, when the first node is in a new term
\* (not modelled), and in any case when there are clients.
FinishPoll(p) ==
    /\ Answered(p)
    /\ LET found == Found(polls[p].reports) IN
       /\ leaderAddr' = found
       /\ \/ polls' = [polls EXCEPT ![p] = [phase |-> "pushing", found |-> found]]
          \/ /\ found = leaderAddr /\ Clients = {}
             /\ polls' = [polls EXCEPT ![p] = Idle]
    /\ UNCHANGED <<cluster, request, sse>>

\* Mutated Pushed: the event is sent whether or not there is room.
PushedAnyhow(ch, event) == Append(ch, event)

\* One send of broadcastSSE: an event for a client whose channel is full is
\* skipped.
Pushed(ch, event) == IF Len(ch) < Capacity THEN Append(ch, event) ELSE ch

\* broadcastSSE, after the lock on the overview was given up: the events of two
\* polls may be pushed in the other order.
BroadcastSSE(p) ==
    /\ polls[p].phase = "pushing"
    /\ channel' = [b \in Browser |-> IF b \in Clients
                                     THEN Pushed(channel[b], polls[p].found)
                                     ELSE channel[b]]
    /\ polls' = [polls EXCEPT ![p] = Idle]
    /\ UNCHANGED <<cluster, leaderAddr, request, stream, view>>
-----------------------------------------------------------------------------
(***************************************************************************)
(* Event streams.                                                          *)
(***************************************************************************)
\* handleSSE registers the channel of client b,
Connect(b) ==
    /\ stream[b] = "off"
    /\ stream' = [stream EXCEPT ![b] = "registered"]
    /\ UNCHANGED <<cluster, polls, leaderAddr, request, channel, view>>

\* and then sends what the gateway knows, before what is in the channel.
SendCurrent(b) ==
    /\ stream[b] = "registered"
    /\ stream' = [stream EXCEPT ![b] = "on"]
    /\ view' = [view EXCEPT ![b] = leaderAddr]
    /\ UNCHANGED <<cluster, polls, leaderAddr, request, channel>>

\* An event from the channel is sent to the browser.
SendEvent(b) ==
    /\ stream[b] = "on"
    /\ channel[b] # << >>
    /\ view' = [view EXCEPT ![b] = Head(channel[b])]
    /\ channel' = [channel EXCEPT ![b] = Tail(@)]
    /\ UNCHANGED <<cluster, polls, leaderAddr, request, stream>>

\* The client has gone: its channel is unregistered, then closed.
Disconnect(b) ==
    /\ stream[b] = "on"
    /\ stream' = [stream EXCEPT ![b] = "off"]
    /\ channel' = [channel EXCEPT ![b] = << >>]
    /\ view' = [view EXCEPT ![b] = None]
    /\ UNCHANGED <<cluster, polls, leaderAddr, request>>
-----------------------------------------------------------------------------
(***************************************************************************)
(* Requests.                                                               *)
(***************************************************************************)
\* handleKVProxy and handleAdminProxy: to the leader as far as it is known.
\* Without one the client is told so, and nothing happens.
Proxy ==
    /\ request = Idle
    /\ leaderAddr # None
    /\ request' = [phase |-> "sent", at |-> leaderAddr, redirects |-> 0]
    /\ UNCHANGED <<cluster, polls, leaderAddr, sse>>

\* The request fails, and proxyRequest starts a poll of its own.
ProxyError(p) ==
    /\ p # Ticker
    /\ polls[p] = Idle
    /\ polls' = [polls EXCEPT ![p] = Asking]
    /\ request' = Idle

\* Mutated Redirected: the redirects are not counted.
RedirectedForever(h) == [request EXCEPT !.at = h]

\* http.Client sends the request again, to the node it was redirected to.
Redirected(h) == [request EXCEPT !.at = h, !.redirects = @ + 1]

\* The request arrives.  handleKV executes it at a leader; any other node
\* redirects to the node it voted for or last heard of, if it has its address.
\* A node that cannot be reached, an answer that takes more than 3 s and one
\* redirect too many are errors.
Arrive(p) ==
    LET n == request.at IN
    /\ request.phase = "sent"
    /\ \/ ProxyError(p)
       \/ /\ up[n]
          /\ request' = Idle
          /\ UNCHANGED polls
       \/ /\ up[n] /\ role[n] = "follower"
          /\ request.redirects < MaxRedirects
          /\ \E h \in Node \ {n} : request' = Redirected(h)
          /\ UNCHANGED polls
    /\ UNCHANGED <<cluster, leaderAddr, sse>>
-----------------------------------------------------------------------------
Next ==
    \/ \E n \in Node : BecomeLeader(n)
    \/ \E n \in Node : BecomeFollower(n)
    \/ \E n \in Node : GoDown(n)
    \/ \E n \in Node : ComeUp(n)
    \/ Tick
    \/ \E p \in Poller, n \in Node : FetchNodeStatus(p, n)
    \/ \E p \in Poller : FinishPoll(p)
    \/ \E p \in Poller : BroadcastSSE(p)
    \/ \E b \in Browser : Connect(b)
    \/ \E b \in Browser : SendCurrent(b)
    \/ \E b \in Browser : SendEvent(b)
    \/ \E b \in Browser : Disconnect(b)
    \/ Proxy
    \/ \E p \in Poller : Arrive(p)

PollStep(p) ==
    \/ \E n \in Node : FetchNodeStatus(p, n)
    \/ FinishPoll(p)
    \/ BroadcastSSE(p)

\* The ticker keeps firing; every call of a poll ends, with an answer or after
\* 3 s, and the goroutine goes on; so does that of a request.  handleSSE reads
\* its channel as long as the client is there.
Fairness ==
    /\ WF_vars(Tick)
    /\ \A p \in Poller : WF_vars(PollStep(p))
    /\ \A b \in Browser : WF_vars(SendCurrent(b) \/ SendEvent(b))
    /\ WF_vars(\E p \in Poller : Arrive(p))

Spec == Init /\ [][Next]_vars /\ Fairness
-----------------------------------------------------------------------------
(***************************************************************************)
(* Properties.                                                             *)
(***************************************************************************)
\* Node l is up and the only one that calls itself leader.
Leads(l) == up[l] /\ \A n \in Node : role[n] = "leader" <=> n = l

\* Once one leader stays, the gateway forwards to it for good, whatever polls
\* were under way (pollAllNodes).
LeaderFound ==
    \A l \in Node : <>[]Leads(l) => <>[](leaderAddr = l)

\* Then also every browser that stays connected shows it, although its channel
\* may be full and events may be pushed out of order (broadcastSSE, handleSSE).
BrowsersFollow ==
    \A l \in Node, b \in Browser :
        <>[](Leads(l) /\ stream[b] # "off") => <>[](view[b] = l)

\* A request comes to an end, also when nodes redirect it to one another.
RequestsEnd == request # Idle ~> request = Idle
=============================================================================
