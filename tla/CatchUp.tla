------------------------------ MODULE CatchUp ------------------------------
(***************************************************************************)
(* How a follower that is behind, or that holds entries of a leader that   *)
(* lost, catches up with a leader that compacts its log: replicateToPeer   *)
(* and sendSnapshotToPeer at the leader, processAppendEntries,             *)
(* processInstallSnapshot and restoreSnapshot at the follower, and the     *)
(* handlers of their responses (raft/raft.go).                             *)
(*                                                                         *)
(* One leader in its term, one follower, and the other peers of a cluster  *)
(* of three in one number: how far their match index has come.  The model  *)
(* follows the pair until the leader meets a later term.  The calls are in *)
(* flight in slots; a slot is one goroutine of the leader with its         *)
(* outstanding RPC.  A call that timed out may still arrive, and calls in  *)
(* different slots overtake one another.                                   *)
(*                                                                         *)
(* The leader's log is the sequence of the terms of its entries, the       *)
(* compacted ones included.  A snapshot travels in Chunks pieces; the part *)
(* of the key-value state that piece c holds is kv[c], and its value is    *)
(* the index of the last entry it reflects.  So a snapshot put together    *)
(* from pieces of two snapshots is a kv with two values.                   *)
(***************************************************************************)
EXTENDS ClusterConfig, Sequences, FiniteSetsExt

CONSTANTS
    Slot,               \* the calls that can be outstanding together
    Chunks,             \* pieces of a snapshot: its size over 64 KiB, rounded up
    SnapshotThreshold,  \* r.snapshotThreshold of both nodes
    Old,                \* entries in the leader's log when it was elected
    Compacted,          \* how many of them it had compacted
    MaxStale,           \* bound: entries of a lost leader at the follower
    MaxIndex,           \* bound: entries in the leader's log
    MaxFailures         \* bound: calls that are lost or time out

ASSUME CatchUpAssumption ==
    /\ IsFiniteSet(Slot) /\ Slot # {}
    /\ {Chunks, SnapshotThreshold, Old, MaxIndex} \subseteq Nat \ {0}
    /\ Compacted \in 0..Old
    /\ {MaxStale, MaxFailures} \subseteq Nat

\* The terms of the old entries, of the lost leader, and of the leader.
OldTerm == 1
StaleTerm == 2
Term == 3

VARIABLES
    \* the leader: the fields of struct Raft with these names
    state, log, lastIncludedIndex, commitIndex, nextIndex, matchIndex,
    otherMatch,  \* the highest match index of the other peer
    f,           \* the follower, a record of its fields
    calls,       \* what each slot is doing
    failures,    \* calls that failed so far
    keptTail     \* history: a snapshot left entries in place that the leader
                 \* does not have

leader == <<state, log, lastIncludedIndex, commitIndex, nextIndex, matchIndex,
            otherMatch>>
vars == <<leader, f, calls, failures, keptTail>>
-----------------------------------------------------------------------------
Free == [kind |-> "free"]
AppendCall == [kind : {"append"}, awaited : BOOLEAN, prev : Nat, prevTerm : Nat,
               upto : Nat, commit : Nat]
AppendReply == [kind : {"appendReply"}, newer : BOOLEAN, success : BOOLEAN, match : Nat]
ChunkCall == [kind : {"chunk"}, awaited : BOOLEAN, snap : Nat, piece : 1..Chunks]
ChunkReply == [kind : {"chunkReply"}, newer : BOOLEAN, snap : Nat, piece : 1..Chunks]

TypeOK ==
    /\ state \in {"Leader", "Follower"}
    /\ log \in Seq({OldTerm, Term})
    /\ {lastIncludedIndex, commitIndex, matchIndex, otherMatch, failures} \subseteq Nat
    /\ nextIndex \in Nat \ {0}
    /\ f \in [term : Nat, log : Seq({OldTerm, StaleTerm, Term}),
              lastIncludedIndex : Nat, lastIncludedTerm : Nat, commitIndex : Nat,
              lastApplied : Nat, kv : [1..Chunks -> Nat], snapshotBuf : Seq(Nat)]
    /\ calls \in [Slot -> {Free} \cup AppendCall \cup AppendReply
                                 \cup ChunkCall \cup ChunkReply]
    /\ keptTail \in BOOLEAN

Init ==
    /\ state = "Leader"
    /\ log = [n \in 1..(Old + 1) |-> IF n <= Old THEN OldTerm ELSE Term]
    /\ lastIncludedIndex = Compacted
    /\ commitIndex = Compacted
    /\ nextIndex = Old + 1
    /\ matchIndex = 0
    /\ otherMatch = 0
    /\ \E common \in 0..Old, stale \in 0..MaxStale :
          f = [term |-> StaleTerm,
               log |-> [n \in 1..(common + stale) |->
                           IF n <= common THEN OldTerm ELSE StaleTerm],
               lastIncludedIndex |-> 0, lastIncludedTerm |-> 0,
               commitIndex |-> 0, lastApplied |-> 0,
               kv |-> [c \in 1..Chunks |-> 0], snapshotBuf |-> << >>]
    /\ calls = [s \in Slot |-> Free]
    /\ failures = 0
    /\ keptTail = FALSE
-----------------------------------------------------------------------------
(***************************************************************************)
(* The leader sends.                                                       *)
(***************************************************************************)
\* getEntryTerm of the leader.
getEntryTerm(n) == IF n \in lastIncludedIndex..Len(log) /\ n > 0 THEN log[n] ELSE 0

\* Is the follower's state machine what it applied?  Not after it went back to
\* an older snapshot, or put one together from two; its log may then have a
\* hole, and the model follows it no further.
Sound(g) == \A c \in 1..Chunks : g.kv[c] = g.lastApplied

Running == state = "Leader" /\ Sound(f)

\* replicateToPeer: started by the ticker, by a client's entry, after a refused
\* append and after a snapshot.  All of these only start it sooner than the
\* ticker would.  sendSnapshotToPeer reads the snapshot under the lock once
\* more, a moment after replicateToPeer has decided to send one; the two are
\* one step here, so a snapshot is the leader's at the time of the decision.
ReplicateToPeer(s) ==
    LET prev == nextIndex - 1 IN
    /\ Running
    /\ calls[s] = Free
    /\ \/ /\ nextIndex <= lastIncludedIndex
          /\ calls' = [calls EXCEPT ![s] =
                [kind |-> "chunk", awaited |-> TRUE, snap |-> lastIncludedIndex,
                 piece |-> 1]]
       \/ /\ nextIndex > lastIncludedIndex
          /\ calls' = [calls EXCEPT ![s] =
                [kind |-> "append", awaited |-> TRUE, prev |-> prev,
                 prevTerm |-> getEntryTerm(prev),
                 upto |-> Max({prev, Len(log)}), commit |-> commitIndex]]
    /\ UNCHANGED <<leader, f, failures, keptTail>>

\* handleClientCommand.
ClientCommand ==
    /\ Running
    /\ Len(log) < MaxIndex
    /\ log' = Append(log, Term)
    /\ UNCHANGED <<state, lastIncludedIndex, commitIndex, nextIndex, matchIndex,
                   otherMatch, f, calls, failures, keptTail>>

\* Mutated checkCommitMajority: off by one in the match indexes.
checkCommitMajorityEarly(n, match, other) ==
    HasMajority(ConfigFromPeers({"follower", "other"}, "leader"), "leader",
                {"leader"} \cup (IF match + 1 >= n THEN {"follower"} ELSE {})
                           \cup (IF other + 1 >= n THEN {"other"} ELSE {}))

\* checkCommitMajority over the leader, the follower and the other peer.
checkCommitMajority(n, match, other) ==
    HasMajority(ConfigFromPeers({"follower", "other"}, "leader"), "leader",
                {"leader"} \cup (IF match >= n THEN {"follower"} ELSE {})
                           \cup (IF other >= n THEN {"other"} ELSE {}))

\* The commit loop of processAppendEntriesResponse; each round ends in
\* applyLogs, which compacts a log that is longer than the threshold.
Commit(match, other) ==
    LET ns == {n \in (commitIndex + 1)..Len(log) :
                  getEntryTerm(n) = Term /\ checkCommitMajority(n, match, other)}
        short == {n \in ns \cup {lastIncludedIndex} :
                     Len(log) - n <= SnapshotThreshold}
    IN
    /\ commitIndex' = Max(ns \cup {commitIndex})
    /\ lastIncludedIndex' = CASE ns = {} -> lastIncludedIndex
                              [] ns # {} /\ short # {} -> Min(short)
                              [] ns # {} /\ short = {} -> Max(ns)

\* The other peer acknowledges entries up to n.
OtherAck(n) ==
    /\ Running
    /\ n \in (otherMatch + 1)..Len(log)
    /\ otherMatch' = n
    /\ Commit(matchIndex, n)
    /\ UNCHANGED <<state, log, nextIndex, matchIndex, f, calls, failures, keptTail>>
-----------------------------------------------------------------------------
(***************************************************************************)
(* The follower.                                                           *)
(***************************************************************************)
Last(g) == g.lastIncludedIndex + Len(g.log)

TermAt(g, n) ==
    CASE n = g.lastIncludedIndex -> g.lastIncludedTerm
      [] n \in (g.lastIncludedIndex + 1)..Last(g) -> g.log[n - g.lastIncludedIndex]
      [] OTHER -> 0

\* applyLogs up to n, and its compaction.
applyLogs(g, n) ==
    LET h == [g EXCEPT !.commitIndex = n, !.lastApplied = n,
                       !.kv = [c \in 1..Chunks |-> n]]
    IN  IF Last(g) - g.lastIncludedIndex > SnapshotThreshold
        THEN [h EXCEPT !.lastIncludedIndex = n, !.lastIncludedTerm = TermAt(g, n),
                       !.log = SubSeq(g.log, n - g.lastIncludedIndex + 1, Len(g.log))]
        ELSE h

\* The loop over the entries of request m, whose terms are those of the leader.
Appended(g, m) ==
    LET new == {n \in (Max({m.prev, g.lastIncludedIndex}) + 1)..m.upto :
                   TermAt(g, n) # log[n]}
    IN  IF new = {} THEN g
        ELSE [g EXCEPT !.log = SubSeq(@, 1, Min(new) - g.lastIncludedIndex - 1)
                               \o SubSeq(log, Min(new), m.upto)]

\* Mutated PrevMatches: the term of the entry is not compared.
PrevPresent(g, m) == m.prev <= Last(g)

\* Does processAppendEntries find the entry before the request's entries?  An
\* index below the snapshot's needs no check.
PrevMatches(g, m) ==
    /\ m.prev <= Last(g)
    /\ m.prev >= g.lastIncludedIndex => TermAt(g, m.prev) = m.prevTerm

\* processAppendEntries, once the term has been looked at.
AppendEntries(g, m) ==
    LET h == Appended(g, m)
    IN  IF ~PrevMatches(g, m) THEN g
        ELSE IF m.commit > h.commitIndex
             THEN applyLogs(h, Min({m.commit, Last(h)})) ELSE h

\* The MatchIndex of a refusal.
Hint(g, m) == IF m.prev > Last(g) THEN Last(g) ELSE m.prev - 1

\* The reply to request m after which the follower is h; newer: it carries a
\* later term, and nothing was done.
ReplyTo(g, h, m, newer) ==
    [kind |-> "appendReply", newer |-> newer,
     success |-> ~newer /\ PrevMatches(g, m),
     match |-> CASE newer -> 0
                 [] ~newer /\ PrevMatches(g, m) -> Last(h)
                 [] ~newer /\ ~PrevMatches(g, m) -> Hint(g, m)]

\* Mutated restoreSnapshot: lastApplied is left behind.
restoreSnapshotUnapplied(g, buf) ==
    [g EXCEPT !.kv = [c \in 1..Chunks |-> buf[c]],
              !.log = SubSeq(@, buf[1] - g.lastIncludedIndex + 1, Len(@)),
              !.lastIncludedIndex = buf[1],
              !.lastIncludedTerm = log[buf[1]],
              !.commitIndex = Max({@, buf[1]})]

\* restoreSnapshot of the snapshot in buf.  It does not ask whether the
\* snapshot is newer than the node's state, nor whether the entries behind it
\* belong to it.  With an older one, getEntry makes up the entry at the
\* snapshot the node had, and those before it are missing.  What it does to the
\* WAL and the snapshot file is in restoreSnapshot of module Storage.
restoreSnapshot(g, buf) ==
    LET n == buf[1] IN
    [g EXCEPT !.kv = [c \in 1..Chunks |-> buf[c]],
              !.log = IF n >= g.lastIncludedIndex
                      THEN SubSeq(@, n - g.lastIncludedIndex + 1, Len(@))
                      ELSE <<g.lastIncludedTerm>> \o @,
              !.lastIncludedIndex = n,
              !.lastIncludedTerm = log[n],
              !.commitIndex = Max({@, n}),
              !.lastApplied = Max({@, n})]

\* Mutated Buffered: off by one in the offset of a piece.
BufferedOffByOne(g, m) ==
    LET buf == IF m.piece = 1 THEN << >> ELSE g.snapshotBuf
    IN  IF m.piece = Len(buf) THEN Append(buf, m.snap) ELSE buf

\* snapshotBuf after piece m: the first piece empties it, and a piece whose
\* offset is not the length of what is there is dropped.
Buffered(g, m) ==
    LET buf == IF m.piece = 1 THEN << >> ELSE g.snapshotBuf
    IN  IF m.piece = Len(buf) + 1 THEN Append(buf, m.snap) ELSE buf

Whole(buf) == \A c \in 1..Len(buf) : buf[c] = buf[1]

\* processInstallSnapshot, once the term has been looked at.  What is left
\* after the last piece is decoded: too few pieces never decode; pieces of two
\* snapshots may, where the two have the same length.
InstallSnapshot(g, m) ==
    LET buf == Buffered(g, m)
        h == [g EXCEPT !.snapshotBuf = << >>]
    IN  CASE m.piece < Chunks -> {[g EXCEPT !.snapshotBuf = buf]}
          [] m.piece = Chunks /\ Len(buf) < Chunks -> {h}
          [] m.piece = Chunks /\ Len(buf) = Chunks /\ Whole(buf) ->
                {restoreSnapshot(h, buf)}
          [] m.piece = Chunks /\ Len(buf) = Chunks /\ ~Whole(buf) ->
                {h, restoreSnapshot(h, buf)}

\* Entries that the follower has and the leader has not.
Stray(g) == \E n \in (g.lastIncludedIndex + 1)..Last(g) :
               n > Len(log) \/ TermAt(g, n) # log[n]

\* The request in slot s reaches the follower.  A follower in an earlier term
\* takes the leader's; one in a later term answers with it.
Deliver(s) ==
    LET m == calls[s]
        newer == f.term > Term
        g == [f EXCEPT !.term = Max({@, Term})]
    IN
    /\ Running
    /\ \/ /\ m.kind = "append"
          /\ f' = IF newer THEN f ELSE AppendEntries(g, m)
          /\ calls' = [calls EXCEPT ![s] =
                IF m.awaited THEN ReplyTo(g, f', m, newer) ELSE Free]
          /\ UNCHANGED keptTail
       \/ /\ m.kind = "chunk"
          /\ \/ newer /\ UNCHANGED <<f, keptTail>>
             \/ /\ ~newer
                /\ \E h \in InstallSnapshot(g, m) :
                      /\ f' = h
                      /\ keptTail' = (keptTail \/ (h.kv # g.kv /\ Stray(h)))
          /\ calls' = [calls EXCEPT ![s] =
                IF m.awaited
                THEN [kind |-> "chunkReply", newer |-> newer, snap |-> m.snap,
                      piece |-> m.piece]
                ELSE Free]
    /\ UNCHANGED <<leader, failures>>

\* The follower learns a later term from somebody else.
LearnTerm ==
    /\ Running
    /\ f.term <= Term
    /\ f' = [f EXCEPT !.term = Term + 1]
    /\ UNCHANGED <<leader, calls, failures, keptTail>>
-----------------------------------------------------------------------------
(***************************************************************************)
(* The leader receives.                                                    *)
(***************************************************************************)
\* Mutated NextAfter: the next entry to send is the last one that matches.
NextAtMatch(match) == match

\* nextIndex after a reply that the follower matches up to `match`.
NextAfter(match) == match + 1

\* processAppendEntriesResponse.
HandleAppendReply(s) ==
    LET m == calls[s] IN
    /\ Running
    /\ m.kind = "appendReply"
    /\ calls' = [calls EXCEPT ![s] = Free]
    /\ \/ /\ m.newer
          /\ state' = "Follower"
          /\ UNCHANGED <<lastIncludedIndex, commitIndex, nextIndex, matchIndex>>
       \/ /\ ~m.newer /\ m.success
          /\ matchIndex' = m.match
          /\ nextIndex' = NextAfter(m.match)
          /\ Commit(m.match, otherMatch)
          /\ UNCHANGED state
       \/ /\ ~m.newer /\ ~m.success
          /\ nextIndex' = NextAfter(m.match)
          /\ UNCHANGED <<state, lastIncludedIndex, commitIndex, matchIndex>>
    /\ UNCHANGED <<log, otherMatch, f, failures, keptTail>>

\* The loop of sendSnapshotToPeer goes on after the answer to a piece.
NextPiece(m) == [kind |-> "chunk", awaited |-> TRUE, snap |-> m.snap,
                 piece |-> m.piece + 1]

\* sendSnapshotToPeer sends the next piece; after the last one
\* processInstallSnapshotResponse takes the follower to have the snapshot that
\* the leader has by now.
HandleChunkReply(s) ==
    LET m == calls[s] IN
    /\ Running
    /\ m.kind = "chunkReply"
    /\ \/ /\ m.newer
          /\ state' = "Follower"
          /\ calls' = [calls EXCEPT ![s] = Free]
          /\ UNCHANGED <<nextIndex, matchIndex>>
       \/ /\ ~m.newer /\ m.piece < Chunks
          /\ calls' = [calls EXCEPT ![s] = NextPiece(m)]
          /\ UNCHANGED <<state, nextIndex, matchIndex>>
       \/ /\ ~m.newer /\ m.piece = Chunks
          /\ matchIndex' = lastIncludedIndex
          /\ nextIndex' = NextAfter(lastIncludedIndex)
          /\ calls' = [calls EXCEPT ![s] = Free]
          /\ UNCHANGED state
    /\ UNCHANGED <<log, lastIncludedIndex, commitIndex, otherMatch, f, failures,
                   keptTail>>

\* A call fails: the request or the reply is lost, or the time-out of the
\* call passes while the request is still on its way.
Fail(s) ==
    LET m == calls[s] IN
    /\ Running
    /\ failures < MaxFailures
    /\ failures' = failures + 1
    /\ \/ /\ m.kind # "free"
          /\ calls' = [calls EXCEPT ![s] = Free]
       \/ /\ m.kind \in {"append", "chunk"}
          /\ m.awaited
          /\ calls' = [calls EXCEPT ![s] = [m EXCEPT !.awaited = FALSE]]
    /\ UNCHANGED <<leader, f, keptTail>>
-----------------------------------------------------------------------------
Next ==
    \/ \E s \in Slot : ReplicateToPeer(s)
    \/ ClientCommand
    \/ \E n \in 1..MaxIndex : OtherAck(n)
    \/ \E s \in Slot : Deliver(s)
    \/ LearnTerm
    \/ \E s \in Slot : HandleAppendReply(s)
    \/ \E s \in Slot : HandleChunkReply(s)
    \/ \E s \in Slot : Fail(s)

\* The ticker never stops while the node leads; a call that is not lost is
\* delivered, and its goroutine handles the reply.
Fairness ==
    /\ WF_vars(\E s \in Slot : ReplicateToPeer(s))
    /\ \A s \in Slot : /\ WF_vars(Deliver(s))
                       /\ WF_vars(HandleAppendReply(s))
                       /\ WF_vars(HandleChunkReply(s))

Spec == Init /\ [][Next]_vars /\ Fairness
-----------------------------------------------------------------------------
(***************************************************************************)
(* Properties.                                                             *)
(***************************************************************************)
Holds(n) == n <= f.lastIncludedIndex \/ (n <= Last(f) /\ TermAt(f, n) = log[n])

\* What the follower takes for committed is what the leader has at those
\* indexes: neither the entries of a lost leader that restoreSnapshot keeps,
\* nor a delayed append after a snapshot, is ever applied.
FollowerAgrees ==
    Sound(f) =>
        /\ f.lastApplied = f.commitIndex
        /\ f.lastIncludedIndex <= f.commitIndex
        /\ \A n \in 1..f.commitIndex : n <= Len(log) /\ Holds(n)
        /\ f.lastIncludedIndex > 0 => f.lastIncludedTerm = log[f.lastIncludedIndex]

\* The state machine of the follower leaves what it applied only by restoring
\* a snapshot older than that, or one whose pieces come from two.
OnlyOldSnapshots ==
    [][~Sound(f') => \E s \in Slot :
          LET buf == Buffered(f, calls[s]) IN
          /\ calls[s].kind = "chunk"
          /\ buf[1] < f.lastApplied \/ ~Whole(buf)]_vars

\* Every entry of its term that the leader has committed is at a second node
\* (checkCommitMajority).
CommitReplicated ==
    Sound(f) => \A n \in (Old + 1)..commitIndex : otherMatch >= n \/ Holds(n)

\* It is, unless a snapshot left entries of a lost leader in place: then their
\* length counts as a match.  A snapshot that is booked as received although
\* it did not decode does no harm.
CommitReplicatedUnlessKept == keptTail \/ CommitReplicated

\* At most one call is outstanding.
Calm == Cardinality({s \in Slot : calls[s].kind # "free"}) <= 1

CaughtUp == f.lastApplied = Len(log) /\ commitIndex = Len(log)

\* If from some time on a call ends before the next one starts, the follower
\* ends up with everything, however far behind it was and whatever it held:
\* unless the leader has stepped down, the follower has met a later term, or its
\* state machine has become unsound, which is the subject of OnlyOldSnapshots.
EventuallyCaughtUp == <>[]Calm => <>(CaughtUp \/ ~Running \/ f.term > Term)
=============================================================================
