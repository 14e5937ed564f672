------------------------------ MODULE Storage ------------------------------
(***************************************************************************)
(* One node's disk: the write-ahead log of storage/wal.go, the snapshot    *)
(* file of storage/snapshot.go, and the handlers of raft/raft.go that      *)
(* write them: compaction and the snapshots of a leader are included.      *)
(* Module Raft takes for granted what is studied here: that a restart      *)
(* finds the entries the node has acknowledged and the last vote it has    *)
(* cast.  What a snapshot says of the state machine is the subject of      *)
(* module CatchUp; here it is its index.                                   *)
(*                                                                         *)
(* A handler changes memory under r.mu and makes its disk operations one   *)
(* after the other; nobody sees the new memory before it ends, so it is    *)
(* one step that leaves the disk operations in todo, each a step of its    *)
(* own.  The process may end between any two, and inside the write of a    *)
(* record.  Which requests arrive is left open up to what the protocol     *)
(* guarantees: no request conflicts with a committed entry.  A request     *)
(* carries one entry; one with several writes them as so many requests     *)
(* would.                                                                  *)
(***************************************************************************)
EXTENDS Naturals, SequencesExt

CONSTANTS
    Node,               \* the nodes of the cluster
    Self,               \* this node
    Nil,                \* the empty votedFor string
    Thresholds,         \* values of the snapshot-threshold flag; 0 turns compaction off
    Installs,           \* LastIncludedIndex of the snapshots that leaders send
    TornWrites,         \* may the process end inside a write?
    MaxTerm,            \* bound on the term
    MaxIndex,           \* bound on the index of an entry
    MaxRecords,         \* bound: no handler writes a record beyond this many
    MaxCrashes          \* bound on the crashes

ASSUME StorageAssumption ==
    /\ Nil \notin Node
    /\ Self \in Node
    /\ Thresholds \subseteq Nat
    /\ Installs \subseteq Nat \ {0}
    /\ {MaxTerm, MaxIndex, MaxRecords, MaxCrashes} \subseteq Nat
    /\ TornWrites \in BOOLEAN

VARIABLES
    \* the fields of struct Raft with these names
    state, currentTerm, votedFor, log, lastIncludedIndex, commitIndex,
    snapshotThreshold,
    status,     \* "up", "down", or "failed": NewRaft returned an error
    todo,       \* the disk operations the running handler still has to make
    wal,        \* the records in the WAL file
    snapshot,   \* LastIncludedIndex of the snapshot file, 0 without a file
    crashes,    \* how often the process has ended
    \* history, never read by an action's guard
    acked,      \* the entries of finished handlers that no later one truncated
    voted,      \* the last term and vote whose record was synced
    unwritten,  \* the entries above the snapshot when the WAL was emptied, and
                \* those of a snapshot file that an older one replaced
    cleared,    \* the WAL was emptied, and no term and vote was synced since
    holed       \* a restart or a snapshot has left a log with a missing index

memory == <<state, currentTerm, votedFor, log, lastIncludedIndex, commitIndex>>
disk == <<wal, snapshot>>
history == <<acked, voted, unwritten, cleared, holed>>
vars == <<memory, snapshotThreshold, status, todo, disk, crashes, history>>
-----------------------------------------------------------------------------
Entry == [index : Nat \ {0}, term : Nat]
State == [term : Nat, vote : Node \cup {Nil}]
Record ==
    [kind : {"state"}, term : Nat, vote : Node \cup {Nil}]
    \cup [kind : {"entry"}, entry : Entry]
    \cup [kind : {"truncate"}, index : Nat]
    \cup [kind : {"tornHeader", "tornBody"}]
DiskOp == Record \cup [kind : {"save"}, index : Nat] \cup [kind : {"reset"}]

TypeOK ==
    /\ state \in {"Follower", "Candidate", "Leader"}
    /\ currentTerm \in Nat
    /\ votedFor \in Node \cup {Nil}
    /\ log \in Seq(Entry)
    /\ {lastIncludedIndex, commitIndex, snapshot, crashes} \subseteq Nat
    /\ status \in {"up", "down", "failed"}
    /\ todo \in Seq(DiskOp)
    /\ wal \in Seq(Record)
    /\ acked \subseteq Entry
    /\ voted \in State
    /\ unwritten \subseteq Entry
    /\ cleared \in BOOLEAN
    /\ holed \in BOOLEAN
    /\ snapshotThreshold \in Thresholds

StateRec(term, vote) == [kind |-> "state", term |-> term, vote |-> vote]
EntryRec(e) == [kind |-> "entry", entry |-> e]
TruncateRec(n) == [kind |-> "truncate", index |-> n]
-----------------------------------------------------------------------------
(***************************************************************************)
(* Replay.                                                                 *)
(***************************************************************************)
\* What Replay has read so far.  torn: a length header was cut short, which
\* ends the loop without an error when nothing follows it.
Replaying == [readable |-> TRUE, torn |-> FALSE, term |-> 0, vote |-> Nil,
              entries |-> << >>]

\* An entry takes the place of the one with its index and of all after that.
ReplayEntry(entries, e) ==
    LET same == {k \in DOMAIN entries : entries[k].index = e.index}
    IN  Append(IF same = {} THEN entries ELSE SubSeq(entries, 1, Min(same) - 1), e)

\* The entries that are in S, in their order.
Filtered(entries, S) ==
    LET kept[k \in 0..Len(entries)] ==
            IF k = 0 THEN << >>
            ELSE IF entries[k] \in S THEN Append(kept[k - 1], entries[k])
            ELSE kept[k - 1]
    IN  kept[Len(entries)]

\* A truncate marker drops the entries from its index on.
ReplayTruncate(entries, n) == Filtered(entries, {e \in ToSet(entries) : e.index < n})

\* One turn of the loop of Replay.  A record cut short after its length, and
\* bytes that follow a cut header, are an error.
ReplayRecord(st, rec) ==
    CASE ~st.readable -> st
      [] st.readable /\ (st.torn \/ rec.kind = "tornBody") ->
            [st EXCEPT !.readable = FALSE]
      [] st.readable /\ ~st.torn /\ rec.kind = "tornHeader" ->
            [st EXCEPT !.torn = TRUE]
      [] st.readable /\ ~st.torn /\ rec.kind = "state" ->
            [st EXCEPT !.term = rec.term, !.vote = rec.vote]
      [] st.readable /\ ~st.torn /\ rec.kind = "entry" ->
            [st EXCEPT !.entries = ReplayEntry(@, rec.entry)]
      [] st.readable /\ ~st.torn /\ rec.kind = "truncate" ->
            [st EXCEPT !.entries = ReplayTruncate(@, rec.index)]

\* Mutated Replay: every entry record is taken, whatever came after it.
ReplayAppending(recs) ==
    LET written == SelectSeq(recs, LAMBDA rec : rec.kind = "entry")
    IN  [FoldLeft(ReplayRecord, Replaying, recs) EXCEPT
            !.entries = [k \in DOMAIN written |-> written[k].entry]]

\* read[k] is what has been read after k records.
Replay(recs) ==
    LET read[k \in 0..Len(recs)] ==
            IF k = 0 THEN Replaying ELSE ReplayRecord(read[k - 1], recs[k])
    IN  read[Len(recs)]

\* Mutated LoadedLog: the entries the snapshot covers are kept.
LoadedLogWhole(entries, base) == entries

\* The entries that loadState puts into r.log.
LoadedLog(entries, base) == Filtered(entries, {e \in ToSet(entries) : e.index > base})
-----------------------------------------------------------------------------
(***************************************************************************)
(* The log in memory: entries carry their index, but getEntry finds them   *)
(* by position.                                                            *)
(***************************************************************************)
lastLogIndex(lg, base) == IF lg = << >> THEN base ELSE Last(lg).index
Position(idx, base) == idx - base
Present(lg, base, idx) == idx > base /\ Position(idx, base) <= Len(lg)

\* Is every entry at the position where getEntry looks for it?
Gapless(lg, base) == \A k \in DOMAIN lg : Position(lg[k].index, base) = k

\* takeSnapshot, and restoreSnapshot likewise: the snapshot file, then an empty
\* WAL, then the term and vote.  The entries that stay in memory are not
\* written again.
takeSnapshot(n, term, vote) ==
    <<[kind |-> "save", index |-> n], [kind |-> "reset"], StateRec(term, vote)>>

\* The rest of a handler that leaves term, vote and log and makes the disk
\* operations ops, and its applyLogs when applies: the commit index becomes n,
\* and a log longer than the threshold is compacted up to n.  dropped are the
\* entries it truncates.
Handle(term, vote, lg, base, n, applies, ops, dropped) ==
    LET compacts == /\ applies
                    /\ snapshotThreshold > 0
                    /\ lastLogIndex(lg, base) - base > snapshotThreshold
    IN
    /\ ops # << >> /\ Head(ops).kind # "save" => Len(wal) + Len(ops) <= MaxRecords
    /\ currentTerm' = term
    /\ votedFor' = vote
    /\ commitIndex' = n
    /\ log' = IF compacts THEN SubSeq(lg, Position(n, base) + 1, Len(lg)) ELSE lg
    /\ lastIncludedIndex' = IF compacts THEN n ELSE base
    /\ todo' = IF compacts THEN ops \o takeSnapshot(n, term, vote) ELSE ops
    /\ acked' = (acked \ dropped) \cup (IF todo' = << >> THEN ToSet(lg) ELSE {})
    /\ UNCHANGED <<snapshotThreshold, disk, voted, unwritten, cleared>>

Init ==
    /\ state = "Follower"
    /\ currentTerm = 0
    /\ votedFor = Nil
    /\ log = << >>
    /\ lastIncludedIndex = 0
    /\ commitIndex = 0
    /\ status = "up"
    /\ todo = << >>
    /\ wal = << >>
    /\ snapshot = 0
    /\ crashes = 0
    /\ acked = {}
    /\ voted = [term |-> 0, vote |-> Nil]
    /\ unwritten = {}
    /\ cleared = FALSE
    /\ holed = FALSE
    /\ snapshotThreshold \in Thresholds
-----------------------------------------------------------------------------
(***************************************************************************)
(* Handlers.                                                               *)
(***************************************************************************)
Idle == status = "up" /\ todo = << >>

\* transitionToCandidate, a vote for itself in a later term, and
\* processRequestVote when it grants: in a later term, or in this one when no
\* vote is remembered or votedFor is the candidate, which is written again.
CastVote(c, term) ==
    /\ Idle
    /\ \/ term > currentTerm
       \/ term = currentTerm /\ votedFor \in {Nil, c} /\ c # Self
    /\ state' = IF c = Self THEN "Candidate" ELSE "Follower"
    /\ Handle(term, c, log, lastIncludedIndex, commitIndex, FALSE,
              <<StateRec(term, c)>>, {})
    /\ UNCHANGED <<status, crashes, holed>>

\* transitionToFollower for a later term writes nothing.
LearnTerm(term) ==
    /\ Idle
    /\ term > currentTerm
    /\ state' = "Follower"
    /\ Handle(term, Nil, log, lastIncludedIndex, commitIndex, FALSE, << >>, {})
    /\ UNCHANGED <<status, crashes, holed>>

\* Mutated AppendOwn: the entry takes the index of the last one.
AppendOwnAtLast ==
    LET e == [index |-> lastLogIndex(log, lastIncludedIndex), term |-> currentTerm]
    IN
    /\ Idle
    /\ state \in {"Candidate", "Leader"}
    /\ state' = "Leader"
    /\ e.index <= MaxIndex
    /\ Handle(currentTerm, votedFor, Append(log, e), lastIncludedIndex,
              commitIndex, FALSE, <<EntryRec(e)>>, {})
    /\ UNCHANGED <<status, crashes, holed>>

\* A candidate that wins appends its no-op, and a leader a client's entry.
AppendOwn ==
    LET e == [index |-> lastLogIndex(log, lastIncludedIndex) + 1, term |-> currentTerm]
    IN
    /\ Idle
    /\ state \in {"Candidate", "Leader"}
    /\ state' = "Leader"
    /\ e.index <= MaxIndex
    /\ Handle(currentTerm, votedFor, Append(log, e), lastIncludedIndex,
              commitIndex, FALSE, <<EntryRec(e)>>, {})
    /\ UNCHANGED <<status, crashes, holed>>

\* processAppendEntriesResponse moves the commit index of a leader to n.
CommitOwn(n) ==
    /\ Idle
    /\ state = "Leader"
    /\ n \in (commitIndex + 1)..lastLogIndex(log, lastIncludedIndex)
    /\ Handle(currentTerm, votedFor, log, lastIncludedIndex, n, TRUE, << >>, {})
    /\ UNCHANGED <<state, status, crashes, holed>>

\* The commit index of a follower with the log lg whose leader has committed n
\* entries; a log with a hole, once truncated, may end before its commit index.
CommitUpTo(n, lg, base) ==
    IF n > commitIndex THEN Min({n, lastLogIndex(lg, base)}) ELSE commitIndex

\* processAppendEntries with the entry e from leader l, whose commit index is
\* n: an entry that is there already, one that conflicts, or a new one.
ReceiveEntry(e, l, n) ==
    LET base == lastIncludedIndex
        last == lastLogIndex(log, base)
        conflict == /\ e.index <= last
                    /\ Present(log, base, e.index)
                    /\ log[Position(e.index, base)].term # e.term
        lg == CASE e.index > last -> Append(log, e)
                [] e.index <= last /\ conflict ->
                      Append(SubSeq(log, 1, Position(e.index, base) - 1), e)
                [] e.index <= last /\ ~conflict -> log
        ops == CASE e.index > last -> <<EntryRec(e)>>
                 [] e.index <= last /\ conflict -> <<TruncateRec(e.index), EntryRec(e)>>
                 [] e.index <= last /\ ~conflict -> << >>
    IN
    /\ Idle
    /\ state # "Leader" /\ l # Self
    /\ state' = "Follower"
    /\ e.term \in 1..currentTerm
    /\ e.index <= last + 1
    /\ conflict /\ log[Position(e.index, base)].index = e.index => e.index > commitIndex
    /\ Handle(currentTerm, l, lg, base, CommitUpTo(n, lg, base), n > commitIndex, ops,
              ToSet(log) \ ToSet(lg))
    /\ UNCHANGED <<status, crashes, holed>>

\* The entries above n as getEntry finds them.  For the index the log starts
\* from it makes up an entry with the term of the node's own snapshot; that
\* term is not kept here, so it may be any term t.
EntriesAbove(n, t) ==
    IF n < lastIncludedIndex
    THEN <<[index |-> lastIncludedIndex, term |-> t]>> \o log
    ELSE SubSeq(log, Position(n, lastIncludedIndex) + 1, Len(log))

\* processInstallSnapshot with a chunk from leader l that is not the last, or
\* that completes a snapshot that cannot be decoded; a heartbeat does no more.
ReceiveChunk(l) ==
    /\ Idle
    /\ state # "Leader" /\ l # Self /\ currentTerm > 0
    /\ state' = "Follower"
    /\ Handle(currentTerm, l, log, lastIncludedIndex, commitIndex, FALSE, << >>, {})
    /\ UNCHANGED <<status, crashes, holed>>

\* processInstallSnapshot with the last chunk of a snapshot up to n, and
\* restoreSnapshot, which takes one that is older than the node's own as well.
restoreSnapshot(l, n, t) ==
    LET lg == EntriesAbove(n, t) IN
    /\ Idle
    /\ state # "Leader" /\ l # Self /\ currentTerm > 0
    /\ state' = "Follower"
    /\ t <= currentTerm
    /\ Handle(currentTerm, l, lg, n, Max({commitIndex, n}), FALSE,
              takeSnapshot(n, currentTerm, l), {})
    /\ holed' = (holed \/ ~Gapless(lg, n))
    /\ UNCHANGED <<status, crashes>>
-----------------------------------------------------------------------------
(***************************************************************************)
(* The disk.                                                               *)
(***************************************************************************)
\* Mutated WriteRecord: the record overwrites the last one.
WriteRecordOver(rec) ==
    /\ wal' = Append(IF wal = << >> THEN wal ELSE Front(wal), rec)
    /\ UNCHANGED snapshot

\* writeRecord: the whole record is written and synced.
WriteRecord(rec) == wal' = Append(wal, rec) /\ UNCHANGED snapshot

\* SaveSnapshot writes a temporary file and renames it.
SaveSnapshot(n) == snapshot' = n /\ UNCHANGED wal

\* Reset truncates the WAL file.
Reset == wal' = << >> /\ UNCHANGED snapshot

\* Entries that disk operation op takes from what a restart can find: those
\* above the snapshot when the WAL is emptied, and those the snapshot file
\* covers and an older one put in its place does not.
LosesIn(op, e) ==
    \/ op.kind = "reset" /\ e.index > snapshot
    \/ op.kind = "save" /\ e.index \in (op.index + 1)..snapshot

\* The next disk operation of the running handler; after the last one the
\* handler ends, and its request is answered.
DiskStep ==
    /\ status = "up"
    /\ todo # << >>
    /\ LET op == Head(todo) IN
       \/ op.kind = "save" /\ SaveSnapshot(op.index) /\ UNCHANGED <<voted, cleared>>
       \/ op.kind = "reset" /\ Reset /\ cleared' = TRUE /\ UNCHANGED voted
       \/ op.kind = "state" /\ WriteRecord(op)
          /\ voted' = [term |-> op.term, vote |-> op.vote] /\ cleared' = FALSE
       \/ op.kind \in {"entry", "truncate"} /\ WriteRecord(op)
          /\ UNCHANGED <<voted, cleared>>
    /\ todo' = Tail(todo)
    /\ acked' = IF Len(todo) = 1 THEN acked \cup ToSet(log) ELSE acked
    /\ unwritten' = unwritten \cup {e \in acked \cup ToSet(log) : LosesIn(Head(todo), e)}
    /\ UNCHANGED <<memory, snapshotThreshold, status, crashes, holed>>

Writing == todo # << >> /\ Head(todo).kind \in {"state", "entry", "truncate"}

\* The process ends, between two disk operations or inside a write.
Crash ==
    /\ status = "up"
    /\ crashes < MaxCrashes
    /\ crashes' = crashes + 1
    /\ status' = "down"
    /\ \/ UNCHANGED wal
       \/ /\ TornWrites
          /\ Writing
          /\ \E kind \in {"tornHeader", "tornBody"} :
                wal' = Append(wal, [kind |-> kind])
    /\ todo' = << >>
    /\ UNCHANGED <<memory, snapshotThreshold, snapshot, history>>

\* NewRaft and loadState.  applyLogs at the end of loadState applies nothing,
\* but it compacts a log that is longer than the threshold.
loadState ==
    LET st == Replay(wal)
        lg == LoadedLog(st.entries, snapshot)
    IN
    /\ status = "down"
    /\ \/ /\ ~st.readable
          /\ status' = "failed"
          /\ UNCHANGED <<memory, snapshotThreshold, todo, disk, history>>
       \/ /\ st.readable
          /\ status' = "up"
          /\ state' = "Follower"
          /\ Handle(st.term, st.vote, lg, snapshot, snapshot, TRUE, << >>, {})
          /\ holed' = (holed \/ ~Gapless(lg, snapshot))
    /\ UNCHANGED crashes

Next ==
    \/ \E c \in Node, term \in 1..MaxTerm : CastVote(c, term)
    \/ \E term \in 1..MaxTerm : LearnTerm(term)
    \/ AppendOwn
    \/ \E n \in 1..MaxIndex : CommitOwn(n)
    \/ \E idx \in 1..MaxIndex, term \in 1..MaxTerm, l \in Node, n \in 0..MaxIndex :
          ReceiveEntry([index |-> idx, term |-> term], l, n)
    \/ \E l \in Node : ReceiveChunk(l)
    \/ \E l \in Node, n \in Installs, t \in 0..MaxTerm : restoreSnapshot(l, n, t)
    \/ DiskStep
    \/ Crash
    \/ loadState

Spec == Init /\ [][Next]_vars
-----------------------------------------------------------------------------
(***************************************************************************)
(* Properties.                                                             *)
(***************************************************************************)
\* What a restart would read now.
OnDisk == Replay(wal)
RecoveredLog == LoadedLog(OnDisk.entries, snapshot)

\* Where a restart finds entry e: in the snapshot, or by Replay.
Found(e) == e.index <= snapshot \/ e \in ToSet(RecoveredLog)

\* Every entry whose handler has answered is on disk until a later handler
\* truncates it.
AckedSurvives == OnDisk.readable => \A e \in acked : Found(e)

\* The only acknowledged entries that a restart may not find are those that
\* takeSnapshot or restoreSnapshot removed from the WAL and did not write
\* again, and those of a snapshot file in whose place restoreSnapshot has put
\* an older one; no crash between two disk operations loses another one.  Once
\* such a loss has left a hole in the log in memory, processAppendEntries
\* truncates memory by position and the WAL by index, and more may be lost.
LostOnlyBySnapshots ==
    OnDisk.readable /\ ~holed => \A e \in acked \ unwritten : Found(e)

\* A restart finds the last term and vote that AppendState has synced, at any
\* moment, also inside a handler; only where takeSnapshot and restoreSnapshot
\* have emptied the WAL, until a term and vote is synced again, it finds none.
VoteKept ==
    OnDisk.readable =>
        IF cleared THEN OnDisk.term = 0 /\ OnDisk.vote = Nil
        ELSE OnDisk.term = voted.term /\ OnDisk.vote = voted.vote

\* Once a handler has ended, a restart brings back no entry that the node no
\* longer has: neither what it truncated nor what was never in its log.
NoResurrection ==
    Idle /\ OnDisk.readable => ToSet(RecoveredLog) \subseteq ToSet(log)

\* The recovered log has rising indexes above the snapshot's, also when the
\* process ended between SaveSnapshot and Reset.
RecoveredOrdered ==
    OnDisk.readable =>
        /\ \A e \in ToSet(RecoveredLog) : e.index > snapshot
        /\ \A k \in 1..(Len(RecoveredLog) - 1) :
              RecoveredLog[k].index < RecoveredLog[k + 1].index

\* A node that ends can always be started again.
Restartable == status # "failed"
=============================================================================
