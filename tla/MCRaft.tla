------------------------------- MODULE MCRaft -------------------------------
(***************************************************************************)
(* Model-checking instances of Raft.  Node ids and commands are symmetric. *)
(***************************************************************************)
EXTENDS Raft, TLC

Symmetry == Permutations(Server) \cup Permutations(Command)

-----------------------------------------------------------------------------
(***************************************************************************)
(* Runs about replication start behind two elections, in a state that Spec *)
(* reaches, less the messages that are lost or used up: the elections in   *)
(* `won` have taken place, one after the other, and the messages in `sent` *)
(* are still on their way.                                                 *)
(* A leader in `down` has learnt a later term and has stepped down.        *)
(***************************************************************************)
AfterElections(won, down, sent) ==
    LET Voted(i) == {e \in won : i \in e.voters}
        Last(i) == CHOOSE e \in Voted(i) : \A f \in Voted(i) : e.term >= f.term
        Led(i) == Voted(i) # {} /\ Last(i).leader = i
        lastTerm == Max({e.term : e \in won})
    IN
    /\ state = [i \in Server |-> IF Led(i) /\ i \notin down THEN "Leader" ELSE "Follower"]
    /\ wal = [i \in Server |->
                 IF Voted(i) = {} THEN [term |-> 0, votedFor |-> Nil]
                 ELSE [term |-> Last(i).term, votedFor |-> Last(i).leader]]
    /\ currentTerm = [i \in Server |-> IF i \in down THEN lastTerm ELSE wal[i].term]
    /\ votedFor = [i \in Server |-> IF i \in down THEN Nil ELSE wal[i].votedFor]
    /\ votesReceived = [i \in Server |-> IF Led(i) THEN Last(i).voters ELSE {}]
    /\ preVoteVotesReceived = votesReceived
    /\ log = [i \in Server |-> IF Led(i) THEN <<[term |-> Last(i).term, cmd |-> Noop]>>
                                           ELSE << >>]
    /\ commitIndex = [i \in Server |-> 0]
    /\ applied = [i \in Server |-> << >>]
    /\ nextIndex = [i \in Server |-> [j \in Server |-> One(Led(i) /\ j # i)]]
    /\ matchIndex = [i \in Server |-> [j \in Server |-> 0]]
    /\ proposals = [i \in Server |-> {}]
    /\ replies = [c \in Command |-> "none"]
    /\ msgs = sent
    /\ incarnation = [i \in Server |-> 0]
    /\ ballots = UNION {{[voter |-> i, term |-> e.term, cand |-> e.leader]
                            : i \in e.voters} : e \in won}
    /\ elections = won

Won(l, t, v) == [leader |-> l, term |-> t, voters |-> {l, v}]

\* One of three nodes has won term 1, a second one term 2 with the vote of the
\* third, and the leader of term 1 has stepped down; the two logs conflict at index 1.
SpecContested ==
    /\ \E l, v, w \in Server :
          /\ Cardinality({l, v, w}) = 3
          /\ AfterElections({Won(l, 1, v), Won(v, 2, w)}, {l}, {})
    /\ [][Next]_vars

\* The same, but the leader of term 1 has not heard of term 2: both lead.
SpecRivals ==
    /\ \E l, v, w \in Server :
          /\ Cardinality({l, v, w}) = 3
          /\ AfterElections({Won(l, 1, v), Won(v, 2, w)}, {}, {})
    /\ [][Next]_vars

\* The first heartbeat of the leader l of term 1, with its no-op entry.
FirstHeartbeat(l, j) ==
    [type |-> "AppendEntries", from |-> l, to |-> j, inc |-> 0, term |-> 1,
     prevIndex |-> 0, prevTerm |-> 0,
     entries |-> <<[term |-> 1, cmd |-> Noop]>>, leaderCommit |-> 0]

\* Of five nodes l won term 1 and v term 2, both with the votes of the same
\* two nodes; l does not know of v.  The fifth node j never voted, and the
\* first heartbeat of l is still on its way to it.  Which nodes these are does
\* not matter, so they are chosen once (no symmetry with this specification).
SpecFive ==
    /\ LET role == CHOOSE f \in [{"l", "v", "j"} -> Server] :
                      Cardinality({f["l"], f["v"], f["j"]}) = 3
           l == role["l"]
           v == role["v"]
           voters == Server \ {l, v, role["j"]}
       IN  AfterElections({[leader |-> l, term |-> 1, voters |-> voters \cup {l}],
                           [leader |-> v, term |-> 2, voters |-> voters \cup {v}]},
                          {}, {FirstHeartbeat(l, role["j"])})
    /\ [][Next]_vars
=============================================================================
