------------------------------ MODULE MCReads ------------------------------
(***************************************************************************)
(* Reads of a leader while another node replaces it.                       *)
(***************************************************************************)
EXTENDS Reads, MCRaft, SequencesExt

\* Node l leads term 1; its no-op is everywhere, committed and applied, and so
\* are the commands in sent, but only l knows that these are committed.  Node v
\* has not heard of it for a while, and its pre-vote was granted by the third
\* node w: v is a candidate in term 2, and its request is on its way to w.
BeforeVote(l, v, w, sent) ==
    LET noop == <<[term |-> 1, cmd |-> Noop]>>
        lg == noop \o SetToSeq({[term |-> 1, cmd |-> c] : c \in sent})
    IN
    /\ state = (l :> "Leader" @@ v :> "Candidate" @@ w :> "Follower")
    /\ currentTerm = (l :> 1 @@ v :> 2 @@ w :> 1)
    /\ votedFor = (l :> l @@ v :> v @@ w :> l)
    /\ wal = [i \in Server |-> [term |-> currentTerm[i], votedFor |-> votedFor[i]]]
    /\ votesReceived = (l :> {l, w} @@ v :> {v} @@ w :> {})
    /\ preVoteVotesReceived = (l :> {l, w} @@ v :> {v, w} @@ w :> {})
    /\ log = [i \in Server |-> lg]
    /\ commitIndex = [i \in Server |-> IF i = l THEN Len(lg) ELSE 1]
    /\ applied = [i \in Server |-> IF i = l THEN lg ELSE noop]
    /\ nextIndex = [i \in Server |-> [j \in Server |-> IF i = l /\ j # l THEN Len(lg) + 1 ELSE 0]]
    /\ matchIndex = [i \in Server |-> [j \in Server |-> IF i = l /\ j # l THEN Len(lg) ELSE 0]]
    /\ proposals = [i \in Server |-> {}]
    /\ replies = [c \in Command |-> IF c \in sent THEN "success" ELSE "none"]
    /\ msgs = {[type |-> "RequestVote", from |-> v, to |-> w, inc |-> 0, term |-> 2,
                lastIndex |-> Len(lg), lastTerm |-> 1]}
    /\ incarnation = [i \in Server |-> 0]
    /\ ballots = {[voter |-> l, term |-> 1, cand |-> l],
                  [voter |-> w, term |-> 1, cand |-> l],
                  [voter |-> v, term |-> 2, cand |-> v]}
    /\ elections = {Won(l, 1, w)}

InitReplaced ==
    \E l, v, w \in Server :
        /\ Cardinality({l, v, w}) = 3
        /\ \E sent \in SUBSET Command : BeforeVote(l, v, w, sent)
        /\ InitReads

SpecReplaced == InitReplaced /\ [][NextReads]_allVars
=============================================================================
