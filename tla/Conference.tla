----------------------------- MODULE Conference -----------------------------
(***************************************************************************)
(* What a conference room promises, whatever its queues, its timer and its *)
(* activity records look like: an utterance is heard by everybody else who *)
(* is a member at the moment of delivery, once, or by nobody.              *)
(***************************************************************************)
CONSTANTS
    Speakers,
    Utterances    \* records with a field from \in Speakers

VARIABLES
    members,
    said,       \* utterances made so far
    pending,    \* utterances waiting to be delivered
    heard,      \* speaker -> utterances delivered to it
    overdue     \* has there been no delivery for too long?

vars == <<members, said, pending, heard, overdue>>

By(speaker) == {u \in Utterances : u.from = speaker}

Init ==
    /\ members = {}
    /\ said = {}
    /\ pending = {}
    /\ heard = [s \in Speakers |-> {}]
    /\ overdue = FALSE

Join(s) ==
    /\ members' = members \cup {s}
    /\ UNCHANGED <<said, pending, heard, overdue>>

\* Whoever leaves takes along what has not been delivered.
Leave(s) ==
    /\ members' = members \ {s}
    /\ pending' = pending \ By(s)
    /\ UNCHANGED <<said, heard, overdue>>

\* A new utterance may push out older ones of the same speaker, never one of
\* somebody else.  Who speaks may join by that.
Say(u) ==
    /\ u \notin said
    /\ said' = said \cup {u}
    /\ \E lost \in SUBSET (pending \cap By(u.from)) :
          pending' = (pending \ lost) \cup {u}
    /\ members' \in {members, members \cup {u.from}}
    /\ UNCHANGED <<heard, overdue>>

\* Everything pending is delivered to everybody else.  Only a delivery that
\* is overdue may pass over speakers, and then it does so for all hearers.
Deliver ==
    \E passed \in SUBSET Speakers :
        /\ passed = {} \/ overdue
        /\ heard' = [s \in Speakers |->
                       IF s \in members
                       THEN heard[s] \cup {u \in pending : u.from \notin passed \cup {s}}
                       ELSE heard[s]]
        /\ pending' = {}
        /\ overdue' = FALSE
        /\ UNCHANGED <<members, said>>

Lapse ==
    /\ overdue' = TRUE
    /\ UNCHANGED <<members, said, pending, heard>>

Next ==
    \/ \E s \in Speakers : Join(s) \/ Leave(s)
    \/ \E u \in Utterances : Say(u)
    \/ Deliver
    \/ Lapse

Spec == Init /\ [][Next]_vars

\* While the room has members, what is pending is delivered.
FairSpec == Spec /\ WF_vars(Deliver /\ members # {} /\ pending # {})

=============================================================================
