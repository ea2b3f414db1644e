--------------------------------- MODULE Log ---------------------------------
(***************************************************************************)
(* What a logger with several destinations promises: each destination is   *)
(* shown, in the one order in which they were accepted, all entries from   *)
(* some entry on, every one that is accepted after it was registered among *)
(* them; and the log closes when everything accepted has been shown.       *)
(***************************************************************************)
EXTENDS Naturals, Sequences

CONSTANTS
    Entries,
    Destinations

VARIABLES
    accepted,   \* the entries accepted so far, in order
    shown,      \* registered destination -> the entries it was shown
    place,      \* registered destination -> how far it is in accepted
    state       \* "open", "closing" or "closed"

vars == <<accepted, shown, place, state>>

Init ==
    /\ accepted = << >>
    /\ shown = [d \in {} |-> << >>]
    /\ place = [d \in {} |-> 0]
    /\ state = "open"

Accept ==
    /\ state = "open"
    /\ \E e \in Entries : accepted' = Append(accepted, e)
    /\ UNCHANGED <<shown, place, state>>

With(map, key, value) ==
    [k \in DOMAIN map \cup {key} |-> IF k = key THEN value ELSE map[k]]

\* A new destination may be shown entries that were accepted before.
Register(d) ==
    /\ state = "open"
    /\ d \notin DOMAIN shown
    /\ shown' = With(shown, d, << >>)
    /\ \E k \in 0..Len(accepted) : place' = With(place, d, k)
    /\ UNCHANGED <<accepted, state>>

Show(d) ==
    /\ d \in DOMAIN shown
    /\ place[d] < Len(accepted)
    /\ place' = [place EXCEPT ![d] = @ + 1]
    /\ shown' = [shown EXCEPT ![d] = Append(@, accepted[place'[d]])]
    /\ UNCHANGED <<accepted, state>>

BeginClosing ==
    /\ state = "open"
    /\ state' = "closing"
    /\ UNCHANGED <<accepted, shown, place>>

Close ==
    /\ state = "closing"
    /\ \A d \in DOMAIN shown : place[d] = Len(accepted)
    /\ state' = "closed"
    /\ UNCHANGED <<accepted, shown, place>>

Next ==
    \/ Accept
    \/ \E d \in Destinations : Register(d) \/ Show(d)
    \/ BeginClosing
    \/ Close

Spec == Init /\ [][Next]_vars

\* Whatever was accepted is shown, and a log that is to be closed closes.
FairSpec == Spec /\ WF_vars(Close) /\ \A d \in Destinations : WF_vars(Show(d))

=============================================================================
