----------------------------- MODULE AsyncLogger -----------------------------
(***************************************************************************)
(* The asynchronous logger (common/Logger.h, common/Logger.cpp): callers   *)
(* queue entries, and a thread of the logger's own takes them out and      *)
(* writes them to the destinations.                                        *)
(*                                                                         *)
(* There are three mutexes and a condition variable.  What a thread does   *)
(* while it holds m_queueMutex or m_contextMutex is one step; writing to   *)
(* the destinations, which may take long, is one step per destination,     *)
(* with m_destinationsMutex held throughout.  A wait on the condition may  *)
(* end for no reason, and a notification nobody waits for is lost.         *)
(*                                                                         *)
(* An entry is known by its caller, by the number of the call and by the   *)
(* version of the context it carries.  Its level and the filter decide     *)
(* whether a call has any effect; both may do so in either way here, which *)
(* leaves their values, and the calls that set them, out.                  *)
(***************************************************************************)
EXTENDS Naturals, Sequences, SequencesExt

CONSTANTS
    Callers,        \* the threads that log
    Destinations,   \* the destinations that may be added
    MaxCalls,       \* bound: calls of one caller that pass the level's test
    MaxContexts,    \* bound: calls of setContextValue
    None            \* no entry

ASSUME CallsAssumption == MaxCalls \in Nat /\ MaxContexts \in Nat

Entry == [from : Callers, n : 1..MaxCalls, context : 0..MaxContexts]

ASSUME NoneAssumption == None \notin Entry

VARIABLES
    calls,          \* calls of log() so far, per caller
    caller,         \* where each caller is in its call
    made,           \* the entry each caller has made and not queued yet
    context,        \* m_context, by the number of changes to it
    m_logQueue,     \* entries queued, oldest first
    m_stopFlag,
    m_destinations, \* in the order they were added
    logger,         \* where the logger's thread is
    entry,          \* the entry it has taken out
    todo,           \* the destinations it still has to write that entry to
    destructor,     \* where the destructor is
    queued,         \* history: all entries ever queued
    missed,         \* history: entries done with when a destination was added
    written         \* what each destination was given

callerVars == <<calls, caller, made, context>>
threadVars == <<logger, entry, todo, written>>
vars == <<callerVars, m_logQueue, m_stopFlag, m_destinations, threadVars,
          destructor, queued, missed>>

Init ==
    /\ calls = [c \in Callers |-> 0]
    /\ caller = [c \in Callers |-> "idle"]
    /\ made = [c \in Callers |-> None]
    /\ context = 0
    /\ m_logQueue = << >> /\ m_stopFlag = FALSE /\ m_destinations = << >>
    /\ logger = "testing" /\ entry = None /\ todo = << >>
    /\ destructor = "not called"
    /\ queued = << >>
    /\ missed = [d \in Destinations |-> 0]
    /\ written = [d \in Destinations |-> << >>]

-----------------------------------------------------------------------------
(* Callers. *)

\* Nobody may use a logger whose destructor has been called.
Alive == destructor = "not called"

\* notify_one: only the logger's thread ever waits.
notify_one == logger' = IF logger = "sleeping" THEN "testing" ELSE logger

setContextValue ==
    /\ Alive
    /\ context < MaxContexts
    /\ context' = context + 1
    /\ UNCHANGED <<calls, caller, made, m_logQueue, m_stopFlag, m_destinations,
                   threadVars, destructor, queued, missed>>

\* How many entries have been taken out of the queue.
Taken == Len(queued) - Len(m_logQueue)

\* The lock is held while all of an entry is written.  An entry that has been taken
\* out and not yet been locked for goes to the new destination too.
addDestination(d) ==
    /\ Alive
    /\ logger # "writing"
    /\ d \notin ToSet(m_destinations)
    /\ m_destinations' = Append(m_destinations, d)
    /\ missed' = [missed EXCEPT ![d] =
                     IF logger = "holding" THEN Taken - 1 ELSE Taken]
    /\ UNCHANGED <<callerVars, m_logQueue, m_stopFlag, threadVars, destructor, queued>>

\* log(): the level passes, the entry is made and given the present context.
MakeEntry(c) ==
    /\ Alive
    /\ caller[c] = "idle"
    /\ calls[c] < MaxCalls
    /\ calls' = [calls EXCEPT ![c] = @ + 1]
    /\ made' = [made EXCEPT ![c] = [from |-> c, n |-> calls'[c], context |-> context]]
    /\ caller' = [caller EXCEPT ![c] = "made"]
    /\ UNCHANGED <<context, m_logQueue, m_stopFlag, m_destinations, threadVars,
                   destructor, queued, missed>>

\* The filter refuses the entry.
Refuse(c) ==
    /\ caller[c] = "made"
    /\ caller' = [caller EXCEPT ![c] = "idle"]
    /\ made' = [made EXCEPT ![c] = None]
    /\ UNCHANGED <<calls, context, m_logQueue, m_stopFlag, m_destinations, threadVars,
                   destructor, queued, missed>>

\* Defect considered: the newest entry goes to the front.
PushFront(c) ==
    /\ caller[c] = "made"
    /\ m_logQueue' = <<made[c]>> \o m_logQueue
    /\ queued' = Append(queued, made[c])
    /\ caller' = [caller EXCEPT ![c] = "queued"]
    /\ made' = [made EXCEPT ![c] = None]
    /\ UNCHANGED <<calls, context, m_stopFlag, m_destinations, threadVars, destructor, missed>>

Push(c) ==
    /\ caller[c] = "made"
    /\ m_logQueue' = Append(m_logQueue, made[c])
    /\ queued' = Append(queued, made[c])
    /\ caller' = [caller EXCEPT ![c] = "queued"]
    /\ made' = [made EXCEPT ![c] = None]
    /\ UNCHANGED <<calls, context, m_stopFlag, m_destinations, threadVars, destructor, missed>>

\* Defect considered: only the first entry is announced.
NotifyFirst(c) ==
    /\ caller[c] = "queued"
    /\ caller' = [caller EXCEPT ![c] = "idle"]
    /\ IF Len(queued) = 1 THEN notify_one ELSE UNCHANGED logger
    /\ UNCHANGED <<calls, made, context, m_logQueue, m_stopFlag, m_destinations,
                   entry, todo, written, destructor, queued, missed>>

\* log() returns.
Notify(c) ==
    /\ caller[c] = "queued"
    /\ notify_one
    /\ caller' = [caller EXCEPT ![c] = "idle"]
    /\ UNCHANGED <<calls, made, context, m_logQueue, m_stopFlag, m_destinations,
                   entry, todo, written, destructor, queued, missed>>

-----------------------------------------------------------------------------
(* The logger's thread. *)

\* The predicate of the wait is false: the thread sleeps.
Sleep ==
    /\ logger = "testing"
    /\ m_logQueue = << >> /\ ~m_stopFlag
    /\ logger' = "sleeping"
    /\ UNCHANGED <<callerVars, m_logQueue, m_stopFlag, m_destinations,
                   entry, todo, written, destructor, queued, missed>>

WakeForNoReason ==
    /\ logger = "sleeping"
    /\ logger' = "testing"
    /\ UNCHANGED <<callerVars, m_logQueue, m_stopFlag, m_destinations,
                   entry, todo, written, destructor, queued, missed>>

Take ==
    /\ logger = "testing"
    /\ m_logQueue # << >>
    /\ entry' = Head(m_logQueue)
    /\ m_logQueue' = Tail(m_logQueue)
    /\ logger' = "holding"
    /\ UNCHANGED <<callerVars, m_stopFlag, m_destinations, todo, written,
                   destructor, queued, missed>>

\* Defect considered: the flag alone ends the thread.
EndAtOnce ==
    /\ logger = "testing"
    /\ m_stopFlag
    /\ logger' = "ended"
    /\ UNCHANGED <<callerVars, m_logQueue, m_stopFlag, m_destinations,
                   entry, todo, written, destructor, queued, missed>>

End ==
    /\ logger = "testing"
    /\ m_stopFlag /\ m_logQueue = << >>
    /\ logger' = "ended"
    /\ UNCHANGED <<callerVars, m_logQueue, m_stopFlag, m_destinations,
                   entry, todo, written, destructor, queued, missed>>

\* The destinations are locked, and are those of this moment.
LockDestinations ==
    /\ logger = "holding"
    /\ logger' = "writing"
    /\ todo' = m_destinations
    /\ UNCHANGED <<callerVars, m_logQueue, m_stopFlag, m_destinations,
                   entry, written, destructor, queued, missed>>

Write ==
    /\ logger = "writing"
    /\ todo # << >>
    /\ written' = [written EXCEPT ![Head(todo)] = Append(@, entry)]
    /\ todo' = Tail(todo)
    /\ UNCHANGED <<callerVars, m_logQueue, m_stopFlag, m_destinations, logger,
                   entry, destructor, queued, missed>>

\* Defect considered: the entry is kept for the next turn.
UnlockKeeping ==
    /\ logger = "writing"
    /\ todo = << >>
    /\ logger' = "testing"
    /\ UNCHANGED <<callerVars, m_logQueue, m_stopFlag, m_destinations,
                   entry, todo, written, destructor, queued, missed>>

\* The end of the loop's body: the entry is gone and the lock released.
Unlock ==
    /\ logger = "writing"
    /\ todo = << >>
    /\ logger' = "testing"
    /\ entry' = None
    /\ UNCHANGED <<callerVars, m_logQueue, m_stopFlag, m_destinations,
                   todo, written, destructor, queued, missed>>

-----------------------------------------------------------------------------
(* The destructor, called when no other thread uses the logger any more. *)

Stop ==
    /\ Alive
    /\ \A c \in Callers : caller[c] = "idle"
    /\ m_stopFlag' = TRUE
    /\ destructor' = "stopped"
    /\ UNCHANGED <<callerVars, m_logQueue, m_destinations, threadVars, queued, missed>>

NotifyStop ==
    /\ destructor = "stopped"
    /\ notify_one
    /\ destructor' = "joining"
    /\ UNCHANGED <<callerVars, m_logQueue, m_stopFlag, m_destinations,
                   entry, todo, written, queued, missed>>

Join ==
    /\ destructor = "joining"
    /\ logger = "ended"
    /\ destructor' = "done"
    /\ UNCHANGED <<callerVars, m_logQueue, m_stopFlag, m_destinations, threadVars, queued, missed>>

-----------------------------------------------------------------------------
Call(c) == Refuse(c) \/ Push(c) \/ Notify(c)

loggerThreadFunction == Sleep \/ Take \/ End \/ LockDestinations \/ Write \/ Unlock

Next ==
    \/ setContextValue
    \/ \E d \in Destinations : addDestination(d)
    \/ \E c \in Callers : MakeEntry(c) \/ Call(c)
    \/ loggerThreadFunction
    \/ WakeForNoReason
    \/ Stop \/ NotifyStop \/ Join

\* Every thread that can go on does, and destinations return from write().
\* Nobody has to call anything, and no wait ends for no reason.
Fairness ==
    /\ \A c \in Callers : WF_vars(Call(c))
    /\ WF_vars(loggerThreadFunction)
    /\ WF_vars(NotifyStop) /\ WF_vars(Join)

Spec == Init /\ [][Next]_vars /\ Fairness

-----------------------------------------------------------------------------
\* Every variable keeps its type; the thread has an entry in its hands exactly
\* between taking it out and finishing with all destinations.
TypeOK ==
    /\ calls \in [Callers -> 0..MaxCalls]
    /\ caller \in [Callers -> {"idle", "made", "queued"}]
    /\ made \in [Callers -> Entry \cup {None}]
    /\ \A c \in Callers : caller[c] = "made" <=> made[c] # None
    /\ context \in 0..MaxContexts
    /\ m_logQueue \in Seq(Entry) /\ queued \in Seq(Entry)
    /\ m_stopFlag \in BOOLEAN /\ (m_stopFlag <=> ~Alive)
    /\ m_destinations \in Seq(Destinations) /\ todo \in Seq(Destinations)
    /\ logger \in {"testing", "sleeping", "holding", "writing", "ended"}
    /\ entry \in Entry \cup {None}
    /\ entry # None <=> logger \in {"holding", "writing"}
    /\ destructor \in {"not called", "stopped", "joining", "done"}
    /\ missed \in [Destinations -> Nat]
    /\ written \in [Destinations -> Seq(Entry)]

\* Has d still to be given the entry that was taken out?
Pending(d) == logger = "holding" \/ (logger = "writing" /\ d \in ToSet(todo))

\* How many of the entries the thread is done with as far as d is concerned.
Place(d) == IF Pending(d) THEN Taken - 1 ELSE Taken

\* What a destination was given is, in their order, all entries that the thread was
\* not done with when it was added, up to the last it can have been given: none is
\* left out or repeated, and though entries are taken out under one mutex and
\* written under another, none overtakes another.
WrittenInOrder ==
    \A d \in ToSet(m_destinations) :
        /\ missed[d] + Len(written[d]) = Place(d)
        /\ \A i \in 1..Len(written[d]) : written[d][i] = queued[missed[d] + i]

\* When the thread has ended, and so when the destructor returns, every destination
\* has been given every entry ever queued, but for those that were written before
\* it was added.
DrainedAtEnd ==
    logger = "ended" =>
        \A d \in ToSet(m_destinations) :
            /\ missed[d] + Len(written[d]) = Len(queued)
            /\ \A i \in 1..Len(written[d]) : written[d][i] = queued[missed[d] + i]

-----------------------------------------------------------------------------
\* What the logger promises.
Promise == INSTANCE Log WITH
               Entries  <- Entry,
               accepted <- queued,
               shown    <- [d \in ToSet(m_destinations) |-> written[d]],
               place    <- [d \in ToSet(m_destinations) |-> Place(d)],
               state    <- CASE destructor \in {"stopped", "joining"} -> "closing"
                             [] destructor = "done" -> "closed"
                             [] OTHER -> "open"

\* The logger is a log: no wake-up is lost between the queue and the condition,
\* whatever the threads' interleaving, and the destructor returns.
ImplementsLog == Promise!FairSpec

=============================================================================
