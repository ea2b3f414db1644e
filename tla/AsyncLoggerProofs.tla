-------------------------- MODULE AsyncLoggerProofs --------------------------
(***************************************************************************)
(* Proofs about the asynchronous logger, for any number of callers, of     *)
(* destinations and of calls.                                              *)
(***************************************************************************)
EXTENDS AsyncLogger, SequenceTheorems, TLAPS

-----------------------------------------------------------------------------
(* Type correctness. *)

\* The queue is the end of its history, and the entry in the thread's hands is what
\* stood before it there.
QueueIsTheRest ==
    /\ Len(m_logQueue) <= Len(queued)
    /\ \A i \in 1..Len(m_logQueue) : m_logQueue[i] = queued[Taken + i]

EntryIsTheLast ==
    logger \in {"holding", "writing"} => Taken >= 1 /\ entry = queued[Taken]

\* A sequence that grows at its end, and one that loses its first element.
LEMMA SeqTypes ==
    ASSUME NEW S, NEW q \in Seq(S)
    PROVE  /\ \A e \in S : Append(q, e) \in Seq(S)
           /\ q # << >> => Tail(q) \in Seq(S) /\ Head(q) \in S
  BY AppendProperties, HeadTailProperties

LEMMA InitType == Init => TypeOK
  <1> SUFFICES ASSUME Init PROVE TypeOK
    OBVIOUS
  <1>1. << >> \in Seq(Entry) /\ << >> \in Seq(Destinations)
    OBVIOUS
  <1>a. 0 \in 0..MaxCalls /\ 0 \in 0..MaxContexts
    BY CallsAssumption
  <1>2. calls \in [Callers -> 0..MaxCalls] /\ context \in 0..MaxContexts
    BY <1>a DEF Init
  <1>3. /\ caller \in [Callers -> {"idle", "made", "queued"}]
        /\ made \in [Callers -> Entry \cup {None}]
        /\ \A c \in Callers : caller[c] = "made" <=> made[c] # None
    BY DEF Init
  <1>4. written \in [Destinations -> Seq(Entry)] /\ missed \in [Destinations -> Nat]
    BY <1>1 DEF Init
  <1> QED
    BY <1>1, <1>2, <1>3, <1>4 DEF Init, TypeOK, Alive

\* A call begins: the entry carries the number of the call.
LEMMA MakeEntryType ==
    ASSUME TypeOK, NEW c \in Callers, MakeEntry(c)
    PROVE  TypeOK'
  <1>1. /\ calls \in [Callers -> 0..MaxCalls] /\ calls[c] \in 0..MaxCalls
        /\ calls[c] < MaxCalls /\ calls' = [calls EXCEPT ![c] = @ + 1]
    BY DEF MakeEntry, TypeOK
  <1>a. calls[c] + 1 \in 1..MaxCalls
    BY <1>1, CallsAssumption
  <1>2. calls' \in [Callers -> 0..MaxCalls] /\ calls'[c] = calls[c] + 1
    BY <1>1, <1>a, CallsAssumption
  <1>3. [from |-> c, n |-> calls'[c], context |-> context] \in Entry
    BY <1>a, <1>2 DEF Entry, TypeOK
  <1>4. made' \in [Callers -> Entry \cup {None}] /\ made'[c] # None
    BY <1>3, NoneAssumption DEF MakeEntry, TypeOK
  <1>5. \A b \in Callers : caller'[b] = "made" <=> made'[b] # None
    BY <1>4 DEF MakeEntry, TypeOK
  <1>6. caller' \in [Callers -> {"idle", "made", "queued"}]
    BY DEF MakeEntry, TypeOK
  <1> QED
    BY <1>2, <1>4, <1>5, <1>6 DEF MakeEntry, TypeOK, Alive, threadVars

\* The rest of a call.
LEMMA CallType ==
    ASSUME TypeOK, NEW c \in Callers, Call(c)
    PROVE  TypeOK'
  <1>1. CASE Refuse(c)
    BY <1>1 DEF Refuse, TypeOK, Alive, threadVars
  <1>2. CASE Push(c)
    <2>1. made[c] \in Entry
      BY <1>2 DEF Push, TypeOK
    <2>2. m_logQueue' \in Seq(Entry) /\ queued' \in Seq(Entry)
      BY <1>2, <2>1, SeqTypes DEF Push, TypeOK
    <2> QED
      BY <1>2, <2>2 DEF Push, TypeOK, Alive, threadVars
  <1>3. CASE Notify(c)
    BY <1>3 DEF Notify, notify_one, TypeOK, Alive
  <1> QED
    BY <1>1, <1>2, <1>3 DEF Call

\* The logger's thread.
LEMMA ThreadType ==
    ASSUME TypeOK, loggerThreadFunction
    PROVE  TypeOK'
  <1>1. CASE Sleep
    BY <1>1 DEF Sleep, TypeOK, Alive, callerVars
  <1>2. CASE Take
    <2>1. m_logQueue' \in Seq(Entry) /\ entry' \in Entry
      BY <1>2, SeqTypes DEF Take, TypeOK
    <2> QED
      BY <1>2, <2>1, NoneAssumption DEF Take, TypeOK, Alive, callerVars
  <1>3. CASE End
    BY <1>3 DEF End, TypeOK, Alive, callerVars
  <1>4. CASE LockDestinations
    BY <1>4 DEF LockDestinations, TypeOK, Alive, callerVars
  <1>5. CASE Write
    <2>1. todo' \in Seq(Destinations) /\ Head(todo) \in Destinations
      BY <1>5, SeqTypes DEF Write, TypeOK
    <2>2. entry \in Entry
      BY <1>5 DEF Write, TypeOK
    <2>3. written' \in [Destinations -> Seq(Entry)]
      BY <1>5, <2>1, <2>2, SeqTypes DEF Write, TypeOK
    <2> QED
      BY <1>5, <2>1, <2>3 DEF Write, TypeOK, Alive, callerVars
  <1>6. CASE Unlock
    BY <1>6 DEF Unlock, TypeOK, Alive, callerVars
  <1> QED
    BY <1>1, <1>2, <1>3, <1>4, <1>5, <1>6 DEF loggerThreadFunction

\* No thread takes a variable out of its type.
LEMMA NextType ==
    ASSUME TypeOK, QueueIsTheRest, EntryIsTheLast, [Next]_vars
    PROVE  TypeOK'
  <1>1. CASE setContextValue
    <2>1. context \in 0..MaxContexts /\ context < MaxContexts /\ context' = context + 1
      BY <1>1 DEF setContextValue, TypeOK
    <2>2. context' \in 0..MaxContexts
      BY <2>1, CallsAssumption
    <2> QED
      BY <1>1, <2>2 DEF setContextValue, TypeOK, Alive, threadVars
  <1>2. ASSUME NEW d \in Destinations, addDestination(d) PROVE TypeOK'
    <2>1. m_destinations' \in Seq(Destinations)
      BY <1>2, SeqTypes DEF addDestination, TypeOK
    <2>2. m_logQueue \in Seq(Entry) /\ queued \in Seq(Entry)
      BY DEF TypeOK
    <2>3. Taken \in Nat /\ (logger = "holding" => Taken - 1 \in Nat)
      BY <2>2 DEF Taken, QueueIsTheRest, EntryIsTheLast
    <2>4. missed' \in [Destinations -> Nat]
      BY <1>2, <2>3 DEF addDestination, TypeOK
    <2> QED
      BY <1>2, <2>1, <2>4 DEF addDestination, TypeOK, Alive, callerVars, threadVars
  <1>3. CASE WakeForNoReason
    BY <1>3 DEF WakeForNoReason, TypeOK, Alive, callerVars
  <1>4. CASE Stop
    BY <1>4 DEF Stop, TypeOK, Alive, callerVars, threadVars
  <1>5. CASE NotifyStop
    BY <1>5 DEF NotifyStop, notify_one, TypeOK, Alive, callerVars
  <1>6. CASE Join
    BY <1>6 DEF Join, TypeOK, Alive, callerVars, threadVars
  <1>7. CASE UNCHANGED vars
    BY <1>7 DEF vars, callerVars, threadVars, TypeOK, Alive
  <1> QED
    BY <1>1, <1>2, <1>3, <1>4, <1>5, <1>6, <1>7, MakeEntryType, CallType, ThreadType DEF Next

-----------------------------------------------------------------------------
(* Order.  Between them, the queue, the entry in the thread's hands and what
   each destination was given are the history of the queue, cut at Taken. *)

\* No element occurs twice.
Once(s) == \A i, j \in 1..Len(s) : s[i] = s[j] => i = j

EachOnce ==
    /\ Once(m_destinations) /\ Once(todo)
    /\ ToSet(todo) \subseteq ToSet(m_destinations)
    /\ logger # "writing" => todo = << >>

NewOnesAreEmpty ==
    \A d \in Destinations : d \notin ToSet(m_destinations) => written[d] = << >>

\* WrittenInOrder for one destination, entry by entry.
Stretch(d) ==
    /\ missed[d] + Len(written[d]) = Place(d)
    /\ \A i \in 1..Len(written[d]) : written[d][i] = queued[missed[d] + i]

\* Once the destructor was called nothing is queued, and the thread ends when
\* nothing is left.
QuietAtEnd ==
    /\ ~Alive => \A c \in Callers : caller[c] = "idle"
    /\ logger = "ended" => ~Alive /\ m_logQueue = << >>

OInv ==
    /\ TypeOK
    /\ QueueIsTheRest /\ EntryIsTheLast /\ EachOnce /\ NewOnesAreEmpty
    /\ \A d \in ToSet(m_destinations) : Stretch(d)
    /\ QuietAtEnd

LEMMA InSeq ==
    ASSUME NEW S, NEW s \in Seq(S)
    PROVE  /\ ToSet(s) \subseteq S
           /\ \A x : x \in ToSet(s) <=> \E i \in 1..Len(s) : s[i] = x
  BY DEF ToSet

LEMMA NoneInEmpty == ToSet(<< >>) = {} /\ Len(<< >>) = 0 /\ 1..Len(<< >>) = {}
  BY DEF ToSet

LEMMA InitOrder == Init => OInv
  <1> SUFFICES ASSUME Init PROVE OInv
    OBVIOUS
  <1>1. TypeOK
    BY InitType
  <1>2. ToSet(m_destinations) = {} /\ ToSet(todo) = {}
    BY NoneInEmpty DEF Init
  <1>3. /\ 1..Len(m_logQueue) = {} /\ 1..Len(m_destinations) = {} /\ 1..Len(todo) = {}
        /\ Len(m_logQueue) = 0 /\ Len(queued) = 0
    BY NoneInEmpty DEF Init
  <1>4. QueueIsTheRest
    <2>1. Len(m_logQueue) <= Len(queued)
      BY <1>3
    <2> QED
      BY <1>3, <2>1 DEF QueueIsTheRest
  <1>5. EntryIsTheLast /\ NewOnesAreEmpty /\ QuietAtEnd
    BY DEF Init, EntryIsTheLast, NewOnesAreEmpty, QuietAtEnd, Alive
  <1>6. EachOnce
    BY <1>2, <1>3 DEF EachOnce, Once, Init
  <1> QED
    BY <1>1, <1>2, <1>4, <1>5, <1>6 DEF OInv

\* An entry is queued: the history grows beyond all that was said of it.
LEMMA PushOrder ==
    ASSUME OInv, NEW c \in Callers, Push(c)
    PROVE  OInv'
  <1>1. TypeOK'
    BY CallType DEF OInv, Call
  <1>2. made[c] \in Entry /\ m_logQueue \in Seq(Entry) /\ queued \in Seq(Entry)
    BY DEF Push, OInv, TypeOK
  <1>3. /\ Len(m_logQueue') = Len(m_logQueue) + 1 /\ Len(queued') = Len(queued) + 1
        /\ m_logQueue'[Len(m_logQueue) + 1] = made[c] /\ queued'[Len(queued) + 1] = made[c]
        /\ \A i \in 1..Len(m_logQueue) : m_logQueue'[i] = m_logQueue[i]
        /\ \A i \in 1..Len(queued) : queued'[i] = queued[i]
    BY <1>2 DEF Push
  <1>4. Len(m_logQueue) \in Nat /\ Len(queued) \in Nat /\ Len(m_logQueue) <= Len(queued)
    BY <1>2 DEF OInv, QueueIsTheRest
  <1>5. Taken' = Taken /\ Taken \in 0..Len(queued)
    BY <1>3, <1>4 DEF Taken
  <1>6. QueueIsTheRest'
    <2>1. Len(m_logQueue') <= Len(queued')
      BY <1>3, <1>4
    <2>2. ASSUME NEW i \in 1..Len(m_logQueue') PROVE m_logQueue'[i] = queued'[Taken' + i]
      <3>1. CASE i = Len(m_logQueue) + 1
        <4>1. Taken + i = Len(queued) + 1
          BY <3>1, <1>4 DEF Taken
        <4> QED
          BY <3>1, <4>1, <1>3, <1>5
      <3>2. CASE i \in 1..Len(m_logQueue)
        <4>1. m_logQueue[i] = queued[Taken + i]
          BY <3>2 DEF OInv, QueueIsTheRest
        <4>2. Taken + i \in 1..Len(queued)
          BY <3>2, <1>4 DEF Taken
        <4> QED
          BY <3>2, <4>1, <4>2, <1>3, <1>5
      <3> QED
        BY <3>1, <3>2, <1>3, <1>4
    <2> QED
      BY <2>1, <2>2 DEF QueueIsTheRest
  <1>7. EntryIsTheLast'
    BY <1>3, <1>5 DEF OInv, EntryIsTheLast, Push, threadVars
  <1>8. EachOnce' /\ NewOnesAreEmpty'
    BY DEF OInv, EachOnce, NewOnesAreEmpty, Push, threadVars, Once
  <1>9. ASSUME NEW d \in ToSet(m_destinations') PROVE Stretch(d)'
    <2>1. /\ d \in ToSet(m_destinations) /\ Stretch(d)
          /\ written'[d] = written[d] /\ Place(d)' = Place(d)
      BY <1>5 DEF Push, threadVars, OInv, Place, Pending
    <2>2. /\ missed'[d] = missed[d] /\ missed[d] \in Nat /\ Len(written[d]) \in Nat
          /\ Place(d) <= Len(queued)
      <3>1. d \in Destinations
        BY <2>1, InSeq DEF OInv, TypeOK
      <3>2. written[d] \in Seq(Entry) /\ missed[d] \in Nat
        BY <3>1 DEF OInv, TypeOK
      <3> QED
        BY <3>2, <1>4, <1>5 DEF Place, Push
    <2>3. ASSUME NEW i \in 1..Len(written[d])
          PROVE  queued'[missed[d] + i] = queued[missed[d] + i]
      <3>1. missed[d] + i \in 1..Len(queued)
        BY <2>1, <2>2, <1>4 DEF Stretch
      <3> QED
        BY <3>1, <1>3
    <2> QED
      BY <2>1, <2>2, <2>3 DEF Stretch
  <1>10. QuietAtEnd'
    BY DEF OInv, QuietAtEnd, Alive, Push, threadVars
  <1> QED
    BY <1>1, <1>6, <1>7, <1>8, <1>9, <1>10 DEF OInv

\* What the other steps leave alone is all that the order is about.
LEMMA SameOrder ==
    ASSUME OInv, [Next]_vars,
           UNCHANGED <<m_logQueue, queued, m_destinations, entry, todo, written, missed>>,
           logger' = logger \/ {logger, logger'} \subseteq {"testing", "sleeping", "ended"},
           QuietAtEnd'
    PROVE  OInv'
  <1>1. TypeOK'
    BY NextType DEF OInv
  <1>2. /\ Taken' = Taken
        /\ \A d \in ToSet(m_destinations) : Place(d)' = Place(d)
    BY DEF Taken, Place, Pending
  <1>3. QueueIsTheRest' /\ NewOnesAreEmpty'
    BY <1>2 DEF OInv, QueueIsTheRest, NewOnesAreEmpty
  <1>4. EntryIsTheLast'
    BY <1>2 DEF OInv, EntryIsTheLast
  <1>5. EachOnce'
    BY DEF OInv, EachOnce, Once
  <1>6. \A d \in ToSet(m_destinations') : Stretch(d)'
    BY <1>2 DEF OInv, Stretch
  <1> QED
    BY <1>1, <1>3, <1>4, <1>5, <1>6 DEF OInv

\* The facts about lengths and places that the steps of the thread need.
LEMMA Measures ==
    ASSUME OInv
    PROVE  /\ Len(m_logQueue) \in Nat /\ Len(queued) \in Nat
           /\ Taken \in 0..Len(queued)
           /\ \A d \in ToSet(m_destinations) :
                 /\ d \in Destinations
                 /\ Len(written[d]) \in Nat /\ missed[d] \in Nat
                 /\ Place(d) \in Int /\ Place(d) <= Taken
  <1>1. /\ m_logQueue \in Seq(Entry) /\ queued \in Seq(Entry)
        /\ m_destinations \in Seq(Destinations)
        /\ written \in [Destinations -> Seq(Entry)] /\ missed \in [Destinations -> Nat]
    BY DEF OInv, TypeOK
  <1>2. Len(m_logQueue) \in Nat /\ Len(queued) \in Nat /\ Taken \in 0..Len(queued)
    BY <1>1 DEF OInv, QueueIsTheRest, Taken
  <1>3. ASSUME NEW d \in ToSet(m_destinations)
        PROVE  /\ d \in Destinations
               /\ Len(written[d]) \in Nat /\ missed[d] \in Nat
               /\ Place(d) \in Int /\ Place(d) <= Taken
    <2>1. d \in Destinations
      BY <1>1, InSeq
    <2>2. written[d] \in Seq(Entry) /\ missed[d] \in Nat
      BY <1>1, <2>1
    <2> QED
      BY <1>2, <2>1, <2>2 DEF Place
  <1> QED
    BY <1>2, <1>3

\* The first of the queue is the next of the history.
LEMMA TakeOrder ==
    ASSUME OInv, Take
    PROVE  OInv'
  <1>1. TypeOK'
    BY ThreadType DEF OInv, loggerThreadFunction
  <1>2. m_logQueue \in Seq(Entry) /\ m_logQueue # << >> /\ queued \in Seq(Entry)
    BY DEF Take, OInv, TypeOK
  <1>3. /\ Len(m_logQueue) >= 1
        /\ entry' = m_logQueue[1]
        /\ Len(m_logQueue') = Len(m_logQueue) - 1
        /\ \A i \in 1..Len(m_logQueue') : m_logQueue'[i] = m_logQueue[i + 1]
    BY <1>2, HeadTailProperties DEF Take
  <1>4. UNCHANGED <<queued, m_destinations, todo, written, missed, destructor, caller>>
    BY DEF Take, callerVars
  <1>5. /\ Taken \in Nat /\ Len(m_logQueue) \in Nat /\ Len(queued) \in Nat
        /\ Len(m_logQueue) <= Len(queued)
    BY Measures DEF OInv, QueueIsTheRest
  <1>6. Taken' = Taken + 1
    BY <1>3, <1>4, <1>5 DEF Taken
  <1>7. QueueIsTheRest'
    <2>1. Len(m_logQueue') <= Len(queued')
      BY <1>3, <1>4, <1>5
    <2>2. ASSUME NEW i \in 1..Len(m_logQueue') PROVE m_logQueue'[i] = queued'[Taken' + i]
      <3>1. i + 1 \in 1..Len(m_logQueue) /\ m_logQueue'[i] = m_logQueue[i + 1]
        BY <1>3, <1>5
      <3>2. m_logQueue[i + 1] = queued[Taken + (i + 1)]
        BY <3>1 DEF OInv, QueueIsTheRest
      <3>3. Taken + (i + 1) = Taken' + i
        BY <1>5, <1>6
      <3> QED
        BY <3>1, <3>2, <3>3, <1>4
    <2> QED
      BY <2>1, <2>2 DEF QueueIsTheRest
  <1>8. EntryIsTheLast'
    <2>1. m_logQueue[1] = queued[Taken + 1]
      BY <1>3, <1>5 DEF OInv, QueueIsTheRest
    <2> QED
      BY <2>1, <1>3, <1>4, <1>5, <1>6 DEF EntryIsTheLast
  <1>9. EachOnce' /\ NewOnesAreEmpty'
    BY <1>4 DEF OInv, EachOnce, NewOnesAreEmpty, Once, Take
  <1>10. ASSUME NEW d \in ToSet(m_destinations') PROVE Stretch(d)'
    <2>1. Place(d) = Taken /\ Place(d)' = Taken' - 1
      BY DEF Place, Pending, Take
    <2>2. Place(d)' = Place(d)
      BY <2>1, <1>5, <1>6
    <2> QED
      BY <2>2, <1>4 DEF OInv, Stretch
  <1>11. QuietAtEnd'
    BY <1>4 DEF OInv, QuietAtEnd, Alive, Take
  <1> QED
    BY <1>1, <1>7, <1>8, <1>9, <1>10, <1>11 DEF OInv

\* All destinations are still to be written when they are locked.
LEMMA LockOrder ==
    ASSUME OInv, LockDestinations
    PROVE  OInv'
  <1>1. TypeOK'
    BY ThreadType DEF OInv, loggerThreadFunction
  <1>2. UNCHANGED <<queued, m_logQueue, m_destinations, entry, written, missed, destructor, caller>>
    BY DEF LockDestinations, callerVars
  <1>3. Taken' = Taken
    BY <1>2 DEF Taken
  <1>4. QueueIsTheRest' /\ NewOnesAreEmpty' /\ EntryIsTheLast'
    BY <1>2, <1>3 DEF OInv, QueueIsTheRest, NewOnesAreEmpty, EntryIsTheLast, LockDestinations
  <1>5. EachOnce'
    BY <1>2 DEF OInv, EachOnce, Once, LockDestinations
  <1>6. ASSUME NEW d \in ToSet(m_destinations') PROVE Stretch(d)'
    <2>1. Place(d)' = Place(d)
      BY <1>2, <1>3 DEF Place, Pending, LockDestinations
    <2> QED
      BY <2>1, <1>2 DEF OInv, Stretch
  <1>7. QuietAtEnd'
    BY <1>2 DEF OInv, QuietAtEnd, Alive, LockDestinations
  <1> QED
    BY <1>1, <1>4, <1>5, <1>6, <1>7 DEF OInv

\* The destination that is given the entry is one entry further and no longer
\* pending, because it stands only once in the list.
LEMMA WriteOrder ==
    ASSUME OInv, Write
    PROVE  /\ OInv'
           /\ Head(todo) \in ToSet(m_destinations)
           /\ entry = queued[Taken] /\ Taken >= 1
           /\ \A d : IF d = Head(todo) THEN Place(d) = Taken - 1 /\ Place(d)' = Taken
                                      ELSE Place(d)' = Place(d)
  <1> PICK h : h = Head(todo)
    OBVIOUS
  <1>1. TypeOK'
    BY ThreadType DEF OInv, loggerThreadFunction
  <1>2. todo \in Seq(Destinations) /\ todo # << >>
    BY DEF OInv, TypeOK, Write
  <1>3. /\ h = todo[1] /\ h \in Destinations /\ 1 \in 1..Len(todo)
        /\ Len(todo) \in Nat /\ Len(todo') = Len(todo) - 1
        /\ todo' \in Seq(Destinations)
        /\ \A i \in 1..Len(todo') : i + 1 \in 1..Len(todo) /\ todo'[i] = todo[i + 1]
    BY <1>2, HeadTailProperties DEF Write
  <1>4. UNCHANGED <<queued, m_logQueue, m_destinations, entry, missed, destructor, caller,
                  logger>>
    BY DEF Write, callerVars
  <1>5. h \in ToSet(todo) /\ h \notin ToSet(todo')
    <2>1. h \in ToSet(todo)
      BY <1>2, <1>3, InSeq
    <2>2. ASSUME NEW i \in 1..Len(todo'), todo'[i] = h PROVE FALSE
      <3>1. i + 1 = 1
        BY <2>2, <1>3 DEF OInv, EachOnce, Once
      <3> QED
        BY <3>1, <1>3
    <2> QED
      BY <2>1, <2>2, <1>3, InSeq
  <1>6. ASSUME NEW d, d # h PROVE d \in ToSet(todo) <=> d \in ToSet(todo')
    <2>1. ASSUME NEW i \in 1..Len(todo), todo[i] = d PROVE d \in ToSet(todo')
      <3>1. i - 1 \in 1..Len(todo') /\ todo'[i - 1] = todo[(i - 1) + 1] /\ (i - 1) + 1 = i
        BY <2>1, <1>3, <1>6
      <3>2. todo'[i - 1] = d
        BY <2>1, <3>1
      <3> QED
        BY <3>1, <3>2, <1>3, InSeq
    <2>2. d \in ToSet(todo) => d \in ToSet(todo')
      BY <2>1, <1>2, InSeq
    <2>3. ASSUME NEW i \in 1..Len(todo'), todo'[i] = d PROVE d \in ToSet(todo)
      BY <2>3, <1>2, <1>3, InSeq
    <2>4. d \in ToSet(todo') => d \in ToSet(todo)
      BY <2>3, <1>3, InSeq
    <2> QED
      BY <2>2, <2>4
  <1>7. h \in ToSet(m_destinations)
    BY <1>5 DEF OInv, EachOnce
  <1>8. Taken' = Taken /\ Taken \in Nat /\ Taken >= 1 /\ entry = queued[Taken]
    BY <1>4, Measures DEF Taken, OInv, EntryIsTheLast, Write
  <1>9. /\ Place(h) = Taken - 1 /\ Place(h)' = Taken
        /\ \A d : d # h => Place(d)' = Place(d)
    BY <1>4, <1>5, <1>6, <1>8 DEF Place, Pending, Write
  <1>10. QueueIsTheRest' /\ EntryIsTheLast'
    BY <1>4, <1>8 DEF OInv, QueueIsTheRest, EntryIsTheLast
  <1>11. EachOnce'
    <2>1. Once(todo')
      <3> SUFFICES ASSUME NEW i \in 1..Len(todo'), NEW j \in 1..Len(todo'), todo'[i] = todo'[j]
                   PROVE  i = j
        BY DEF Once
      <3>1. todo[i + 1] = todo[j + 1] /\ i + 1 \in 1..Len(todo) /\ j + 1 \in 1..Len(todo)
        BY <1>3
      <3>2. i + 1 = j + 1
        BY <3>1 DEF OInv, EachOnce, Once
      <3> QED
        BY <3>2
    <2>2. ToSet(todo') \subseteq ToSet(m_destinations)
      BY <1>5, <1>6 DEF OInv, EachOnce
    <2> QED
      BY <2>1, <2>2, <1>4 DEF OInv, EachOnce, Write, Once
  <1>12. written' = [written EXCEPT ![h] = Append(@, entry)] /\ written \in [Destinations -> Seq(Entry)]
    BY DEF Write, OInv, TypeOK
  <1>13. NewOnesAreEmpty'
    BY <1>4, <1>7, <1>12 DEF OInv, NewOnesAreEmpty
  <1>14. ASSUME NEW d \in ToSet(m_destinations') PROVE Stretch(d)'
    <2>1. /\ d \in Destinations /\ Len(written[d]) \in Nat /\ missed[d] \in Nat
          /\ Place(d) \in Int /\ Stretch(d)
      BY <1>4, Measures DEF OInv
    <2>2. CASE d # h
      <3>1. written'[d] = written[d]
        BY <2>1, <2>2, <1>12
      <3> QED
        BY <3>1, <2>1, <2>2, <1>4, <1>9 DEF Stretch
    <2>3. CASE d = h
      <3>1. written'[d] = Append(written[d], entry)
        BY <2>1, <2>3, <1>12
      <3>2. entry \in Entry /\ written[d] \in Seq(Entry)
        BY <2>1, <1>12 DEF Write, OInv, TypeOK
      <3>3. /\ Len(written'[d]) = Len(written[d]) + 1
            /\ written'[d][Len(written[d]) + 1] = entry
            /\ \A i \in 1..Len(written[d]) : written'[d][i] = written[d][i]
        BY <3>1, <3>2
      <3>4. Place(d)' = Taken /\ Place(d) = Taken - 1
        BY <2>3, <1>9
      <3>5. missed'[d] + Len(written'[d]) = Place(d)'
        BY <2>1, <3>3, <3>4, <1>4, <1>8 DEF Stretch
      <3>6. ASSUME NEW i \in 1..Len(written'[d])
            PROVE  written'[d][i] = queued'[missed'[d] + i]
        <4>1. CASE i = Len(written[d]) + 1
          <5>1. missed[d] + i = Taken
            BY <4>1, <2>1, <3>4, <1>8 DEF Stretch
          <5> QED
            BY <5>1, <4>1, <3>3, <1>8, <1>4
        <4>2. CASE i \in 1..Len(written[d])
          BY <4>2, <3>3, <2>1, <1>4 DEF Stretch
        <4> QED
          BY <4>1, <4>2, <3>3, <2>1
      <3> QED
        BY <3>5, <3>6 DEF Stretch
    <2> QED
      BY <2>2, <2>3
  <1>15. QuietAtEnd'
    BY <1>4 DEF OInv, QuietAtEnd, Alive
  <1> QED
    BY <1>1, <1>7, <1>8, <1>9, <1>10, <1>11, <1>13, <1>14, <1>15 DEF OInv

\* Nothing is pending when the lock is released.
LEMMA UnlockOrder ==
    ASSUME OInv, Unlock
    PROVE  OInv' /\ \A d : Place(d)' = Place(d)
  <1>1. TypeOK'
    BY ThreadType DEF OInv, loggerThreadFunction
  <1>2. /\ UNCHANGED <<queued, m_logQueue, m_destinations, written, missed, todo, destructor,
                     caller>>
        /\ logger' = "testing" /\ logger = "writing"
    BY DEF Unlock, callerVars
  <1>3. Taken' = Taken /\ ToSet(todo) = {}
    BY <1>2, NoneInEmpty DEF Taken, Unlock
  <1>4. QueueIsTheRest' /\ NewOnesAreEmpty' /\ EntryIsTheLast'
    BY <1>2, <1>3 DEF OInv, QueueIsTheRest, NewOnesAreEmpty, EntryIsTheLast
  <1>5. EachOnce'
    BY <1>2 DEF OInv, EachOnce, Once, Unlock
  <1>6. \A d : Place(d)' = Place(d)
    BY <1>2, <1>3 DEF Place, Pending
  <1>7. \A d \in ToSet(m_destinations') : Stretch(d)'
    BY <1>2, <1>6 DEF OInv, Stretch
  <1>8. QuietAtEnd'
    BY <1>2 DEF OInv, QuietAtEnd, Alive
  <1> QED
    BY <1>1, <1>4, <1>5, <1>6, <1>7, <1>8 DEF OInv

\* A new destination has been given nothing, and has missed what was taken out.
LEMMA AddOrder ==
    ASSUME OInv, NEW d \in Destinations, addDestination(d)
    PROVE  /\ OInv'
           /\ ToSet(m_destinations') = ToSet(m_destinations) \cup {d}
           /\ written[d] = << >> /\ Place(d)' \in 0..Len(queued)
           /\ \A b : Place(b)' = Place(b)
  <1>1. TypeOK'
    BY NextType DEF OInv, Next
  <1>2. UNCHANGED <<queued, m_logQueue, entry, written, todo, logger, destructor, caller>>
    BY DEF addDestination, callerVars, threadVars
  <1>3. /\ m_destinations \in Seq(Destinations) /\ d \notin ToSet(m_destinations)
        /\ m_destinations' = Append(m_destinations, d) /\ logger # "writing"
    BY DEF addDestination, OInv, TypeOK
  <1>4. /\ Len(m_destinations) \in Nat /\ Len(m_destinations') = Len(m_destinations) + 1
        /\ m_destinations' \in Seq(Destinations)
        /\ m_destinations'[Len(m_destinations) + 1] = d
        /\ \A i \in 1..Len(m_destinations) : m_destinations'[i] = m_destinations[i]
    BY <1>3
  <1>5. \A i \in 1..Len(m_destinations) : m_destinations[i] # d
    BY <1>3, InSeq
  <1>6. Once(m_destinations')
    <2> SUFFICES ASSUME NEW i \in 1..Len(m_destinations'), NEW j \in 1..Len(m_destinations'),
                        m_destinations'[i] = m_destinations'[j]
                 PROVE  i = j
      BY DEF Once
    <2>1. Once(m_destinations)
      BY DEF OInv, EachOnce
    <2> QED
      BY <2>1, <1>4, <1>5 DEF Once
  <1>7. ToSet(m_destinations') = ToSet(m_destinations) \cup {d}
    <2>1. ASSUME NEW x PROVE x \in ToSet(m_destinations') <=> x \in ToSet(m_destinations) \/ x = d
      <3>1. x \in ToSet(m_destinations') <=>
               \E i \in 1..Len(m_destinations') : m_destinations'[i] = x
        BY <1>4, InSeq
      <3>2. x \in ToSet(m_destinations) <=> \E i \in 1..Len(m_destinations) : m_destinations[i] = x
        BY <1>3, InSeq
      <3> QED
        BY <3>1, <3>2, <1>4
    <2> QED
      BY <2>1
  <1>8. Taken' = Taken /\ Taken \in 0..Len(queued) /\ \A b : Place(b)' = Place(b)
    BY <1>2, Measures DEF Taken, Place, Pending
  <1>9. written[d] = << >> /\ Place(d) \in 0..Len(queued)
    BY <1>3, <1>8, Measures DEF OInv, NewOnesAreEmpty, EntryIsTheLast, Place, Pending
  <1>m. /\ missed'[d] = Place(d)
        /\ \A b \in Destinations \ {d} : missed'[b] = missed[b]
    <2>1. missed \in [Destinations -> Nat] /\ todo = << >>
      BY <1>3 DEF OInv, TypeOK, EachOnce
    <2> QED
      BY <1>3, <2>1 DEF addDestination, Place, Pending
  <1>10. QueueIsTheRest' /\ NewOnesAreEmpty' /\ EntryIsTheLast'
    BY <1>2, <1>7, <1>8 DEF OInv, QueueIsTheRest, NewOnesAreEmpty, EntryIsTheLast
  <1>11. EachOnce'
    BY <1>2, <1>6, <1>7 DEF OInv, EachOnce, Once
  <1>12. ASSUME NEW b \in ToSet(m_destinations') PROVE Stretch(b)'
    <2>1. CASE b = d
      <3>1. written'[b] = << >> /\ Place(b)' \in Nat
        BY <2>1, <1>2, <1>8, <1>9, Measures
      <3>2. Len(written'[b]) = 0 /\ 1..Len(written'[b]) = {}
        BY <3>1, NoneInEmpty
      <3> QED
        BY <2>1, <1>8, <1>m, <3>1, <3>2 DEF Stretch
    <2>2. CASE b \in ToSet(m_destinations)
      <3>1. b # d /\ b \in Destinations
        BY <1>3, <2>2, Measures
      <3> QED
        BY <2>2, <3>1, <1>2, <1>8, <1>m DEF OInv, Stretch
    <2> QED
      BY <2>1, <2>2, <1>7
  <1>13. QuietAtEnd'
    BY <1>2 DEF OInv, QuietAtEnd, Alive
  <1> QED
    BY <1>1, <1>7, <1>8, <1>9, <1>10, <1>11, <1>12, <1>13 DEF OInv

\* No step of any thread disturbs the order.
LEMMA NextOrder == OInv /\ [Next]_vars => OInv'
  <1> SUFFICES ASSUME OInv, [Next]_vars PROVE OInv'
    OBVIOUS
  <1> USE DEF QuietAtEnd, Alive
  <1>1. CASE setContextValue \/ \E c \in Callers : MakeEntry(c) \/ Refuse(c)
    <2>1. UNCHANGED <<m_logQueue, queued, m_destinations, entry, todo, written, missed, logger>>
      BY <1>1 DEF setContextValue, MakeEntry, Refuse, threadVars
    <2>2. QuietAtEnd'
      BY <1>1 DEF setContextValue, MakeEntry, Refuse, threadVars, OInv, TypeOK
    <2> QED
      BY <2>1, <2>2, SameOrder
  <1>2. CASE \E c \in Callers : Notify(c)
    <2>1. UNCHANGED <<m_logQueue, queued, m_destinations, entry, todo, written, missed>>
      BY <1>2 DEF Notify
    <2>2. logger' = logger \/ {logger, logger'} \subseteq {"testing", "sleeping", "ended"}
      BY <1>2 DEF Notify, notify_one
    <2>3. QuietAtEnd'
      BY <1>2 DEF Notify, notify_one, OInv, TypeOK
    <2> QED
      BY <2>1, <2>2, <2>3, SameOrder
  <1>3. CASE Sleep \/ End \/ WakeForNoReason
    <2>1. UNCHANGED <<m_logQueue, queued, m_destinations, entry, todo, written, missed>>
      BY <1>3 DEF Sleep, End, WakeForNoReason
    <2>2. {logger, logger'} \subseteq {"testing", "sleeping", "ended"}
      BY <1>3 DEF Sleep, End, WakeForNoReason
    <2>3. QuietAtEnd'
      BY <1>3 DEF Sleep, End, WakeForNoReason, callerVars, OInv, TypeOK
    <2> QED
      BY <2>1, <2>2, <2>3, SameOrder
  <1>4. CASE Stop \/ NotifyStop \/ Join
    <2>1. UNCHANGED <<m_logQueue, queued, m_destinations, entry, todo, written, missed>>
      BY <1>4 DEF Stop, NotifyStop, Join, threadVars
    <2>2. logger' = logger \/ {logger, logger'} \subseteq {"testing", "sleeping", "ended"}
      BY <1>4 DEF Stop, NotifyStop, Join, threadVars, notify_one
    <2>3. QuietAtEnd'
      BY <1>4 DEF Stop, NotifyStop, Join, threadVars, callerVars, notify_one, OInv
    <2> QED
      BY <2>1, <2>2, <2>3, SameOrder
  <1>5. CASE UNCHANGED vars
    <2>1. UNCHANGED <<m_logQueue, queued, m_destinations, entry, todo, written, missed, logger,
                      caller, destructor>>
      BY <1>5 DEF vars, callerVars, threadVars
    <2>2. QuietAtEnd'
      BY <2>1 DEF OInv
    <2> QED
      BY <2>1, <2>2, SameOrder
  <1> QED
    BY <1>1, <1>2, <1>3, <1>4, <1>5, PushOrder, TakeOrder, LockOrder, WriteOrder,
       UnlockOrder, AddOrder
    DEF Next, Call, loggerThreadFunction

\* When the thread has ended, everything was taken out and nothing is pending.
LEMMA AllPlacesAtEnd ==
    ASSUME OInv, logger = "ended", NEW d \in ToSet(m_destinations)
    PROVE  Place(d) = Len(queued)
  <1>1. m_logQueue = << >>
    BY DEF OInv, QuietAtEnd
  <1>2. Len(m_logQueue) = 0
    BY <1>1, NoneInEmpty
  <1> QED
    BY <1>2, Measures DEF Place, Pending, Taken

\* The invariant says what the runs check.
LEMMA OrderFromInvariant ==
    ASSUME OInv
    PROVE  WrittenInOrder /\ DrainedAtEnd
  <1>1. WrittenInOrder
    BY DEF OInv, Stretch, WrittenInOrder
  <1>2. DrainedAtEnd
    BY AllPlacesAtEnd DEF OInv, Stretch, DrainedAtEnd
  <1> QED
    BY <1>1, <1>2

\* Every variable keeps its type (log(), ~AsyncLogger and loggerThreadFunction,
\* Logger.h:81-160 and Logger.cpp).
THEOREM LoggerTypeCorrect == Spec => []TypeOK
  <1>1. OInv => TypeOK
    BY DEF OInv
  <1> QED
    BY <1>1, InitOrder, NextOrder, PTL DEF Spec

\* Entries reach each destination without a gap, a repetition or a change of
\* order, however log() and the logger's thread interleave (Logger.cpp:8-38).
THEOREM LoggerWritesInOrder == Spec => []WrittenInOrder
  <1>1. OInv => WrittenInOrder
    BY OrderFromInvariant
  <1> QED
    BY <1>1, InitOrder, NextOrder, PTL DEF Spec

\* The thread does not end before it has written all that was queued
\* (Logger.cpp:10-18 and the destructor, Logger.h:88-97).
THEOREM LoggerDrains == Spec => []DrainedAtEnd
  <1>1. OInv => DrainedAtEnd
    BY OrderFromInvariant
  <1> QED
    BY <1>1, InitOrder, NextOrder, PTL DEF Spec

-----------------------------------------------------------------------------
(* The logger is a log, as far as safety goes. *)

Shown == [d \in ToSet(m_destinations) |-> written[d]]
Places == [d \in ToSet(m_destinations) |-> Place(d)]
State == CASE destructor \in {"stopped", "joining"} -> "closing"
           [] destructor = "done" -> "closed"
           [] OTHER -> "open"

\* The two modules speak of the same four things.
LEMMA Mapping ==
    /\ Promise!Next <=>
          \/ Promise!Accept
          \/ \E d \in Destinations : Promise!Register(d) \/ Promise!Show(d)
          \/ Promise!BeginClosing
          \/ Promise!Close
    /\ UNCHANGED Promise!vars <=> UNCHANGED <<queued, Shown, Places, State>>
  BY DEF Promise!Next, Promise!vars, Shown, Places, State

LEMMA InitLog == Init => Promise!Init
  <1> SUFFICES ASSUME Init PROVE Promise!Init
    OBVIOUS
  <1>1. ToSet(m_destinations) = {}
    BY NoneInEmpty DEF Init
  <1>2. /\ [d \in ToSet(m_destinations) |-> written[d]] = [d \in {} |-> << >>]
        /\ [d \in ToSet(m_destinations) |-> Place(d)] = [d \in {} |-> 0]
    BY <1>1
  <1> QED
    BY <1>2 DEF Promise!Init, Init

\* What no destination and no caller notices.
LEMMA Unnoticed ==
    ASSUME OInv, [Next]_vars,
           UNCHANGED <<queued, m_destinations, written, State>>,
           \A d \in ToSet(m_destinations) : Place(d)' = Place(d)
    PROVE  UNCHANGED Promise!vars
  <1>1. UNCHANGED Shown /\ UNCHANGED Places
    BY DEF Shown, Places
  <1> QED
    BY <1>1, Mapping

LEMMA PushAccepts ==
    ASSUME OInv, NEW c \in Callers, Push(c)
    PROVE  Promise!Accept
  <1>1. made[c] \in Entry /\ queued' = Append(queued, made[c])
    BY DEF Push, OInv, TypeOK
  <1>2. Alive
    BY DEF Push, OInv, QuietAtEnd
  <1>3. UNCHANGED <<m_destinations, written, destructor, logger, todo>>
    BY DEF Push, threadVars
  <1>4. /\ m_logQueue \in Seq(Entry) /\ queued \in Seq(Entry)
        /\ m_logQueue' = Append(m_logQueue, made[c])
    BY DEF Push, OInv, TypeOK
  <1>5. Taken' = Taken
    <2>1. Len(m_logQueue') = Len(m_logQueue) + 1 /\ Len(queued') = Len(queued) + 1
      BY <1>1, <1>4
    <2> QED
      BY <2>1, <1>4 DEF Taken
  <1>6. \A d : Place(d)' = Place(d)
    BY <1>3, <1>5 DEF Place, Pending
  <1> QED
    BY <1>1, <1>2, <1>3, <1>6 DEF Promise!Accept, Alive

LEMMA AddRegisters ==
    ASSUME OInv, NEW d \in Destinations, addDestination(d)
    PROVE  Promise!Register(d)
  <1>1. /\ ToSet(m_destinations') = ToSet(m_destinations) \cup {d}
        /\ written[d] = << >> /\ Place(d)' \in 0..Len(queued)
        /\ \A b : Place(b)' = Place(b)
    BY AddOrder
  <1>2. /\ destructor = "not called" /\ d \notin ToSet(m_destinations)
        /\ UNCHANGED <<queued, written, destructor>>
    BY DEF addDestination, Alive, threadVars
  <1>3. Shown' = Promise!With(Shown, d, << >>)
    BY <1>1, <1>2 DEF Shown, Promise!With
  <1>4. Places' = Promise!With(Places, d, Place(d)')
    BY <1>1, <1>2 DEF Places, Promise!With
  <1>5. \E k \in 0..Len(queued) : Places' = Promise!With(Places, d, k)
    BY <1>1, <1>4
  <1> QED
    BY <1>2, <1>3, <1>5 DEF Promise!Register, Shown, Places

LEMMA WriteShows ==
    ASSUME OInv, Write
    PROVE  \E d \in Destinations : Promise!Show(d)
  <1> PICK h : h = Head(todo)
    OBVIOUS
  <1>1. /\ h \in ToSet(m_destinations)
        /\ Place(h) = Taken - 1 /\ Place(h)' = Taken
        /\ entry = queued[Taken]
        /\ \A d : d # h => Place(d)' = Place(d)
    BY WriteOrder
  <1>2. /\ UNCHANGED <<queued, m_destinations, destructor>>
        /\ written' = [written EXCEPT ![h] = Append(@, entry)]
    BY DEF Write
  <1>3. h \in Destinations /\ Taken \in 0..Len(queued) /\ Len(queued) \in Nat
    BY <1>1, Measures
  <1>4. Places[h] = Taken - 1 /\ h \in DOMAIN Shown /\ Places[h] < Len(queued)
    BY <1>1, <1>3 DEF Places, Shown
  <1>5. Places' = [Places EXCEPT ![h] = @ + 1] /\ Places'[h] = Taken
    <2>1. Places' = [d \in ToSet(m_destinations) |-> Place(d)']
      BY <1>2 DEF Places
    <2>2. Places[h] + 1 = Taken /\ Places'[h] = Taken
      BY <1>1, <1>3, <1>4, <2>1
    <2>3. \A d \in ToSet(m_destinations) : d # h => Place(d)' = Places[d]
      BY <1>1 DEF Places
    <2>4. DOMAIN Places = ToSet(m_destinations)
      BY DEF Places
    <2> QED
      BY <1>1, <2>1, <2>2, <2>3, <2>4
  <1>6. Shown' = [Shown EXCEPT ![h] = Append(@, queued[Places'[h]])]
    <2>1. DOMAIN written = Destinations /\ ToSet(m_destinations) \subseteq Destinations
      BY Measures DEF OInv, TypeOK
    <2> QED
      BY <1>1, <1>2, <1>5, <2>1 DEF Shown
  <1>7. Promise!Show(h)
    BY <1>2, <1>4, <1>5, <1>6 DEF Promise!Show, Shown, Places
  <1> QED
    BY <1>3, <1>7

\* Every step of the logger is one of the log's, or none.
LEMMA NextLog == OInv /\ [Next]_vars => [Promise!Next]_(Promise!vars)
  <1> SUFFICES ASSUME OInv, [Next]_vars PROVE [Promise!Next]_(Promise!vars)
    OBVIOUS
  <1> DEFINE Hidden == UNCHANGED <<queued, m_destinations, written, State>>
  <1>1. CASE \/ setContextValue
             \/ \E c \in Callers : MakeEntry(c) \/ Refuse(c) \/ Notify(c)
             \/ Sleep \/ End \/ WakeForNoReason \/ UNCHANGED vars
    <2>1. Hidden /\ UNCHANGED <<m_logQueue, todo>>
      BY <1>1 DEF setContextValue, MakeEntry, Refuse, Notify, Sleep, End, WakeForNoReason,
                  vars, callerVars, threadVars, State
    <2>2. \/ logger' = logger
          \/ {logger, logger'} \subseteq {"testing", "sleeping", "ended"}
      BY <1>1 DEF setContextValue, MakeEntry, Refuse, Notify, Sleep, End, WakeForNoReason,
                  vars, threadVars, notify_one
    <2>3. \A d : Place(d)' = Place(d)
      BY <2>1, <2>2 DEF Place, Pending, Taken
    <2> QED
      BY <2>1, <2>3, Unnoticed
  <1>2. CASE Take
    <2>1. Hidden
      BY <1>2 DEF Take, callerVars, State
    <2>2. Taken' = Taken + 1 /\ Taken \in Nat
      <3>1. m_logQueue \in Seq(Entry) /\ m_logQueue # << >> /\ m_logQueue' = Tail(m_logQueue)
        BY <1>2 DEF Take, OInv, TypeOK
      <3>2. Len(m_logQueue') = Len(m_logQueue) - 1
        BY <3>1, HeadTailProperties
      <3> QED
        BY <2>1, <3>2, Measures DEF Taken
    <2>3. \A d : Place(d)' = Place(d)
      BY <1>2, <2>2 DEF Place, Pending, Take
    <2> QED
      BY <2>1, <2>3, Unnoticed
  <1>3. CASE LockDestinations
    <2>1. Hidden /\ Taken' = Taken
      BY <1>3 DEF LockDestinations, callerVars, State, Taken
    <2>2. \A d \in ToSet(m_destinations) : Place(d)' = Place(d)
      BY <1>3, <2>1 DEF Place, Pending, LockDestinations
    <2> QED
      BY <2>1, <2>2, Unnoticed
  <1>4. CASE Unlock
    <2>1. Hidden
      BY <1>4 DEF Unlock, callerVars, State
    <2> QED
      BY <1>4, <2>1, UnlockOrder, Unnoticed
  <1>5. CASE Stop \/ NotifyStop \/ Join
    <2>1. UNCHANGED <<queued, m_destinations, written, m_logQueue, todo>>
      BY <1>5 DEF Stop, NotifyStop, Join, threadVars
    <2>2. \/ logger' = logger
          \/ {logger, logger'} \subseteq {"testing", "sleeping", "ended"}
      BY <1>5 DEF Stop, NotifyStop, Join, threadVars, notify_one
    <2>3. UNCHANGED Shown /\ UNCHANGED Places
      BY <2>1, <2>2 DEF Shown, Places, Place, Pending, Taken
    <2>4. CASE Stop
      BY <2>1, <2>3, <2>4 DEF Stop, Alive, Promise!Next, Promise!BeginClosing, Shown, Places
    <2>5. CASE NotifyStop
      BY <2>1, <2>3, <2>5, Mapping DEF NotifyStop, State
    <2>6. CASE Join
      <3>1. \A d \in ToSet(m_destinations) : Place(d) = Len(queued)
        BY <2>6, AllPlacesAtEnd DEF Join
      <3>2. \A d \in DOMAIN Shown : Places[d] = Len(queued)
        BY <3>1 DEF Shown, Places
      <3> QED
        BY <2>1, <2>3, <2>6, <3>2 DEF Join, Promise!Next, Promise!Close, Shown, Places
    <2> QED
      BY <1>5, <2>4, <2>5, <2>6
  <1> QED
    BY <1>1, <1>2, <1>3, <1>4, <1>5, PushAccepts, AddRegisters, WriteShows, Mapping
    DEF Next, Call, loggerThreadFunction

\* The logger implements the log: entries are accepted in one order, shown to
\* each registered destination in that order and from some entry on, and the
\* destructor returns only when all have been shown (Logger.h, Logger.cpp).
THEOREM LoggerImplementsLog == Spec => Promise!Spec
  BY InitLog, InitOrder, NextOrder, NextLog, PTL DEF Spec, Promise!Spec

=============================================================================
