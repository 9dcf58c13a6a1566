-------------------------- MODULE SchedulerProofs --------------------------
(***************************************************************************)
(* That every event of the scheduler is accounted for (EventsAccounted),   *)
(* proved for any events and any width of the ids.  The inductive          *)
(* invariant SchInv says it with sets, one for each place an event can be, *)
(* and says of each handler that is ready what must have come before it.   *)
(***************************************************************************)
EXTENDS Scheduler, SequenceTheorems, FiniteSetTheorems, TLAPS

EventOps == {"arm", "expired", "aborted"}

\* The events of the handlers in a queue r, each at most once.
EventsOf(r) == {h.event : h \in {k \in Range(r) : k.op \in EventOps}}
NoneTwice(r) == \A i, j \in DOMAIN r :
  r[i].op \in EventOps /\ r[j].op \in EventOps /\ r[i].event = r[j].event => i = j

TimerEvents == {timer[id] : id \in EventId} \cap Event

InOnePlace ==
  /\ added = EventsOf(ready) \cup TimerEvents \cup inHand \cup Range(delivered) \cup deleted
  /\ EventsOf(ready) \cap (TimerEvents \cup inHand \cup Range(delivered) \cup deleted) = {}
  /\ TimerEvents \cap (inHand \cup Range(delivered) \cup deleted) = {}
  /\ inHand \cap (Range(delivered) \cup deleted) = {}
  /\ Range(delivered) \cap deleted = {}
  /\ NoneTwice(ready)
  /\ IsInjective(delivered)
  /\ \A a, b \in inHand : a = b

\* An event waits under its own id.
TimersNamed == \A id \in EventId : timer[id] \in Event => eventId[timer[id]] = id

\* Why a wait may be aborted.
MayAbort(e) == e \in stopCalled \/ ~UniqueId(e) \/ schState = "TERMINATED"

\* Who has caused a handler that is ready.
Caused(h) ==
  /\ h.op = "cancel" => \E e \in stopCalled : eventId[e] = h.id
  /\ h.op = "stop" => schState = "TERMINATED"
  /\ h.op = "aborted" => MayAbort(h.event)

\* The cancellation of an event comes behind its being armed.
CancelFollows(r, e, id) ==
  \A i \in DOMAIN r : r[i] = Arm(e) => \E j \in DOMAIN r : j > i /\ r[j] = Cancel(id)

StopsReach ==
  \A e \in stopCalled : eventId[e] # 0 =>
    /\ CancelFollows(ready, e, eventId[e])
    /\ e \in TimerEvents => Cancel(eventId[e]) \in Range(ready)

SchInv ==
  /\ SchTypeOK /\ InOnePlace /\ TimersNamed
  /\ \A h \in Range(ready) : Caused(h)
  /\ StopsReach
  /\ AbortedForAReason
-----------------------------------------------------------------------------
(* Queues of handlers *)

EventIn(h) == IF h.op \in EventOps THEN {h.event} ELSE {}

LEMMA HandlerKinds ==
  /\ \A e \in Event : /\ Arm(e) \in Handlers /\ EventIn(Arm(e)) = {e}
                      /\ Expired(e) \in Handlers /\ EventIn(Expired(e)) = {e}
                      /\ Aborted(e) \in Handlers /\ EventIn(Aborted(e)) = {e}
  /\ \A id \in EventId : Cancel(id) \in Handlers /\ EventIn(Cancel(id)) = {}
  /\ CancelAll \in Handlers /\ EventIn(CancelAll) = {}
BY DEF Handlers, EventIn, EventOps, Arm, Expired, Aborted, Cancel, CancelAll

LEMMA EventsOfOne ==
  ASSUME NEW h \in Handlers
  PROVE  <<h>> \in Seq(Handlers) /\ Range(<<h>>) = {h} /\ EventsOf(<<h>>) = EventIn(h) /\ NoneTwice(<<h>>)
<1>1. DOMAIN <<h>> = {1} /\ <<h>>[1] = h /\ <<h>> \in Seq(Handlers)
  OBVIOUS
<1>2. Range(<<h>>) = {h}
  BY <1>1 DEF Range
<1>3. NoneTwice(<<h>>)
  BY <1>1 DEF NoneTwice
<1>4. EventsOf(<<h>>) = EventIn(h)
  BY <1>2 DEF EventsOf, EventIn
<1> QED BY <1>1, <1>2, <1>3, <1>4

LEMMA EventsOfNone == EventsOf(<<>>) = {} /\ NoneTwice(<<>>) /\ Range(<<>>) = {}
BY DEF EventsOf, NoneTwice, Range

\* An event is in two queues as often as in one behind the other.
LEMMA EventsOfBoth ==
  ASSUME NEW r \in Seq(Handlers), NEW s \in Seq(Handlers)
  PROVE  /\ r \o s \in Seq(Handlers)
         /\ Range(r \o s) = Range(r) \cup Range(s)
         /\ EventsOf(r \o s) = EventsOf(r) \cup EventsOf(s)
         /\ NoneTwice(r \o s) <=> NoneTwice(r) /\ NoneTwice(s) /\ EventsOf(r) \cap EventsOf(s) = {}
<1>1. /\ r \o s \in Seq(Handlers)
      /\ Len(r \o s) = Len(r) + Len(s)
      /\ \A i \in 1 .. Len(r) + Len(s) : (r \o s)[i] = IF i <= Len(r) THEN r[i] ELSE s[i - Len(r)]
      /\ Len(r) \in Nat /\ Len(s) \in Nat
      /\ DOMAIN r = 1 .. Len(r) /\ DOMAIN s = 1 .. Len(s) /\ DOMAIN (r \o s) = 1 .. Len(r) + Len(s)
  BY ConcatProperties, LenProperties
<1>2. Range(r \o s) = Range(r) \cup Range(s)
  BY RangeConcatenation
<1>3. EventsOf(r \o s) = EventsOf(r) \cup EventsOf(s)
  BY <1>2 DEF EventsOf
<1>4. /\ \A i \in DOMAIN r : i \in DOMAIN (r \o s) /\ (r \o s)[i] = r[i]
      /\ \A i \in DOMAIN s : Len(r) + i \in DOMAIN (r \o s) /\ (r \o s)[Len(r) + i] = s[i]
  BY <1>1
<1>5. \A i \in DOMAIN (r \o s) : \/ i \in DOMAIN r
                                 \/ i - Len(r) \in DOMAIN s /\ i = Len(r) + (i - Len(r))
  BY <1>1
<1>6. ASSUME NoneTwice(r \o s)
      PROVE  NoneTwice(r) /\ NoneTwice(s) /\ EventsOf(r) \cap EventsOf(s) = {}
  <2>1. NoneTwice(r)
    BY <1>4, <1>6 DEF NoneTwice
  <2>2. NoneTwice(s)
    <3> SUFFICES ASSUME NEW i \in DOMAIN s, NEW j \in DOMAIN s,
                        s[i].op \in EventOps, s[j].op \in EventOps, s[i].event = s[j].event
                 PROVE  i = j
      BY DEF NoneTwice
    <3>1. Len(r) + i = Len(r) + j
      BY <1>4, <1>6 DEF NoneTwice
    <3> QED BY <1>1, <3>1
  <2>3. ASSUME NEW i \in DOMAIN r, NEW j \in DOMAIN s,
               r[i].op \in EventOps, s[j].op \in EventOps, r[i].event = s[j].event
        PROVE  FALSE
    <3>1. i = Len(r) + j
      BY <1>4, <1>6, <2>3 DEF NoneTwice
    <3> QED BY <1>1, <3>1
  <2>4. EventsOf(r) \cap EventsOf(s) = {}
    BY <2>3 DEF EventsOf, Range
  <2> QED BY <2>1, <2>2, <2>4
<1>7. ASSUME NoneTwice(r), NoneTwice(s), EventsOf(r) \cap EventsOf(s) = {}
      PROVE  NoneTwice(r \o s)
  <2>1. \A i \in DOMAIN r, j \in DOMAIN s :
          r[i].op \in EventOps /\ s[j].op \in EventOps => r[i].event # s[j].event
    <3> SUFFICES ASSUME NEW i \in DOMAIN r, NEW j \in DOMAIN s,
                        r[i].op \in EventOps, s[j].op \in EventOps
                 PROVE  r[i].event # s[j].event
      OBVIOUS
    <3>1. r[i].event \in EventsOf(r) /\ s[j].event \in EventsOf(s)
      BY DEF EventsOf, Range
    <3> QED BY <1>7, <3>1
  <2> SUFFICES ASSUME NEW i \in DOMAIN (r \o s), NEW j \in DOMAIN (r \o s),
                      (r \o s)[i].op \in EventOps, (r \o s)[j].op \in EventOps,
                      (r \o s)[i].event = (r \o s)[j].event
               PROVE  i = j
    BY DEF NoneTwice
  <2>2. CASE i \in DOMAIN r /\ j \in DOMAIN r
    BY <1>4, <1>7, <2>2 DEF NoneTwice
  <2>3. CASE i - Len(r) \in DOMAIN s /\ j - Len(r) \in DOMAIN s
                /\ i = Len(r) + (i - Len(r)) /\ j = Len(r) + (j - Len(r))
    <3>1. i - Len(r) = j - Len(r)
      BY <1>4, <1>7, <2>3 DEF NoneTwice
    <3> QED BY <2>3, <3>1
  <2>4. CASE i \in DOMAIN r /\ j - Len(r) \in DOMAIN s /\ j = Len(r) + (j - Len(r))
    BY <1>4, <2>1, <2>4
  <2>5. CASE j \in DOMAIN r /\ i - Len(r) \in DOMAIN s /\ i = Len(r) + (i - Len(r))
    BY <1>4, <2>1, <2>5
  <2> QED BY <1>5, <2>2, <2>3, <2>4, <2>5
<1> QED BY <1>1, <1>2, <1>3, <1>6, <1>7

\* A handler is added behind the others.
LEMMA Posted ==
  ASSUME NEW r \in Seq(Handlers), NEW h \in Handlers
  PROVE  /\ Append(r, h) \in Seq(Handlers)
         /\ Range(Append(r, h)) = Range(r) \cup {h}
         /\ EventsOf(Append(r, h)) = EventsOf(r) \cup EventIn(h)
         /\ NoneTwice(r) /\ EventsOf(r) \cap EventIn(h) = {} => NoneTwice(Append(r, h))
         /\ \A e, id : CancelFollows(r, e, id) /\ h # Arm(e) => CancelFollows(Append(r, h), e, id)
         /\ \A e, id : h = Cancel(id) => CancelFollows(Append(r, h), e, id)
<1> DEFINE one == <<h>>
<1>0. one \in Seq(Handlers) /\ Range(one) = {h} /\ EventsOf(one) = EventIn(h) /\ NoneTwice(one)
  BY EventsOfOne
<1>1. Append(r, h) = r \o one
  BY AppendIsConcat
<1> HIDE DEF one
<1>2. /\ Append(r, h) \in Seq(Handlers)
      /\ Range(Append(r, h)) = Range(r) \cup {h}
      /\ EventsOf(Append(r, h)) = EventsOf(r) \cup EventIn(h)
      /\ NoneTwice(r) /\ EventsOf(r) \cap EventIn(h) = {} => NoneTwice(Append(r, h))
  BY <1>0, <1>1, EventsOfBoth
<1>3. /\ Len(r) \in Nat /\ DOMAIN r = 1 .. Len(r) /\ DOMAIN Append(r, h) = 1 .. Len(r) + 1
      /\ \A i \in 1 .. Len(r) : Append(r, h)[i] = r[i]
      /\ Append(r, h)[Len(r) + 1] = h
  BY AppendProperties, LenProperties
<1>4. ASSUME NEW e, NEW id, CancelFollows(r, e, id), h # Arm(e)
      PROVE  CancelFollows(Append(r, h), e, id)
  BY <1>3, <1>4 DEF CancelFollows
<1>5. ASSUME NEW e, NEW id, h = Cancel(id)
      PROVE  CancelFollows(Append(r, h), e, id)
  <2>1. h # Arm(e)
    BY <1>5 DEF Arm, Cancel
  <2> QED BY <1>3, <1>5, <2>1 DEF CancelFollows
<1> QED BY <1>2, <1>4, <1>5

\* The same for a handler that holds no event.
LEMMA PostedEmpty ==
  ASSUME NEW r \in Seq(Handlers), NEW h \in Handlers, EventIn(h) = {}, \A e : h # Arm(e)
  PROVE  /\ Append(r, h) \in Seq(Handlers)
         /\ Range(Append(r, h)) = Range(r) \cup {h}
         /\ EventsOf(Append(r, h)) = EventsOf(r)
         /\ NoneTwice(r) => NoneTwice(Append(r, h))
         /\ \A e, id : CancelFollows(r, e, id) => CancelFollows(Append(r, h), e, id)
<1> DEFINE q == Append(r, h)
<1>1. q \in Seq(Handlers) /\ Range(q) = Range(r) \cup {h}
  BY Posted
<1>2. EventsOf(q) = EventsOf(r) \cup EventIn(h)
  BY Posted
<1>3. NoneTwice(r) /\ EventsOf(r) \cap EventIn(h) = {} => NoneTwice(q)
  BY Posted
<1>4. \A e, id : CancelFollows(r, e, id) /\ h # Arm(e) => CancelFollows(q, e, id)
  BY Posted
<1> HIDE DEF q
<1>5. EventsOf(q) = EventsOf(r) /\ (NoneTwice(r) => NoneTwice(q))
  BY <1>2, <1>3
<1>6. \A e, id : CancelFollows(r, e, id) => CancelFollows(q, e, id)
  BY <1>4
<1> QED BY <1>1, <1>5, <1>6 DEF q

\* The first handler is run and s comes behind the others.
LEMMA HeadRun ==
  ASSUME NEW r \in Seq(Handlers), r # <<>>, NEW s \in Seq(Handlers)
  PROVE  LET q == Tail(r) \o s
         IN  /\ q \in Seq(Handlers) /\ Head(r) \in Handlers /\ Head(r) \in Range(r)
             /\ Range(Tail(r)) \subseteq Range(r) /\ Range(r) = Range(Tail(r)) \cup {Head(r)}
             /\ Range(q) = Range(Tail(r)) \cup Range(s)
             /\ EventsOf(r) = EventsOf(Tail(r)) \cup EventIn(Head(r))
             /\ EventsOf(q) = EventsOf(Tail(r)) \cup EventsOf(s)
             /\ NoneTwice(r) => EventsOf(Tail(r)) \cap EventIn(Head(r)) = {}
             /\ NoneTwice(r) /\ NoneTwice(s) /\ EventsOf(Tail(r)) \cap EventsOf(s) = {} => NoneTwice(q)
             /\ \A e, id : CancelFollows(r, e, id) /\ Arm(e) \notin Range(s) => CancelFollows(q, e, id)
             /\ \A e, id : CancelFollows(r, e, id) /\ Head(r) = Arm(e) => Cancel(id) \in Range(q)
<1> DEFINE q == Tail(r) \o s
<1>1. /\ Head(r) \in Handlers /\ Tail(r) \in Seq(Handlers) /\ Len(Tail(r)) = Len(r) - 1
      /\ \A i \in 1 .. Len(Tail(r)) : Tail(r)[i] = r[i + 1]
  BY HeadTailProperties
<1>2. Len(r) \in Nat \ {0} /\ Len(s) \in Nat /\ Head(r) = r[1]
      /\ DOMAIN r = 1 .. Len(r) /\ DOMAIN s = 1 .. Len(s) /\ DOMAIN Tail(r) = 1 .. Len(r) - 1
  BY <1>1, EmptySeq, LenProperties
<1> DEFINE one == <<Head(r)>>
           rest == Tail(r)
<1>3. r = one \o rest
  <2>1. one \in Seq(Handlers) /\ Len(one) = 1 /\ one[1] = Head(r)
    BY <1>1
  <2>2. /\ one \o rest \in Seq(Handlers)
        /\ Len(one \o rest) = Len(r)
        /\ \A i \in 1 .. Len(r) : (one \o rest)[i] = IF i <= 1 THEN one[i] ELSE rest[i - 1]
    BY <1>1, <1>2, <2>1, ConcatProperties
  <2>3. \A i \in 1 .. Len(r) : r[i] = (one \o rest)[i]
    BY <1>1, <1>2, <2>1, <2>2
  <2> QED BY <2>2, <2>3, SeqEqual
<1>4. /\ one \in Seq(Handlers) /\ Range(one) = {Head(r)}
      /\ EventsOf(one) = EventIn(Head(r)) /\ NoneTwice(one)
  BY <1>1, EventsOfOne
<1>5. /\ Range(r) = {Head(r)} \cup Range(rest)
      /\ EventsOf(r) = EventIn(Head(r)) \cup EventsOf(rest)
      /\ NoneTwice(r) <=> NoneTwice(one) /\ NoneTwice(rest)
                          /\ EventIn(Head(r)) \cap EventsOf(rest) = {}
  <2>1. rest \in Seq(Handlers)
    BY <1>1
  <2> HIDE DEF one, rest
  <2> QED BY <1>3, <1>4, <2>1, EventsOfBoth
<1>6. /\ q \in Seq(Handlers)
      /\ Range(q) = Range(Tail(r)) \cup Range(s)
      /\ EventsOf(q) = EventsOf(Tail(r)) \cup EventsOf(s)
      /\ NoneTwice(q) <=> NoneTwice(Tail(r)) /\ NoneTwice(s) /\ EventsOf(Tail(r)) \cap EventsOf(s) = {}
  BY <1>1, EventsOfBoth
<1>7. /\ DOMAIN q = 1 .. Len(r) - 1 + Len(s)
      /\ \A i \in 1 .. Len(r) - 1 : q[i] = r[i + 1]
      /\ \A i \in Len(r) .. Len(r) - 1 + Len(s) : q[i] = s[i - (Len(r) - 1)]
  <2>1. /\ Len(q) = Len(Tail(r)) + Len(s)
        /\ \A i \in 1 .. Len(Tail(r)) + Len(s) :
             q[i] = IF i <= Len(Tail(r)) THEN Tail(r)[i] ELSE s[i - Len(Tail(r))]
    BY <1>1, ConcatProperties
  <2>2. DOMAIN q = 1 .. Len(q)
    BY <1>6, LenProperties
  <2> QED BY <1>1, <1>2, <2>1, <2>2
<1>8. ASSUME NEW e, NEW id, CancelFollows(r, e, id), Arm(e) \notin Range(s)
      PROVE  CancelFollows(q, e, id)
  <2> SUFFICES ASSUME NEW i \in DOMAIN q, q[i] = Arm(e)
               PROVE  \E j \in DOMAIN q : j > i /\ q[j] = Cancel(id)
    BY DEF CancelFollows
  <2>1. i <= Len(r) - 1
    <3> SUFFICES ASSUME i > Len(r) - 1 PROVE FALSE
      BY <1>2, <1>7
    <3>1. i \in Len(r) .. Len(r) - 1 + Len(s) /\ i - (Len(r) - 1) \in DOMAIN s
      BY <1>2, <1>7
    <3> QED BY <1>7, <1>8, <3>1 DEF Range
  <2>2. i + 1 \in DOMAIN r /\ r[i + 1] = Arm(e)
    BY <1>2, <1>7, <2>1
  <2>3. PICK j \in DOMAIN r : j > i + 1 /\ r[j] = Cancel(id)
    BY <1>8, <2>2 DEF CancelFollows
  <2>4. j - 1 \in DOMAIN q /\ j - 1 > i /\ q[j - 1] = Cancel(id)
    BY <1>2, <1>7, <2>3
  <2> QED BY <2>4
<1>9. ASSUME NEW e, NEW id, CancelFollows(r, e, id), Head(r) = Arm(e)
      PROVE  Cancel(id) \in Range(q)
  <2>1. PICK j \in DOMAIN r : j > 1 /\ r[j] = Cancel(id)
    BY <1>2, <1>9 DEF CancelFollows
  <2>2. j - 1 \in DOMAIN q /\ q[j - 1] = Cancel(id)
    BY <1>2, <1>7, <2>1
  <2> QED BY <2>2 DEF Range
<1> HIDE DEF q
<1>10. /\ q \in Seq(Handlers) /\ Head(r) \in Handlers /\ Head(r) \in Range(r)
       /\ Range(Tail(r)) \subseteq Range(r) /\ Range(r) = Range(Tail(r)) \cup {Head(r)}
       /\ Range(q) = Range(Tail(r)) \cup Range(s)
       /\ EventsOf(r) = EventsOf(Tail(r)) \cup EventIn(Head(r))
       /\ EventsOf(q) = EventsOf(Tail(r)) \cup EventsOf(s)
       /\ NoneTwice(r) => EventsOf(Tail(r)) \cap EventIn(Head(r)) = {}
       /\ NoneTwice(r) /\ NoneTwice(s) /\ EventsOf(Tail(r)) \cap EventsOf(s) = {} => NoneTwice(q)
       /\ \A e, id : CancelFollows(r, e, id) /\ Arm(e) \notin Range(s) => CancelFollows(q, e, id)
       /\ \A e, id : CancelFollows(r, e, id) /\ Head(r) = Arm(e) => Cancel(id) \in Range(q)
  BY <1>1, <1>5, <1>6, <1>8, <1>9
<1> QED BY <1>10 DEF q
-----------------------------------------------------------------------------
(* The actions *)

LEMMA WaitingIds ==
  ASSUME SchInv, NEW id \in EventId, NEW jd \in EventId, timer[id] \in Event, timer[id] = timer[jd]
  PROVE  id = jd
BY DEF SchInv, TimersNamed

\* What the aborted wait on id adds to the queue, and what is left of the
\* timers when the timer of id changes to v.
LEMMA AbortedWait ==
  ASSUME SchInv, NEW id \in EventId, NEW v \in Event \cup {Absent, Completed}
  PROVE  /\ Abort(id) \in Seq(Handlers) /\ NoneTwice(Abort(id))
         /\ EventsOf(Abort(id)) = {timer[id]} \cap Event
         /\ Range(Abort(id)) = {Aborted(e) : e \in {timer[id]} \cap Event}
         /\ {[timer EXCEPT ![id] = v][i] : i \in EventId} \cap Event
              = (TimerEvents \ {timer[id]}) \cup ({v} \cap Event)
<1>1. timer \in [EventId -> Event \cup {Absent, Completed}]
  BY DEF SchInv, SchTypeOK
<1>2. CASE timer[id] \in Event
  <2>1. /\ <<Aborted(timer[id])>> \in Seq(Handlers) /\ NoneTwice(<<Aborted(timer[id])>>)
        /\ EventsOf(<<Aborted(timer[id])>>) = {timer[id]}
        /\ Range(<<Aborted(timer[id])>>) = {Aborted(timer[id])}
    BY <1>2, HandlerKinds, EventsOfOne
  <2>2. {timer[id]} \cap Event = {timer[id]} /\ Abort(id) = <<Aborted(timer[id])>>
    BY <1>2 DEF Abort
  <2>3. {[timer EXCEPT ![id] = v][i] : i \in EventId} \cap Event
          = (TimerEvents \ {timer[id]}) \cup ({v} \cap Event)
    BY <1>1, <1>2, WaitingIds DEF TimerEvents
  <2> QED BY <2>1, <2>2, <2>3
<1>3. CASE timer[id] \notin Event
  <2>1. Abort(id) = <<>> /\ {timer[id]} \cap Event = {} /\ <<>> \in Seq(Handlers)
    BY <1>3 DEF Abort
  <2>2. {[timer EXCEPT ![id] = v][i] : i \in EventId} \cap Event
          = (TimerEvents \ {timer[id]}) \cup ({v} \cap Event)
    BY <1>1, <1>3 DEF TimerEvents
  <2> QED BY <2>1, <2>2, EventsOfNone
<1> QED BY <1>2, <1>3

\* If two events have had the same id, either may be aborted for the other.
LEMMA SharedId ==
  ASSUME NEW x \in added, NEW y \in added, x # y, eventId[x] = eventId[y]
  PROVE  ~UniqueId(x) /\ ~UniqueId(y)
BY DEF UniqueId

\* The reasons that are known stay reasons.
LEMMA ReasonsStay ==
  ASSUME UNCHANGED <<eventId, added>>,
         stopCalled \subseteq stopCalled',
         schState = "TERMINATED" => schState' = "TERMINATED"
  PROVE  /\ \A e : MayAbort(e) => MayAbort(e)'
         /\ \A h : Caused(h) => Caused(h)'
BY DEF MayAbort, Caused, UniqueId

\* The handlers that change timers: the first of the queue is done with, the
\* wait on id is aborted, v is there instead; gone are the events that are
\* deleted or come into the thread's hand.
LEMMA TimerChanges ==
  ASSUME SchInv, ready # <<>>, NEW id \in EventId, NEW v \in Event \cup {Absent, Completed},
         timer' = [timer EXCEPT ![id] = v],
         ready' = Tail(ready) \o Abort(id),
         {v} \cap Event \subseteq EventIn(Head(ready)),
         v \in Event => Head(ready) = Arm(v) /\ eventId[v] = id,
         inHand' \cup deleted' = inHand \cup deleted \cup (EventIn(Head(ready)) \ {v}),
         inHand \cap deleted = {} => inHand' \cap deleted' = {},
         \A a, b \in inHand' : a = b,
         inHand' \subseteq Event /\ deleted' \subseteq Event,
         timer[id] \in Event => \/ MayAbort(timer[id])
                              \/ \E x \in EventIn(Head(ready)) : eventId[x] = id,
         Head(ready) \in {Cancel(i) : i \in EventId} => Head(ready) = Cancel(id) /\ v \notin Event,
         \A e \in deleted' \ deleted : MayAbort(e),
         UNCHANGED <<schState, lastEventId, eventId, running, added, delivered, stopCalled>>
  PROVE  SchInv'
<1> USE SchedulerAssumption
<1> DEFINE A == {timer[id]} \cap Event
           H == EventIn(Head(ready))
<1>1. /\ ready \in Seq(Handlers) /\ timer \in [EventId -> Event \cup {Absent, Completed}]
      /\ inHand \subseteq Event /\ deleted \subseteq Event /\ added \subseteq Event
      /\ stopCalled \subseteq added
  BY DEF SchInv, SchTypeOK
<1>2. /\ Abort(id) \in Seq(Handlers) /\ NoneTwice(Abort(id)) /\ EventsOf(Abort(id)) = A
      /\ Range(Abort(id)) = {Aborted(e) : e \in A}
      /\ TimerEvents' = (TimerEvents \ A) \cup ({v} \cap Event)
  <2>1. TimerEvents' = {[timer EXCEPT ![id] = v][i] : i \in EventId} \cap Event
    BY DEF TimerEvents
  <2>2. /\ Abort(id) \in Seq(Handlers) /\ NoneTwice(Abort(id)) /\ EventsOf(Abort(id)) = A
        /\ Range(Abort(id)) = {Aborted(e) : e \in A}
        /\ TimerEvents' = (TimerEvents \ {timer[id]}) \cup ({v} \cap Event)
    BY <2>1, AbortedWait
  <2>3. TimerEvents \subseteq Event
    BY DEF TimerEvents
  <2> QED BY <2>2, <2>3
<1>3. /\ ready' \in Seq(Handlers) /\ Head(ready) \in Handlers /\ Head(ready) \in Range(ready)
      /\ Range(Tail(ready)) \subseteq Range(ready)
      /\ Range(ready) = Range(Tail(ready)) \cup {Head(ready)}
      /\ Range(ready') = Range(Tail(ready)) \cup Range(Abort(id))
      /\ EventsOf(ready) = EventsOf(Tail(ready)) \cup H
      /\ EventsOf(ready') = EventsOf(Tail(ready)) \cup A
      /\ NoneTwice(ready) => EventsOf(Tail(ready)) \cap H = {}
      /\ NoneTwice(ready) /\ EventsOf(Tail(ready)) \cap A = {} => NoneTwice(ready')
      /\ \A e, i : CancelFollows(ready, e, i) /\ Arm(e) \notin Range(Abort(id)) => CancelFollows(ready', e, i)
      /\ \A e, i : CancelFollows(ready, e, i) /\ Head(ready) = Arm(e) => Cancel(i) \in Range(ready')
  BY <1>1, <1>2, HeadRun
<1>4. A \subseteq TimerEvents
  BY DEF TimerEvents
<1>5. SchTypeOK'
  BY <1>1, <1>3 DEF SchInv, SchTypeOK
<1> HIDE DEF A, H
<1>6. InOnePlace'
  <2>1. /\ added = EventsOf(ready) \cup TimerEvents \cup inHand \cup Range(delivered) \cup deleted
        /\ EventsOf(ready) \cap (TimerEvents \cup inHand \cup Range(delivered) \cup deleted) = {}
        /\ TimerEvents \cap (inHand \cup Range(delivered) \cup deleted) = {}
        /\ inHand \cap (Range(delivered) \cup deleted) = {}
        /\ Range(delivered) \cap deleted = {}
        /\ NoneTwice(ready) /\ IsInjective(delivered)
    BY DEF SchInv, InOnePlace
  <2>2. {v} \cap Event \subseteq H /\ inHand' \cup deleted' = inHand \cup deleted \cup (H \ {v})
    BY DEF H
  <2>3. H \subseteq Event
    BY <1>1, <1>3, <2>1
  <2>4. EventsOf(ready') \cup TimerEvents' = (EventsOf(ready) \cup TimerEvents) \ (H \ {v})
    BY <1>2, <1>3, <1>4, <2>1, <2>2, <2>3
  <2>5. EventsOf(ready') \cap TimerEvents' = {}
    BY <1>2, <1>3, <1>4, <2>1, <2>2
  <2>6. NoneTwice(ready')
    BY <1>3, <1>4, <2>1
  <2>7. added = EventsOf(ready') \cup TimerEvents' \cup inHand' \cup Range(delivered) \cup deleted'
    BY <2>1, <2>2, <2>3, <2>4, <1>3
  <2>8. (EventsOf(ready') \cup TimerEvents') \cap (inHand' \cup deleted' \cup Range(delivered)) = {}
    BY <2>1, <2>2, <2>4
  <2>9. (inHand' \cup deleted') \cap Range(delivered) = {} /\ inHand' \cap deleted' = {}
    BY <1>3, <2>1, <2>2
  <2> QED BY <2>1, <2>5, <2>6, <2>7, <2>8, <2>9 DEF InOnePlace
<1>7. TimersNamed'
  BY <1>1 DEF SchInv, TimersNamed
<1>8. \A e \in A : MayAbort(e)
  <2> SUFFICES ASSUME NEW e \in A, ~MayAbort(e) PROVE FALSE
    OBVIOUS
  <2>1. e = timer[id] /\ e \in Event /\ eventId[e] = id
    BY DEF A, SchInv, TimersNamed
  <2>2. PICK x \in H : eventId[x] = id
    BY <2>1 DEF H
  <2>3. e \in TimerEvents /\ x \in EventsOf(ready)
    BY <1>3, <1>4, <2>1
  <2>4. e # x /\ e \in added /\ x \in added
    BY <2>3 DEF SchInv, InOnePlace
  <2> QED BY <2>1, <2>2, <2>4, SharedId DEF MayAbort
<1>9. (\A h \in Range(ready) : Caused(h))'
  <2>1. \A h : Caused(h) => Caused(h)'
    BY ReasonsStay
  <2>2. \A e \in A : Caused(Aborted(e))
    BY <1>8 DEF Caused, Aborted
  <2>3. \A h \in Range(ready) : Caused(h)
    BY DEF SchInv
  <2> QED BY <1>2, <1>3, <2>1, <2>2, <2>3
<1>10. StopsReach'
  <2> SUFFICES ASSUME NEW e \in stopCalled, eventId[e] # 0
               PROVE  /\ CancelFollows(ready', e, eventId[e])
                      /\ e \in TimerEvents' => Cancel(eventId[e]) \in Range(ready')
    BY DEF StopsReach
  <2>1. /\ CancelFollows(ready, e, eventId[e])
        /\ e \in TimerEvents => Cancel(eventId[e]) \in Range(ready)
    BY DEF SchInv, StopsReach
  <2>2. Arm(e) \notin Range(Abort(id))
    BY <1>2 DEF Arm, Aborted
  <2>3. CASE e \in TimerEvents /\ e \notin A
    <3>1. PICK i \in EventId : e = timer[i] /\ e \in Event
      BY <2>3 DEF TimerEvents
    <3>2. i # id /\ eventId[e] = i
      BY <2>3, <3>1 DEF A, SchInv, TimersNamed
    <3>3. Head(ready) # Cancel(i)
      BY <3>2 DEF Cancel
    <3> QED BY <1>3, <2>1, <2>2, <2>3, <3>2, <3>3
  <2>4. CASE v = e /\ e \in Event
    BY <1>3, <2>1, <2>2, <2>4
  <2> QED BY <1>2, <1>3, <2>1, <2>2, <2>3, <2>4
<1>11. AbortedForAReason'
  <2>1. \A e : MayAbort(e) => MayAbort(e)'
    BY ReasonsStay
  <2>2. \A e \in deleted : MayAbort(e)
    BY DEF SchInv, AbortedForAReason, MayAbort
  <2> QED BY <2>1, <2>2 DEF AbortedForAReason, MayAbort
<1> QED BY <1>5, <1>6, <1>7, <1>9, <1>10, <1>11 DEF SchInv
LEMMA HeadIs ==
  ASSUME SchTypeOK, ready # <<>>
  PROVE  /\ Head(ready) \in Handlers /\ Head(ready) \in Range(ready)
         /\ Head(ready).op \in EventOps => Head(ready).event \in Event /\ EventIn(Head(ready)) = {Head(ready).event}
         /\ Head(ready).op = "arm" => Head(ready) = Arm(Head(ready).event)
         /\ Head(ready).op = "cancel" => /\ Head(ready).id \in EventId /\ Head(ready) = Cancel(Head(ready).id)
                                         /\ EventIn(Head(ready)) = {}
         /\ Head(ready).op = "stop" => EventIn(Head(ready)) = {}
         /\ Head(ready).op # "cancel" => \A i : Head(ready) # Cancel(i)
<1>1. Head(ready) \in Handlers /\ Head(ready) \in Range(ready)
  <2>1. ready \in Seq(Handlers) /\ <<>> \in Seq(Handlers)
    BY DEF SchTypeOK
  <2> QED BY <2>1, HeadRun
<1> DEFINE h == Head(ready)
<1> HIDE DEF h
<1>2. h \in Handlers => /\ h.op \in EventOps => h.event \in Event /\ EventIn(h) = {h.event}
                        /\ h.op = "arm" => h = Arm(h.event)
                        /\ h.op = "cancel" => h.id \in EventId /\ h = Cancel(h.id) /\ EventIn(h) = {}
                        /\ h.op = "stop" => EventIn(h) = {}
                        /\ h.op # "cancel" => \A i : h # Cancel(i)
  BY DEF Handlers, EventIn, EventOps, Arm, Cancel
<1> QED BY <1>1, <1>2 DEF h

LEMMA RunArmKeeps == ASSUME SchInv, RunArm PROVE SchInv'
<1> DEFINE e == Head(ready).event
<1>1. /\ ready # <<>> /\ Head(ready).op = "arm"
      /\ timer' = [timer EXCEPT ![eventId[e]] = e] /\ ready' = Tail(ready) \o Abort(eventId[e])
      /\ UNCHANGED <<schState, lastEventId, eventId, running, inHand, added, delivered, deleted, stopCalled>>
  BY DEF RunArm, Handler
<1>2. Head(ready) = Arm(e) /\ e \in Event /\ EventIn(Head(ready)) = {e} /\ \A i : Head(ready) # Cancel(i)
  BY <1>1, HeadIs DEF SchInv, EventOps
<1>3. eventId[e] \in EventId /\ inHand \subseteq Event /\ deleted \subseteq Event
  BY <1>2 DEF SchInv, SchTypeOK
<1>4. \A a, b \in inHand : a = b
  BY DEF SchInv, InOnePlace
<1> HIDE DEF e
<1> QED BY ZenonT(30), <1>1, <1>2, <1>3, <1>4, TimerChanges

LEMMA RunCancelKeeps == ASSUME SchInv, RunCancel PROVE SchInv'
<1> DEFINE id == Head(ready).id
           v == IF timer[id] \in Event THEN Completed ELSE timer[id]
<1>1. /\ ready # <<>> /\ Head(ready).op = "cancel"
      /\ timer' = [timer EXCEPT ![id] = v] /\ ready' = Tail(ready) \o Abort(id)
      /\ UNCHANGED <<schState, lastEventId, eventId, running, inHand, added, delivered, deleted, stopCalled>>
  BY DEF RunCancel, Handler
<1>2. Head(ready) = Cancel(id) /\ id \in EventId /\ EventIn(Head(ready)) = {} /\ Caused(Head(ready))
  BY <1>1, HeadIs DEF SchInv
<1>3. v \in {Absent, Completed} /\ v \notin Event
  BY <1>2, SchedulerAssumption DEF SchInv, SchTypeOK
<1>4. /\ inHand \subseteq Event /\ deleted \subseteq Event /\ stopCalled \subseteq added
      /\ \A a, b \in inHand : a = b
  BY DEF SchInv, SchTypeOK, InOnePlace
<1>5. timer[id] \in Event => MayAbort(timer[id])
  <2> SUFFICES ASSUME timer[id] \in Event, timer[id] \notin stopCalled PROVE MayAbort(timer[id])
    BY DEF MayAbort
  <2>1. PICK x \in stopCalled : eventId[x] = id
    BY <1>1, <1>2 DEF Caused
  <2>2. timer[id] \in added /\ eventId[timer[id]] = id
    BY <1>2 DEF SchInv, InOnePlace, TimerEvents, TimersNamed
  <2> QED BY <1>4, <2>1, <2>2, SharedId DEF MayAbort
<1>6. \A i : Head(ready) = Cancel(i) => i = id
  BY <1>2 DEF Cancel
<1> HIDE DEF id, v
<1> QED BY <1>1, <1>2, <1>3, <1>4, <1>5, <1>6, TimerChanges

LEMMA RunAbortedKeeps == ASSUME SchInv, RunAborted PROVE SchInv'
<1> DEFINE e == Head(ready).event
<1>1. /\ ready # <<>> /\ Head(ready).op = "aborted" /\ inHand = {}
      /\ timer' = [timer EXCEPT ![eventId[e]] = Absent] /\ ready' = Tail(ready) \o Abort(eventId[e])
      /\ deleted' = deleted \cup {e}
      /\ UNCHANGED <<schState, lastEventId, eventId, running, inHand, added, delivered, stopCalled>>
  BY DEF RunAborted, Handler, EraseId
<1>2. /\ e \in Event /\ EventIn(Head(ready)) = {e} /\ \A i : Head(ready) # Cancel(i)
      /\ Caused(Head(ready))
  BY <1>1, HeadIs DEF SchInv, EventOps
<1>3. eventId[e] \in EventId /\ deleted \subseteq Event
  BY <1>2 DEF SchInv, SchTypeOK
<1>4. MayAbort(e)
  BY <1>1, <1>2 DEF Caused
<1>5. /\ Absent \in Event \cup {Absent, Completed} /\ Absent \notin Event
      /\ {Absent} \cap Event \subseteq {e} /\ {e} \ {Absent} = {e}
  BY <1>2, SchedulerAssumption
<1>6. inHand' \cup deleted' = inHand \cup deleted \cup {e} /\ inHand' \cap deleted' = {}
  BY <1>1
<1>7. inHand' \subseteq Event /\ deleted' \subseteq Event /\ \A a, b \in inHand' : a = b
  BY <1>1, <1>2, <1>3
<1> DEFINE id == eventId[e]
<1>8. /\ id \in EventId
      /\ timer[id] \in Event => \E x \in EventIn(Head(ready)) : eventId[x] = id
      /\ Head(ready) \notin {Cancel(i) : i \in EventId}
      /\ \A x \in deleted' \ deleted : MayAbort(x)
      /\ inHand' \cup deleted' = inHand \cup deleted \cup (EventIn(Head(ready)) \ {Absent})
      /\ {Absent} \cap Event \subseteq EventIn(Head(ready))
  BY <1>1, <1>2, <1>3, <1>4, <1>5, <1>6
<1>9. timer' = [timer EXCEPT ![id] = Absent] /\ ready' = Tail(ready) \o Abort(id)
  BY <1>1
<1> HIDE DEF e, id
<1> QED BY <1>1, <1>5, <1>6, <1>7, <1>8, <1>9, TimerChanges

LEMMA RunExpiredKeeps == ASSUME SchInv, RunExpired PROVE SchInv'
<1> DEFINE e == Head(ready).event
<1>1. /\ ready # <<>> /\ Head(ready).op = "expired" /\ inHand = {}
      /\ timer' = [timer EXCEPT ![eventId[e]] = Absent] /\ ready' = Tail(ready) \o Abort(eventId[e])
      /\ UNCHANGED <<schState, lastEventId, eventId, running, added, delivered, stopCalled>>
      /\ \/ schState = "TERMINATED" /\ deleted' = deleted \cup {e} /\ inHand' = inHand
         \/ inHand' = {e} /\ deleted' = deleted
  BY DEF RunExpired, Handler, EraseId, Over
<1>2. e \in Event /\ EventIn(Head(ready)) = {e} /\ \A i : Head(ready) # Cancel(i)
  BY <1>1, HeadIs DEF SchInv, EventOps
<1>3. eventId[e] \in EventId /\ deleted \subseteq Event
  BY <1>2 DEF SchInv, SchTypeOK
<1>4. e \notin deleted
  <2>1. e \in EventsOf(ready)
    BY <1>1, HeadIs DEF SchInv, EventsOf, EventOps
  <2> QED BY <2>1 DEF SchInv, InOnePlace
<1>5. \A x \in deleted' \ deleted : MayAbort(x)
  BY <1>1 DEF MayAbort
<1>6. /\ Absent \in Event \cup {Absent, Completed} /\ Absent \notin Event
      /\ {Absent} \cap Event \subseteq {e} /\ {e} \ {Absent} = {e}
  BY <1>2, SchedulerAssumption
<1>7. inHand' \cup deleted' = inHand \cup deleted \cup {e} /\ inHand' \cap deleted' = {}
  BY <1>1, <1>4
<1>8. inHand' \subseteq Event /\ deleted' \subseteq Event /\ \A a, b \in inHand' : a = b
  BY <1>1, <1>2, <1>3
<1> DEFINE id == eventId[e]
<1>9. /\ id \in EventId
      /\ timer[id] \in Event => \E x \in EventIn(Head(ready)) : eventId[x] = id
      /\ Head(ready) \notin {Cancel(i) : i \in EventId}
      /\ inHand' \cup deleted' = inHand \cup deleted \cup (EventIn(Head(ready)) \ {Absent})
      /\ {Absent} \cap Event \subseteq EventIn(Head(ready))
  BY <1>1, <1>2, <1>3, <1>6, <1>7
<1>10. timer' = [timer EXCEPT ![id] = Absent] /\ ready' = Tail(ready) \o Abort(id)
  BY <1>1
<1> HIDE DEF e, id
<1> QED BY <1>1, <1>5, <1>6, <1>7, <1>8, <1>9, <1>10, TimerChanges
\* The handlers that shutdown leaves: one for each event that waits.
LEMMA AbortedAll ==
  ASSUME SchTypeOK,
         NEW waiting, waiting = {e \in Event : \E id \in EventId : timer[id] = e},
         NEW seq \in [1 .. Cardinality(waiting) -> waiting],
         \A e \in waiting : \E i \in DOMAIN seq : seq[i] = e
  PROVE  LET s == [i \in DOMAIN seq |-> Aborted(seq[i])]
         IN  /\ waiting = TimerEvents
             /\ s \in Seq(Handlers) /\ NoneTwice(s) /\ EventsOf(s) = waiting
             /\ Range(s) = {Aborted(e) : e \in waiting}
<1> DEFINE n == Cardinality(waiting)
           s == [i \in DOMAIN seq |-> Aborted(seq[i])]
<1>1. waiting = TimerEvents /\ timer \in [EventId -> Event \cup {Absent, Completed}]
  BY DEF SchTypeOK, TimerEvents
<1>2. IsFiniteSet(waiting) /\ n \in Nat
  <2> DEFINE ids == {id \in EventId : timer[id] \in Event}
             f == [id \in ids |-> timer[id]]
  <2>1. IsFiniteSet(EventId)
    BY SchedulerAssumption, FS_Interval DEF EventId
  <2>2. IsFiniteSet(ids)
    BY <2>1, FS_Subset
  <2>3. f \in [ids -> waiting]
    OBVIOUS
  <2>4. \A e \in waiting : \E id \in ids : f[id] = e
    OBVIOUS
  <2>5. f \in Surjection(ids, waiting)
    BY <2>3, <2>4 DEF Surjection
  <2> HIDE DEF ids, f
  <2> QED BY <2>2, <2>5, FS_Surjection, FS_CardinalityType
<1>3. IsInjective(seq)
  <2>1. IsFiniteSet(1 .. n) /\ Cardinality(1 .. n) = n
    BY <1>2, FS_Interval
  <2>2. seq \in Surjection(1 .. n, waiting)
    BY DEF Surjection
  <2>3. seq \in Injection(1 .. n, waiting)
    BY <2>1, <2>2, FS_Surjection
  <2> QED BY <2>3 DEF Injection
<1>4. \A i \in 1 .. n : seq[i] \in Event /\ s[i] = Aborted(seq[i]) /\ s[i] \in Handlers
  BY <1>1, HandlerKinds DEF TimerEvents
<1>5. s \in Seq(Handlers) /\ DOMAIN s = 1 .. n
  <2>1. s \in [1 .. n -> Handlers]
    BY <1>4
  <2> QED BY <1>2, <2>1, SeqDef
<1>6. NoneTwice(s)
  BY <1>3, <1>4, <1>5 DEF NoneTwice, IsInjective, Aborted
<1>7. Range(s) = {Aborted(e) : e \in waiting}
  BY <1>4, <1>5 DEF Range
<1>8. EventsOf(s) = waiting
  <2>1. \A e : Aborted(e).op \in EventOps /\ Aborted(e).event = e
    BY DEF Aborted, EventOps
  <2> HIDE DEF s
  <2> QED BY <1>7, <2>1 DEF EventsOf
<1> HIDE DEF s
<1>9. waiting = TimerEvents /\ s \in Seq(Handlers) /\ NoneTwice(s) /\ EventsOf(s) = waiting
      /\ Range(s) = {Aborted(e) : e \in waiting}
  BY <1>1, <1>5, <1>6, <1>7, <1>8
<1> QED BY <1>9 DEF s

LEMMA RunStopKeeps == ASSUME SchInv, RunStop PROVE SchInv'
<1> DEFINE W == {e \in Event : \E id \in EventId : timer[id] = e}
<1>1. PICK seq \in [1 .. Cardinality(W) -> W] :
        /\ \A e \in W : \E i \in DOMAIN seq : seq[i] = e
        /\ ready' = Tail(ready) \o [i \in DOMAIN seq |-> Aborted(seq[i])]
  BY DEF RunStop
<1> DEFINE s == [i \in DOMAIN seq |-> Aborted(seq[i])]
<1>2. /\ ready # <<>> /\ Head(ready).op = "stop" /\ running' = FALSE
      /\ timer' = [id \in EventId |-> IF timer[id] = Absent THEN Absent ELSE Completed]
      /\ UNCHANGED <<schState, lastEventId, eventId, inHand, added, delivered, deleted, stopCalled>>
  BY DEF RunStop, Handler
<1>3. /\ W = TimerEvents /\ s \in Seq(Handlers) /\ NoneTwice(s) /\ EventsOf(s) = W
      /\ Range(s) = {Aborted(e) : e \in W}
  <2> HIDE DEF W
  <2>1. W = {e \in Event : \E id \in EventId : timer[id] = e}
    BY DEF W
  <2> QED BY <1>1, <2>1, AbortedAll DEF SchInv
<1>4. ready' = Tail(ready) \o s
  BY <1>1
<1> HIDE DEF s, W
<1>5. ready \in Seq(Handlers)
  BY DEF SchInv, SchTypeOK
<1>6. /\ ready' \in Seq(Handlers)
      /\ Range(Tail(ready)) \subseteq Range(ready)
      /\ Range(ready') = Range(Tail(ready)) \cup Range(s)
      /\ EventsOf(ready) = EventsOf(Tail(ready)) \cup EventIn(Head(ready))
      /\ EventsOf(ready') = EventsOf(Tail(ready)) \cup EventsOf(s)
      /\ NoneTwice(ready) /\ EventsOf(Tail(ready)) \cap EventsOf(s) = {} => NoneTwice(ready')
      /\ \A e, i : CancelFollows(ready, e, i) /\ Arm(e) \notin Range(s) => CancelFollows(ready', e, i)
  BY <1>2, <1>3, <1>4, <1>5, HeadRun
<1>7. EventIn(Head(ready)) = {} /\ schState = "TERMINATED"
  BY <1>2, HeadIs DEF SchInv, Caused
<1>8. timer' \in [EventId -> {Absent, Completed}] /\ TimerEvents' = {}
  BY <1>2, SchedulerAssumption DEF TimerEvents
<1>9. SchTypeOK'
  BY <1>2, <1>6, <1>8 DEF SchInv, SchTypeOK
<1>10. InOnePlace'
  BY <1>2, <1>3, <1>6, <1>7, <1>8 DEF SchInv, InOnePlace
<1>11. TimersNamed'
  BY <1>8, SchedulerAssumption DEF TimersNamed
<1>12. (\A h \in Range(ready) : Caused(h))'
  <2>1. \A h : Caused(h) => Caused(h)'
    BY <1>2, ReasonsStay
  <2>2. \A e \in W : Caused(Aborted(e))
    BY <1>7 DEF Caused, Aborted, MayAbort
  <2>3. \A h \in Range(ready) : Caused(h)
    BY DEF SchInv
  <2> QED BY <1>3, <1>6, <2>1, <2>2, <2>3
<1>13. StopsReach'
  <2>1. \A e : Arm(e) \notin Range(s)
    BY <1>3 DEF Arm, Aborted
  <2> QED BY <1>2, <1>6, <1>8, <2>1 DEF SchInv, StopsReach
<1>14. AbortedForAReason'
  BY <1>2, <1>7 DEF AbortedForAReason
<1> QED BY <1>9, <1>10, <1>11, <1>12, <1>13, <1>14 DEF SchInv

LEMMA DeliverKeeps == ASSUME SchInv, NEW e \in Event, Deliver(e) PROVE SchInv'
<1>1. /\ e \in inHand /\ inHand' = {} /\ delivered' = Append(delivered, e)
      /\ UNCHANGED <<schState, lastEventId, eventId, added, ready, timer, running, deleted, stopCalled>>
  BY DEF Deliver
<1>2. delivered \in Seq(Event) /\ inHand = {e} /\ e \notin Range(delivered)
  BY <1>1 DEF SchInv, SchTypeOK, InOnePlace
<1>3. delivered' \in Seq(Event) /\ Range(delivered') = Range(delivered) \cup {e} /\ IsInjective(delivered')
  <2>1. /\ Append(delivered, e) \in Seq(Event) /\ Len(Append(delivered, e)) = Len(delivered) + 1
        /\ \A i \in 1 .. Len(delivered) : Append(delivered, e)[i] = delivered[i]
        /\ Append(delivered, e)[Len(delivered) + 1] = e
        /\ Len(delivered) \in Nat /\ DOMAIN delivered = 1 .. Len(delivered)
        /\ DOMAIN Append(delivered, e) = 1 .. Len(delivered) + 1
    BY <1>2, AppendProperties, LenProperties
  <2>2. Range(Append(delivered, e)) = Range(delivered) \cup {e}
    BY <2>1 DEF Range
  <2>3. IsInjective(Append(delivered, e))
    <3> SUFFICES ASSUME NEW a \in 1 .. Len(delivered) + 1, NEW b \in 1 .. Len(delivered) + 1,
                        Append(delivered, e)[a] = Append(delivered, e)[b]
                 PROVE  a = b
      BY <2>1 DEF IsInjective
    <3>1. CASE a \in 1 .. Len(delivered) /\ b \in 1 .. Len(delivered)
      BY <2>1, <3>1 DEF SchInv, InOnePlace, IsInjective
    <3>2. CASE a = Len(delivered) + 1 \/ b = Len(delivered) + 1
      BY <1>2, <2>1, <3>2 DEF Range
    <3> QED BY <2>1, <3>1, <3>2
  <2> QED BY <1>1, <2>1, <2>2, <2>3
<1>4. SchTypeOK'
  BY <1>1, <1>3 DEF SchInv, SchTypeOK
<1>5. TimerEvents' = TimerEvents
  BY <1>1 DEF TimerEvents
<1>6. InOnePlace'
  BY <1>1, <1>2, <1>3, <1>5 DEF SchInv, InOnePlace
<1>7. (\A h \in Range(ready) : Caused(h))' /\ StopsReach' /\ AbortedForAReason' /\ TimersNamed'
  <2>1. \A h : Caused(h) => Caused(h)'
    BY <1>1, ReasonsStay
  <2> QED BY <1>1, <1>5, <2>1 DEF SchInv, StopsReach, AbortedForAReason, TimersNamed, UniqueId
<1> QED BY <1>4, <1>6, <1>7 DEF SchInv

LEMMA TimerExpiresKeeps == ASSUME SchInv, NEW id \in EventId, TimerExpires(id) PROVE SchInv'
<1> DEFINE e == timer[id]
<1>1. /\ e \in Event /\ ready' = Append(ready, Expired(e)) /\ timer' = [timer EXCEPT ![id] = Completed]
      /\ UNCHANGED <<schState, lastEventId, eventId, running, inHand, added, delivered, deleted, stopCalled>>
  BY DEF TimerExpires
<1>2. Expired(e) \in Handlers /\ EventIn(Expired(e)) = {e}
  BY <1>1, HandlerKinds
<1>3. ready \in Seq(Handlers) /\ timer \in [EventId -> Event \cup {Absent, Completed}]
  BY DEF SchInv, SchTypeOK
<1>4. /\ ready' \in Seq(Handlers) /\ Range(ready') = Range(ready) \cup {Expired(e)}
      /\ EventsOf(ready') = EventsOf(ready) \cup {e}
      /\ NoneTwice(ready) /\ e \notin EventsOf(ready) => NoneTwice(ready')
      /\ \A x, i : CancelFollows(ready, x, i) => CancelFollows(ready', x, i)
  <2>1. \A x : Expired(e) # Arm(x)
    BY DEF Expired, Arm
  <2> QED BY <1>1, <1>2, <1>3, <2>1, Posted
<1>5. e \in TimerEvents /\ TimerEvents' = TimerEvents \ {e}
  <2>1. {[timer EXCEPT ![id] = Completed][i] : i \in EventId} \cap Event
          = (TimerEvents \ {timer[id]}) \cup ({Completed} \cap Event)
    BY AbortedWait
  <2>2. TimerEvents' = {[timer EXCEPT ![id] = Completed][i] : i \in EventId} \cap Event
    BY <1>1 DEF TimerEvents
  <2> QED BY <1>1, <2>1, <2>2, SchedulerAssumption DEF TimerEvents
<1>6. SchTypeOK'
  BY <1>1, <1>3, <1>4 DEF SchInv, SchTypeOK
<1>7. InOnePlace'
  BY <1>1, <1>4, <1>5 DEF SchInv, InOnePlace
<1>8. TimersNamed'
  BY <1>1, <1>3, SchedulerAssumption DEF SchInv, TimersNamed
<1>9. (\A h \in Range(ready) : Caused(h))'
  <2>1. \A h : Caused(h) => Caused(h)'
    BY <1>1, ReasonsStay
  <2>2. Caused(Expired(e))
    BY DEF Caused, Expired
  <2> QED BY <1>4, <2>1, <2>2 DEF SchInv
<1>10. StopsReach' /\ AbortedForAReason'
  BY <1>1, <1>4, <1>5 DEF SchInv, StopsReach, AbortedForAReason, UniqueId
<1> QED BY <1>6, <1>7, <1>8, <1>9, <1>10 DEF SchInv

\* The id of a new event is not known to anyone yet.
LEMMA AddEventKeeps == ASSUME SchInv, NEW e \in Event, AddEvent(e) PROVE SchInv'
<1>1. /\ e \notin added /\ lastEventId' = NextId /\ eventId' = [eventId EXCEPT ![e] = NextId]
      /\ added' = added \cup {e} /\ ready' = Append(ready, Arm(e))
      /\ UNCHANGED <<schState, timer, running, inHand, delivered, deleted, stopCalled>>
  BY DEF AddEvent
<1>2. Arm(e) \in Handlers /\ EventIn(Arm(e)) = {e}
  BY HandlerKinds
<1>3. /\ ready \in Seq(Handlers) /\ eventId \in [Event -> EventId] /\ lastEventId \in EventId
      /\ added \subseteq Event /\ stopCalled \subseteq added
  BY DEF SchInv, SchTypeOK
<1>4. /\ ready' \in Seq(Handlers) /\ Range(ready') = Range(ready) \cup {Arm(e)}
      /\ EventsOf(ready') = EventsOf(ready) \cup {e}
      /\ NoneTwice(ready) /\ e \notin EventsOf(ready) => NoneTwice(ready')
      /\ \A x, i : x # e /\ CancelFollows(ready, x, i) => CancelFollows(ready', x, i)
  <2>1. \A x : x # e => Arm(e) # Arm(x)
    BY DEF Arm
  <2> QED BY <1>1, <1>2, <1>3, <2>1, Posted
<1>5. NextId \in EventId
  BY <1>3, SchedulerAssumption DEF NextId, EventId
<1>6. \A x \in added : eventId'[x] = eventId[x]
  BY <1>1, <1>3
<1>7. \A x \in added : MayAbort(x) => MayAbort(x)'
  BY <1>1, <1>6 DEF MayAbort, UniqueId
<1>8. SchTypeOK'
  BY <1>1, <1>3, <1>4, <1>5 DEF SchInv, SchTypeOK
<1>9. TimerEvents' = TimerEvents
  BY <1>1 DEF TimerEvents
<1>10. InOnePlace'
  BY <1>1, <1>4, <1>9 DEF SchInv, InOnePlace
<1>11. \A id \in EventId : timer[id] \in Event => timer[id] \in added
  BY DEF SchInv, InOnePlace, TimerEvents
<1>12. TimersNamed'
  BY <1>1, <1>6, <1>11 DEF SchInv, TimersNamed
<1>13. (\A h \in Range(ready) : Caused(h))'
  <2> SUFFICES ASSUME NEW h \in Range(ready') PROVE Caused(h)'
    OBVIOUS
  <2>1. CASE h = Arm(e)
    BY <2>1 DEF Caused, Arm
  <2>2. CASE h \in Range(ready)
    <3>1. Caused(h)
      BY <2>2 DEF SchInv
    <3>2. h.op = "aborted" => h.event \in added
      BY <2>2 DEF SchInv, InOnePlace, EventsOf, EventOps
    <3> QED BY <1>1, <1>3, <1>6, <1>7, <3>1, <3>2 DEF Caused
  <2> QED BY <1>4, <2>1, <2>2
<1>14. StopsReach'
  BY <1>1, <1>3, <1>4, <1>6, <1>9 DEF SchInv, StopsReach
<1>15. AbortedForAReason'
  <2>1. deleted \subseteq added
    BY DEF SchInv, InOnePlace
  <2> QED BY <1>1, <1>7, <2>1 DEF SchInv, AbortedForAReason, MayAbort
<1> QED BY <1>8, <1>10, <1>12, <1>13, <1>14, <1>15 DEF SchInv

LEMMA StopEventKeeps == ASSUME SchInv, NEW e \in Event, StopEvent(e) PROVE SchInv'
<1>1. /\ e \in added \ stopCalled /\ stopCalled' = stopCalled \cup {e}
      /\ ready' = IF eventId[e] = 0 THEN ready ELSE Append(ready, Cancel(eventId[e]))
      /\ UNCHANGED <<schState, lastEventId, eventId, timer, running, inHand, added, delivered, deleted>>
  BY DEF StopEvent
<1>2. ready \in Seq(Handlers) /\ eventId \in [Event -> EventId] /\ stopCalled \subseteq added
  BY DEF SchInv, SchTypeOK
<1> DEFINE c == Cancel(eventId[e])
<1>3. c \in Handlers /\ EventIn(c) = {}
  BY <1>2, HandlerKinds
<1>4. /\ ready' \in Seq(Handlers) /\ Range(ready) \subseteq Range(ready')
      /\ \A h \in Range(ready') : h \in Range(ready) \/ h = c
      /\ EventsOf(ready') = EventsOf(ready)
      /\ NoneTwice(ready) => NoneTwice(ready')
      /\ \A x, i : CancelFollows(ready, x, i) => CancelFollows(ready', x, i)
      /\ eventId[e] # 0 => /\ \A x : CancelFollows(ready', x, eventId[e])
                           /\ c \in Range(ready')
  <2>1. \A x : c # Arm(x)
    BY DEF Arm, Cancel
  <2>2. CASE eventId[e] = 0
    BY <1>1, <1>2, <2>2
  <2>3. CASE eventId[e] # 0
    <3>1. ready' = Append(ready, c)
      BY <1>1, <2>3
    <3>2. \A x : CancelFollows(Append(ready, c), x, eventId[e])
      BY <1>2, <1>3, Posted
    <3>3. c \in Range(Append(ready, c))
      BY <1>2, <1>3, Posted
    <3> HIDE DEF c
    <3>4. /\ Append(ready, c) \in Seq(Handlers)
          /\ Range(Append(ready, c)) = Range(ready) \cup {c}
          /\ EventsOf(Append(ready, c)) = EventsOf(ready)
          /\ NoneTwice(ready) => NoneTwice(Append(ready, c))
          /\ \A x, i : CancelFollows(ready, x, i) => CancelFollows(Append(ready, c), x, i)
      BY <1>2, <1>3, <2>1, PostedEmpty
    <3> QED BY <3>1, <3>2, <3>3, <3>4
  <2> QED BY <2>2, <2>3
<1>5. SchTypeOK' /\ TimerEvents' = TimerEvents
  BY <1>1, <1>2, <1>4 DEF SchInv, SchTypeOK, TimerEvents
<1>6. InOnePlace' /\ TimersNamed'
  BY <1>1, <1>4, <1>5 DEF SchInv, InOnePlace, TimersNamed
<1>7. (\A h \in Range(ready) : Caused(h))'
  <2> SUFFICES ASSUME NEW h \in Range(ready') PROVE Caused(h)'
    OBVIOUS
  <2>1. CASE h = c
    BY <1>1, <2>1 DEF Caused, Cancel
  <2>2. CASE h \in Range(ready)
    <3>1. Caused(h)
      BY <2>2 DEF SchInv
    <3> QED BY <1>1, <3>1, ReasonsStay
  <2> QED BY <1>4, <2>1, <2>2
<1>8. StopsReach'
  <2> SUFFICES ASSUME NEW x \in stopCalled', eventId[x] # 0
               PROVE  /\ CancelFollows(ready', x, eventId[x])
                      /\ x \in TimerEvents => Cancel(eventId[x]) \in Range(ready')
    BY <1>1, <1>5 DEF StopsReach
  <2>1. CASE x = e
    BY <1>4, <2>1
  <2>2. CASE x \in stopCalled
    BY <1>4, <2>2 DEF SchInv, StopsReach
  <2> QED BY <1>1, <2>1, <2>2
<1>9. AbortedForAReason'
  BY <1>1 DEF SchInv, AbortedForAReason, UniqueId
<1> QED BY <1>5, <1>6, <1>7, <1>8, <1>9 DEF SchInv

LEMMA StopOrShutdownKeeps == ASSUME SchInv, SchStop \/ SchShutdown \/ UNCHANGED schVars PROVE SchInv'
<1>1. CASE SchStop \/ UNCHANGED schVars
  <2>1. /\ schState' \in {"RUNNING", "CLOSING", "TERMINATED"}
        /\ schState = "TERMINATED" => schState' = "TERMINATED"
        /\ UNCHANGED <<lastEventId, eventId, ready, timer, running, inHand, added, delivered, deleted, stopCalled>>
    BY <1>1 DEF SchStop, schVars, SchInv, SchTypeOK
  <2>2. \A h : Caused(h) => Caused(h)'
    BY <2>1, ReasonsStay
  <2> QED BY <2>1, <2>2 DEF SchInv, SchTypeOK, InOnePlace, TimerEvents, TimersNamed, StopsReach,
                            AbortedForAReason, UniqueId
<1>2. CASE SchShutdown
  <2>1. /\ schState' = "TERMINATED" /\ ready' = Append(ready, CancelAll)
        /\ UNCHANGED <<lastEventId, eventId, timer, running, inHand, added, delivered, deleted, stopCalled>>
    BY <1>2 DEF SchShutdown
  <2>2. ready \in Seq(Handlers)
    BY DEF SchInv, SchTypeOK
  <2>3. /\ ready' \in Seq(Handlers) /\ Range(ready') = Range(ready) \cup {CancelAll}
        /\ EventsOf(ready') = EventsOf(ready)
        /\ NoneTwice(ready) => NoneTwice(ready')
        /\ \A x, i : CancelFollows(ready, x, i) => CancelFollows(ready', x, i)
    <3>1. \A x : CancelAll # Arm(x)
      BY DEF Arm, CancelAll
    <3>2. CancelAll \in Handlers /\ EventIn(CancelAll) = {}
      BY HandlerKinds
    <3> QED BY <2>1, <2>2, <3>1, <3>2, PostedEmpty
  <2>4. \A h : Caused(h) => Caused(h)'
    BY <2>1, ReasonsStay
  <2>5. Caused(CancelAll)'
    BY <2>1 DEF Caused, CancelAll
  <2>6. SchTypeOK' /\ TimerEvents' = TimerEvents
    BY <2>1, <2>3 DEF SchInv, SchTypeOK, TimerEvents
  <2>7. InOnePlace' /\ TimersNamed'
    BY <2>1, <2>3, <2>6 DEF SchInv, InOnePlace, TimersNamed
  <2>8. (\A h \in Range(ready) : Caused(h))'
    BY <2>3, <2>4, <2>5 DEF SchInv
  <2>9. StopsReach' /\ AbortedForAReason'
    BY <2>1, <2>3, <2>6 DEF SchInv, StopsReach, AbortedForAReason
  <2> QED BY <2>6, <2>7, <2>8, <2>9 DEF SchInv
<1> QED BY <1>1, <1>2

LEMMA SchInvInitially == SchInit => SchInv
<1> SUFFICES ASSUME SchInit PROVE SchInv
  OBVIOUS
<1>1. 0 \in EventId
  BY SchedulerAssumption DEF EventId
<1>2. SchTypeOK
  BY <1>1 DEF SchInit, SchTypeOK
<1>3. EventsOf(ready) = {} /\ NoneTwice(ready) /\ Range(ready) = {} /\ Range(delivered) = {}
  BY EventsOfNone DEF SchInit
<1>4. TimerEvents = {}
  BY SchedulerAssumption DEF SchInit, TimerEvents
<1>5. IsInjective(delivered)
  BY DEF SchInit, IsInjective
<1>6. InOnePlace
  BY <1>3, <1>4, <1>5 DEF SchInit, InOnePlace
<1>7. TimersNamed
  BY SchedulerAssumption DEF SchInit, TimersNamed
<1>8. StopsReach /\ AbortedForAReason
  BY DEF SchInit, StopsReach, AbortedForAReason
<1> QED BY <1>2, <1>3, <1>6, <1>7, <1>8 DEF SchInv

LEMMA SchInvKept == SchInv /\ [SchNext]_schVars => SchInv'
<1> SUFFICES ASSUME SchInv, [SchNext]_schVars PROVE SchInv'
  OBVIOUS
<1>1. CASE \E e \in Event : AddEvent(e)
  BY <1>1, AddEventKeeps
<1>2. CASE \E e \in Event : StopEvent(e)
  BY <1>2, StopEventKeeps
<1>3. CASE SchStop \/ SchShutdown \/ UNCHANGED schVars
  BY <1>3, StopOrShutdownKeeps
<1>4. CASE \E id \in EventId : TimerExpires(id)
  BY <1>4, TimerExpiresKeeps
<1>5. CASE RunArm
  BY <1>5, RunArmKeeps
<1>6. CASE RunCancel
  BY <1>6, RunCancelKeeps
<1>7. CASE RunAborted
  BY <1>7, RunAbortedKeeps
<1>8. CASE RunExpired
  BY <1>8, RunExpiredKeeps
<1>9. CASE RunStop
  BY <1>9, RunStopKeeps
<1>10. CASE \E e \in Event : Deliver(e)
  BY <1>10, DeliverKeeps
<1> QED BY <1>1, <1>2, <1>3, <1>4, <1>5, <1>6, <1>7, <1>8, <1>9, <1>10 DEF SchNext, RunHandler
-----------------------------------------------------------------------------
(* What the run checks *)

\* A set without two different members has at most one.
LEMMA AtMostOne ==
  ASSUME NEW S, \A a, b \in S : a = b
  PROVE  Cardinality(S) = IF S = {} THEN 0 ELSE 1
<1>1. CASE S = {}
  BY <1>1, FS_EmptySet
<1>2. CASE S # {}
  <2>1. PICK a : S = {a}
    BY <1>2
  <2> QED BY <1>2, <2>1, FS_Singleton
<1> QED BY <1>1, <1>2

LEMMA OnceEach == SchInv => EachEventOnce
<1> SUFFICES ASSUME SchInv, NEW e \in added
             PROVE    Cardinality(ReadyFor(e, EventOps)) + Cardinality(Waiting(e))
                    + Cardinality({e} \cap inHand)
                    + Cardinality({i \in DOMAIN delivered : delivered[i] = e})
                    + Cardinality({e} \cap deleted) = 1
  BY DEF EachEventOnce, EventOps
<1> DEFINE R == ReadyFor(e, EventOps)
           W == Waiting(e)
           H == {e} \cap inHand
           D == {i \in DOMAIN delivered : delivered[i] = e}
           X == {e} \cap deleted
<1>1. InOnePlace /\ TimersNamed /\ e \in Event
  BY DEF SchInv, SchTypeOK
<1>2. /\ \A a, b \in R : a = b
      /\ \A a, b \in W : a = b
      /\ \A a, b \in D : a = b
  <2>1. \A a, b \in R : a = b
    BY <1>1 DEF ReadyFor, InOnePlace, NoneTwice
  <2>2. \A a, b \in W : a = b
    BY <1>1 DEF Waiting, TimersNamed
  <2>3. \A a, b \in D : a = b
    BY <1>1 DEF InOnePlace, IsInjective
  <2> QED BY <2>1, <2>2, <2>3
<1>3. \A a, b \in H : a = b
  OBVIOUS
<1>4. \A a, b \in X : a = b
  OBVIOUS
<1>5. /\ R # {} <=> e \in EventsOf(ready)
      /\ W # {} <=> e \in TimerEvents
      /\ H # {} <=> e \in inHand
      /\ D # {} <=> e \in Range(delivered)
      /\ X # {} <=> e \in deleted
  <2>1. R # {} <=> e \in EventsOf(ready)
    BY DEF ReadyFor, EventsOf, Range
  <2>2. W # {} <=> e \in TimerEvents
    BY <1>1 DEF Waiting, TimerEvents
  <2>3. D # {} <=> e \in Range(delivered)
    BY DEF Range
  <2> QED BY <2>1, <2>2, <2>3
<1> HIDE DEF R, W, H, D, X
<1>6. /\ Cardinality(R) = IF R = {} THEN 0 ELSE 1
      /\ Cardinality(W) = IF W = {} THEN 0 ELSE 1
      /\ Cardinality(H) = IF H = {} THEN 0 ELSE 1
      /\ Cardinality(D) = IF D = {} THEN 0 ELSE 1
      /\ Cardinality(X) = IF X = {} THEN 0 ELSE 1
  BY <1>2, <1>3, <1>4, AtMostOne
<1>7. \/ R # {} /\ W = {} /\ H = {} /\ D = {} /\ X = {}
      \/ R = {} /\ W # {} /\ H = {} /\ D = {} /\ X = {}
      \/ R = {} /\ W = {} /\ H # {} /\ D = {} /\ X = {}
      \/ R = {} /\ W = {} /\ H = {} /\ D # {} /\ X = {}
      \/ R = {} /\ W = {} /\ H = {} /\ D = {} /\ X # {}
  BY <1>1, <1>5 DEF InOnePlace
<1>8. Cardinality(R) + Cardinality(W) + Cardinality(H) + Cardinality(D) + Cardinality(X) = 1
  BY <1>6, <1>7
<1> QED BY <1>8 DEF R, W, H, D, X

LEMMA SchInvImplies == SchInv => EventsAccounted
<1> SUFFICES ASSUME SchInv PROVE EventsAccounted
  OBVIOUS
<1>1. StopTakesEffect
  <2> SUFFICES ASSUME NEW e \in stopCalled, eventId[e] # 0,
                      \A i \in DOMAIN ready : ready[i] # Cancel(eventId[e])
               PROVE  Waiting(e) = {} /\ ReadyFor(e, {"arm"}) = {}
    BY DEF StopTakesEffect
  <2>1. e \in Event /\ ready \in Seq(Handlers)
    BY DEF SchInv, SchTypeOK
  <2>2. Cancel(eventId[e]) \notin Range(ready)
    BY DEF Range
  <2>3. Waiting(e) = {}
    BY <2>1, <2>2 DEF SchInv, StopsReach, Waiting, TimerEvents
  <2>4. ASSUME NEW i \in DOMAIN ready, ready[i].op = "arm", ready[i].event = e
        PROVE  FALSE
    <3>1. ready[i] \in Handlers
      BY <2>1
    <3>2. ready[i] = Arm(e)
      BY <2>4, <3>1 DEF Handlers, Arm
    <3> QED BY <3>2 DEF SchInv, StopsReach, CancelFollows
  <2> QED BY <2>3, <2>4 DEF ReadyFor
<1> QED BY <1>1, OnceEach DEF SchInv, EventsAccounted

\* Whatever threads call addEvent and stopEvent, and however expiry, stopEvent
\* and shutdown race, every event added is in one place only, a stopped event
\* does not wait to expire, and none is aborted without a reason
\* (scheduler.cpp:26-81), for any number of events and any width of their ids.
THEOREM EventsAreAccounted == SchSpec => []EventsAccounted
<1>1. SchInit => SchInv
  BY SchInvInitially
<1>2. SchInv /\ [SchNext]_schVars => SchInv'
  BY SchInvKept
<1>3. SchInv => EventsAccounted
  BY SchInvImplies
<1> QED BY <1>1, <1>2, <1>3, PTL DEF SchSpec
=============================================================================
