----------------------------- MODULE Scheduler -----------------------------
(***************************************************************************)
(* class Scheduler (src/engine/src/scheduler.h, scheduler.cpp): delayed    *)
(* tasks.  Any thread calls addEvent and stopEvent, which only post a      *)
(* handler to an io_context; one thread runs the handlers one at a time,   *)
(* in the order they became ready.  Each event has a steady_timer in       *)
(* eventIdTimerMap, and the completion of its wait (expired or aborted) is *)
(* again a handler that becomes ready behind those already there: a wait   *)
(* that has completed as expired can no longer be cancelled.               *)
(*                                                                         *)
(* boost::asio is external; what is used of it is: post and the completion *)
(* of waits keep the order they happen in; cancel, expires_from_now and    *)
(* destroying a timer complete its pending wait as aborted; stop makes     *)
(* run() return after the handler being run.                               *)
(***************************************************************************)
EXTENDS Naturals, Sequences, FiniteSets

CONSTANTS Event,      \* SchedulerTask objects
          IdLimit,    \* event ids are taken modulo IdLimit (2^32 in the code)
          Absent,     \* the id is not in eventIdTimerMap
          Completed   \* the id is in the map but its timer has no pending wait

ASSUME SchedulerAssumption == /\ IdLimit \in Nat \ {0}
                              /\ Absent \notin Event
                              /\ Completed \notin Event
                              /\ Absent # Completed

EventId == 0 .. IdLimit - 1

VARIABLES schState,      \* ThreadHolder::threadState
          lastEventId,   \* Scheduler::lastEventId
          eventId,       \* SchedulerTask::eventId, 0 until the event is added
          ready,         \* handlers of io_context that are ready to run
          timer,         \* eventIdTimerMap
          running,       \* FALSE once io_context::run has returned
          inHand,        \* events between the test of threadState and addTask
          added,         \* history: events addEvent was called for
          delivered,     \* history: events passed to g_dispatcher.addTask
          deleted,       \* history: events deleted instead
          stopCalled     \* history: events stopEvent was called for

schVars == <<schState, lastEventId, eventId, ready, timer, running,
             inHand, added, delivered, deleted, stopCalled>>

Arm(e)     == [op |-> "arm", event |-> e]
Expired(e) == [op |-> "expired", event |-> e]
Aborted(e) == [op |-> "aborted", event |-> e]
Cancel(id) == [op |-> "cancel", id |-> id]
CancelAll  == [op |-> "stop"]

SchInit == /\ schState = "RUNNING"
           /\ lastEventId = 0
           /\ eventId = [e \in Event |-> 0]
           /\ ready = << >>
           /\ timer = [id \in EventId |-> Absent]
           /\ running = TRUE
           /\ inHand = {}
           /\ added = {}
           /\ delivered = << >>
           /\ deleted = {}
           /\ stopCalled = {}

\* ++lastEventId, on an unsigned integer.
NextId == (lastEventId + 1) % IdLimit

\* The wait pending on the timer of id, as the handler it becomes when cancelled.
Abort(id) == IF timer[id] \in Event THEN <<Aborted(timer[id])>> ELSE << >>

-----------------------------------------------------------------------------
(* Callers.  Taking the id and posting are one step: the id is not known to *)
(* anyone before addEvent returns.                                          *)

AddEvent(e) ==
  /\ e \notin added
  /\ lastEventId' = NextId
  /\ eventId' = [eventId EXCEPT ![e] = NextId]
  /\ added' = added \cup {e}
  /\ ready' = Append(ready, Arm(e))
  /\ UNCHANGED <<schState, timer, running, inHand, delivered, deleted, stopCalled>>

\* Mutant: the cancellation overtakes the handlers that are ready.
StopEventAtOnce(e) ==
  /\ e \in added \ stopCalled
  /\ stopCalled' = stopCalled \cup {e}
  /\ ready' = IF eventId[e] = 0 THEN ready ELSE <<Cancel(eventId[e])>> \o ready
  /\ UNCHANGED <<schState, lastEventId, eventId, timer, running,
                 inHand, added, delivered, deleted>>

\* The owner of an event calls stopEvent with the id addEvent gave it, and
\* forgets the id.  0 stands for "no event".
StopEvent(e) ==
  /\ e \in added \ stopCalled
  /\ stopCalled' = stopCalled \cup {e}
  /\ ready' = IF eventId[e] = 0 THEN ready ELSE Append(ready, Cancel(eventId[e]))
  /\ UNCHANGED <<schState, lastEventId, eventId, timer, running,
                 inHand, added, delivered, deleted>>

\* ThreadHolder::stop; nothing in Scheduler tells CLOSING from RUNNING.
SchStop == /\ schState # "TERMINATED"
           /\ schState' = "CLOSING"
           /\ UNCHANGED <<lastEventId, eventId, ready, timer, running,
                          inHand, added, delivered, deleted, stopCalled>>

\* shutdown().  A handler that runs between the store of TERMINATED and the
\* post does what it would do after both, so they are one step.
SchShutdown == /\ schState # "TERMINATED"
               /\ schState' = "TERMINATED"
               /\ ready' = Append(ready, CancelAll)
               /\ UNCHANGED <<lastEventId, eventId, timer, running,
                              inHand, added, delivered, deleted, stopCalled>>

-----------------------------------------------------------------------------
(* The scheduler thread *)

\* The delay of a pending wait has passed.
TimerExpires(id) ==
  /\ running
  /\ timer[id] \in Event
  /\ ready' = Append(ready, Expired(timer[id]))
  /\ timer' = [timer EXCEPT ![id] = Completed]
  /\ UNCHANGED <<schState, lastEventId, eventId, running,
                 inHand, added, delivered, deleted, stopCalled>>

\* The next handler, which the thread takes when it is done with the last.
Handler(op) == /\ running
               /\ inHand = {}
               /\ ready # << >>
               /\ Head(ready).op = op

\* emplace and async_wait.  If the id is still in the map emplace leaves that
\* timer there, and expires_from_now aborts the wait pending on it.
RunArm ==
  /\ Handler("arm")
  /\ LET e == Head(ready).event
         id == eventId[e]
     IN /\ timer' = [timer EXCEPT ![id] = e]
        /\ ready' = Tail(ready) \o Abort(id)
  /\ UNCHANGED <<schState, lastEventId, eventId, running,
                 inHand, added, delivered, deleted, stopCalled>>

RunCancel ==
  /\ Handler("cancel")
  /\ LET id == Head(ready).id
     IN /\ timer' = [timer EXCEPT ![id] = IF @ \in Event THEN Completed ELSE @]
        /\ ready' = Tail(ready) \o Abort(id)
  /\ UNCHANGED <<schState, lastEventId, eventId, running,
                 inHand, added, delivered, deleted, stopCalled>>

\* Both outcomes of a wait erase the id, and with it whatever timer is there.
EraseId(id) == /\ timer' = [timer EXCEPT ![id] = Absent]
               /\ ready' = Tail(ready) \o Abort(id)

RunAborted ==
  /\ Handler("aborted")
  /\ EraseId(eventId[Head(ready).event])
  /\ deleted' = deleted \cup {Head(ready).event}
  /\ UNCHANGED <<schState, lastEventId, eventId, running,
                 inHand, added, delivered, stopCalled>>

\* Mutant: a closing scheduler already throws expired events away.
OverWhenClosing == schState # "RUNNING"

Over == schState = "TERMINATED"

RunExpired ==
  /\ Handler("expired")
  /\ EraseId(eventId[Head(ready).event])
  /\ \/ /\ Over
        /\ deleted' = deleted \cup {Head(ready).event}
        /\ UNCHANGED inHand
     \/ /\ ~Over
        /\ inHand' = {Head(ready).event}
        /\ UNCHANGED deleted
  /\ UNCHANGED <<schState, lastEventId, eventId, added, running, delivered, stopCalled>>

\* g_dispatcher.addTask(task)
Deliver(e) == /\ e \in inHand
              /\ inHand' = {}
              /\ delivered' = Append(delivered, e)
              /\ UNCHANGED <<schState, lastEventId, eventId, added, ready, timer,
                             running, deleted, stopCalled>>

\* shutdown's handler: the aborted waits become ready, but run() returns.
RunStop ==
  /\ Handler("stop")
  /\ running' = FALSE
  /\ LET waiting == {e \in Event : \E id \in EventId : timer[id] = e}
     IN \E seq \in [1 .. Cardinality(waiting) -> waiting] :
          /\ \A e \in waiting : \E i \in DOMAIN seq : seq[i] = e
          /\ ready' = Tail(ready) \o [i \in DOMAIN seq |-> Aborted(seq[i])]
  /\ timer' = [id \in EventId |-> IF timer[id] = Absent THEN Absent ELSE Completed]
  /\ UNCHANGED <<schState, lastEventId, eventId,
                 inHand, added, delivered, deleted, stopCalled>>

RunHandler == \/ RunArm \/ RunCancel \/ RunAborted \/ RunExpired \/ RunStop
              \/ \E e \in Event : Deliver(e)

SchNext == \/ \E e \in Event : AddEvent(e) \/ StopEvent(e)
           \/ SchStop \/ SchShutdown
           \/ \E id \in EventId : TimerExpires(id)
           \/ RunHandler

\* The thread runs and every delay passes; nobody has to call anything.
SchFairness == /\ WF_schVars(RunHandler)
               /\ \A id \in EventId : WF_schVars(TimerExpires(id))

SchSpec == SchInit /\ [][SchNext]_schVars /\ SchFairness

-----------------------------------------------------------------------------
(* Properties *)

Handlers == [op : {"arm", "expired", "aborted"}, event : Event]
              \cup [op : {"cancel"}, id : EventId] \cup [op : {"stop"}]

\* The values every variable takes; an event id fits its width.
SchTypeOK ==
  /\ schState \in {"RUNNING", "CLOSING", "TERMINATED"}
  /\ lastEventId \in EventId
  /\ eventId \in [Event -> EventId]
  /\ added \subseteq Event
  /\ ready \in Seq(Handlers)
  /\ timer \in [EventId -> Event \cup {Absent, Completed}]
  /\ running \in BOOLEAN
  /\ inHand \subseteq Event
  /\ delivered \in Seq(Event)
  /\ deleted \subseteq Event
  /\ stopCalled \subseteq added

ReadyFor(e, ops) ==
  {i \in DOMAIN ready : ready[i].op \in ops /\ ready[i].event = e}

Waiting(e) == {id \in EventId : timer[id] = e}

\* Whatever races between expiry, stopEvent and shutdown, an event is in one
\* place only: about to be armed, waiting, about to complete, in hand,
\* delivered, or deleted.  So none is run twice, freed twice, or forgotten.
EachEventOnce ==
  \A e \in added :
      Cardinality(ReadyFor(e, {"arm", "expired", "aborted"}))
    + Cardinality(Waiting(e))
    + Cardinality({e} \cap inHand)
    + Cardinality({i \in DOMAIN delivered : delivered[i] = e})
    + Cardinality({e} \cap deleted) = 1

\* No other event added so far got the same id (2^32 events later).
UniqueId(e) == \A x \in added : eventId[x] = eventId[e] => x = e

\* stopEvent reaches an event even when its addEvent has not been handled
\* yet, whoever else has its id: with no cancel of that id to come the event
\* no longer waits to expire.
StopTakesEffect ==
  \A e \in stopCalled :
    (eventId[e] # 0 /\ \A i \in DOMAIN ready : ready[i] # Cancel(eventId[e]))
      => Waiting(e) = {} /\ ReadyFor(e, {"arm"}) = {}

\* While the scheduler is up, an event is thrown away only if its owner
\* stopped it, or if its id was given out twice.
AbortedForAReason ==
  \A e \in deleted :
    e \in stopCalled \/ ~UniqueId(e) \/ schState = "TERMINATED"

\* Whatever the interleaving of addEvent, stopEvent, shutdown and expiry: every
\* event is in one place, a stopped one does not wait, and none is aborted
\* without a reason (scheduler.cpp:26-81).
EventsAccounted == SchTypeOK /\ EachEventOnce /\ StopTakesEffect /\ AbortedForAReason

\* An event nobody stops, with an id of its own, is delivered in the end
\* unless the server shuts down.
EventsAreDelivered ==
  []<>(\A e \in added : \/ \E i \in DOMAIN delivered : delivered[i] = e
                        \/ e \in stopCalled
                        \/ ~UniqueId(e)
                        \/ schState = "TERMINATED")
=============================================================================
