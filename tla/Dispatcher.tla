---------------------------- MODULE Dispatcher ----------------------------
(***************************************************************************)
(* class Dispatcher (src/engine/src/tasks.h, tasks.cpp): the queue of the  *)
(* one thread that runs all game logic.  The grain is the one the C++ code *)
(* has: a critical section under taskLock is one step, because nothing it  *)
(* touches except threadState is reachable without the lock and it reads   *)
(* threadState once; the notify_one that addTask issues after unlocking is *)
(* a step of its own, and so is each read of threadState in threadMain.    *)
(* stop() changes threadState without the lock.                            *)
(*                                                                         *)
(* The dispatcher thread itself may call addTask, stop and shutdown, but   *)
(* only from inside a task it is running.                                  *)
(***************************************************************************)
EXTENDS Naturals, Sequences, Functions

CONSTANTS Task,          \* tasks the rest of the server creates
          Expiring,      \* those created with an expiration (tasks.h:24)
          Terminator,    \* the task created by shutdown()
          Thread,        \* threads that call addTask, stop, shutdown
          DispThread     \* the dispatcher's own thread

ASSUME DispatcherAssumption == /\ Expiring \subseteq Task
                               /\ Terminator \notin Task
                               /\ DispThread \in Thread

RUNNING    == "RUNNING"      \* ThreadState of enums.h
CLOSING    == "CLOSING"
TERMINATED == "TERMINATED"

VARIABLES threadState,   \* ThreadHolder::threadState
          pc,            \* where threadMain is
          taskList,      \* Dispatcher::taskList
          batch,         \* tmpTaskList, from the task being run onwards
          notifying,     \* threads between the unlock and the notify_one of addTask
          accepted,      \* history: tasks pushed on taskList, in order
          handled,       \* history: tasks threadMain is done with, in order
          ran,           \* history: tasks whose function was called
          refused        \* history: tasks deleted by addTask

vars == <<threadState, pc, taskList, batch, notifying,
          accepted, handled, ran, refused>>

Entry == Task \cup {Terminator}

\* start(): the state is RUNNING before the thread exists.
Init == /\ threadState = RUNNING
        /\ pc = "test"
        /\ taskList = <<>>
        /\ batch = <<>>
        /\ notifying = {}
        /\ accepted = <<>>
        /\ handled = <<>>
        /\ ran = {}
        /\ refused = {}

-----------------------------------------------------------------------------
(* Callers *)

\* Code of thread t can run: the dispatcher thread only runs code of others
\* inside a task, and no thread does anything else while inside addTask.
MayCall(t) == /\ t \notin notifying
              /\ t = DispThread => pc = "inTask"

Fresh(task) == task \notin Range(accepted) /\ task \notin refused

\* Mutant: the list is looked at after the push_back, and is never empty.
PushLooksTooLate(t, task) ==
  /\ taskList' = Append(taskList, task)
  /\ accepted' = Append(accepted, task)
  /\ notifying' = IF taskList' = <<>> THEN notifying \cup {t} ELSE notifying
  /\ UNCHANGED refused

\* Mutant: a stack instead of a queue.
PushInFront(t, task) ==
  /\ taskList' = <<task>> \o taskList
  /\ accepted' = Append(accepted, task)
  /\ notifying' = IF taskList = <<>> THEN notifying \cup {t} ELSE notifying
  /\ UNCHANGED refused

\* addTask while RUNNING: push; signal only when the list was empty.
Push(t, task) ==
  /\ taskList' = Append(taskList, task)
  /\ accepted' = Append(accepted, task)
  /\ notifying' = IF taskList = <<>> THEN notifying \cup {t} ELSE notifying
  /\ UNCHANGED refused

AddTask(t, task) ==
  /\ MayCall(t)
  /\ Fresh(task)
  /\ \/ threadState = RUNNING /\ Push(t, task)
     \/ /\ threadState # RUNNING
        /\ refused' = refused \cup {task}
        /\ UNCHANGED <<taskList, accepted, notifying>>
  /\ UNCHANGED <<threadState, pc, batch, handled, ran>>

\* notify_one wakes the only thread that ever waits on taskSignal.
Woken == IF pc = "waiting" THEN "woken" ELSE pc

Notify(t) == /\ t \in notifying
             /\ notifying' = notifying \ {t}
             /\ pc' = Woken
             /\ UNCHANGED <<threadState, taskList, batch,
                            accepted, handled, ran, refused>>

\* ThreadHolder::stop.  It would take a terminated thread back to CLOSING,
\* but setGameState, its only caller, runs ahead of the terminator.
Stop(t) == /\ MayCall(t)
           /\ threadState # TERMINATED
           /\ threadState' = CLOSING
           /\ UNCHANGED <<pc, taskList, batch, notifying,
                          accepted, handled, ran, refused>>

\* Mutant: shutdown leaves the notify_one to addTask's callers.
ShutdownInSilence(t) == /\ MayCall(t)
                        /\ Fresh(Terminator)
                        /\ taskList' = Append(taskList, Terminator)
                        /\ accepted' = Append(accepted, Terminator)
                        /\ UNCHANGED <<threadState, pc, batch, notifying,
                                       handled, ran, refused>>

\* Mutant: the terminator overtakes the tasks that are waiting.
ShutdownAtOnce(t) == /\ MayCall(t)
                     /\ Fresh(Terminator)
                     /\ taskList' = <<Terminator>> \o taskList
                     /\ accepted' = Append(accepted, Terminator)
                     /\ pc' = Woken
                     /\ UNCHANGED <<threadState, batch, notifying,
                                    handled, ran, refused>>

\* shutdown(): pushes the terminator whatever the state, and notifies with
\* the lock still held, so push and notify are one step.  The server calls
\* it once: from Game::shutdown, or from main when nothing was started.
Shutdown(t) == /\ MayCall(t)
               /\ Fresh(Terminator)
               /\ taskList' = Append(taskList, Terminator)
               /\ accepted' = Append(accepted, Terminator)
               /\ pc' = Woken
               /\ UNCHANGED <<threadState, batch, notifying,
                              handled, ran, refused>>

-----------------------------------------------------------------------------
(* threadMain *)

TestState == /\ pc = "test"
             /\ pc' = IF threadState = TERMINATED THEN "exited" ELSE "lock"
             /\ UNCHANGED <<threadState, taskList, batch, notifying,
                            accepted, handled, ran, refused>>

\* Mutant: the list is copied rather than swapped.
SwapByCopy == /\ batch' = taskList
              /\ pc' = "run"
              /\ UNCHANGED <<taskList, threadState, notifying,
                             accepted, handled, ran, refused>>

\* tmpTaskList.swap(taskList): tmpTaskList was cleared, so taskList is empty
\* afterwards.  Done with the lock held, in the step that takes it.
Swap == /\ batch' = taskList
        /\ taskList' = <<>>
        /\ pc' = "run"
        /\ UNCHANGED <<threadState, notifying, accepted, handled, ran, refused>>

Take == /\ pc = "lock"
        /\ taskList # <<>>
        /\ Swap

Wait == /\ pc = "lock"
        /\ taskList = <<>>
        /\ pc' = "waiting"
        /\ UNCHANGED <<threadState, taskList, batch, notifying,
                       accepted, handled, ran, refused>>

\* The wait has no predicate: a spurious wake-up leaves it like a signal does.
SpuriousWake == /\ pc = "waiting"
                /\ pc' = "woken"
                /\ UNCHANGED <<threadState, taskList, batch, notifying,
                               accepted, handled, ran, refused>>

Relock == /\ pc = "woken"
          /\ Swap

Drop == /\ handled' = Append(handled, Head(batch))
        /\ batch' = Tail(batch)
        /\ pc' = "run"

\* hasExpired: only tasks with an expiration, and only if time has passed.
Expire == /\ pc = "run"
          /\ batch # <<>>
          /\ Head(batch) \in Expiring
          /\ Drop
          /\ UNCHANGED <<threadState, taskList, notifying,
                         accepted, ran, refused>>

\* (*task)() begins.  The terminator's own function stores TERMINATED.
BeginTask == /\ pc = "run"
             /\ batch # <<>>
             /\ pc' = "inTask"
             /\ ran' = ran \cup {Head(batch)}
             /\ threadState' = IF Head(batch) = Terminator
                               THEN TERMINATED ELSE threadState
             /\ UNCHANGED <<taskList, batch, notifying,
                            accepted, handled, refused>>

\* The task returns, which it cannot do from inside addTask.
EndTask == /\ pc = "inTask"
           /\ DispThread \notin notifying
           /\ Drop
           /\ UNCHANGED <<threadState, taskList, notifying,
                          accepted, ran, refused>>

\* Mutant: the loop over the batch breaks off once the thread is to end.
EndBatchEarly == /\ pc = "run"
                 /\ batch = <<>> \/ threadState = TERMINATED
                 /\ pc' = "test"
                 /\ UNCHANGED <<threadState, taskList, batch, notifying,
                                accepted, handled, ran, refused>>

\* The whole batch has been run, whatever the state has become meanwhile.
EndBatch == /\ pc = "run"
            /\ batch = <<>>
            /\ pc' = "test"
            /\ UNCHANGED <<threadState, taskList, batch, notifying,
                           accepted, handled, ran, refused>>

-----------------------------------------------------------------------------
ThreadMain == \/ TestState \/ Take \/ Wait \/ Relock
              \/ Expire \/ BeginTask \/ EndTask \/ EndBatch

Next == \/ ThreadMain
        \/ SpuriousWake
        \/ \E t \in Thread : \/ \E task \in Task : AddTask(t, task)
                             \/ Notify(t)
                             \/ Stop(t)
                             \/ Shutdown(t)

\* The operating system runs the dispatcher thread, and a thread that has
\* left the critical section of addTask goes on to its notify_one.  Nothing
\* forces a caller to call anything, and nothing produces spurious wake-ups.
Fairness == /\ WF_vars(ThreadMain)
            /\ \A t \in Thread : WF_vars(Notify(t))

Spec == Init /\ [][Next]_vars /\ Fairness

-----------------------------------------------------------------------------
(* Properties *)

\* The values every variable takes; the batch holds the task being run, and
\* is empty outside the loop that runs it.
TypeOK == /\ threadState \in {RUNNING, CLOSING, TERMINATED}
          /\ pc \in {"test", "lock", "waiting", "woken", "run", "inTask", "exited"}
          /\ taskList \in Seq(Entry)
          /\ batch \in Seq(Entry)
          /\ notifying \subseteq Thread
          /\ accepted \in Seq(Entry)
          /\ handled \in Seq(Entry)
          /\ ran \subseteq Entry
          /\ refused \subseteq Task
          /\ pc = "inTask" => batch # <<>>
          /\ pc \notin {"run", "inTask"} => batch = <<>>

\* addTask signals only when the list was empty and only after unlocking,
\* and the wait is not in a loop.  Even so the dispatcher thread never
\* sleeps on a non-empty list with nobody left to wake it.
NoLostWakeup == pc = "waiting" /\ taskList # <<>> => notifying # {}

\* Nothing is lost, duplicated or reordered across the swap of the two
\* lists: what was accepted is what was handled, then the rest of the batch,
\* then the list.
NothingLost == accepted = handled \o (batch \o taskList)

\* Once shutdown has been called, threadMain returns and can be joined.
ShutdownTerminates == []<>(Terminator \in Range(accepted) => pc = "exited")

\* Dispatcher implements the queue everyone else relies on, fairness
\* included: each accepted task is handled once, in order, and in the end.
Queue == INSTANCE TaskQueue
QueueSpec == Queue!Spec

\* The same without the fairness.
QueueSteps == Queue!Init /\ [][Queue!Next]_Queue!vars
=============================================================================
