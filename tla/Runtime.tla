------------------------------ MODULE Runtime ------------------------------
(***************************************************************************)
(* The threads of a server that is online, and how they end:               *)
(*   - the main thread, which runs the network io_service and the signal   *)
(*     handlers until ServiceManager::die, then joins the other threads;   *)
(*   - the dispatcher thread (Dispatcher), which runs every task;          *)
(*   - the scheduler thread (Scheduler), which hands expired events to the *)
(*     dispatcher;                                                         *)
(*   - the database worker (DatabaseTasks), which hands callbacks to it.   *)
(* A task's body is what the dispatcher thread does between BeginTask and  *)
(* EndTask.  Three kinds of body matter here: a signal handler, which calls*)
(* Game::setGameState(GAME_STATE_SHUTDOWN); Game::shutdown; and any other, *)
(* which may issue queries and add events.                                 *)
(***************************************************************************)
EXTENDS Naturals, Sequences, FiniteSets, Functions

CONSTANTS Signal,        \* tasks of SIGINT and SIGTERM
          Work,          \* tasks posted by the network code
          GameShutdown,  \* the task bound to Game::shutdown
          Terminator,    \* the task of Dispatcher::shutdown
          Query,         \* asynchronous queries
          WithCallback,  \* those whose callback is posted, as a task named alike
          Event,         \* scheduler tasks
          Main, Disp, Sched, Worker,   \* the threads
          IdLimit, Absent, Completed, NoQuery

Task == Signal \cup Work \cup {GameShutdown} \cup WithCallback \cup Event

ASSUME RuntimeAssumption ==
  /\ GameShutdown \notin Signal /\ Terminator \notin Task
  /\ WithCallback \subseteq Query /\ NoQuery \notin Query
  /\ Worker # Disp
  /\ IdLimit \in Nat \ {0}
  /\ Absent \notin Event /\ Completed \notin Event /\ Absent # Completed

VARIABLES
  threadState, pc, taskList, batch, notifying, accepted, handled, ran, refused,
  dbState, dbPc, tasks, hand, closing, queued, executed, lost, posted,
  schState, lastEventId, eventId, ready, timer, running, inHand,
  added, delivered, deleted, stopCalled,
  gameState,   \* Game::gameState: "NORMAL" or "SHUTDOWN"
  line,        \* the next statement of the task being run
  dying,       \* ServiceManager::stop has started death_timer
  mainPc       \* where main is

D == INSTANCE Dispatcher WITH Expiring <- {}, Thread <- {Main, Disp, Sched, Worker},
                              DispThread <- Disp
B == INSTANCE DatabaseTasks WITH Caller <- {Disp}
S == INSTANCE Scheduler

dVars == <<threadState, pc, taskList, batch, notifying, accepted, handled, ran, refused>>
bVars == <<dbState, dbPc, tasks, hand, closing, queued, executed, lost, posted>>
sVars == <<schState, lastEventId, eventId, ready, timer, running, inHand,
           added, delivered, deleted, stopCalled>>
ownVars == <<gameState, line, dying, mainPc>>
vars == <<dVars, bVars, sVars, ownVars>>

Init == /\ D!Init
        /\ B!DbInit
        /\ S!SchInit
        /\ gameState = "NORMAL"
        /\ line = "none"
        /\ dying = FALSE
        /\ mainPc = "run"

-----------------------------------------------------------------------------
(* The dispatcher thread *)

\* The thread is not inside addTask of the dispatcher, nor in a call to
\* DatabaseTasks.
Free(t) == /\ t \notin notifying
           /\ t = Disp => dbPc[Disp] = "idle"

\* Statement `from` of the body is next, and `to` the one after it.
At(from, to) == /\ pc = "inTask"
                /\ Free(Disp)
                /\ line = from
                /\ line' = to
                /\ UNCHANGED <<gameState, dying, mainPc>>

\* setGameState returns at once when the state is GAME_STATE_SHUTDOWN.
FirstLine(task) ==
  CASE task \in Signal -> IF gameState = "SHUTDOWN" THEN "return" ELSE "save"
    [] task = GameShutdown -> "scheduler"
    [] OTHER -> "return"

BeginTask == /\ D!BeginTask
             /\ line' = FirstLine(Head(batch))
             /\ gameState' = IF line' = "save" THEN "SHUTDOWN" ELSE gameState
             /\ UNCHANGED <<bVars, sVars, dying, mainPc>>

EndTask == /\ line = "return"
           /\ Free(Disp)
           /\ D!EndTask
           /\ line' = "none"
           /\ UNCHANGED <<bVars, sVars, gameState, dying, mainPc>>

\* Game code may do these: in setGameState the shutdown event and the logout
\* scripts, elsewhere the body of a packet, an event or a callback.
GameCode == /\ At(line, line)
            /\ \/ line = "save"
               \/ Head(batch) \in Work \cup Event \cup WithCallback

IssueQuery(q) == /\ GameCode
                 /\ B!DbAddTask(Disp, q)
                 /\ UNCHANGED <<dVars, sVars>>

\* Mutant: the timer is set on the caller's thread.
AddEventFromHere(e) ==
  /\ GameCode
  /\ e \notin added
  /\ lastEventId' = S!NextId
  /\ eventId' = [eventId EXCEPT ![e] = S!NextId]
  /\ added' = added \cup {e}
  /\ timer' = [timer EXCEPT ![S!NextId] = e]
  /\ UNCHANGED <<schState, ready, running, inHand, delivered, deleted, stopCalled,
                 dVars, bVars>>

\* stopEvent is left to Scheduler: it changes nothing for the other threads.
AddEvent(e) == /\ GameCode
               /\ S!AddEvent(e)
               /\ UNCHANGED <<dVars, bVars>>

\* case GAME_STATE_SHUTDOWN: saveGameState ends with a flush ...
SaveGameState == /\ At("save", "post")
                 /\ B!Flush(Disp)
                 /\ UNCHANGED <<dVars, sVars>>

\* Mutant: the dispatcher is closed before Game::shutdown is posted to it.
PostShutdownTooLate == /\ At("post", "stopScheduler")
                       /\ threadState' = "CLOSING"
                       /\ refused' = refused \cup {GameShutdown}
                       /\ UNCHANGED <<pc, taskList, batch, notifying, accepted,
                                      handled, ran, bVars, sVars>>

\* ... then Game::shutdown is posted, and all three threads are closed.
PostShutdown == /\ At("post", "stopScheduler")
                /\ D!AddTask(Disp, GameShutdown)
                /\ UNCHANGED <<bVars, sVars>>

StopScheduler == /\ At("stopScheduler", "stopDatabase")
                 /\ S!SchStop
                 /\ UNCHANGED <<dVars, bVars>>

StopDatabase == /\ At("stopDatabase", "stopDispatcher")
                /\ B!DbStop(Disp)
                /\ UNCHANGED <<dVars, sVars>>

StopDispatcher == /\ At("stopDispatcher", "return")
                  /\ D!Stop(Disp)
                  /\ UNCHANGED <<bVars, sVars>>

\* Game::shutdown
ShutdownScheduler == /\ At("scheduler", "database")
                     /\ S!SchShutdown
                     /\ UNCHANGED <<dVars, bVars>>

ShutdownDatabase == /\ At("database", "dispatcher")
                    /\ B!DbShutdown(Disp)
                    /\ UNCHANGED <<dVars, sVars>>

ShutdownDispatcher == /\ At("dispatcher", "services")
                      /\ D!Shutdown(Disp)
                      /\ UNCHANGED <<bVars, sVars>>

StopServices == /\ pc = "inTask"
                /\ line = "services"
                /\ line' = "return"
                /\ dying' = TRUE
                /\ UNCHANGED <<dVars, bVars, sVars, gameState, mainPc>>

\* Mutant: flush goes on until the worker has left.
DbCallAwaitsWorker ==
  /\ Disp \notin notifying
  /\ \/ B!DbNotify(Disp) \/ B!FlushPop(Disp) \/ B!Execute(Disp)
     \/ B!FlushEnd(Disp) /\ dbPc[Worker] = "exited"
  /\ UNCHANGED <<dVars, sVars, ownVars>>

\* The flush and the notify_one of the dispatcher thread's calls to
\* DatabaseTasks, except for the posting of callbacks.
DbCall == /\ Disp \notin notifying
          /\ B!DbNotify(Disp) \/ B!FlushPop(Disp) \/ B!FlushEnd(Disp) \/ B!Execute(Disp)
          /\ UNCHANGED <<dVars, sVars, ownVars>>

\* runTask on either thread: the callback is posted with g_dispatcher.addTask,
\* which no thread leaves before its notify_one.
DispPostsCallback == /\ Disp \notin notifying
                     /\ B!PostCallback(Disp)
                     /\ D!AddTask(Disp, hand[Disp])
                     /\ UNCHANGED <<sVars, ownVars>>

ThreadMain == /\ D!TestState \/ D!Take \/ D!Wait \/ D!Relock \/ D!EndBatch
              /\ UNCHANGED <<bVars, sVars, ownVars>>

Notify(t) == /\ D!Notify(t)
             /\ UNCHANGED <<bVars, sVars, ownVars>>

DispatcherStep ==
  \/ ThreadMain \/ BeginTask \/ EndTask
  \/ SaveGameState \/ PostShutdown
  \/ StopScheduler \/ StopDatabase \/ StopDispatcher
  \/ ShutdownScheduler \/ ShutdownDatabase \/ ShutdownDispatcher \/ StopServices
  \/ DbCall \/ DispPostsCallback \/ Notify(Disp)

-----------------------------------------------------------------------------
(* The other threads *)

WorkerPostsCallback == /\ B!PostCallback(Worker)
                       /\ D!AddTask(Worker, hand[Worker])
                       /\ UNCHANGED <<sVars, ownVars>>

WorkerStep ==
  \/ /\ Worker \notin notifying
     /\ \/ WorkerPostsCallback
        \/ /\ \/ B!DbTestState \/ B!DbTake \/ B!DbWait \/ B!DbWokenForNothing
              \/ B!Execute(Worker)
           /\ UNCHANGED <<dVars, sVars, ownVars>>
  \/ Notify(Worker)

SchedDelivers(e) == /\ S!Deliver(e)
                    /\ D!AddTask(Sched, e)
                    /\ UNCHANGED <<bVars, ownVars>>

SchedStep ==
  \/ /\ Sched \notin notifying
     /\ \/ \E e \in Event : SchedDelivers(e)
        \/ /\ S!RunArm \/ S!RunCancel \/ S!RunAborted \/ S!RunExpired \/ S!RunStop
           /\ UNCHANGED <<dVars, bVars, ownVars>>
  \/ Notify(Sched)

TimePasses(id) == /\ S!TimerExpires(id)
                  /\ UNCHANGED <<dVars, bVars, ownVars>>

\* The main thread in serviceManager.run(): packets and signals become tasks.
MainPosts(task) == /\ mainPc = "run"
                   /\ D!AddTask(Main, task)
                   /\ UNCHANGED <<bVars, sVars, ownVars>>

\* death_timer: io_service.stop(), three seconds after ServiceManager::stop.
Die == /\ mainPc = "run"
       /\ dying
       /\ mainPc' = "joinScheduler"

\* Mutant: the threads are detached.
Detach(ended, from, to) == /\ mainPc = from
                           /\ mainPc' = to

\* main joins the threads one after the other and returns.
Join(ended, from, to) == /\ mainPc = from
                         /\ ended
                         /\ mainPc' = to

MainStep ==
  \/ Notify(Main)
  \/ /\ Main \notin notifying
     /\ \/ Die
        \/ Join(~running /\ Sched \notin notifying, "joinScheduler", "joinDatabase")
        \/ Join(dbPc[Worker] = "exited", "joinDatabase", "joinDispatcher")
        \/ Join(pc = "exited", "joinDispatcher", "returned")
     /\ UNCHANGED <<dVars, bVars, sVars, gameState, line, dying>>

SpuriousWake == /\ \/ D!SpuriousWake /\ UNCHANGED bVars
                   \/ B!DbSpuriousWake /\ UNCHANGED dVars
                /\ UNCHANGED <<sVars, ownVars>>

Next == \/ DispatcherStep \/ WorkerStep \/ SchedStep \/ MainStep
        \/ SpuriousWake
        \/ \E q \in Query : IssueQuery(q)
        \/ \E e \in Event : AddEvent(e)
        \/ \E id \in S!EventId : TimePasses(id)
        \/ \E task \in Signal \cup Work : MainPosts(task)

\* All four threads are scheduled by the operating system, bodies of tasks
\* and queries return, and delays pass.
Fairness == /\ WF_vars(DispatcherStep)
            /\ WF_vars(WorkerStep)
            /\ WF_vars(SchedStep)
            /\ WF_vars(MainStep)
            /\ \A id \in S!EventId : WF_vars(TimePasses(id))

Spec == Init /\ [][Next]_vars /\ Fairness

-----------------------------------------------------------------------------
(* Properties *)

\* A process that ends has run every query anyone was told is queued, and
\* every task accepted before the terminator, whichever thread accepted it.
NothingOwedAtExit ==
  mainPc = "returned" =>
    /\ Range(queued) = Range(executed)
    /\ \A i \in DOMAIN accepted :
         accepted[i] \in Task =>
           \/ accepted[i] \in ran
           \/ \E j \in 1 .. i - 1 : accepted[j] = Terminator

\* Everything accepted while the server was still running has been handled
\* when Game::shutdown starts to take the server apart: only what was
\* accepted while setGameState was already past the flush comes later.
WorkBeforeShutdown ==
  line \in {"scheduler", "database", "dispatcher", "services"} =>
    \A i, j \in DOMAIN accepted :
      accepted[j] = GameShutdown /\ i < j => accepted[i] \in ran

\* The worker sleeps and nothing will wake it: DatabaseTasks::shutdown came
\* between its test of threadState and its wait.
WorkerAsleepForever ==
  dbState = "TERMINATED" /\ dbPc[Worker] = "waiting" /\ line # "database"
    /\ dbPc[Disp] = "idle"

ShutdownAsked == \E task \in Signal : task \in Range(accepted)

\* Composed with the others, each component takes no other steps than those its
\* own module gives it: what other threads do, the bodies of tasks above all,
\* they do through its operations, and with the tasks it knows.
ComponentSteps == /\ D!Init /\ [][D!Next]_dVars
                  /\ B!DbInit /\ [][B!DbNext]_bVars
                  /\ S!SchInit /\ [][S!SchNext]_sVars

\* A signal brings the process down, unless the database worker sleeps
\* through its shutdown.  Two signals do so no differently.
SignalEndsProcess ==
  []<>(ShutdownAsked => mainPc = "returned" \/ WorkerAsleepForever)

\* SIGINT and SIGTERM are what "Shuts the server down" (signals.cpp:152, 155):
\* once the task of one is accepted, main returns from its joins.
SignalShutsDown == ShutdownAsked ~> (mainPc = "returned")
=============================================================================
