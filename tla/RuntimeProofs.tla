--------------------------- MODULE RuntimeProofs ---------------------------
(***************************************************************************)
(* The process as a whole, for any signals, tasks, queries and events.     *)
(* First, that each component takes only its own steps in it; with that,   *)
(* what is proved of a component holds in the process.  Then, that a       *)
(* shutdown comes after the work it must not cut off, and that a process   *)
(* that has ended owes nothing: by an invariant (OwnInv) that says who has *)
(* ended each thread, and what that thread was left with.                  *)
(*                                                                         *)
(* Then what its tasks do: that scripts agree on who owns what (ScrInv),   *)
(* and that blows and spells cost what they should (CasInv), for which     *)
(* there is induction over finite sets (LeastSet, Recursion); and that all *)
(* of it holds of the behaviours MCRuntime checks.                         *)
(***************************************************************************)
EXTENDS MCRuntime, SequenceTheorems, FiniteSetTheorems, TLAPS

\* The proofs about the components, for the constants Runtime gives them.
QP == INSTANCE QueueProofs WITH Expiring <- {}, Thread <- {Main, Disp, Sched, Worker},
                                DispThread <- Disp, Caller <- {Disp}
SP == INSTANCE SchedulerProofs

\* Where the dispatcher thread is in the body of the task it runs.
BodyKept ==
  /\ pc = "inTask" <=> line # "none"
  /\ pc # "inTask" => dbPc[Disp] = "idle"
  /\ line \in {"scheduler", "database", "dispatcher", "services"} => Head(batch) = GameShutdown

\* No task is accepted twice, and a task that is handled has been run.
TasksRun ==
  /\ IsInjective(accepted)
  /\ Range(handled) \subseteq ran
  /\ pc = "inTask" => Head(batch) \in ran

\* Who has terminated the dispatcher, and what it leaves.
DispatcherEnds ==
  /\ threadState = "TERMINATED" =>
       \/ Terminator \in Range(handled)
       \/ pc = "inTask" /\ Head(batch) = Terminator
  /\ pc = "exited" => threadState = "TERMINATED"

\* Who has terminated the worker, and what it leaves to whom.
WorkerEnds ==
  /\ dbState = "TERMINATED" => tasks = <<>> \/ dbPc[Disp] \in {"pop", "execute", "post"}
  /\ dbPc[Worker] = "exited" => dbState = "TERMINATED"

\* What main has waited for.
Joined ==
  /\ mainPc \in {"joinDispatcher", "returned"} => dbPc[Worker] = "exited"
  /\ mainPc = "returned" => pc = "exited"

OwnInv == BodyKept /\ TasksRun /\ DispatcherEnds /\ WorkerEnds /\ Joined

ComponentInv == D!TypeOK /\ D!NothingLost /\ D!NoLostWakeup /\ QP!DbInv /\ SP!SchInv

-----------------------------------------------------------------------------
(* Dispatcher, DatabaseTasks and Scheduler are what the proofs are about *)

LEMMA SameDispatcher ==
  /\ D!Init <=> QP!Init
  /\ [D!Next]_dVars <=> [QP!Next]_(QP!vars)
  /\ (D!TypeOK <=> QP!TypeOK) /\ (D!TypeOK' <=> QP!TypeOK')
  /\ (D!NothingLost <=> QP!NothingLost) /\ (D!NothingLost' <=> QP!NothingLost')
  /\ (D!NoLostWakeup <=> QP!NoLostWakeup) /\ (D!NoLostWakeup' <=> QP!NoLostWakeup')
<1>1. D!Init <=> QP!Init
  BY DEF D!Init, QP!Init, D!RUNNING, QP!RUNNING
<1>2. D!Next <=> QP!Next
  BY DEF D!Next, QP!Next, D!ThreadMain, QP!ThreadMain, D!TestState, QP!TestState, D!Take,
         QP!Take, D!Wait, QP!Wait, D!Relock, QP!Relock, D!Expire, QP!Expire, D!BeginTask,
         QP!BeginTask, D!EndTask, QP!EndTask, D!EndBatch, QP!EndBatch, D!SpuriousWake,
         QP!SpuriousWake, D!AddTask, QP!AddTask, D!Notify, QP!Notify, D!Stop, QP!Stop,
         D!Shutdown, QP!Shutdown, D!MayCall, QP!MayCall, D!Fresh, QP!Fresh, D!Push,
         QP!Push, D!Woken, QP!Woken, D!Swap, QP!Swap, D!Drop, QP!Drop, D!RUNNING,
         QP!RUNNING, D!CLOSING, QP!CLOSING, D!TERMINATED, QP!TERMINATED, D!Range, QP!Range
<1>3. UNCHANGED dVars <=> UNCHANGED QP!vars
  BY DEF dVars, QP!vars
<1>4. (D!TypeOK <=> QP!TypeOK) /\ (D!TypeOK' <=> QP!TypeOK')
  BY DEF D!TypeOK, QP!TypeOK, D!Entry, QP!Entry, D!RUNNING, QP!RUNNING, D!CLOSING, QP!CLOSING,
         D!TERMINATED, QP!TERMINATED
<1>5. (D!NothingLost <=> QP!NothingLost) /\ (D!NothingLost' <=> QP!NothingLost')
  BY DEF D!NothingLost, QP!NothingLost
<1>6. (D!NoLostWakeup <=> QP!NoLostWakeup) /\ (D!NoLostWakeup' <=> QP!NoLostWakeup')
  BY DEF D!NoLostWakeup, QP!NoLostWakeup
<1> QED BY <1>1, <1>2, <1>3, <1>4, <1>5, <1>6

LEMMA SameDatabaseTasks ==
  /\ B!DbInit <=> QP!DbInit
  /\ [B!DbNext]_bVars <=> [QP!DbNext]_(QP!dbVars)
<1>1. B!DbInit <=> QP!DbInit
  BY DEF B!DbInit, QP!DbInit, B!Holder, QP!Holder
<1>2. B!DbNext <=> QP!DbNext
  BY DEF B!DbNext, QP!DbNext, B!DbThreadMain, QP!DbThreadMain, B!DbTestState,
         QP!DbTestState, B!DbTake, QP!DbTake, B!DbWait, QP!DbWait, B!DbWokenForNothing,
         QP!DbWokenForNothing, B!Execute, QP!Execute, B!PostCallback, QP!PostCallback,
         B!DbSpuriousWake, QP!DbSpuriousWake, B!DbFinishCall, QP!DbFinishCall, B!DbStop,
         QP!DbStop, B!Flush, QP!Flush, B!DbShutdown, QP!DbShutdown, B!DbAddTask,
         QP!DbAddTask, B!Go, QP!Go, B!Pop, QP!Pop, B!Finish, QP!Finish, B!Resume,
         QP!Resume, B!DbNotify, QP!DbNotify, B!Awake, QP!Awake, B!FlushPop, QP!FlushPop,
         B!FlushEnd, QP!FlushEnd, B!Unused, QP!Unused, B!Enqueue, QP!Enqueue, B!Range,
         QP!Range
<1>3. UNCHANGED bVars <=> UNCHANGED QP!dbVars
  BY DEF bVars, QP!dbVars
<1> QED BY <1>1, <1>2, <1>3

LEMMA SameScheduler ==
  /\ S!SchInit <=> SP!SchInit
  /\ [S!SchNext]_sVars <=> [SP!SchNext]_(SP!schVars)
<1>1. S!SchInit <=> SP!SchInit
  BY DEF S!SchInit, SP!SchInit, S!EventId, SP!EventId
<1>2. S!RunStop <=> SP!RunStop
  <2>1. \A x : S!Cardinality(x) = SP!Cardinality(x)
    BY DEF S!Cardinality, SP!Cardinality
  <2> QED BY <2>1 DEF S!RunStop, SP!RunStop, S!Handler, SP!Handler, S!EventId, SP!EventId,
         S!Aborted, SP!Aborted
<1>3. \A e : S!AddEvent(e) <=> SP!AddEvent(e)
  BY DEF S!AddEvent, SP!AddEvent, S!NextId, SP!NextId, S!Arm, SP!Arm
<1>4. \A e : S!StopEvent(e) <=> SP!StopEvent(e)
  BY DEF S!StopEvent, SP!StopEvent, S!Cancel, SP!Cancel
<1>5. \A e : S!Deliver(e) <=> SP!Deliver(e)
  BY DEF S!Deliver, SP!Deliver
<1>6. \A id : S!TimerExpires(id) <=> SP!TimerExpires(id)
  BY DEF S!TimerExpires, SP!TimerExpires, S!Expired, SP!Expired
<1>7. (S!SchStop <=> SP!SchStop) /\ (S!SchShutdown <=> SP!SchShutdown)
  BY DEF S!SchStop, SP!SchStop, S!SchShutdown, SP!SchShutdown, S!CancelAll, SP!CancelAll
<1>8. (S!RunArm <=> SP!RunArm) /\ (S!RunCancel <=> SP!RunCancel)
  BY DEF S!RunArm, SP!RunArm, S!RunCancel, SP!RunCancel, S!Handler, SP!Handler, S!Abort,
         SP!Abort, S!Aborted, SP!Aborted
<1>9. (S!RunAborted <=> SP!RunAborted) /\ (S!RunExpired <=> SP!RunExpired)
  BY DEF S!RunAborted, SP!RunAborted, S!RunExpired, SP!RunExpired, S!Handler, SP!Handler,
         S!Abort, SP!Abort, S!Aborted, SP!Aborted, S!EraseId, SP!EraseId, S!Over, SP!Over
<1>10. S!EventId = SP!EventId
  BY DEF S!EventId, SP!EventId
<1>11. S!RunHandler <=> SP!RunHandler
  BY <1>2, <1>5, <1>8, <1>9, Zenon DEF S!RunHandler, SP!RunHandler
<1>12. S!SchNext <=> SP!SchNext
  BY <1>3, <1>4, <1>6, <1>7, <1>10, <1>11, Zenon DEF S!SchNext, SP!SchNext
<1>13. UNCHANGED sVars <=> UNCHANGED SP!schVars
  BY DEF sVars, SP!schVars
<1> QED BY <1>1, <1>12, <1>13

-----------------------------------------------------------------------------
(* The steps of the process, seen by each component *)

\* Every task that is posted is one the dispatcher knows: a thread that posts a
\* callback holds a query that has one.
LEMMA DispatcherSteps ==
  ASSUME QP!DbInv, Next PROVE [D!Next]_dVars
<1> DEFINE T == {Main, Disp, Sched, Worker}
<1> SUFFICES ASSUME ~ UNCHANGED dVars PROVE D!Next
  OBVIOUS
<1>1. Task = Signal \cup Work \cup {GameShutdown} \cup WithCallback \cup Event
  BY DEF Task
<1>2. ASSUME NEW h \in {Disp, Worker}, B!PostCallback(h) PROVE hand[h] \in Task
  <2>1. dbPc[h] = "post" /\ h \in QP!Holder
    BY <1>2 DEF B!PostCallback, QP!Holder
  <2>2. hand[h] \in WithCallback
    BY <2>1 DEF QP!DbInv, QP!Hands
  <2> QED BY <2>2 DEF Task
<1>3. ASSUME NEW t \in T, NEW task \in Task, D!AddTask(t, task) PROVE D!Next
  BY <1>3 DEF D!Next
<1>4. ASSUME NEW t \in T, D!Notify(t) \/ D!Stop(t) \/ D!Shutdown(t) PROVE D!Next
  BY <1>4 DEF D!Next
<1>5. CASE D!ThreadMain
  BY <1>5 DEF D!Next
<1>6. CASE DispatcherStep
  <2>1. CASE ThreadMain \/ BeginTask \/ EndTask
    BY <2>1 DEF ThreadMain, BeginTask, EndTask, D!Next, D!ThreadMain
  <2>2. CASE PostShutdown
    <3>1. D!AddTask(Disp, GameShutdown) /\ GameShutdown \in Task
      BY <2>2 DEF PostShutdown, Task
    <3> QED BY <3>1, <1>3
  <2>3. CASE StopDispatcher \/ ShutdownDispatcher \/ Notify(Disp)
    BY <2>3, <1>4 DEF StopDispatcher, ShutdownDispatcher, Notify
  <2>4. CASE DispPostsCallback
    <3>1. D!AddTask(Disp, hand[Disp]) /\ hand[Disp] \in Task
      BY <2>4, <1>2 DEF DispPostsCallback
    <3> QED BY <3>1, <1>3
  <2>5. CASE \/ SaveGameState \/ StopScheduler \/ StopDatabase \/ ShutdownScheduler
             \/ ShutdownDatabase \/ StopServices \/ DbCall
    BY <2>5 DEF SaveGameState, StopScheduler, StopDatabase, ShutdownScheduler,
                ShutdownDatabase, StopServices, DbCall
  <2> QED BY <1>6, <2>1, <2>2, <2>3, <2>4, <2>5 DEF DispatcherStep
<1>7. CASE WorkerStep
  <2>1. CASE WorkerPostsCallback
    <3>1. D!AddTask(Worker, hand[Worker]) /\ hand[Worker] \in Task
      BY <2>1, <1>2 DEF WorkerPostsCallback
    <3> QED BY <3>1, <1>3
  <2>2. CASE Notify(Worker)
    BY <2>2, <1>4 DEF Notify
  <2> QED BY <1>7, <2>1, <2>2 DEF WorkerStep
<1>8. CASE SchedStep
  <2>1. ASSUME NEW e \in Event, SchedDelivers(e) PROVE D!Next
    <3>1. D!AddTask(Sched, e) /\ e \in Task
      BY <2>1 DEF SchedDelivers, Task
    <3> QED BY <3>1, <1>3
  <2>2. CASE Notify(Sched)
    BY <2>2, <1>4 DEF Notify
  <2> QED BY <1>8, <2>1, <2>2 DEF SchedStep
<1>9. CASE MainStep
  <2>1. CASE Notify(Main)
    BY <2>1, <1>4 DEF Notify
  <2> QED BY <1>9, <2>1 DEF MainStep
<1>10. CASE SpuriousWake
  BY <1>10 DEF SpuriousWake, D!Next
<1>11. ASSUME NEW task \in Signal \cup Work, MainPosts(task) PROVE D!Next
  <2>1. D!AddTask(Main, task) /\ task \in Task
    BY <1>11 DEF MainPosts, Task
  <2> QED BY <2>1, <1>3
<1>12. \A q : ~ IssueQuery(q)
  BY DEF IssueQuery
<1>13. \A e : ~ AddEvent(e)
  BY DEF AddEvent
<1>14. \A id : ~ TimePasses(id)
  BY DEF TimePasses
<1> QED
  BY <1>6, <1>7, <1>8, <1>9, <1>10, <1>11, <1>12, <1>13, <1>14 DEF Next

LEMMA DatabaseSteps ==
  ASSUME Next PROVE [B!DbNext]_bVars
<1> SUFFICES ASSUME ~ UNCHANGED bVars PROVE B!DbNext
  OBVIOUS
<1>1. CASE DispatcherStep
  <2>1. CASE SaveGameState \/ StopDatabase \/ ShutdownDatabase
    BY <2>1 DEF SaveGameState, StopDatabase, ShutdownDatabase, B!DbNext
  <2>2. CASE DbCall \/ DispPostsCallback
    BY <2>2 DEF DbCall, DispPostsCallback, B!DbNext, B!DbFinishCall
  <2> QED
    BY <1>1, <2>1, <2>2 DEF DispatcherStep, ThreadMain, BeginTask, EndTask, PostShutdown,
                            StopScheduler, StopDispatcher, ShutdownScheduler,
                            ShutdownDispatcher, StopServices, Notify
<1>2. CASE WorkerStep
  <2>1. CASE WorkerPostsCallback
    BY <2>1 DEF WorkerPostsCallback, B!DbNext, B!DbThreadMain
  <2>2. CASE Notify(Worker)
    BY <2>2 DEF Notify
  <2> QED BY <1>2, <2>1, <2>2 DEF WorkerStep, B!DbNext, B!DbThreadMain
<1>3. CASE SpuriousWake
  BY <1>3 DEF SpuriousWake, B!DbNext
<1>4. ASSUME NEW q \in Query, IssueQuery(q) PROVE B!DbNext
  BY <1>4 DEF IssueQuery, B!DbNext
<1>5. CASE SchedStep
  BY <1>5 DEF SchedStep, SchedDelivers, Notify
<1>6. CASE MainStep
  BY <1>6 DEF MainStep, Notify
<1>7. (\A e : ~ AddEvent(e)) /\ (\A id : ~ TimePasses(id)) /\ (\A task : ~ MainPosts(task))
  BY DEF AddEvent, TimePasses, MainPosts
<1> QED
  BY <1>1, <1>2, <1>3, <1>4, <1>5, <1>6, <1>7 DEF Next

LEMMA SchedulerSteps ==
  ASSUME Next PROVE [S!SchNext]_sVars
<1> SUFFICES ASSUME ~ UNCHANGED sVars PROVE S!SchNext
  OBVIOUS
<1>1. CASE DispatcherStep
  BY <1>1 DEF DispatcherStep, ThreadMain, BeginTask, EndTask, SaveGameState, PostShutdown,
              StopScheduler, StopDatabase, StopDispatcher, ShutdownScheduler,
              ShutdownDatabase, ShutdownDispatcher, StopServices, DbCall,
              DispPostsCallback, Notify, S!SchNext
<1>2. CASE SchedStep
  BY <1>2 DEF SchedStep, SchedDelivers, Notify, S!SchNext, S!RunHandler
<1>3. ASSUME NEW e \in Event, AddEvent(e) PROVE S!SchNext
  BY <1>3 DEF AddEvent, S!SchNext
<1>4. ASSUME NEW id \in S!EventId, TimePasses(id) PROVE S!SchNext
  BY <1>4 DEF TimePasses, S!SchNext
<1>5. CASE WorkerStep
  BY <1>5 DEF WorkerStep, WorkerPostsCallback, Notify
<1>6. CASE MainStep \/ SpuriousWake
  BY <1>6 DEF MainStep, Notify, SpuriousWake
<1>7. (\A q : ~ IssueQuery(q)) /\ (\A task : ~ MainPosts(task))
  BY DEF IssueQuery, MainPosts
<1> QED
  BY <1>1, <1>2, <1>3, <1>4, <1>5, <1>6, <1>7 DEF Next

-----------------------------------------------------------------------------
(* The dispatcher's part of OwnInv *)

LEMMA Appended ==
  ASSUME NEW X, NEW s \in Seq(X), NEW e \in X
  PROVE  /\ Range(Append(s, e)) = Range(s) \cup {e}
         /\ IsInjective(s) /\ e \notin Range(s) => IsInjective(Append(s, e))
BY RuntimeAssumption, QP!AppendRange DEF Range, QP!Range, IsInjective, QP!IsInjective

\* What a step does to the tasks that have been accepted and handled.
LEMMA DispatcherMoves ==
  ASSUME D!TypeOK, D!Next
  PROVE  /\ \/ accepted' = accepted
            \/ \E e \in D!Entry : accepted' = Append(accepted, e) /\ e \notin Range(accepted)
         /\ \/ handled' = handled /\ (pc = "inTask" => pc' = "inTask" /\ batch' = batch)
            \/ pc = "inTask" /\ pc' = "run" /\ handled' = Append(handled, Head(batch))
         /\ ran \subseteq ran'
         /\ pc' = "inTask" => pc = "inTask" \/ D!BeginTask
         /\ threadState' = "TERMINATED" => threadState = "TERMINATED" \/ D!BeginTask
         /\ threadState = "TERMINATED" => threadState' = "TERMINATED"
         /\ pc' = "exited" => pc = "exited" \/ D!TestState
         /\ pc = "exited" => pc' = "exited"
<1> USE DEF D!RUNNING, D!CLOSING, D!TERMINATED
<1> DEFINE T == {Main, Disp, Sched, Worker}
<1>1. \A e : D!Fresh(e) => e \notin Range(accepted)
  BY DEF D!Fresh, D!Range, Range
<1>2. ASSUME NEW t \in T, NEW task \in Task, D!AddTask(t, task)
      PROVE  \/ accepted' = accepted
             \/ \E e \in D!Entry : accepted' = Append(accepted, e) /\ e \notin Range(accepted)
  BY <1>1, <1>2 DEF D!AddTask, D!Push, D!Entry
<1>3. CASE \E t \in T, task \in Task : D!AddTask(t, task)
  <2>1. /\ threadState' = threadState /\ pc' = pc /\ batch' = batch
        /\ handled' = handled /\ ran' = ran
    BY <1>3 DEF D!AddTask
  <2> QED BY <1>2, <1>3, <2>1
<1>4. CASE \E t \in T : D!Shutdown(t)
  <2>1. accepted' = Append(accepted, Terminator) /\ Terminator \notin Range(accepted)
        /\ Terminator \in D!Entry
    BY <1>1, <1>4 DEF D!Shutdown, D!Entry
  <2>2. /\ threadState' = threadState /\ pc' = D!Woken /\ batch' = batch
        /\ handled' = handled /\ ran' = ran
    BY <1>4 DEF D!Shutdown
  <2> QED BY <2>1, <2>2 DEF D!Woken
<1>5. CASE \E t \in T : D!Stop(t) \/ D!Notify(t)
  BY <1>5 DEF D!Stop, D!Notify, D!Woken
<1>6. CASE D!EndTask
  BY <1>6 DEF D!EndTask, D!Drop
<1>7. CASE D!BeginTask
  BY <1>7 DEF D!BeginTask
<1>8. CASE D!Take \/ D!Relock
  BY <1>8 DEF D!Take, D!Relock, D!Swap
<1>9. CASE D!TestState \/ D!Wait \/ D!EndBatch \/ D!SpuriousWake
  BY <1>9 DEF D!TestState, D!Wait, D!EndBatch, D!SpuriousWake
<1>10. ~ D!Expire
  BY DEF D!Expire
<1> QED
  BY <1>3, <1>4, <1>5, <1>6, <1>7, <1>8, <1>9, <1>10 DEF D!Next, D!ThreadMain

LEMMA TasksRunKept ==
  ASSUME D!TypeOK, TasksRun, [D!Next]_dVars PROVE TasksRun'
<1>1. CASE UNCHANGED dVars
  BY <1>1 DEF TasksRun, dVars
<1>2. CASE D!Next
  <2>1. accepted \in Seq(D!Entry) /\ handled \in Seq(D!Entry) /\ batch \in Seq(D!Entry)
        /\ (pc = "inTask" => batch # <<>>)
    BY DEF D!TypeOK
  <2>2. IsInjective(accepted)'
    <3>1. IsInjective(accepted)
      BY DEF TasksRun
    <3>2. ASSUME NEW e \in D!Entry, accepted' = Append(accepted, e), e \notin Range(accepted)
          PROVE  IsInjective(accepted')
      BY <2>1, <3>1, <3>2, Appended
    <3> QED BY <1>2, <3>1, <3>2, DispatcherMoves
  <2>3. Range(handled)' \subseteq ran'
    <3>1. CASE handled' = handled
      BY <1>2, <3>1, DispatcherMoves DEF TasksRun
    <3>2. CASE pc = "inTask" /\ handled' = Append(handled, Head(batch))
      <4>1. Head(batch) \in D!Entry /\ Head(batch) \in ran
        BY <2>1, <3>2, HeadTailProperties DEF TasksRun
      <4>2. Range(handled') = Range(handled) \cup {Head(batch)}
        BY <2>1, <3>2, <4>1, Appended
      <4> QED BY <1>2, <4>1, <4>2, DispatcherMoves DEF TasksRun
    <3> QED BY <1>2, <3>1, <3>2, DispatcherMoves
  <2>4. ASSUME pc' = "inTask" PROVE Head(batch)' \in ran'
    <3>1. CASE D!BeginTask
      BY <3>1 DEF D!BeginTask
    <3>2. CASE pc = "inTask"
      BY <1>2, <2>4, <3>2, DispatcherMoves DEF TasksRun
    <3> QED BY <1>2, <2>4, <3>1, <3>2, DispatcherMoves
  <2> QED BY <2>2, <2>3, <2>4 DEF TasksRun
<1> QED BY <1>1, <1>2

LEMMA DispatcherEndsKept ==
  ASSUME D!TypeOK, DispatcherEnds, [D!Next]_dVars PROVE DispatcherEnds'
<1>1. CASE UNCHANGED dVars
  BY <1>1 DEF DispatcherEnds, dVars
<1>2. CASE D!Next
  <2>1. handled \in Seq(D!Entry) /\ batch \in Seq(D!Entry)
        /\ (pc = "inTask" => batch # <<>>)
    BY DEF D!TypeOK
  <2>2. Range(handled) \subseteq Range(handled')
        /\ (pc = "inTask" /\ handled' # handled => Head(batch) \in Range(handled'))
    <3>1. ASSUME pc = "inTask", handled' = Append(handled, Head(batch))
          PROVE  Range(handled') = Range(handled) \cup {Head(batch)}
      <4>1. Head(batch) \in D!Entry
        BY <2>1, <3>1, HeadTailProperties
      <4> QED BY <2>1, <3>1, <4>1, Appended
    <3> QED BY <1>2, <3>1, DispatcherMoves
  <2>3. ASSUME threadState' = "TERMINATED"
        PROVE  \/ Terminator \in Range(handled')
               \/ pc' = "inTask" /\ Head(batch') = Terminator
    <3>1. CASE threadState = "TERMINATED"
      <4>1. CASE Terminator \in Range(handled)
        BY <2>2, <4>1
      <4>2. CASE pc = "inTask" /\ Head(batch) = Terminator
        <5>1. CASE handled' = handled /\ pc' = "inTask" /\ batch' = batch
          BY <4>2, <5>1
        <5>2. CASE pc' = "run" /\ handled' = Append(handled, Head(batch))
          <6>1. Head(batch) \in D!Entry
            BY <2>1, <4>2, HeadTailProperties
          <6> QED BY <2>1, <4>2, <5>2, <6>1, Appended
        <5> QED BY <1>2, <4>2, <5>1, <5>2, DispatcherMoves
      <4> QED BY <3>1, <4>1, <4>2 DEF DispatcherEnds
    <3>2. CASE threadState # "TERMINATED"
      <4>1. D!BeginTask
        BY <1>2, <2>3, <3>2, DispatcherMoves
      <4> QED BY <2>3, <3>2, <4>1 DEF D!BeginTask
    <3> QED BY <3>1, <3>2
  <2>4. ASSUME pc' = "exited" PROVE threadState' = "TERMINATED"
    <3>1. CASE pc = "exited"
      BY <1>2, <3>1, DispatcherMoves DEF DispatcherEnds
    <3>2. CASE D!TestState
      BY <2>4, <3>2 DEF D!TestState, D!TERMINATED
    <3> QED BY <1>2, <2>4, <3>1, <3>2, DispatcherMoves
  <2> QED BY <2>3, <2>4 DEF DispatcherEnds
<1> QED BY <1>1, <1>2

-----------------------------------------------------------------------------
(* The worker's part of OwnInv *)

\* The program counters of the two threads that are ever inside DatabaseTasks.
LEMMA Counters ==
  ASSUME QP!DbInv
  PROVE  \A to : /\ [dbPc EXCEPT ![Disp] = to][Disp] = to
                 /\ [dbPc EXCEPT ![Disp] = to][Worker] = dbPc[Worker]
                 /\ [dbPc EXCEPT ![Worker] = to][Disp] = dbPc[Disp]
                 /\ [dbPc EXCEPT ![Worker] = to][Worker] = to
<1>1. Disp \in DOMAIN dbPc /\ Worker \in DOMAIN dbPc
  BY DEF QP!DbInv, QP!DbTypeOK, QP!Holder
<1> QED BY <1>1, RuntimeAssumption

\* What a step does to the list, to who is in flush and to the worker's end.
LEMMA DatabaseMoves ==
  ASSUME QP!DbInv, B!DbNext
  PROVE  /\ dbState = "TERMINATED" =>
              /\ dbState' = "TERMINATED"
              /\ tasks = <<>> => tasks' = <<>>
              /\ dbPc[Disp] \in {"pop", "execute", "post"} =>
                   tasks' = <<>> \/ dbPc'[Disp] \in {"pop", "execute", "post"}
         /\ dbState # "TERMINATED" /\ dbState' = "TERMINATED" => dbPc'[Disp] = "pop"
         /\ dbPc'[Worker] = "exited" => dbPc[Worker] = "exited" \/ dbState' = "TERMINATED"
         /\ dbPc[Worker] = "exited" => dbPc'[Worker] = "exited"
<1> USE RuntimeAssumption, Counters
<1>0. Disp \in DOMAIN dbPc /\ Worker \in DOMAIN dbPc
  BY DEF QP!DbInv, QP!DbTypeOK, QP!Holder
<1>1. CASE \E q \in Query : B!DbAddTask(Disp, q)
  <2>1. dbPc[Disp] = "idle" /\ dbState' = dbState
    BY <1>1 DEF B!DbAddTask
  <2>2. CASE dbState = "RUNNING"
    <3>1. dbPc'[Worker] = dbPc[Worker]
      BY ZenonT(30), <1>1, <2>2 DEF B!DbAddTask, B!Enqueue, B!Go
    <3> QED BY <2>1, <2>2, <3>1
  <2>3. CASE dbState # "RUNNING"
    BY <1>1, <2>1, <2>3 DEF B!DbAddTask
  <2> QED BY <2>2, <2>3
<1>2. CASE B!DbNotify(Disp)
  BY <1>0, <1>2 DEF B!DbNotify, B!Awake
<1>3. CASE B!DbStop(Disp) \/ B!Flush(Disp) \/ B!DbShutdown(Disp)
  BY SMTT(30), <1>3 DEF B!DbStop, B!Flush, B!DbShutdown, B!Go
<1>4. CASE B!FlushPop(Disp)
  BY <1>4 DEF B!FlushPop, B!Pop, B!Go
<1>5. CASE B!FlushEnd(Disp)
  BY <1>5 DEF B!FlushEnd, B!Go
<1>6. CASE B!Execute(Disp)
  <2>1. /\ \E to \in {"post", "pop"} : dbPc' = [dbPc EXCEPT ![Disp] = to]
        /\ tasks' = tasks /\ dbState' = dbState
    BY <1>6 DEF B!Execute, B!Go, B!Finish, B!Resume
  <2> QED BY <1>0, <2>1
<1>7. CASE B!PostCallback(Disp)
  <2>1. dbPc' = [dbPc EXCEPT ![Disp] = "pop"] /\ tasks' = tasks /\ dbState' = dbState
    BY <1>7 DEF B!PostCallback, B!Go, B!Finish, B!Resume
  <2> QED BY <1>0, <2>1
<1>8. CASE B!Execute(Worker)
  <2>1. /\ \E to \in {"post", "test"} : dbPc' = [dbPc EXCEPT ![Worker] = to]
        /\ dbPc[Worker] = "execute" /\ tasks' = tasks /\ dbState' = dbState
    BY <1>8 DEF B!Execute, B!Go, B!Finish, B!Resume
  <2> QED BY <1>0, <2>1
<1>9. CASE B!PostCallback(Worker)
  <2>1. dbPc' = [dbPc EXCEPT ![Worker] = "test"] /\ dbPc[Worker] = "post"
        /\ tasks' = tasks /\ dbState' = dbState
    BY <1>9 DEF B!PostCallback, B!Go, B!Finish, B!Resume
  <2> QED BY <1>0, <2>1
<1>10. CASE B!DbTake
  BY <1>10 DEF B!DbTake, B!Pop, B!Go
<1>11. CASE B!DbTestState \/ B!DbWait \/ B!DbWokenForNothing \/ B!DbSpuriousWake
  BY <1>11 DEF B!DbTestState, B!DbWait, B!DbWokenForNothing, B!DbSpuriousWake, B!Go
<1> QED
  BY <1>1, <1>2, <1>3, <1>4, <1>5, <1>6, <1>7, <1>8, <1>9, <1>10, <1>11
  DEF B!DbNext, B!DbThreadMain, B!DbFinishCall

LEMMA WorkerEndsKept ==
  ASSUME QP!DbInv, WorkerEnds, [B!DbNext]_bVars PROVE WorkerEnds'
<1>1. CASE UNCHANGED bVars
  BY <1>1 DEF WorkerEnds, bVars
<1>2. CASE B!DbNext
  BY <1>2, DatabaseMoves DEF WorkerEnds
<1> QED BY <1>1, <1>2

-----------------------------------------------------------------------------
(* The rest of OwnInv *)

LEMMA BodyKeeps ==
  ASSUME D!TypeOK, QP!DbInv, BodyKept, Next PROVE BodyKept'
<1> USE RuntimeAssumption, Counters
<1> DEFINE Halt == {"scheduler", "database", "dispatcher", "services"}
<1>0. Disp \in DOMAIN dbPc /\ Worker \in DOMAIN dbPc
  BY DEF QP!DbInv, QP!DbTypeOK, QP!Holder
\* What most steps leave alone.
<1>a. ASSUME pc' = pc \/ (pc # "inTask" /\ pc' # "inTask"), line' = line,
             pc = "inTask" => batch' = batch, dbPc'[Disp] = dbPc[Disp] \/ pc = "inTask"
      PROVE  BodyKept'
  BY <1>a DEF BodyKept
\* The body of a task goes on.
<1>b. ASSUME pc = "inTask", pc' = pc, batch' = batch, line' # "none",
             line' \in Halt => line \in Halt
      PROVE  BodyKept'
  BY <1>b DEF BodyKept
<1>1. CASE ThreadMain
  BY <1>1, <1>a DEF ThreadMain, D!TestState, D!Take, D!Wait, D!Relock, D!EndBatch, D!Swap,
         bVars, ownVars
<1>2. CASE BeginTask
  BY <1>2 DEF BeginTask, D!BeginTask, FirstLine, BodyKept, bVars
<1>3. CASE EndTask
  BY <1>3 DEF EndTask, D!EndTask, D!Drop, Free, BodyKept, bVars
<1>4. ASSUME NEW t, D!AddTask(t, GameShutdown) \/ D!Stop(t) PROVE pc' = pc /\ batch' = batch
  BY <1>4 DEF D!AddTask, D!Stop
<1>5. CASE PostShutdown \/ StopDispatcher
  BY <1>4, <1>5, <1>b DEF PostShutdown, StopDispatcher, At
<1>6. CASE ShutdownDispatcher
  BY <1>6, <1>b DEF ShutdownDispatcher, At, D!Shutdown, D!Woken
<1>7. CASE \/ SaveGameState \/ StopScheduler \/ StopDatabase \/ ShutdownScheduler
           \/ ShutdownDatabase \/ StopServices
  BY <1>7, <1>b DEF SaveGameState, StopScheduler, StopDatabase, ShutdownScheduler,
                    ShutdownDatabase, StopServices, At, dVars
<1>8. CASE DbCall \/ DispPostsCallback
  <2>1. dbPc[Disp] # "idle"
    BY <1>8 DEF DbCall, DispPostsCallback, B!DbNotify, B!FlushPop, B!FlushEnd,
           B!Execute, B!PostCallback
  <2>2. pc = "inTask"
    BY <2>1 DEF BodyKept
  <2>3. pc' = pc /\ batch' = batch /\ line' = line
    BY <1>8 DEF DbCall, DispPostsCallback, D!AddTask, dVars, ownVars
  <2> QED BY <1>a, <2>2, <2>3
<1>9. ASSUME NEW t, Notify(t) PROVE BodyKept'
  BY <1>9, <1>a DEF Notify, D!Notify, D!Woken, bVars, ownVars
<1>10. CASE DispatcherStep
  BY <1>1, <1>2, <1>3, <1>5, <1>6, <1>7, <1>8, <1>9, <1>10 DEF DispatcherStep
<1>11. CASE WorkerStep
  <2>1. CASE WorkerPostsCallback
    BY <2>1, <1>a DEF WorkerPostsCallback, B!PostCallback, B!Finish, B!Go, D!AddTask, ownVars
  <2>2. CASE B!DbTestState \/ B!DbTake \/ B!DbWait \/ B!DbWokenForNothing \/ B!Execute(Worker)
    <3>1. dbPc'[Disp] = dbPc[Disp]
      BY ZenonT(30), <2>2 DEF B!DbTestState, B!DbTake, B!DbWait, B!DbWokenForNothing, B!Execute, B!Pop,
                  B!Finish, B!Go
    <3>2. UNCHANGED <<pc, batch, line>> \/ WorkerPostsCallback \/ Notify(Worker)
      BY <1>11 DEF WorkerStep, dVars, ownVars
    <3> QED BY <1>9, <1>a, <2>1, <3>1, <3>2
  <2> QED BY <1>9, <1>11, <2>1, <2>2 DEF WorkerStep
<1>12. CASE SchedStep
  BY <1>9, <1>12, <1>a DEF SchedStep, SchedDelivers, D!AddTask, dVars, bVars, ownVars
<1>13. CASE MainStep
  BY <1>9, <1>13, <1>a DEF MainStep, dVars, bVars
<1>14. CASE SpuriousWake
  BY <1>14, <1>a DEF SpuriousWake, D!SpuriousWake, B!DbSpuriousWake, B!Go, dVars, bVars, ownVars
<1>15. ASSUME NEW q, IssueQuery(q) PROVE BodyKept'
  BY <1>15, <1>b DEF IssueQuery, GameCode, At, BodyKept, dVars
<1>16. ASSUME NEW e, AddEvent(e) PROVE BodyKept'
  BY <1>16, <1>b DEF AddEvent, GameCode, At, BodyKept, dVars
<1>17. ASSUME NEW id, TimePasses(id) PROVE BodyKept'
  BY <1>17, <1>a DEF TimePasses, dVars, bVars, ownVars
<1>18. ASSUME NEW task, MainPosts(task) PROVE BodyKept'
  BY <1>18, <1>a DEF MainPosts, D!AddTask, bVars, ownVars
<1> QED
  BY <1>10, <1>11, <1>12, <1>13, <1>14, <1>15, <1>16, <1>17, <1>18 DEF Next

LEMMA JoinedKept ==
  ASSUME D!TypeOK, QP!DbInv, Joined, Next PROVE Joined'
<1>1. pc = "exited" => pc' = "exited"
  BY DispatcherSteps, DispatcherMoves DEF dVars
<1>2. dbPc[Worker] = "exited" => dbPc'[Worker] = "exited"
  BY DatabaseSteps, DatabaseMoves DEF bVars
<1>3. CASE mainPc' = mainPc
  BY <1>1, <1>2, <1>3 DEF Joined
<1>4. CASE mainPc' # mainPc
  <2>1. \/ mainPc' = "joinScheduler" \/ mainPc' = "joinDatabase"
        \/ mainPc' = "joinDispatcher" /\ dbPc[Worker] = "exited"
        \/ mainPc = "joinDispatcher" /\ mainPc' = "returned" /\ pc = "exited"
    BY <1>4 DEF Next, DispatcherStep, ThreadMain, BeginTask, EndTask, SaveGameState,
                PostShutdown, StopScheduler, StopDatabase, StopDispatcher,
                ShutdownScheduler, ShutdownDatabase, ShutdownDispatcher, StopServices,
                DbCall, DispPostsCallback, Notify, WorkerStep, WorkerPostsCallback,
                SchedStep, SchedDelivers, MainStep, Die, Join, SpuriousWake, IssueQuery,
                AddEvent, GameCode, At, TimePasses, MainPosts, ownVars
  <2> QED BY <1>1, <1>2, <2>1 DEF Joined
<1> QED BY <1>3, <1>4

-----------------------------------------------------------------------------
(* The theorems *)

RuntimeInv == ComponentInv /\ OwnInv

LEMMA RuntimeInvInitially == Init => RuntimeInv
<1> SUFFICES ASSUME Init PROVE RuntimeInv
  OBVIOUS
<1>1. D!TypeOK /\ D!NothingLost /\ D!NoLostWakeup
  BY RuntimeAssumption, SameDispatcher, QP!TypeInitially, QP!NothingLostInitially,
     QP!WakeupInitially DEF Init
<1>2. QP!DbInv
  BY RuntimeAssumption, SameDatabaseTasks, QP!DbInvInitially DEF Init
<1>3. SP!SchInv
  BY RuntimeAssumption, SameScheduler, SP!SchInvInitially DEF Init
<1>4. BodyKept
  BY RuntimeAssumption DEF Init, D!Init, B!DbInit, B!Holder, BodyKept
<1>5. TasksRun
  <2>1. accepted = <<>> /\ handled = <<>> /\ pc = "test"
    BY DEF Init, D!Init
  <2>2. DOMAIN <<>> = {}
    OBVIOUS
  <2> QED BY <2>1, <2>2 DEF TasksRun, IsInjective, Range
<1>6. DispatcherEnds /\ Joined
  BY DEF Init, D!Init, D!RUNNING, DispatcherEnds, Joined
<1>7. WorkerEnds
  BY DEF Init, B!DbInit, B!Holder, WorkerEnds
<1> QED BY <1>1, <1>2, <1>3, <1>4, <1>5, <1>6, <1>7 DEF RuntimeInv, ComponentInv, OwnInv

LEMMA ComponentInvKept ==
  ASSUME ComponentInv, [D!Next]_dVars, [B!DbNext]_bVars, [S!SchNext]_sVars
  PROVE  ComponentInv'
<1>1. D!TypeOK'
  BY RuntimeAssumption, SameDispatcher, QP!TypeKept DEF ComponentInv
<1>2. D!NothingLost'
  BY RuntimeAssumption, SameDispatcher, QP!NothingLostStep DEF ComponentInv
<1>3. D!NoLostWakeup'
  BY RuntimeAssumption, SameDispatcher, QP!WakeupKept DEF ComponentInv
<1>4. QP!DbInv'
  BY RuntimeAssumption, SameDatabaseTasks, QP!DbInvKept DEF ComponentInv
<1>5. SP!SchInv'
  BY RuntimeAssumption, SameScheduler, SP!SchInvKept DEF ComponentInv
<1> QED BY <1>1, <1>2, <1>3, <1>4, <1>5 DEF ComponentInv

\* Each component takes only its own steps, as long as callbacks are what
\* DatabaseTasks says they are.
LEMMA OwnSteps ==
  RuntimeInv /\ [Next]_vars => [D!Next]_dVars /\ [B!DbNext]_bVars /\ [S!SchNext]_sVars
<1>1. CASE UNCHANGED vars
  BY <1>1 DEF vars
<1>2. ASSUME RuntimeInv, Next PROVE [D!Next]_dVars /\ [B!DbNext]_bVars /\ [S!SchNext]_sVars
  BY <1>2, DispatcherSteps, DatabaseSteps, SchedulerSteps DEF RuntimeInv, ComponentInv
<1> QED BY <1>1, <1>2

LEMMA RuntimeInvKept == RuntimeInv /\ [Next]_vars => RuntimeInv'
<1> SUFFICES ASSUME RuntimeInv, [Next]_vars PROVE RuntimeInv'
  OBVIOUS
<1>1. [D!Next]_dVars /\ [B!DbNext]_bVars /\ [S!SchNext]_sVars
  BY OwnSteps
<1>2. ComponentInv /\ BodyKept /\ TasksRun /\ DispatcherEnds /\ WorkerEnds /\ Joined
  BY DEF RuntimeInv, OwnInv
<1>3. D!TypeOK /\ QP!DbInv
  BY <1>2 DEF ComponentInv
<1>4. ComponentInv'
  BY <1>1, <1>2, ComponentInvKept
<1>5. BodyKept'
  <2>1. CASE UNCHANGED vars
    BY <1>2, <2>1 DEF BodyKept, vars, dVars, bVars, ownVars
  <2> QED BY <1>2, <1>3, <2>1, BodyKeeps
<1>6. TasksRun' /\ DispatcherEnds' /\ WorkerEnds'
  BY <1>1, <1>2, <1>3, TasksRunKept, DispatcherEndsKept, WorkerEndsKept
<1>7. Joined'
  <2>1. CASE UNCHANGED vars
    BY <1>2, <2>1 DEF Joined, vars, dVars, bVars, ownVars
  <2> QED BY <1>2, <1>3, <2>1, JoinedKept
<1> QED BY <1>4, <1>5, <1>6, <1>7 DEF RuntimeInv, OwnInv

\* Composed with the other threads, each component takes only steps its own
\* module gives it.
THEOREM ComponentsKeepToTheirSteps == Spec => ComponentSteps
<1>1. Init => D!Init /\ B!DbInit /\ S!SchInit
  BY DEF Init
<1> QED BY <1>1, OwnSteps, RuntimeInvInitially, RuntimeInvKept, PTL DEF Spec, ComponentSteps

\* What is proved of Dispatcher, DatabaseTasks and Scheduler alone holds of them
\* in the process: no task, query or event is lost or run twice by the way the
\* threads call each other.
THEOREM ComponentsStayCorrect ==
  Spec => [](D!NothingLost /\ D!NoLostWakeup /\ QP!QueriesAccounted /\ SP!EventsAccounted)
<1>1. RuntimeInv => D!NothingLost /\ D!NoLostWakeup /\ QP!QueriesAccounted /\ SP!EventsAccounted
  BY RuntimeAssumption, QP!DbInvImplies, SP!SchInvImplies DEF RuntimeInv, ComponentInv
<1> QED BY <1>1, RuntimeInvInitially, RuntimeInvKept, PTL DEF Spec

\* The first tasks accepted are those that have been handled.
LEMMA HandledFirst ==
  ASSUME D!TypeOK, D!NothingLost
  PROVE  /\ Len(handled) \in Nat /\ Len(accepted) \in Nat
         /\ DOMAIN accepted = 1 .. Len(accepted)
         /\ Len(handled) <= Len(accepted)
         /\ \A i \in 1 .. Len(handled) : accepted[i] = handled[i] /\ handled[i] \in Range(handled)
         /\ batch # <<>> => /\ Len(handled) + 1 \in DOMAIN accepted
                            /\ accepted[Len(handled) + 1] = Head(batch)
<1>1. /\ handled \in Seq(D!Entry) /\ batch \in Seq(D!Entry) /\ taskList \in Seq(D!Entry)
      /\ accepted \in Seq(D!Entry) /\ accepted = handled \o (batch \o taskList)
  BY DEF D!TypeOK, D!NothingLost
<1>2. batch \o taskList \in Seq(D!Entry)
  BY <1>1, ConcatProperties
<1>3. /\ Len(handled) \in Nat /\ Len(batch \o taskList) \in Nat
      /\ Len(accepted) = Len(handled) + Len(batch \o taskList)
      /\ \A i \in 1 .. Len(accepted) :
           accepted[i] = IF i <= Len(handled) THEN handled[i]
                         ELSE (batch \o taskList)[i - Len(handled)]
  BY <1>1, <1>2, ConcatProperties, LenProperties
<1>4. DOMAIN accepted = 1 .. Len(accepted) /\ DOMAIN handled = 1 .. Len(handled)
  BY <1>1, LenProperties
<1>5. ASSUME batch # <<>>
      PROVE  Len(handled) < Len(accepted) /\ accepted[Len(handled) + 1] = Head(batch)
  BY <1>1, <1>5, RuntimeAssumption, QP!NextIsHead
<1> QED BY <1>3, <1>4, <1>5 DEF Range

LEMMA WorkIsDone == RuntimeInv => WorkBeforeShutdown
<1> SUFFICES ASSUME RuntimeInv, line \in {"scheduler", "database", "dispatcher", "services"},
                    NEW i \in DOMAIN accepted, NEW j \in DOMAIN accepted,
                    accepted[j] = GameShutdown, i < j
             PROVE  accepted[i] \in ran
  BY DEF WorkBeforeShutdown
<1>1. pc = "inTask" /\ Head(batch) = GameShutdown
  BY DEF RuntimeInv, OwnInv, BodyKept
<1>2. batch # <<>>
  BY <1>1 DEF RuntimeInv, ComponentInv, D!TypeOK
<1>3. /\ Len(handled) \in Nat
      /\ \A k \in 1 .. Len(handled) : accepted[k] \in Range(handled)
      /\ Len(handled) + 1 \in DOMAIN accepted /\ DOMAIN accepted = 1 .. Len(accepted)
      /\ Len(accepted) \in Nat
      /\ accepted[Len(handled) + 1] = GameShutdown
  BY <1>1, <1>2, HandledFirst DEF RuntimeInv, ComponentInv
<1>4. j = Len(handled) + 1
  BY <1>3 DEF RuntimeInv, OwnInv, TasksRun, IsInjective
<1>5. i \in 1 .. Len(handled)
  BY <1>3, <1>4
<1> QED BY <1>3, <1>5 DEF RuntimeInv, OwnInv, TasksRun

\* Game::shutdown does not begin to close the server before every task that was
\* accepted ahead of it has been run.
THEOREM ShutdownComesAfterWork == Spec => []WorkBeforeShutdown
  BY WorkIsDone, RuntimeInvInitially, RuntimeInvKept, PTL DEF Spec

LEMMA NothingIsOwed == RuntimeInv => NothingOwedAtExit
<1> SUFFICES ASSUME RuntimeInv, mainPc = "returned"
             PROVE  /\ Range(queued) = Range(executed)
                    /\ \A i \in DOMAIN accepted :
                         \/ accepted[i] \in ran
                         \/ \E j \in 1 .. i - 1 : accepted[j] = Terminator
  BY DEF NothingOwedAtExit
<1>1. pc = "exited" /\ dbPc[Worker] = "exited" /\ dbPc[Disp] = "idle"
      /\ threadState = "TERMINATED" /\ dbState = "TERMINATED"
  BY DEF RuntimeInv, OwnInv, Joined, BodyKept, DispatcherEnds, WorkerEnds
<1>2. Range(queued) = Range(executed)
  <2>1. tasks = <<>>
    BY <1>1 DEF RuntimeInv, OwnInv, WorkerEnds
  <2>2. QP!EachQueryOnce
    BY RuntimeAssumption, QP!DbInvImplies DEF RuntimeInv, ComponentInv, QP!QueriesAccounted
  <2>3. hand[Disp] = NoQuery /\ hand[Worker] = NoQuery
    BY <1>1 DEF RuntimeInv, ComponentInv, QP!DbInv, QP!Hands, QP!Holder
  <2>4. QP!InHand = {}
    BY <2>3 DEF QP!InHand, QP!Holder
  <2>5. QP!Range(tasks) = {}
    BY <2>1 DEF QP!Range
  <2> QED BY <2>2, <2>4, <2>5 DEF QP!EachQueryOnce, QP!Range, Range
<1>3. ASSUME NEW i \in DOMAIN accepted
      PROVE  accepted[i] \in ran \/ \E j \in 1 .. i - 1 : accepted[j] = Terminator
  <2>1. /\ Len(handled) \in Nat /\ Len(accepted) \in Nat
        /\ DOMAIN accepted = 1 .. Len(accepted)
        /\ \A k \in 1 .. Len(handled) : accepted[k] = handled[k] /\ handled[k] \in Range(handled)
    BY HandledFirst DEF RuntimeInv, ComponentInv
  <2>2. Terminator \in Range(handled)
    BY <1>1 DEF RuntimeInv, OwnInv, DispatcherEnds
  <2>3. DOMAIN handled = 1 .. Len(handled)
    BY LenProperties DEF RuntimeInv, ComponentInv, D!TypeOK
  <2>4. PICK j \in 1 .. Len(handled) : accepted[j] = Terminator
    BY <2>1, <2>2, <2>3 DEF Range
  <2>5. CASE i \in 1 .. Len(handled)
    BY <2>1, <2>5 DEF RuntimeInv, OwnInv, TasksRun
  <2>6. CASE i \notin 1 .. Len(handled)
    <3>1. j \in 1 .. i - 1
      BY <2>1, <2>6
    <3> QED BY <2>4, <3>1
  <2> QED BY <2>5, <2>6
<1> QED BY <1>2, <1>3

\* When main returns from its joins, every query anyone was told is queued has
\* been run, and so has every task accepted ahead of the terminator.
THEOREM NothingIsOwedAtExit == Spec => []NothingOwedAtExit
  BY NothingIsOwed, RuntimeInvInitially, RuntimeInvKept, PTL DEF Spec

-----------------------------------------------------------------------------
(* Scripts *)

ScrState ==
  [depth : 0..Limit + 1, running : SUBSET (Timer \cup AsyncCall), place : [Thing -> Place],
   temp : SUBSET ((1..Limit) \X Thing), known : SUBSET ((1..Limit) \X Thing),
   events : SUBSET Timer, waiting : SUBSET Timer, expired : SUBSET Timer, set : SUBSET Timer,
   refs : SUBSET (Timer \cup AsyncCall), asked : SUBSET AsyncCall, results : SUBSET AsyncCall,
   parted : SUBSET Thing, twice : BOOLEAN]

\* Exactly one script has created i, or it is the rest of a stack.
OneScript(s, i) == \E e \in s.temp : e[2] = i /\ \A f \in s.temp : f[2] = i => f = e
LeftOver(s, i) == i \in s.parted /\ \A e \in s.temp : e[2] # i

ItemsHeld(s) ==
  /\ s \in ScrState
  /\ \A i \in Thing : s.place[i] = "virtual" => OneScript(s, i) \/ LeftOver(s, i)
  /\ \A e \in s.temp \cup s.known : e[1] <= s.depth /\ s.place[e[2]] # "none"
  /\ s.twice = FALSE

\* What runs was set, or asked, and is neither any more.
CallsHeld(s) ==
  /\ s.refs = s.events \cup s.asked \cup s.running
  /\ s.events \subseteq s.waiting \cup s.expired
  /\ s.running \cap (s.events \cup s.asked) = {}
  /\ s.events \cup (s.running \cap Timer) \subseteq s.set
  /\ s.depth = 0 => s.temp = {} /\ s.known = {} /\ s.results = {} /\ s.running = {}

ScrInv == ItemsHeld(scr) /\ CallsHeld(scr)

-----------------------------------------------------------------------------
(* Items *)

\* t is s but for its items, of which none has become free.
OnlyItems(s, t) ==
  /\ t.depth = s.depth /\ t.running = s.running /\ t.events = s.events
  /\ t.waiting = s.waiting /\ t.expired = s.expired /\ t.set = s.set
  /\ t.refs = s.refs /\ t.asked = s.asked /\ t.results = s.results
  /\ \A i \in Thing : s.place[i] # "none" => t.place[i] # "none"

Kept(s, t) == ItemsHeld(t) /\ OnlyItems(s, t)

\* Only i has another place.
Still(s, t, i) == \A j \in Thing \ {i} : t.place[j] = s.place[j]

LEMMA KeptTwice ==
  ASSUME NEW s, NEW t, NEW u, Kept(s, t), Kept(t, u)
  PROVE  Kept(s, u)
  BY DEF Kept, OnlyItems

LEMMA KeptItself == ASSUME NEW s, ItemsHeld(s) PROVE Kept(s, s)
  BY DEF Kept, OnlyItems

LEMMA PlaceIs == Place = {"none", "virtual", "world", "adrift", "released"}
  BY DEF Place

\* Another place for i, which is the virtual one only for what a script owns.
LEMMA MovesKeep ==
  ASSUME NEW s, ItemsHeld(s), NEW i \in Thing, NEW w \in {"world", "adrift", "released"}
  PROVE  /\ Kept(s, [s EXCEPT !.place[i] = w]) /\ [s EXCEPT !.place[i] = w].place[i] = w
         /\ Still(s, [s EXCEPT !.place[i] = w], i)
<1> DEFINE t == [s EXCEPT !.place[i] = w]
<1>1. s \in ScrState
  BY DEF ItemsHeld
<1>2. /\ t.depth = s.depth /\ t.running = s.running /\ t.events = s.events
      /\ t.waiting = s.waiting /\ t.expired = s.expired /\ t.set = s.set
      /\ t.refs = s.refs /\ t.asked = s.asked /\ t.results = s.results
      /\ t.temp = s.temp /\ t.known = s.known /\ t.parted = s.parted /\ t.twice = s.twice
      /\ t.place[i] = w /\ \A j \in Thing \ {i} : t.place[j] = s.place[j]
  BY <1>1 DEF ScrState
<1>3. t \in ScrState
  BY <1>1, PlaceIs DEF ScrState
<1> HIDE DEF t
<1>4. \A j \in Thing : t.place[j] = "virtual" => s.place[j] = "virtual"
  BY <1>2
<1>5. \A j \in Thing : s.place[j] # "none" => t.place[j] # "none"
  BY <1>2
<1>6. \A e \in t.temp \cup t.known : e[1] <= t.depth /\ t.place[e[2]] # "none"
  <2> TAKE e \in t.temp \cup t.known
  <2>1. e[1] <= s.depth /\ s.place[e[2]] # "none"
    BY <1>2 DEF ItemsHeld
  <2>2. e[2] \in Thing
    BY <1>1, <1>2 DEF ScrState
  <2> QED BY <1>2, <1>5, <2>1, <2>2
<1>7. ItemsHeld(t)
  BY <1>2, <1>3, <1>4, <1>6 DEF ItemsHeld, OneScript, LeftOver
<1>8. Kept(s, t) /\ t.place[i] = w /\ Still(s, t, i)
  BY <1>2, <1>5, <1>7 DEF Kept, OnlyItems, Still
<1> QED BY <1>8 DEF t

LEMMA ReleaseKeeps ==
  ASSUME NEW s, ItemsHeld(s), NEW i \in Thing, s.place[i] \notin {"world", "released"}
  PROVE  /\ Kept(s, ReleaseItem(s, i)) /\ ReleaseItem(s, i).place[i] = "released"
         /\ Still(s, ReleaseItem(s, i), i)
  BY MovesKeep DEF ReleaseItem

\* The script forgets an item that it does not own (any more).
LEMMA ForgettingKeeps ==
  ASSUME NEW s, ItemsHeld(s), NEW i \in Thing, s.place[i] # "virtual" \/ i \in s.parted
  PROVE  Kept(s, RemoveTempItem(s, i)) /\ RemoveTempItem(s, i).place = s.place
<1> DEFINE te == {e \in s.temp : e[2] # i}
           t == [s EXCEPT !.temp = te]
<1>1. s \in ScrState /\ te \subseteq s.temp
  BY DEF ItemsHeld
<1>2. \A e : e \in te <=> e \in s.temp /\ e[2] # i
  OBVIOUS
<1>3. RemoveTempItem(s, i) = t
  BY DEF RemoveTempItem
<1> HIDE DEF te
<1>4. t \in ScrState
  BY <1>1 DEF ScrState
<1>5. /\ t.depth = s.depth /\ t.running = s.running /\ t.events = s.events
      /\ t.waiting = s.waiting /\ t.expired = s.expired /\ t.set = s.set
      /\ t.refs = s.refs /\ t.asked = s.asked /\ t.results = s.results
      /\ t.temp = te /\ t.known = s.known /\ t.parted = s.parted /\ t.twice = s.twice
      /\ t.place = s.place
  BY <1>1 DEF ScrState
<1> HIDE DEF t
<1>6. ASSUME NEW j \in Thing, t.place[j] = "virtual"
      PROVE  OneScript(t, j) \/ LeftOver(t, j)
  <2>1. CASE j = i
    BY <1>2, <1>5, <1>6, <2>1 DEF LeftOver
  <2>2. CASE j # i
    <3>1. OneScript(s, j) \/ LeftOver(s, j)
      BY <1>5, <1>6 DEF ItemsHeld
    <3> QED BY <1>2, <1>5, <2>2, <3>1 DEF OneScript, LeftOver
  <2> QED BY <2>1, <2>2
<1>7. \A e \in t.temp \cup t.known : e[1] <= t.depth /\ t.place[e[2]] # "none"
  BY <1>1, <1>5 DEF ItemsHeld
<1>8. Kept(s, t)
  BY <1>4, <1>5, <1>6, <1>7 DEF ItemsHeld, Kept, OnlyItems
<1> QED BY <1>3, <1>5, <1>8

\* A number for an item that is there, or no number.
LEMMA NumbersKeep ==
  ASSUME NEW s, ItemsHeld(s), s.depth \in 1..Limit, NEW i \in Thing, s.place[i] # "none",
         NEW t, t = InsertItem(s, i) \/ t = RemoveItemByUID(s, i)
  PROVE  Kept(s, t) /\ t.place = s.place
<1> DEFINE e == <<s.depth, i>>
<1>1. s \in ScrState /\ e \in (1..Limit) \X Thing /\ e[1] = s.depth /\ e[2] = i
  BY DEF ItemsHeld
<1>2. PICK kn \in {s.known \cup {e}, s.known \ {e}} : t = [s EXCEPT !.known = kn]
  BY DEF InsertItem, RemoveItemByUID
<1>3. kn \in SUBSET ((1..Limit) \X Thing) /\ \A f \in kn : f \in s.known \/ f = e
  BY <1>1, <1>2 DEF ScrState
<1> HIDE DEF e
<1>4. t \in ScrState
  BY <1>1, <1>2, <1>3 DEF ScrState
<1>5. /\ t.depth = s.depth /\ t.running = s.running /\ t.events = s.events
      /\ t.waiting = s.waiting /\ t.expired = s.expired /\ t.set = s.set
      /\ t.refs = s.refs /\ t.asked = s.asked /\ t.results = s.results
      /\ t.temp = s.temp /\ t.known = kn /\ t.parted = s.parted /\ t.twice = s.twice
      /\ t.place = s.place
  BY <1>1, <1>2 DEF ScrState
<1>6. \A f \in t.temp \cup t.known : f[1] <= t.depth /\ t.place[f[2]] # "none"
  BY <1>1, <1>3, <1>5 DEF ItemsHeld
<1>7. ItemsHeld(t)
  BY <1>4, <1>5, <1>6 DEF ItemsHeld, OneScript, LeftOver
<1> QED BY <1>5, <1>7 DEF Kept, OnlyItems

LEMMA AddThingKeeps ==
  ASSUME NEW s, ItemsHeld(s), s.depth \in 1..Limit, NEW i \in Thing
  PROVE  Kept(s, AddThing(s, i)) /\ AddThing(s, i).place = s.place
<1>1. CASE IsRemoved(s, i)
  BY <1>1, KeptItself DEF AddThing
<1>2. CASE ~IsRemoved(s, i)
  <2>1. s.place[i] # "none" /\ AddThing(s, i) = InsertItem(s, i)
    BY <1>2 DEF IsRemoved, AddThing, InsertItem
  <2> QED BY <2>1, NumbersKeep
<1> QED BY <1>1, <1>2

\* What a script creates is its own.
LEMMA CreatingKeeps ==
  ASSUME NEW s, ItemsHeld(s), s.depth \in 1..Limit, NEW i \in Unused(s)
  PROVE  Kept(s, AddTempItem(s, i))
<1> DEFINE e == <<s.depth, i>>
           te == s.temp \cup {e}
           t == AddTempItem(s, i)
<1>1. s \in ScrState /\ i \in Thing /\ s.place[i] = "none"
  BY DEF ItemsHeld, Unused
<1>2. e \in (1..Limit) \X Thing /\ e[1] = s.depth /\ e[2] = i
  BY <1>1
<1> DEFINE pl == [s.place EXCEPT ![i] = "virtual"]
<1>3. t = [s EXCEPT !.temp = te, !.place = pl]
  BY DEF AddTempItem
<1>11. /\ pl \in [Thing -> Place] /\ pl[i] = "virtual"
       /\ \A j \in Thing \ {i} : pl[j] = s.place[j]
  BY <1>1, PlaceIs DEF ScrState
<1>4. te \in SUBSET ((1..Limit) \X Thing) /\ (\A f : f \in te <=> f \in s.temp \/ f = e)
  BY <1>1, <1>2 DEF ScrState
<1> HIDE DEF te, e, pl
<1>5. t \in ScrState
  BY <1>1, <1>3, <1>4, <1>11 DEF ScrState
<1>6. /\ t.depth = s.depth /\ t.running = s.running /\ t.events = s.events
      /\ t.waiting = s.waiting /\ t.expired = s.expired /\ t.set = s.set
      /\ t.refs = s.refs /\ t.asked = s.asked /\ t.results = s.results
      /\ t.temp = te /\ t.known = s.known /\ t.parted = s.parted /\ t.twice = s.twice
      /\ t.place[i] = "virtual" /\ \A j \in Thing \ {i} : t.place[j] = s.place[j]
  BY <1>1, <1>3, <1>11 DEF ScrState
<1> HIDE DEF t
<1>7. \A f \in s.temp \cup s.known : f[1] <= s.depth /\ s.place[f[2]] # "none" /\ f[2] \in Thing /\ f[2] # i
  BY <1>1 DEF ItemsHeld, ScrState
<1>8. ASSUME NEW j \in Thing, t.place[j] = "virtual"
      PROVE  OneScript(t, j) \/ LeftOver(t, j)
  <2>1. CASE j = i
    <3>1. e \in t.temp /\ e[2] = j /\ \A f \in t.temp : f[2] = j => f = e
      BY <1>2, <1>4, <1>6, <1>7, <2>1
    <3> QED BY <3>1 DEF OneScript
  <2>2. CASE j # i
    <3>1. OneScript(s, j) \/ LeftOver(s, j)
      BY <1>6, <1>8, <2>2 DEF ItemsHeld
    <3> QED BY <1>2, <1>4, <1>6, <2>2, <3>1 DEF OneScript, LeftOver
  <2> QED BY <2>1, <2>2
<1>9. \A f \in t.temp \cup t.known : f[1] <= t.depth /\ t.place[f[2]] # "none"
  <2> TAKE f \in t.temp \cup t.known
  <2>1. CASE f = e
    BY <1>1, <1>2, <1>6, <2>1 DEF ScrState
  <2>2. CASE f # e
    BY <1>4, <1>6, <1>7, <2>2
  <2> QED BY <2>1, <2>2
<1>10. ItemsHeld(t)
  BY <1>5, <1>6, <1>8, <1>9 DEF ItemsHeld
<1>12. \A j \in Thing : s.place[j] # "none" => t.place[j] # "none"
  BY <1>1, <1>6
<1>13. Kept(s, t)
  BY <1>6, <1>10, <1>12 DEF Kept, OnlyItems
<1> QED BY <1>13 DEF t

-----------------------------------------------------------------------------
(* Placing and removing *)

\* What may come of internalAddItem for an item that is new or has no place.
LEMMA PlacedKeeps ==
  ASSUME NEW s, ItemsHeld(s), NEW i \in Thing, s.place[i] \in {"none", "virtual"}
  PROVE  Kept(s, Placed(s, i)) /\ Placed(s, i).place[i] = "world"
  BY MovesKeep DEF Placed

\* Released, the item is nobody's; released before it was, it is still released once.
LEMMA MergedKeeps ==
  ASSUME NEW s, ItemsHeld(s), NEW i \in Thing, s.place[i] \in {"none", "virtual", "adrift"}
  PROVE  Kept(s, Merged(s, i)) /\ Merged(s, i).place[i] = "released"
<1> DEFINE u == [s EXCEPT !.place[i] = "released"]
           te == {e \in s.temp : e[2] # i}
<1>1. s \in ScrState
  BY DEF ItemsHeld
<1>2. RemoveTempItem(s, i).place = s.place
  BY <1>1 DEF RemoveTempItem, ScrState
<1>3. Merged(s, i) = [RemoveTempItem(s, i) EXCEPT !.place[i] = "released"]
  BY <1>2 DEF Merged, ReleaseItem
<1>4. Kept(s, u) /\ u.place[i] = "released"
  BY MovesKeep
<1>5. Kept(u, RemoveTempItem(u, i)) /\ RemoveTempItem(u, i).place = u.place
  <2>1. ItemsHeld(u) /\ u.place[i] # "virtual"
    BY <1>4 DEF Kept
  <2> HIDE DEF u
  <2> QED BY <2>1, ForgettingKeeps
<1>6. Merged(s, i) = RemoveTempItem(u, i)
  <2>1. RemoveTempItem(s, i) = [s EXCEPT !.temp = te] /\ u.temp = s.temp
    BY <1>1 DEF RemoveTempItem, ScrState
  <2>2. RemoveTempItem(u, i) = [u EXCEPT !.temp = te]
    BY <2>1 DEF RemoveTempItem
  <2> HIDE DEF te
  <2>3. [[s EXCEPT !.temp = te] EXCEPT !.place[i] = "released"]
          = [[s EXCEPT !.place[i] = "released"] EXCEPT !.temp = te]
    BY <1>1 DEF ScrState
  <2> QED BY <1>3, <2>1, <2>2, <2>3
<1>7. Kept(s, RemoveTempItem(u, i)) /\ RemoveTempItem(u, i).place[i] = "released"
  BY <1>4, <1>5, KeptTwice
<1> QED BY <1>6, <1>7

\* Of a stack that is merged in part the rest stays where it was, or goes adrift.
LEMMA PartedKeeps ==
  ASSUME NEW s, ItemsHeld(s), NEW i \in Thing, s.place[i] \in {"none", "virtual"},
         NEW j \in Unused(s) \ {i}, NEW w \in {"world", "released"}
  PROVE  /\ Kept(s, Parted(s, i, j, w)) /\ i \in Parted(s, i, j, w).parted
         /\ Parted(s, i, j, w).place[i] \in {"virtual", "adrift"}
<1> DEFINE u == [s EXCEPT !.place[j] = w]
           a == IF u.place[i] = "none" THEN "adrift" ELSE u.place[i]
           pa == u.parted \cup {i}
           v == [u EXCEPT !.parted = pa]
           t == Parted(s, i, j, w)
<1>1. s \in ScrState /\ j \in Thing
  BY DEF ItemsHeld, Unused
<1>2. ItemsHeld(u) /\ OnlyItems(s, u)
  BY <1>1, MovesKeep DEF Kept
<1>3. u.place[i] = s.place[i] /\ u \in ScrState
  BY <1>1, <1>2 DEF ItemsHeld, ScrState
<1>4. t = [v EXCEPT !.place[i] = a]
  BY <1>1 DEF Parted, ScrState
<1> HIDE DEF u, t
<1>5. pa \in SUBSET Thing
  BY <1>3 DEF ScrState
<1> HIDE DEF pa
<1>6. v \in ScrState
  BY <1>3, <1>5 DEF ScrState
<1>7. /\ v.depth = u.depth /\ v.running = u.running /\ v.events = u.events
      /\ v.waiting = u.waiting /\ v.expired = u.expired /\ v.set = u.set
      /\ v.refs = u.refs /\ v.asked = u.asked /\ v.results = u.results
      /\ v.temp = u.temp /\ v.known = u.known /\ v.parted = pa /\ v.twice = u.twice
      /\ v.place = u.place
  BY <1>3 DEF ScrState
<1> HIDE DEF v
<1>8. ItemsHeld(v) /\ OnlyItems(s, v)
  <2>1. \A k \in Thing : LeftOver(u, k) => LeftOver(v, k)
    BY <1>7 DEF LeftOver, pa
  <2>2. \A k \in Thing : OneScript(u, k) => OneScript(v, k)
    BY <1>7 DEF OneScript
  <2>3. ItemsHeld(v)
    BY <1>2, <1>6, <1>7, <2>1, <2>2 DEF ItemsHeld
  <2> QED BY <1>2, <1>7, <2>3 DEF OnlyItems
<1>9. CASE s.place[i] = "none"
  <2>1. a = "adrift"
    BY <1>3, <1>9
  <2> HIDE DEF a
  <2>2. Kept(v, t) /\ t.place[i] = "adrift" /\ t.parted = v.parted
    <3>1. t = [v EXCEPT !.place[i] = "adrift"]
      BY <1>4, <2>1
    <3>2. Kept(v, t) /\ t.place[i] = "adrift"
      BY <1>8, <3>1, MovesKeep
    <3> QED BY <1>6, <3>1, <3>2 DEF ScrState
  <2>3. Kept(s, t)
    BY <1>8, <2>2, KeptTwice DEF Kept
  <2>4. i \in t.parted
    BY <1>7, <2>2 DEF pa
  <2>5. Kept(s, t) /\ i \in t.parted /\ t.place[i] \in {"virtual", "adrift"}
    BY <2>2, <2>3, <2>4
  <2> QED BY <2>5 DEF t
<1>10. CASE s.place[i] = "virtual"
  <2>1. a = v.place[i] /\ v.place[i] = "virtual"
    BY <1>3, <1>7, <1>10
  <2> HIDE DEF a
  <2>2. t = v
    BY <1>4, <1>6, <2>1 DEF ScrState
  <2>3. Kept(s, t) /\ i \in t.parted /\ t.place[i] \in {"virtual", "adrift"}
    BY <1>7, <1>8, <2>1, <2>2 DEF Kept, pa
  <2> QED BY <2>3 DEF t
<1> QED BY <1>9, <1>10

\* In each case the item is kept, and its creator may forget it.
LEMMA InternalAddItemKeeps ==
  ASSUME NEW s, ItemsHeld(s), NEW i \in Thing, s.place[i] \in {"none", "virtual"},
         NEW t \in InternalAddItem(s, i)
  PROVE  Kept(s, t) /\ (t.place[i] # "virtual" \/ i \in t.parted)
<1>1. CASE t = Placed(s, i)
  BY <1>1, PlacedKeeps
<1>2. CASE t = Merged(s, i)
  BY <1>2, MergedKeeps
<1>3. CASE \E j \in Unused(s) \ {i}, w \in {"world", "released"} : t = Parted(s, i, j, w)
  BY <1>3, PartedKeeps
<1> QED BY <1>1, <1>2, <1>3 DEF InternalAddItem

LEMMA InternalRemoveItemKeeps ==
  ASSUME NEW s, ItemsHeld(s), NEW i \in Thing
  PROVE  Kept(s, InternalRemoveItem(s, i)) /\ Still(s, InternalRemoveItem(s, i), i)
<1>1. CASE s.place[i] # "world"
  BY <1>1, KeptItself DEF InternalRemoveItem, Still
<1>2. CASE s.place[i] = "world"
  <2> DEFINE u == TakenOut(s, i)
             v == RemoveTempItem(u, i)
  <2>1. Kept(s, u) /\ u.place[i] = "adrift" /\ Still(s, u, i)
    BY MovesKeep DEF TakenOut
  <2> HIDE DEF u
  <2>2. Kept(u, v) /\ v.place = u.place
    BY <2>1, ForgettingKeeps DEF Kept
  <2>3. InternalRemoveItem(s, i) = ReleaseItem(v, i)
    BY <1>2 DEF InternalRemoveItem, u
  <2> HIDE DEF v
  <2>4. Kept(v, ReleaseItem(v, i)) /\ Still(v, ReleaseItem(v, i), i)
    BY <2>1, <2>2, ReleaseKeeps DEF Kept
  <2>5. Still(s, ReleaseItem(v, i), i)
    BY <2>1, <2>2, <2>4 DEF Still
  <2> QED BY <2>1, <2>2, <2>3, <2>4, <2>5, KeptTwice
<1> QED BY <1>1, <1>2

LEMMA UsedUpKeeps ==
  ASSUME NEW s, ItemsHeld(s), s.depth \in 1..Limit, NEW i \in Thing, s.place[i] # "none"
  PROVE  Kept(s, UsedUp(s, i)) /\ Still(s, UsedUp(s, i), i)
<1> DEFINE u == AddThing(s, i)
           t == InternalRemoveItem(u, i)
<1>1. Kept(s, u) /\ u.place = s.place
  BY AddThingKeeps
<1> HIDE DEF u
<1>2. Kept(u, t) /\ Still(u, t, i)
  BY <1>1, InternalRemoveItemKeeps DEF Kept
<1> HIDE DEF t
<1>3. Kept(s, t) /\ ItemsHeld(t) /\ t.depth \in 1..Limit /\ t.place[i] # "none"
  BY <1>1, <1>2, KeptTwice DEF Kept, OnlyItems
<1>4. Kept(t, RemoveItemByUID(t, i)) /\ RemoveItemByUID(t, i).place = t.place
  BY <1>3, NumbersKeep
<1>5. UsedUp(s, i) = t \/ UsedUp(s, i) = RemoveItemByUID(t, i)
  BY DEF UsedUp, t, u
<1>6. Still(s, t, i) /\ Still(s, RemoveItemByUID(t, i), i)
  BY <1>1, <1>2, <1>4 DEF Still
<1> QED BY <1>3, <1>4, <1>5, <1>6, KeptTwice

LEMMA ReplacedKeeps ==
  ASSUME NEW s, ItemsHeld(s), s.depth \in 1..Limit, NEW i \in Thing, s.place[i] = "world",
         NEW j \in Unused(s)
  PROVE  Kept(s, Replaced(s, i, j))
<1> DEFINE a == AddThing(s, i)
           b == Placed(a, j)
           c == TakenOut(b, i)
           d == ReleaseItem(c, i)
           e == RemoveItemByUID(d, i)
<1>1. j \in Thing /\ s.place[j] = "none" /\ j # i
  BY DEF Unused
<1>2. Kept(s, a) /\ a.place = s.place
  BY AddThingKeeps
<1> HIDE DEF a
<1>3. Kept(a, b) /\ b.place[j] = "world"
  BY <1>1, <1>2, PlacedKeeps DEF Kept
<1> HIDE DEF b
<1>4. Kept(b, c) /\ c.place[i] = "adrift"
  BY <1>3, MovesKeep DEF Kept, TakenOut
<1> HIDE DEF c
<1>5. Kept(c, d) /\ d.place[i] = "released"
  BY <1>4, ReleaseKeeps DEF Kept
<1> HIDE DEF d
<1>6. Kept(s, d)
  <2>1. Kept(s, b)
    BY <1>2, <1>3, KeptTwice
  <2>2. Kept(s, c)
    BY <1>4, <2>1, KeptTwice
  <2> QED BY <1>5, <2>2, KeptTwice
<1>7. ItemsHeld(d) /\ d.depth \in 1..Limit
  BY <1>6 DEF Kept, OnlyItems
<1>8. Kept(d, e) /\ e.place = d.place
  BY <1>5, <1>7, NumbersKeep
<1> HIDE DEF e
<1>9. ItemsHeld(e) /\ e.depth \in 1..Limit /\ e.place[j] # "none"
  <2>1. b.place[j] # "none" => d.place[j] # "none"
    BY <1>1, <1>4, <1>5 DEF Kept, OnlyItems
  <2> QED BY <1>3, <1>7, <1>8, <2>1 DEF Kept, OnlyItems
<1>10. Kept(e, InsertItem(e, j))
  BY <1>1, <1>9, NumbersKeep
<1>11. Replaced(s, i, j) = InsertItem(e, j)
  BY DEF Replaced, a, b, c, d, e
<1>12. Kept(s, e)
  BY <1>6, <1>8, KeptTwice
<1> QED BY <1>10, <1>11, <1>12, KeptTwice

-----------------------------------------------------------------------------
(* The calls of a script *)

ItemCalls == \/ CreateItem \/ CreateItemAt \/ AddItem \/ PlayerAddItem \/ DoPlayerAddItem \/ AddItemEx
             \/ MoveTo \/ RemoveItem \/ Transform \/ Clone \/ Split

LEMMA ItemCallsKeep ==
  ASSUME ItemsHeld(scr), ItemCalls
  PROVE  Kept(scr, scr') /\ Running
<1> USE DEF Running
<1>1. \A s, i : i \in Unused(s) => i \in Thing /\ s.place[i] = "none"
  BY DEF Unused
<1>2. CASE CreateItem \/ Clone
  BY <1>2, CreatingKeeps DEF CreateItem, Clone
<1>3. CASE CreateItemAt
  <2>1. PICK i \in Unused(scr) :
          Running /\ scr' \in InternalAddItem(scr, i) \cup {[scr EXCEPT !.place[i] = "adrift"]}
    BY <1>3 DEF CreateItemAt
  <2>2. i \in Thing /\ scr.place[i] = "none"
    BY <1>1, <2>1
  <2>3. CASE scr' \in InternalAddItem(scr, i)
    BY <2>1, <2>2, <2>3, InternalAddItemKeeps
  <2>4. CASE scr' = [scr EXCEPT !.place[i] = "adrift"]
    BY <2>1, <2>2, <2>4, MovesKeep
  <2> QED BY <2>1, <2>3, <2>4
<1>4. CASE AddItem
  BY <1>1, <1>4, InternalAddItemKeeps DEF AddItem
<1>5. CASE PlayerAddItem
  <2>1. PICK i \in Unused(scr) : \E s \in InternalAddItem(scr, i) : \E j \in Unused(s) : scr' \in InternalAddItem(s, j)
    BY <1>5 DEF PlayerAddItem
  <2>2. PICK s \in InternalAddItem(scr, i) : \E j \in Unused(s) : scr' \in InternalAddItem(s, j)
    BY <2>1
  <2>3. Kept(scr, s)
    BY <1>1, <2>1, <2>2, InternalAddItemKeeps
  <2>4. Kept(s, scr')
    BY <1>1, <2>2, <2>3, InternalAddItemKeeps DEF Kept
  <2>5. Kept(scr, scr')
    BY <2>3, <2>4, KeptTwice
  <2> QED BY <1>5, <2>5 DEF PlayerAddItem
<1>6. CASE DoPlayerAddItem
  <2>1. PICK i \in Unused(scr) :
          \E s \in InternalAddItem(scr, i) : scr' = IF s.place[i] = "world" THEN AddThing(s, i) ELSE s
    BY <1>6 DEF DoPlayerAddItem
  <2>2. PICK s \in InternalAddItem(scr, i) : scr' = AddThing(s, i) \/ scr' = s
    BY <2>1
  <2>3. Kept(scr, s)
    BY <1>1, <2>1, <2>2, InternalAddItemKeeps
  <2>4. s.depth \in 1..Limit /\ ItemsHeld(s)
    BY <1>6, <2>3 DEF DoPlayerAddItem, Kept, OnlyItems
  <2>5. Kept(s, AddThing(s, i))
    BY <1>1, <2>1, <2>4, AddThingKeeps
  <2>6. Kept(scr, scr')
    BY <2>2, <2>3, <2>5, KeptTwice
  <2> QED BY <1>6, <2>6 DEF DoPlayerAddItem
<1>7. CASE AddItemEx
  <2>1. PICK i \in Thing : /\ Running /\ scr.place[i] = "virtual"
                           /\ \E s \in InternalAddItem(scr, i) : scr' = RemoveTempItem(s, i)
    BY <1>7 DEF AddItemEx
  <2>2. PICK s \in InternalAddItem(scr, i) : scr' = RemoveTempItem(s, i)
    BY <2>1
  <2>3. Kept(scr, s) /\ (s.place[i] # "virtual" \/ i \in s.parted)
    BY <2>1, <2>2, InternalAddItemKeeps
  <2>4. Kept(s, scr')
    BY <2>2, <2>3, ForgettingKeeps DEF Kept
  <2> QED BY <2>1, <2>3, <2>4, KeptTwice
<1>8. CASE MoveTo
  BY <1>8, InternalAddItemKeeps DEF MoveTo
<1>9. CASE RemoveItem
  BY <1>9, InternalRemoveItemKeeps DEF RemoveItem
<1>10. CASE Transform
  <2>1. PICK i \in Thing :
          /\ Running /\ Alive(i)
          /\ \/ scr' = AddThing(scr, i)
             \/ scr' = UsedUp(scr, i)
             \/ scr.place[i] = "world" /\ \E j \in Unused(scr) : scr' = Replaced(scr, i, j)
    BY <1>10 DEF Transform
  <2> QED BY <2>1, AddThingKeeps, UsedUpKeeps, ReplacedKeeps DEF Alive
<1>11. CASE Split
  <2>1. PICK i \in Thing, j \in Unused(scr) :
          /\ Running /\ Alive(i)
          /\ \E s \in {AddThing(scr, i), UsedUp(scr, i)} : scr' = AddTempItem(s, j)
    BY <1>11, ScriptsAssumption DEF Split
  <2>2. PICK s \in {AddThing(scr, i), UsedUp(scr, i)} : scr' = AddTempItem(s, j)
    BY <2>1
  <2>3. Kept(scr, s) /\ s.depth \in 1..Limit /\ Still(scr, s, i)
    BY <2>1, <2>2, AddThingKeeps, UsedUpKeeps DEF Alive, Kept, OnlyItems, Still
  <2>4. j \in Unused(s)
    <3>1. i # j /\ scr.place[j] = "none"
      BY <2>1 DEF Unused, Alive
    <3> QED BY <2>3, <3>1 DEF Unused, Still
  <2>5. Kept(s, scr')
    BY <2>2, <2>3, <2>4, CreatingKeeps DEF Kept
  <2> QED BY <2>1, <2>3, <2>5, KeptTwice
<1> QED BY <1>2, <1>3, <1>4, <1>5, <1>6, <1>7, <1>8, <1>9, <1>10, <1>11 DEF ItemCalls

\* Of the calls that are outstanding an item says nothing.
LEMMA KeptCalls ==
  ASSUME NEW s, CallsHeld(s), NEW t, Kept(s, t), s.depth # 0
  PROVE  CallsHeld(t)
  BY DEF CallsHeld, Kept, OnlyItems

\* The calls that are outstanding, when nothing of the items is changed.
OnlyCalls(s, t) ==
  /\ t \in ScrState
  /\ t.depth = s.depth /\ t.place = s.place /\ t.temp = s.temp /\ t.known = s.known
  /\ t.parted = s.parted /\ t.twice = s.twice

LEMMA OnlyCallsKeep ==
  ASSUME NEW s, ItemsHeld(s), NEW t, OnlyCalls(s, t)
  PROVE  ItemsHeld(t)
  BY DEF ItemsHeld, OnlyCalls, OneScript, LeftOver

\* What an action that changes some of them leaves.
Rearranged(s, t, st, ev, wa, rf, ask) ==
  /\ OnlyCalls(s, t)
  /\ t.set = st /\ t.events = ev /\ t.waiting = wa /\ t.refs = rf /\ t.asked = ask
  /\ t.running = s.running /\ t.expired = s.expired /\ t.results = s.results

LEMMA CallsAre ==
  ASSUME NEW s \in ScrState, NEW st \in SUBSET Timer, NEW ev \in SUBSET Timer, NEW wa \in SUBSET Timer,
         NEW rf \in SUBSET (Timer \cup AsyncCall), NEW ask \in SUBSET AsyncCall
  PROVE  Rearranged(s, [s EXCEPT !.set = st, !.events = ev, !.waiting = wa, !.refs = rf, !.asked = ask],
                    st, ev, wa, rf, ask)
<1> DEFINE t == [s EXCEPT !.set = st, !.events = ev, !.waiting = wa, !.refs = rf, !.asked = ask]
<1>4. t = [s EXCEPT !.set = st, !.events = ev, !.waiting = wa, !.refs = rf, !.asked = ask]
  OBVIOUS
<1>5. s \in ScrState
  OBVIOUS
<1> HIDE DEF t
<1>1. t = [depth |-> s.depth, running |-> s.running, place |-> s.place, temp |-> s.temp,
           known |-> s.known, events |-> ev, waiting |-> wa, expired |-> s.expired, set |-> st,
           refs |-> rf, asked |-> ask, results |-> s.results, parted |-> s.parted,
           twice |-> s.twice]
  BY <1>4, <1>5 DEF ScrState
<1>2. /\ s.depth \in 0..Limit + 1 /\ s.running \in SUBSET (Timer \cup AsyncCall)
      /\ s.place \in [Thing -> Place] /\ s.temp \in SUBSET ((1..Limit) \X Thing)
      /\ s.known \in SUBSET ((1..Limit) \X Thing) /\ s.expired \in SUBSET Timer
      /\ s.results \in SUBSET AsyncCall /\ s.parted \in SUBSET Thing /\ s.twice \in BOOLEAN
  BY DEF ScrState
<1>3. t \in ScrState
  BY <1>1, <1>2 DEF ScrState
<1>6. Rearranged(s, t, st, ev, wa, rf, ask)
  BY <1>1, <1>3 DEF OnlyCalls, Rearranged
<1> QED BY <1>6 DEF t

CallActions == \/ StoreQuery \/ ResultFree \/ LuaAddEvent \/ LuaStopEvent \/ AsyncQuery \/ TimerExpires

LEMMA CallActionsKeep ==
  ASSUME ScrInv, CallActions
  PROVE  ScrInv'
<1> DEFINE t == scr'
<1>1. scr \in ScrState /\ ItemsHeld(scr) /\ CallsHeld(scr)
  BY DEF ScrInv, ItemsHeld
<1>2. ASSUME OnlyCalls(scr, t), CallsHeld(t) PROVE ScrInv'
  <2>1. ItemsHeld(t)
    BY <1>1, <1>2, OnlyCallsKeep
  <2> QED BY <1>2, <2>1 DEF ScrInv
<1>3. CASE StoreQuery \/ ResultFree
  <2>1. PICK r \in SUBSET AsyncCall : Running /\ scr' = [scr EXCEPT !.results = r]
    <3>1. CASE StoreQuery
      <4>1. PICK q \in AsyncCall : Running /\ scr' = [scr EXCEPT !.results = @ \cup {q}]
        BY <3>1 DEF StoreQuery
      <4>2. scr.results \cup {q} \in SUBSET AsyncCall
        BY <1>1 DEF ScrState
      <4> QED BY <4>1, <4>2
    <3>2. CASE ResultFree
      <4>1. PICK q \in scr.results : Running /\ scr' = [scr EXCEPT !.results = @ \ {q}]
        BY <3>2 DEF ResultFree
      <4>2. scr.results \ {q} \in SUBSET AsyncCall
        BY <1>1 DEF ScrState
      <4> QED BY <4>1, <4>2
    <3> QED BY <1>3, <3>1, <3>2
  <2>2. /\ OnlyCalls(scr, t)
        /\ t.refs = scr.refs /\ t.events = scr.events /\ t.asked = scr.asked
        /\ t.running = scr.running /\ t.waiting = scr.waiting /\ t.expired = scr.expired
        /\ t.set = scr.set /\ t.depth # 0
    BY <1>1, <2>1 DEF ScrState, OnlyCalls, Running
  <2> HIDE DEF t
  <2>3. CallsHeld(t)
    BY <1>1, <2>2 DEF CallsHeld, OnlyCalls
  <2> QED BY <1>2, <2>2, <2>3
<1>4. CASE LuaAddEvent
  <2>1. PICK k \in Timer :
          /\ Running /\ k \notin scr.set
          /\ scr' = [scr EXCEPT !.set = @ \cup {k}, !.events = @ \cup {k}, !.waiting = @ \cup {k}, !.refs = @ \cup {k}]
    BY <1>4 DEF LuaAddEvent
  <2> DEFINE st == scr.set \cup {k}
             ev == scr.events \cup {k}
             wa == scr.waiting \cup {k}
             rf == scr.refs \cup {k}
  <2>4. st \in SUBSET Timer /\ ev \in SUBSET Timer /\ wa \in SUBSET Timer
        /\ rf \in SUBSET (Timer \cup AsyncCall)
    BY <1>1 DEF ScrState
  <2>5. t = [scr EXCEPT !.set = st, !.events = ev, !.waiting = wa, !.refs = rf, !.asked = scr.asked]
    BY <1>1, <2>1 DEF ScrState
  <2> HIDE DEF st, ev, wa, rf
  <2>2. /\ OnlyCalls(scr, t)
        /\ t.refs = rf /\ t.events = ev /\ t.asked = scr.asked
        /\ t.running = scr.running /\ t.waiting = wa /\ t.expired = scr.expired
        /\ t.set = st /\ t.depth # 0
    <3>1. scr.asked \in SUBSET AsyncCall
      BY <1>1 DEF ScrState
    <3>2. Rearranged(scr, t, st, ev, wa, rf, scr.asked)
      BY <1>1, <2>4, <2>5, <3>1, CallsAre
    <3> HIDE DEF t
    <3> QED BY <2>1, <3>2 DEF OnlyCalls, Rearranged, Running
  <2> HIDE DEF t
  <2>6. scr.running \in SUBSET (Timer \cup AsyncCall) /\ k \notin scr.running
    BY <1>1, <2>1 DEF CallsHeld, ScrState
  <2>3. CallsHeld(t)
    BY <1>1, <2>1, <2>2, <2>6 DEF CallsHeld, OnlyCalls, st, ev, wa, rf
  <2> QED BY <1>2, <2>2, <2>3
<1>5. CASE LuaStopEvent
  <2>1. PICK k \in scr.events : Running /\ scr' = StopTimer(scr, k)
    BY <1>5 DEF LuaStopEvent
  <2>2. k \in scr.refs /\ k \notin scr.asked /\ k \notin scr.running /\ k \in Timer
    BY <1>1, <2>1, ScriptsAssumption DEF CallsHeld, ScrState
  <2> DEFINE rf == scr.refs \ {k}
             ev == scr.events \ {k}
             wa == scr.waiting \ {k}
  <2>3. t = [scr EXCEPT !.set = scr.set, !.events = ev, !.waiting = wa, !.refs = rf, !.asked = scr.asked]
    BY <1>1, <2>1, <2>2 DEF StopTimer, Unref, ScrState
  <2>6. ev \in SUBSET Timer /\ wa \in SUBSET Timer /\ rf \in SUBSET (Timer \cup AsyncCall)
    BY <1>1 DEF ScrState
  <2> HIDE DEF ev, wa, rf
  <2>4. /\ OnlyCalls(scr, t)
        /\ t.refs = rf /\ t.events = ev /\ t.asked = scr.asked
        /\ t.running = scr.running /\ t.waiting = wa /\ t.expired = scr.expired
        /\ t.set = scr.set /\ t.depth # 0
    <3>1. scr.asked \in SUBSET AsyncCall /\ scr.set \in SUBSET Timer
      BY <1>1 DEF ScrState
    <3>2. Rearranged(scr, t, scr.set, ev, wa, rf, scr.asked)
      BY <1>1, <2>3, <2>6, <3>1, CallsAre
    <3> HIDE DEF t
    <3> QED BY <2>1, <3>2 DEF OnlyCalls, Rearranged, Running
  <2> HIDE DEF t
  <2>5. CallsHeld(t)
    BY <1>1, <2>2, <2>4 DEF CallsHeld, OnlyCalls, ev, wa, rf
  <2> QED BY <1>2, <2>4, <2>5
<1>6. CASE AsyncQuery
  <2>1. PICK q \in AsyncCall :
          /\ Running /\ q \notin scr.asked \cup scr.refs
          /\ scr' = [scr EXCEPT !.asked = @ \cup {q}, !.refs = @ \cup {q}]
    BY <1>6 DEF AsyncQuery
  <2> DEFINE ask == scr.asked \cup {q}
             rf == scr.refs \cup {q}
  <2>4. ask \in SUBSET AsyncCall /\ rf \in SUBSET (Timer \cup AsyncCall)
    BY <1>1 DEF ScrState
  <2>5. t = [scr EXCEPT !.set = scr.set, !.events = scr.events, !.waiting = scr.waiting, !.refs = rf,
                        !.asked = ask]
    BY <1>1, <2>1 DEF ScrState
  <2> HIDE DEF ask, rf
  <2>2. /\ OnlyCalls(scr, t)
        /\ t.refs = rf /\ t.events = scr.events /\ t.asked = ask
        /\ t.running = scr.running /\ t.waiting = scr.waiting /\ t.expired = scr.expired
        /\ t.set = scr.set /\ t.depth # 0
    <3>1. /\ scr.events \in SUBSET Timer /\ scr.waiting \in SUBSET Timer
          /\ scr.set \in SUBSET Timer
      BY <1>1 DEF ScrState
    <3>2. Rearranged(scr, t, scr.set, scr.events, scr.waiting, rf, ask)
      BY <1>1, <2>4, <2>5, <3>1, CallsAre
    <3> HIDE DEF t
    <3> QED BY <2>1, <3>2 DEF OnlyCalls, Rearranged, Running
  <2> HIDE DEF t
  <2>3. CallsHeld(t)
    BY <1>1, <2>1, <2>2 DEF CallsHeld, OnlyCalls, ask, rf
  <2> QED BY <1>2, <2>2, <2>3
<1>7. CASE TimerExpires
  <2>1. PICK k \in scr.waiting : scr' = [scr EXCEPT !.waiting = @ \ {k}, !.expired = @ \cup {k}]
    BY <1>7 DEF TimerExpires
  <2>2. /\ OnlyCalls(scr, t)
        /\ t.refs = scr.refs /\ t.events = scr.events /\ t.asked = scr.asked
        /\ t.running = scr.running /\ t.waiting = scr.waiting \ {k} /\ t.expired = scr.expired \cup {k}
        /\ t.set = scr.set /\ t.results = scr.results
    BY <1>1, <2>1 DEF ScrState, OnlyCalls
  <2> HIDE DEF t
  <2>3. CallsHeld(t)
    BY <1>1, <2>1, <2>2 DEF CallsHeld, OnlyCalls
  <2> QED BY <1>2, <2>2, <2>3
<1> QED BY <1>3, <1>4, <1>5, <1>6, <1>7 DEF CallActions

-----------------------------------------------------------------------------
(* Scripts begin and end *)

\* What a script has left is released or forgotten.
LEMMA ResetEnvKeeps ==
  ASSUME NEW s, ItemsHeld(s), s.depth \in 1..Limit, NEW t, t = ResetEnv(s)
  PROVE  /\ ItemsHeld(t) /\ t.depth = s.depth - 1 /\ t.results = {}
         /\ s.depth = 1 => t.temp = {} /\ t.known = {}
         /\ t.running = s.running /\ t.events = s.events /\ t.waiting = s.waiting
         /\ t.expired = s.expired /\ t.set = s.set /\ t.refs = s.refs /\ t.asked = s.asked
<1> DEFINE mine == {i \in Thing : <<s.depth, i>> \in s.temp /\ Abandoned(s, i)}
           pl == [i \in Thing |-> IF i \in mine THEN "released" ELSE s.place[i]]
           te == {e \in s.temp : e[1] # s.depth}
           kn == {e \in s.known : e[1] # s.depth}
           d == s.depth - 1
<1>1. s \in ScrState
  BY DEF ItemsHeld
<1>2. \A i \in mine : s.place[i] = "virtual"
  BY DEF Abandoned
<1>3. Each(s, mine) = [s EXCEPT !.place = pl]
  BY <1>1, <1>2 DEF Each, ScrState
<1>4. ResetEnv(s) = [Each(s, mine) EXCEPT !.temp = {e \in @ : e[1] # s.depth},
                       !.known = {e \in @ : e[1] # s.depth}, !.results = {}, !.depth = @ - 1]
  BY DEF ResetEnv
<1>5. t = [s EXCEPT !.place = pl, !.temp = te, !.known = kn, !.results = {}, !.depth = d]
  BY <1>1, <1>3, <1>4 DEF ScrState
<1>6. /\ pl \in [Thing -> Place]
      /\ \A i \in Thing : IF i \in mine THEN pl[i] = "released" ELSE pl[i] = s.place[i]
  BY <1>1, PlaceIs DEF ScrState
<1>7. /\ te \in SUBSET ((1..Limit) \X Thing) /\ kn \in SUBSET ((1..Limit) \X Thing)
      /\ \A e : e \in te <=> e \in s.temp /\ e[1] # s.depth
      /\ \A e : e \in kn <=> e \in s.known /\ e[1] # s.depth
  BY <1>1 DEF ScrState
<1>8. d \in 0..Limit + 1 /\ d = s.depth - 1 /\ Limit \in Nat
  BY ScriptsAssumption
<1>9. \A i \in Thing : i \in mine <=> s.place[i] = "virtual" /\ <<s.depth, i>> \in s.temp
  BY DEF Abandoned
<1> HIDE DEF mine, pl, te, kn, d
<1>10. t \in ScrState
  <2>1. {} \in SUBSET AsyncCall
    OBVIOUS
  <2>2. /\ s.running \in SUBSET (Timer \cup AsyncCall) /\ s.events \in SUBSET Timer
        /\ s.waiting \in SUBSET Timer /\ s.expired \in SUBSET Timer /\ s.set \in SUBSET Timer
        /\ s.refs \in SUBSET (Timer \cup AsyncCall) /\ s.asked \in SUBSET AsyncCall
        /\ s.parted \in SUBSET Thing /\ s.twice \in BOOLEAN
    BY <1>1 DEF ScrState
  <2>3. t = [depth |-> d, running |-> s.running, place |-> pl, temp |-> te, known |-> kn,
             events |-> s.events, waiting |-> s.waiting, expired |-> s.expired, set |-> s.set,
             refs |-> s.refs, asked |-> s.asked, results |-> {}, parted |-> s.parted,
             twice |-> s.twice]
    BY <1>1, <1>5 DEF ScrState
  <2> QED BY <1>6, <1>7, <1>8, <2>1, <2>2, <2>3 DEF ScrState
<1>11. /\ t.depth = d /\ t.running = s.running /\ t.events = s.events
       /\ t.waiting = s.waiting /\ t.expired = s.expired /\ t.set = s.set
       /\ t.refs = s.refs /\ t.asked = s.asked /\ t.results = {}
       /\ t.temp = te /\ t.known = kn /\ t.parted = s.parted /\ t.twice = s.twice
       /\ t.place = pl
  BY <1>1, <1>5 DEF ScrState
<1> HIDE DEF ScrState
<1>12. ASSUME NEW i \in Thing, t.place[i] = "virtual"
       PROVE  OneScript(t, i) \/ LeftOver(t, i)
  <2>1. s.place[i] = "virtual" /\ <<s.depth, i>> \notin s.temp
    BY <1>6, <1>9, <1>11, <1>12
  <2>2. CASE OneScript(s, i)
    <3>1. PICK e \in s.temp : e[2] = i /\ \A f \in s.temp : f[2] = i => f = e
      BY <2>2 DEF OneScript
    <3>2. e \in (1..Limit) \X Thing
      BY <1>1, <3>1 DEF ScrState
    <3>3. e[1] # s.depth
      BY <2>1, <3>1, <3>2
    <3> QED BY <1>7, <1>11, <3>1, <3>3 DEF OneScript
  <2>3. CASE LeftOver(s, i)
    BY <1>7, <1>11, <2>3 DEF LeftOver
  <2> QED BY <2>1, <2>2, <2>3 DEF ItemsHeld
<1>13. ASSUME NEW e \in t.temp \cup t.known
       PROVE  e[1] <= t.depth /\ t.place[e[2]] # "none" /\ e[1] \in 1..Limit
  <2>1. e \in s.temp \cup s.known /\ e[1] # s.depth
    BY <1>7, <1>11
  <2>2. e[1] <= s.depth /\ s.place[e[2]] # "none"
    BY <2>1 DEF ItemsHeld
  <2>3. e[1] \in 1..Limit /\ e[2] \in Thing
    BY <1>1, <2>1 DEF ScrState
  <2> QED BY <1>6, <1>8, <1>11, <2>1, <2>2, <2>3
<1>14. ItemsHeld(t)
  BY <1>10, <1>11, <1>12, <1>13 DEF ItemsHeld
<1>15. s.depth = 1 => t.temp = {} /\ t.known = {}
  BY <1>8, <1>11, <1>13
<1> QED BY <1>8, <1>11, <1>14, <1>15

LEMMA ReturnKeeps ==
  ASSUME ScrInv, Return
  PROVE  ScrInv'
<1> DEFINE u == ResetEnv(scr)
           t == scr'
<1>1. ItemsHeld(scr) /\ CallsHeld(scr) /\ scr.depth \in 1..Limit
  BY DEF ScrInv, Return, Running
<1>2. /\ ItemsHeld(u) /\ u.depth = scr.depth - 1 /\ u.results = {}
      /\ scr.depth = 1 => u.temp = {} /\ u.known = {}
      /\ u.running = scr.running /\ u.events = scr.events /\ u.waiting = scr.waiting
      /\ u.expired = scr.expired /\ u.set = scr.set /\ u.refs = scr.refs /\ u.asked = scr.asked
  BY <1>1, ResetEnvKeeps
<1>3. t = IF scr.depth = 1 THEN [Unref(u, scr.running) EXCEPT !.running = {}] ELSE u
  BY DEF Return
<1> HIDE DEF u, t
<1>4. u \in ScrState
  BY <1>2 DEF ItemsHeld
<1>5. CASE scr.depth = 1
  <2> DEFINE rf == u.refs \ scr.running
  <2>1. scr.running \subseteq u.refs
    BY <1>1, <1>2 DEF CallsHeld
  <2>2. t = [u EXCEPT !.refs = rf, !.running = {}]
    BY <1>3, <1>4, <1>5, <2>1 DEF Unref, ScrState
  <2>3. rf \in SUBSET (Timer \cup AsyncCall)
    BY <1>4 DEF ScrState
  <2> HIDE DEF rf
  <2>4. /\ OnlyCalls(u, t) /\ t.running = {} /\ t.refs = rf /\ t.results = {}
        /\ t.events = u.events /\ t.waiting = u.waiting /\ t.expired = u.expired
        /\ t.set = u.set /\ t.asked = u.asked
    BY <1>2, <1>4, <2>2, <2>3 DEF ScrState, OnlyCalls
  <2>5. CallsHeld(t)
    BY <1>1, <1>2, <1>5, <2>4 DEF CallsHeld, OnlyCalls, rf
  <2>6. ItemsHeld(t)
    BY <1>2, <2>4, OnlyCallsKeep
  <2>7. ItemsHeld(t) /\ CallsHeld(t)
    BY <2>5, <2>6
  <2> QED BY <2>7 DEF ScrInv, t
<1>6. CASE scr.depth # 1
  <2>1. t = u /\ u.depth # 0
    BY <1>1, <1>2, <1>3, <1>6
  <2>2. ItemsHeld(t) /\ CallsHeld(t)
    BY <1>1, <1>2, <2>1 DEF CallsHeld
  <2> QED BY <2>2 DEF ScrInv, t
<1> QED BY <1>5, <1>6

\* A script is called, by another one or by a task.
LEMMA CallKeeps ==
  ASSUME ScrInv, Call
  PROVE  ScrInv'
<1> DEFINE d == scr.depth + 1
           t == scr'
<1>1. scr \in ScrState /\ ItemsHeld(scr) /\ CallsHeld(scr) /\ scr.depth \in 0..Limit
  BY DEF ScrInv, ItemsHeld, Call
<1>2. t = [scr EXCEPT !.depth = d] /\ d \in 0..Limit + 1 /\ d # 0 /\ d > scr.depth
  BY <1>1, ScriptsAssumption DEF Call
<1> HIDE DEF d
<1>3. /\ t \in ScrState /\ t.depth = d /\ t.running = scr.running /\ t.events = scr.events
      /\ t.waiting = scr.waiting /\ t.expired = scr.expired /\ t.set = scr.set
      /\ t.refs = scr.refs /\ t.asked = scr.asked /\ t.results = scr.results
      /\ t.temp = scr.temp /\ t.known = scr.known /\ t.parted = scr.parted
      /\ t.twice = scr.twice /\ t.place = scr.place
  BY <1>1, <1>2 DEF ScrState
<1> HIDE DEF t
<1>4. ASSUME NEW e \in t.temp \cup t.known PROVE e[1] <= t.depth /\ t.place[e[2]] # "none"
  <2>1. e[1] <= scr.depth /\ scr.place[e[2]] # "none" /\ e[1] \in 1..Limit
    BY <1>1, <1>3 DEF ItemsHeld, ScrState
  <2> QED BY <1>1, <1>2, <1>3, <2>1, ScriptsAssumption
<1>5. ItemsHeld(t)
  BY <1>1, <1>3, <1>4 DEF ItemsHeld, OneScript, LeftOver
<1>6. CallsHeld(t)
  BY <1>1, <1>2, <1>3 DEF CallsHeld
<1>7. ItemsHeld(t) /\ CallsHeld(t)
  BY <1>5, <1>6
<1> QED BY <1>7 DEF ScrInv, t

LEMMA TasksKeep ==
  ASSUME ScrInv, ExecuteTimerEvent \/ Callback
  PROVE  ScrInv'
<1> DEFINE t == scr'
<1>1. /\ scr \in ScrState /\ ItemsHeld(scr) /\ CallsHeld(scr) /\ scr.depth = 0
      /\ scr.temp = {} /\ scr.known = {} /\ scr.results = {} /\ scr.running = {}
  BY DEF ScrInv, ItemsHeld, CallsHeld, ExecuteTimerEvent, Callback, Idle
<1>2. 1 \in 0..Limit + 1
  BY ScriptsAssumption
<1>3. ASSUME t \in ScrState, t.place = scr.place, t.temp = {}, t.known = {},
             t.parted = scr.parted, t.twice = scr.twice
      PROVE  ItemsHeld(t)
  BY <1>1, <1>3 DEF ItemsHeld, OneScript, LeftOver
<1>4. CASE \E k \in scr.expired : k \in scr.events
             /\ t = [scr EXCEPT !.expired = @ \ {k}, !.events = @ \ {k}, !.depth = 1, !.running = {k}]
  <2>1. PICK k \in scr.expired : k \in scr.events
             /\ t = [scr EXCEPT !.expired = @ \ {k}, !.events = @ \ {k}, !.depth = 1, !.running = {k}]
    BY <1>4
  <2> DEFINE ex == scr.expired \ {k}
             ev == scr.events \ {k}
             run == {k}
  <2>2. ex \in SUBSET Timer /\ ev \in SUBSET Timer /\ run \in SUBSET (Timer \cup AsyncCall)
    BY <1>1, <2>1 DEF ScrState
  <2>3. t = [scr EXCEPT !.expired = ex, !.events = ev, !.depth = 1, !.running = run]
    BY <2>1
  <2> HIDE DEF ex, ev, run, t
  <2>4. t = [depth |-> 1, running |-> run, place |-> scr.place, temp |-> scr.temp,
             known |-> scr.known, events |-> ev, waiting |-> scr.waiting, expired |-> ex,
             set |-> scr.set, refs |-> scr.refs, asked |-> scr.asked, results |-> scr.results,
             parted |-> scr.parted, twice |-> scr.twice]
    BY <1>1, <2>3 DEF ScrState
  <2>5. t \in ScrState
    BY <1>1, <1>2, <2>2, <2>4 DEF ScrState
  <2>6. ItemsHeld(t)
    BY <1>1, <1>3, <2>4, <2>5
  <2>7. k \notin scr.asked
    BY <1>1, <2>1, ScriptsAssumption DEF ScrState
  <2>8. CallsHeld(t)
    BY <1>1, <2>1, <2>4, <2>7 DEF CallsHeld, ex, ev, run
  <2>9. ItemsHeld(t) /\ CallsHeld(t)
    BY <2>6, <2>8
  <2> QED BY <2>9 DEF t, ScrInv
<1>5. CASE \E k \in scr.expired : k \notin scr.events /\ t = [scr EXCEPT !.expired = @ \ {k}]
  <2>1. PICK k \in scr.expired : k \notin scr.events /\ t = [scr EXCEPT !.expired = @ \ {k}]
    BY <1>5
  <2>2. /\ t \in ScrState /\ t.depth = 0 /\ t.running = {} /\ t.events = scr.events
        /\ t.waiting = scr.waiting /\ t.expired = scr.expired \ {k} /\ t.set = scr.set
        /\ t.refs = scr.refs /\ t.asked = scr.asked /\ t.results = {}
        /\ t.temp = {} /\ t.known = {} /\ t.parted = scr.parted
        /\ t.twice = scr.twice /\ t.place = scr.place
    BY <1>1, <2>1 DEF ScrState
  <2> HIDE DEF t
  <2>3. ItemsHeld(t)
    BY <1>3, <2>2
  <2>4. CallsHeld(t)
    BY <1>1, <2>1, <2>2 DEF CallsHeld
  <2>5. ItemsHeld(t) /\ CallsHeld(t)
    BY <2>3, <2>4
  <2> QED BY <2>5 DEF t, ScrInv
<1>6. CASE Callback
  <2>1. PICK q \in scr.asked : \E r \in {scr.results \cup {q}, scr.results} :
          t = [scr EXCEPT !.asked = @ \ {q}, !.depth = 1, !.running = {q}, !.results = r]
    <3>1. PICK q \in scr.asked : \E stored \in BOOLEAN :
            t = [scr EXCEPT !.asked = @ \ {q}, !.depth = 1, !.running = {q},
                            !.results = IF stored THEN @ \cup {q} ELSE @]
      BY <1>6 DEF Callback
    <3>2. PICK stored \in BOOLEAN :
            t = [scr EXCEPT !.asked = @ \ {q}, !.depth = 1, !.running = {q},
                            !.results = IF stored THEN @ \cup {q} ELSE @]
      BY <3>1
    <3> QED BY <3>2
  <2>10. PICK r \in {scr.results \cup {q}, scr.results} :
          t = [scr EXCEPT !.asked = @ \ {q}, !.depth = 1, !.running = {q}, !.results = r]
    BY <2>1
  <2> DEFINE ask == scr.asked \ {q}
             run == {q}
  <2>2. /\ ask \in SUBSET AsyncCall /\ r \in SUBSET AsyncCall
        /\ run \in SUBSET (Timer \cup AsyncCall) /\ q \in AsyncCall
    BY <1>1, <2>1, <2>10 DEF ScrState
  <2>3. t = [scr EXCEPT !.asked = ask, !.depth = 1, !.running = run, !.results = r]
    BY <2>10
  <2> HIDE DEF ask, run, t
  <2>4. t = [depth |-> 1, running |-> run, place |-> scr.place, temp |-> scr.temp,
             known |-> scr.known, events |-> scr.events, waiting |-> scr.waiting,
             expired |-> scr.expired, set |-> scr.set, refs |-> scr.refs, asked |-> ask,
             results |-> r, parted |-> scr.parted, twice |-> scr.twice]
    BY <1>1, <2>3 DEF ScrState
  <2>5. t \in ScrState
    BY <1>1, <1>2, <2>2, <2>4 DEF ScrState
  <2>6. ItemsHeld(t)
    BY <1>1, <1>3, <2>4, <2>5
  <2>7. q \notin scr.events /\ q \notin Timer
    BY <1>1, <2>2, ScriptsAssumption DEF ScrState
  <2>8. CallsHeld(t)
    BY <1>1, <2>1, <2>4, <2>7 DEF CallsHeld, ask, run
  <2>9. ItemsHeld(t) /\ CallsHeld(t)
    BY <2>6, <2>8
  <2> QED BY <2>9 DEF t, ScrInv
<1>7. ExecuteTimerEvent =>
        \/ \E k \in scr.expired : k \in scr.events
             /\ t = [scr EXCEPT !.expired = @ \ {k}, !.events = @ \ {k}, !.depth = 1, !.running = {k}]
        \/ \E k \in scr.expired : k \notin scr.events /\ t = [scr EXCEPT !.expired = @ \ {k}]
  BY DEF ExecuteTimerEvent
<1> QED BY <1>4, <1>5, <1>6, <1>7

\* What is freed nobody holds, as no script runs.
LEMMA CleanupKeeps ==
  ASSUME ScrInv, Cleanup
  PROVE  ScrInv'
<1> DEFINE t == scr'
           pl == [i \in Thing |-> IF scr.place[i] = "released" THEN "none" ELSE scr.place[i]]
           pa == {i \in scr.parted : scr.place[i] # "released"}
<1>1. /\ scr \in ScrState /\ ItemsHeld(scr) /\ CallsHeld(scr) /\ scr.depth = 0
      /\ scr.temp = {} /\ scr.known = {} /\ scr.results = {} /\ scr.running = {}
  BY DEF ScrInv, ItemsHeld, CallsHeld, Cleanup, Idle
<1>2. /\ pl \in [Thing -> Place]
      /\ \A i \in Thing : pl[i] = "virtual" <=> scr.place[i] = "virtual"
  BY <1>1, PlaceIs DEF ScrState
<1>3. /\ pa \in SUBSET Thing
      /\ \A i : i \in pa <=> i \in scr.parted /\ scr.place[i] # "released"
  BY <1>1 DEF ScrState
<1>4. t = [scr EXCEPT !.place = pl, !.parted = pa]
  BY <1>1 DEF Cleanup
<1> HIDE DEF t, pl, pa
<1>5. /\ t \in ScrState /\ t.depth = 0 /\ t.running = {} /\ t.events = scr.events
      /\ t.waiting = scr.waiting /\ t.expired = scr.expired /\ t.set = scr.set
      /\ t.refs = scr.refs /\ t.asked = scr.asked /\ t.results = {}
      /\ t.temp = {} /\ t.known = {} /\ t.parted = pa
      /\ t.twice = scr.twice /\ t.place = pl
  BY <1>1, <1>2, <1>3, <1>4 DEF ScrState
<1>6. ASSUME NEW i \in Thing, t.place[i] = "virtual" PROVE LeftOver(t, i)
  <2>1. scr.place[i] = "virtual"
    BY <1>2, <1>5, <1>6
  <2>2. LeftOver(scr, i)
    BY <1>1, <2>1 DEF ItemsHeld, OneScript
  <2> QED BY <1>3, <1>5, <2>1, <2>2 DEF LeftOver
<1>7. ItemsHeld(t)
  BY <1>1, <1>5, <1>6 DEF ItemsHeld
<1>8. CallsHeld(t)
  BY <1>1, <1>5 DEF CallsHeld
<1>9. ItemsHeld(t) /\ CallsHeld(t)
  BY <1>7, <1>8
<1> QED BY <1>9 DEF t, ScrInv

-----------------------------------------------------------------------------
(* The invariant *)

LEMMA ScrInitially == ScriptsInit => ScrInv
<1> SUFFICES ASSUME ScriptsInit PROVE ScrInv
  OBVIOUS
<1> DEFINE pl == [i \in Thing |-> "none"]
<1>1. pl \in [Thing -> Place] /\ \A i \in Thing : pl[i] = "none"
  BY PlaceIs
<1>2. 0 \in 0..Limit + 1
  BY ScriptsAssumption
<1>3. scr = [depth |-> 0, running |-> {}, place |-> pl, temp |-> {}, known |-> {},
             events |-> {}, waiting |-> {}, expired |-> {}, set |-> {}, refs |-> {},
             asked |-> {}, results |-> {}, parted |-> {}, twice |-> FALSE]
  BY DEF ScriptsInit
<1> HIDE DEF pl
<1>4. scr \in ScrState
  BY <1>1, <1>2, <1>3 DEF ScrState
<1>5. ItemsHeld(scr) /\ CallsHeld(scr)
  BY <1>1, <1>3, <1>4 DEF ItemsHeld, CallsHeld
<1> QED BY <1>5 DEF ScrInv

LEMMA ScrInductive == ScrInv /\ [ScriptsNext]_scr => ScrInv'
<1>1. ScrInv /\ UNCHANGED scr => ScrInv'
  BY DEF ScrInv
<1>2. ASSUME ScrInv, ItemCalls PROVE ScrInv'
  <2>1. Kept(scr, scr') /\ Running
    BY <1>2, ItemCallsKeep DEF ScrInv
  <2>2. scr.depth # 0
    BY <2>1, ScriptsAssumption DEF Running
  <2> QED BY <1>2, <2>1, <2>2, KeptCalls DEF ScrInv, Kept
<1>3. ASSUME ScrInv, ScriptsNext PROVE ScrInv'
  BY <1>2, <1>3, CallActionsKeep, ReturnKeeps, CallKeeps, TasksKeep, CleanupKeeps
     DEF ScriptsNext, ItemCalls, CallActions
<1> QED BY <1>1, <1>3

LEMMA ScrInvSuffices == ScrInv => ScriptsAgree
<1> SUFFICES ASSUME ScrInv PROVE ScriptsAgree
  OBVIOUS
<1>1. scr \in ScrState /\ ItemsHeld(scr) /\ CallsHeld(scr)
  BY DEF ScrInv, ItemsHeld
<1>2. ScriptsTypeOK
  BY <1>1 DEF ScriptsTypeOK, ScrState
<1>3. ASSUME NEW i \in Thing, scr.place[i] = "virtual"
      PROVE  \/ Cardinality({e \in scr.temp : e[2] = i}) = 1
             \/ i \in scr.parted /\ {e \in scr.temp : e[2] = i} = {}
  <2>1. CASE OneScript(scr, i)
    <3>1. PICK e \in scr.temp : e[2] = i /\ \A f \in scr.temp : f[2] = i => f = e
      BY <2>1 DEF OneScript
    <3>2. {f \in scr.temp : f[2] = i} = {e}
      BY <3>1
    <3> QED BY <3>2, FS_Singleton
  <2>2. CASE LeftOver(scr, i)
    BY <2>2 DEF LeftOver
  <2> QED BY <1>1, <1>3, <2>1, <2>2 DEF ItemsHeld
<1>4. ItemsOwned
  BY <1>1, <1>3 DEF ItemsOwned, ItemsHeld
<1>5. RefsOwned /\ EventsCome /\ NothingLeft
  BY <1>1 DEF CallsHeld, RefsOwned, EventsCome, NothingLeft, Idle
<1> QED BY <1>2, <1>4, <1>5 DEF ScriptsAgree

\* Whatever scripts do, and whatever they call in the midst of it, an item
\* without a place has one owner that will release it, references in the
\* registry are given up once, and a script leaves nothing behind
\* (luascript.cpp, ScriptEnvironment).
THEOREM ScriptsStayInAgreement == ScriptsSpec => []ScriptsAgree
<1>1. ScriptsInit => ScrInv
  BY ScrInitially
<1>2. ScrInv /\ [ScriptsNext]_scr => ScrInv'
  BY ScrInductive
<1>3. ScrInv => ScriptsAgree
  BY ScrInvSuffices
<1> QED BY <1>1, <1>2, <1>3, PTL DEF ScriptsSpec

-----------------------------------------------------------------------------
(* Blows and spells *)

\* Of the sets in T, one has no other as a subset; of numbers, one is least.
LEMMA LeastSet ==
  ASSUME NEW X, IsFiniteSet(X), NEW T \in SUBSET (SUBSET X), T # {}
  PROVE  \E Z \in T : \A R \in T : R \subseteq Z => R = Z
<1>1. FiniteSubsetsOf(X) = SUBSET X
  BY FS_FiniteSubsetsOfFinite
<1>2. IsWellFoundedOn(StrictSubsetOrdering(X), SUBSET X)
  BY <1>1, FS_StrictSubsetOrderingWellFounded
<1>3. PICK Z \in T : \A R \in T : <<R, Z>> \notin StrictSubsetOrdering(X)
  BY <1>2, WFMin
<1> QED BY <1>3 DEF StrictSubsetOrdering

LEMMA LeastNumber ==
  ASSUME NEW K \in SUBSET Nat, NEW n \in K
  PROVE  \E m \in K : \A k \in K : m <= k
<1> DEFINE J == {j \in K : j <= n}
           T == {1..k : k \in J}
<1>1. IsFiniteSet(1..n)
  BY FS_Interval
<1>2. \A k \in J : 1..k \in SUBSET (1..n)
  OBVIOUS
<1>3. T \in SUBSET (SUBSET (1..n)) /\ T # {}
  BY <1>2
<1>4. PICK Z \in T : \A R \in T : R \subseteq Z => R = Z
  <2> HIDE DEF T
  <2> DEFINE X == 1..n
  <2>1. IsFiniteSet(X) /\ T \in SUBSET (SUBSET X) /\ T # {}
    BY <1>1, <1>3
  <2> HIDE DEF X
  <2>2. \E Z \in T : \A R \in T : R \subseteq Z => R = Z
    BY <2>1, LeastSet
  <2> QED BY <2>2
<1>5. PICK m \in J : Z = 1..m
  BY <1>4
<1>6. ASSUME NEW k \in K, k < m PROVE FALSE
  <2>1. k \in J /\ 1..k \in T /\ 1..k \subseteq 1..m
    BY <1>5, <1>6
  <2>2. 1..k = 1..m
    <3> HIDE DEF T
    <3> QED BY <1>4, <1>5, <2>1
  <2>3. m \in 1..m /\ m \notin 1..k
    BY <1>5, <1>6
  <2> QED BY <2>2, <2>3
<1> QED BY <1>5, <1>6

\* A function on the subsets of X, each of whose values is got from that of a
\* smaller set, exists.
Below(X, n) == {Z \in SUBSET X : Cardinality(Z) <= n}

GotFrom(f, Dom, base, G, e) ==
  \A Z \in Dom : f[Z] = IF Z = {} THEN base ELSE G[Z][f[Z \ {e[Z]}]]

LEMMA Recursion ==
  ASSUME NEW X, IsFiniteSet(X), NEW Y, NEW base \in Y, NEW G \in [SUBSET X -> [Y -> Y]], NEW e,
         \A Z \in SUBSET X : Z # {} => e[Z] \in Z
  PROVE  \E f \in [SUBSET X -> Y] : GotFrom(f, SUBSET X, base, G, e)
<1> DEFINE Q(n) == \E f \in [Below(X, n) -> Y] : GotFrom(f, Below(X, n), base, G, e)
           K == {n \in Nat : ~Q(n)}
<1>1. \A Z \in SUBSET X : /\ IsFiniteSet(Z) /\ Cardinality(Z) \in Nat
                          /\ Cardinality(Z) <= Cardinality(X)
                          /\ Cardinality(Z) = 0 <=> Z = {}
  BY FS_Subset, FS_CardinalityType, FS_EmptySet
<1>2. Q(0)
  <2> DEFINE f == [Z \in Below(X, 0) |-> base]
  <2>1. \A Z \in Below(X, 0) : Z = {}
    BY <1>1 DEF Below
  <2>2. f \in [Below(X, 0) -> Y] /\ GotFrom(f, Below(X, 0), base, G, e)
    BY <2>1 DEF GotFrom
  <2> QED BY <2>2
<1>3. ASSUME NEW n \in Nat, n > 0, Q(n - 1) PROVE Q(n)
  <2>1. PICK f \in [Below(X, n - 1) -> Y] : GotFrom(f, Below(X, n - 1), base, G, e)
    BY <1>3
  <2> DEFINE g == [Z \in Below(X, n) |-> IF Z = {} THEN base ELSE G[Z][f[Z \ {e[Z]}]]]
  <2>2. ASSUME NEW Z \in Below(X, n), Z # {}
        PROVE  Z \in SUBSET X /\ Z \ {e[Z]} \in Below(X, n - 1) /\ Z \ {e[Z]} \in Below(X, n)
    <3>1. Z \in SUBSET X /\ e[Z] \in Z /\ Cardinality(Z) <= n /\ Cardinality(Z) \in Nat
      BY <1>1, <2>2 DEF Below
    <3>2. Cardinality(Z \ {e[Z]}) = Cardinality(Z) - 1
      BY <1>1, <3>1, FS_RemoveElement
    <3>3. Z \ {e[Z]} \in SUBSET X
      BY <3>1
    <3> QED BY <1>3, <3>1, <3>2, <3>3 DEF Below
  <2>3. g \in [Below(X, n) -> Y]
    <3>1. ASSUME NEW Z \in Below(X, n), Z # {} PROVE G[Z][f[Z \ {e[Z]}]] \in Y
      BY <2>1, <2>2, <3>1
    <3> QED BY <3>1
  <2>4. ASSUME NEW Z \in Below(X, n - 1) PROVE Z \in Below(X, n) /\ g[Z] = f[Z]
    <3>1. Z \in Below(X, n)
      BY <1>1, <1>3 DEF Below
    <3>2. f[Z] = IF Z = {} THEN base ELSE G[Z][f[Z \ {e[Z]}]]
      BY <2>1 DEF GotFrom
    <3> QED BY <3>1, <3>2
  <2>5. ASSUME NEW Z \in Below(X, n)
        PROVE  g[Z] = IF Z = {} THEN base ELSE G[Z][g[Z \ {e[Z]}]]
    <3>1. CASE Z = {}
      BY <3>1
    <3>2. CASE Z # {}
      <4>1. g[Z \ {e[Z]}] = f[Z \ {e[Z]}]
        BY <2>2, <2>4, <3>2
      <4>2. g[Z] = G[Z][f[Z \ {e[Z]}]]
        BY <3>2
      <4> HIDE DEF g
      <4> QED BY <3>2, <4>1, <4>2
    <3> QED BY <3>1, <3>2
  <2> HIDE DEF g
  <2>6. GotFrom(g, Below(X, n), base, G, e)
    BY <2>5 DEF GotFrom
  <2> QED BY <2>3, <2>6
<1> HIDE DEF Q
<1>4. K = {}
  <2> SUFFICES ASSUME NEW n \in K PROVE FALSE
    OBVIOUS
  <2>1. PICK m \in K : \A k \in K : m <= k
    BY LeastNumber
  <2>2. m \in Nat /\ m # 0 /\ m - 1 \in Nat /\ m - 1 \notin K
    BY <1>2, <2>1
  <2> QED BY <1>3, <2>2
<1>5. Q(Cardinality(X)) /\ Cardinality(X) \in Nat
  BY <1>1, <1>4
<1>6. Below(X, Cardinality(X)) = SUBSET X
  BY <1>1 DEF Below
<1> QED BY <1>5, <1>6 DEF Q

-----------------------------------------------------------------------------
(* States *)

CastingState ==
  [hp : [Duellist -> 0..MaxHealth], mana : [Duellist -> 0..MaxMana],
   exhaust : [Duellist -> [Group -> 0..MaxExhaust]], owed : [Duellist -> [Group -> 0..MaxExhaust]],
   deaths : [Duellist -> Nat], shielded : SUBSET Duellist, left : SUBSET Duellist,
   runes : 0..MaxRunes, watched : SUBSET {"health", "mana"}]

Doomed(s) == \A p \in Duellist : s.hp[p] = 0 => s.deaths[p] > 0

\* t follows from s by blows and healing, which may have killed those of P.
Harm(s, t, P) ==
  /\ t \in CastingState
  /\ t.exhaust = s.exhaust /\ t.owed = s.owed /\ t.left = s.left /\ t.runes = s.runes
  /\ t.watched = s.watched
  /\ Doomed(s) => Doomed(t)
  /\ \A p \in Duellist : t.deaths[p] <= s.deaths[p] + IF p \in P THEN 1 ELSE 0

Scripted == [mana : Nat \cup {Same}, health : Nat \cup {Same}, heals : BOOLEAN, spares : BOOLEAN]

Blows0 == [first : Nat, second : Nat, seen : BOOLEAN]

LEMMA HarmTwice ==
  ASSUME NEW s \in CastingState, NEW t, NEW u, NEW P, NEW Q, P \cap Q = {},
         Harm(s, t, P), Harm(t, u, Q)
  PROVE  Harm(s, u, P \cup Q)
<1>1. ASSUME NEW p \in Duellist
      PROVE  u.deaths[p] <= s.deaths[p] + IF p \in P \cup Q THEN 1 ELSE 0
  <2>1. s.deaths[p] \in Nat /\ t.deaths[p] \in Nat /\ u.deaths[p] \in Nat
    BY DEF Harm, CastingState
  <2>2. /\ t.deaths[p] <= s.deaths[p] + IF p \in P THEN 1 ELSE 0
        /\ u.deaths[p] <= t.deaths[p] + IF p \in Q THEN 1 ELSE 0
    BY DEF Harm
  <2> QED BY <2>1, <2>2
<1> QED BY <1>1 DEF Harm

LEMMA HarmNone == ASSUME NEW s \in CastingState, NEW P PROVE Harm(s, s, P)
  BY DEF Harm, CastingState

LEMMA HarmMore ==
  ASSUME NEW s \in CastingState, NEW t, NEW P, NEW Q, P \subseteq Q, Harm(s, t, P)
  PROVE  Harm(s, t, Q)
<1>1. ASSUME NEW p \in Duellist
      PROVE  t.deaths[p] <= s.deaths[p] + IF p \in Q THEN 1 ELSE 0
  <2>1. s.deaths[p] \in Nat /\ t.deaths[p] \in Nat
    BY DEF Harm, CastingState
  <2> QED BY <2>1 DEF Harm
<1> QED BY <1>1 DEF Harm

LEMMA ManaHarmsNone ==
  ASSUME NEW s \in CastingState, NEW p \in Duellist, NEW n \in Int
  PROVE  LET t == ChangeMana(s, p, n) IN
         /\ Harm(s, t, {}) /\ t.hp = s.hp /\ t.deaths = s.deaths /\ t.shielded = s.shielded
         /\ \A q \in Duellist : t.mana[q] = IF q = p THEN Least(MaxMana, Most(0, s.mana[p] + n))
                                            ELSE s.mana[q]
<1> DEFINE m == Least(MaxMana, Most(0, s.mana[p] + n))
           f == [s.mana EXCEPT ![p] = m]
           t == ChangeMana(s, p, n)
<1>1. MaxMana \in Nat
  BY CastingAssumption
<1>2. s.mana[p] \in 0..MaxMana
  BY DEF CastingState
<1>3. m \in 0..MaxMana
  BY <1>1, <1>2 DEF Least, Most
<1>4. t = [s EXCEPT !.mana = f]
  BY DEF ChangeMana
<1> HIDE DEF m
<1>5. f \in [Duellist -> 0..MaxMana] /\ \A q \in Duellist : f[q] = IF q = p THEN m ELSE s.mana[q]
  BY <1>3 DEF CastingState
<1> HIDE DEF f, t
<1>6. /\ t \in CastingState /\ t.mana = f /\ t.hp = s.hp /\ t.deaths = s.deaths
      /\ t.shielded = s.shielded /\ t.exhaust = s.exhaust /\ t.owed = s.owed /\ t.left = s.left
      /\ t.runes = s.runes /\ t.watched = s.watched
  BY <1>4, <1>5 DEF CastingState
<1>7. Harm(s, t, {})
  BY <1>6 DEF Harm, CastingState, Doomed
<1> QED BY <1>5, <1>6, <1>7 DEF t, m

LEMMA HealthHarmsOne ==
  ASSUME NEW s \in CastingState, NEW p \in Duellist, NEW n \in Int
  PROVE  LET t == ChangeHealth(s, p, n) IN
         /\ Harm(s, t, {p}) /\ (n > 0 => Harm(s, t, {}))
         /\ t.mana = s.mana /\ t.shielded = s.shielded
         /\ \A q \in Duellist : t.hp[q] = IF q = p THEN Least(MaxHealth, Most(0, s.hp[p] + n))
                                          ELSE s.hp[q]
<1> DEFINE h == Least(MaxHealth, Most(0, s.hp[p] + n))
           d == IF h = 0 THEN s.deaths[p] + 1 ELSE s.deaths[p]
           f == [s.hp EXCEPT ![p] = h]
           g == [s.deaths EXCEPT ![p] = d]
           t == ChangeHealth(s, p, n)
<1>1. MaxHealth \in Nat /\ MaxHealth > 0
  BY CastingAssumption
<1>2. s.hp[p] \in 0..MaxHealth /\ s.deaths[p] \in Nat
  BY DEF CastingState
<1>3. h \in 0..MaxHealth /\ d \in Nat /\ (n > 0 => h > 0)
  BY <1>1, <1>2 DEF Least, Most
<1>4. t = [s EXCEPT !.hp = f, !.deaths = g]
  BY DEF ChangeHealth
<1>5. /\ h = 0 => d = s.deaths[p] + 1
      /\ h # 0 => d = s.deaths[p]
  OBVIOUS
<1> HIDE DEF h, d
<1>6. /\ f \in [Duellist -> 0..MaxHealth] /\ g \in [Duellist -> Nat]
      /\ \A q \in Duellist : /\ f[q] = IF q = p THEN h ELSE s.hp[q]
                             /\ g[q] = IF q = p THEN d ELSE s.deaths[q]
  BY <1>3 DEF CastingState
<1> HIDE DEF f, g, t
<1>7. /\ t \in CastingState /\ t.mana = s.mana /\ t.hp = f /\ t.deaths = g
      /\ t.shielded = s.shielded /\ t.exhaust = s.exhaust /\ t.owed = s.owed /\ t.left = s.left
      /\ t.runes = s.runes /\ t.watched = s.watched
  BY <1>4, <1>6 DEF CastingState
<1>8. Doomed(s) => Doomed(t)
  BY <1>2, <1>5, <1>6, <1>7 DEF Doomed
<1>9. \A q \in Duellist : s.deaths[q] \in Nat
  BY DEF CastingState
<1>10. Harm(s, t, {p})
  BY <1>2, <1>5, <1>6, <1>7, <1>8, <1>9 DEF Harm
<1>11. n > 0 => Harm(s, t, {})
  BY <1>2, <1>3, <1>5, <1>6, <1>7, <1>8, <1>9 DEF Harm
<1> QED BY <1>6, <1>7, <1>10, <1>11 DEF t, h

-----------------------------------------------------------------------------
(* Blows *)

LEMMA RestIs ==
  ASSUME NEW b \in Blows0, NEW n \in Nat, n <= Total(b)
  PROVE  /\ Rest(b, n) \in Blows0 /\ Rest(b, n).seen = b.seen
         /\ Total(Rest(b, n)) = Total(b) - n
<1> DEFINE i == Most(0, b.first - n)
           j == IF b.first < n THEN Most(0, b.second + b.first - n) ELSE b.second
           r == Rest(b, n)
<1>1. b.first \in Nat /\ b.second \in Nat /\ b.seen \in BOOLEAN /\ n <= b.first + b.second
  BY DEF Blows0, Total
<1>2. i \in Nat /\ j \in Nat /\ i + j = b.first + b.second - n
  BY <1>1 DEF Most
<1>3. r = [b EXCEPT !.first = i, !.second = j]
  BY DEF Rest
<1> HIDE DEF i, j, r
<1>4. r \in Blows0 /\ r.first = i /\ r.second = j /\ r.seen = b.seen
  BY <1>2, <1>3 DEF Blows0
<1>5. Total(r) = Total(b) - n
  BY <1>1, <1>2, <1>4 DEF Total
<1> QED BY <1>4, <1>5 DEF r

LEMMA LeastOf ==
  ASSUME NEW i \in Nat, NEW j \in Nat
  PROVE  Least(i, j) \in Nat /\ Least(i, j) <= i /\ Least(i, j) <= j
  BY DEF Least

LEMMA BlowIs ==
  ASSUME NEW i \in Nat, NEW j \in Nat, NEW seen \in BOOLEAN
  PROVE  /\ Blow(i, j, seen) \in Blows0 /\ Total(Blow(i, j, seen)) = i + j
         /\ Blow(i, j, seen).seen = seen /\ Blow(i, j, seen).first = i
         /\ Blow(i, j, seen).second = j
  BY DEF Blow, Blows0, Total

LEMMA TotalIs == ASSUME NEW b \in Blows0 PROVE Total(b) \in Nat
  BY DEF Blows0, Total

LEMMA ManaChanged ==
  ASSUME NEW s, NEW b \in Blows0, NEW c \in Scripted
  PROVE  OnManaChange(s, b, c) \in Blows0
<1>1. CASE b.seen /\ "mana" \in s.watched /\ c.mana # Same
  <2> DEFINE m == c.mana
  <2>1. m \in Nat
    BY <1>1 DEF Scripted
  <2> DEFINE u == [b EXCEPT !.first = m, !.second = 0]
  <2>2. OnManaChange(s, b, c) = u
    BY <1>1 DEF OnManaChange
  <2> HIDE DEF m
  <2>3. u \in Blows0
    BY <2>1 DEF Blows0
  <2> QED BY <2>2, <2>3
<1>2. CASE ~(b.seen /\ "mana" \in s.watched /\ c.mana # Same)
  BY <1>2 DEF OnManaChange
<1> QED BY <1>1, <1>2

LEMMA AbsorbedHarms ==
  ASSUME NEW s \in CastingState, NEW t \in Duellist, NEW b \in Blows0
  PROVE  LET n == Least(s.mana[t], Total(b))
             r == Absorbed(s, t, b)
         IN  /\ Harm(s, r.state, {}) /\ r.blow \in Blows0
             /\ Total(r.blow) = Total(b) - n /\ n \in Nat
             /\ r.state.hp = s.hp /\ r.state.shielded = s.shielded
             /\ r.state.mana[t] = s.mana[t] - n
<1> DEFINE n == Least(s.mana[t], Total(b))
           u == ChangeMana(s, t, -n)
           v == Rest(b, n)
           r == Absorbed(s, t, b)
<1>1. s.mana[t] \in Nat /\ s.mana[t] <= MaxMana /\ Total(b) \in Nat /\ MaxMana \in Nat
  BY TotalIs, CastingAssumption DEF CastingState
<1>2. n \in Nat /\ n <= s.mana[t] /\ n <= Total(b)
  BY <1>1, LeastOf
<1>3. r = [state |-> u, blow |-> v]
  BY DEF Absorbed
<1> HIDE DEF n, r
<1>4. v \in Blows0 /\ Total(v) = Total(b) - n
  BY <1>2, RestIs
<1>5. -n \in Int
  BY <1>2
<1>6. /\ Harm(s, u, {}) /\ u.hp = s.hp /\ u.shielded = s.shielded
      /\ u.mana[t] = Least(MaxMana, Most(0, s.mana[t] + (-n)))
  BY <1>5, ManaHarmsNone
<1>7. u.mana[t] = s.mana[t] - n
  <2>1. Most(0, s.mana[t] + (-n)) = s.mana[t] - n
    BY <1>1, <1>2 DEF Most
  <2>2. Least(MaxMana, s.mana[t] - n) = s.mana[t] - n
    BY <1>1, <1>2 DEF Least
  <2> QED BY <1>6, <2>1, <2>2
<1> HIDE DEF u, v
<1>8. r.state = u /\ r.blow = v
  BY <1>3
<1>9. /\ Harm(s, r.state, {}) /\ r.blow \in Blows0
      /\ Total(r.blow) = Total(b) - n /\ n \in Nat
      /\ r.state.hp = s.hp /\ r.state.shielded = s.shielded
      /\ r.state.mana[t] = s.mana[t] - n
  BY <1>2, <1>4, <1>6, <1>7, <1>8
<1> QED BY <1>9 DEF n, r

LEMMA AbsorbsHarms ==
  ASSUME NEW s \in CastingState, NEW t \in Duellist, NEW b \in Blows0, NEW c \in Scripted
  PROVE  LET r == Absorbs(s, t, b, c)
         IN  Harm(s, r.state, {}) /\ r.state \in CastingState /\ r.blow \in Blows0
<1> DEFINE r == Absorbs(s, t, b, c)
           o == OnManaChange(s, b, c)
           q == t \in s.shielded /\ s.mana[t] > 0 /\ Total(b) > 0
<1>1. CASE q
  <2>1. r = Absorbed(s, t, o)
    BY <1>1 DEF Absorbs
  <2>2. o \in Blows0
    BY ManaChanged
  <2> HIDE DEF o, r
  <2>3. Harm(s, r.state, {}) /\ r.blow \in Blows0
    BY <2>1, <2>2, AbsorbedHarms
  <2> QED BY <2>3 DEF r, Harm
<1>2. CASE ~q
  <2>1. r = [state |-> s, blow |-> b]
    BY <1>2 DEF Absorbs
  <2> HIDE DEF r
  <2>2. r.state = s /\ r.blow = b
    BY <2>1
  <2> QED BY <2>2, HarmNone DEF r
<1> QED BY <1>1, <1>2

\* What is drained is what there is.
LEMMA DrainsHarms ==
  ASSUME NEW s \in CastingState, NEW t \in Duellist, NEW b \in Blows0, NEW c \in Scripted
  PROVE  /\ Harm(s, Drains(s, t, b, c), {t})
         /\ Drains(s, t, b, c).mana = s.mana
         /\ c.spares = FALSE => Drains(s, t, b, c).hp[t] = Most(0, s.hp[t] - Total(b))
<1> DEFINE i == Least(b.first, s.hp[t])
           j == Least(b.second, s.hp[t] - i)
           n == i + j
           u == ChangeHealth(s, t, -n)
           r == Drains(s, t, b, c)
<1>1. /\ b.first \in Nat /\ b.second \in Nat /\ s.hp[t] \in Nat /\ s.hp[t] <= MaxHealth
      /\ MaxHealth \in Nat /\ c.spares \in BOOLEAN
  BY CastingAssumption DEF CastingState, Blows0, Scripted
<1>2. i \in Nat /\ i <= b.first /\ i <= s.hp[t]
  BY <1>1, LeastOf
<1>3. /\ n \in Nat /\ n <= s.hp[t] /\ -n \in Int
      /\ s.hp[t] - n = Most(0, s.hp[t] - Total(b))
  BY <1>1, <1>2 DEF Least, Most, Total
<1>4. r = IF n = 0 \/ (n >= s.hp[t] /\ c.spares) THEN s ELSE u
  BY DEF Drains
<1> HIDE DEF n, r, i, j
<1>5. /\ Harm(s, u, {t}) /\ u.mana = s.mana
      /\ u.hp[t] = Least(MaxHealth, Most(0, s.hp[t] + (-n)))
  BY <1>3, HealthHarmsOne
<1>6. u.hp[t] = s.hp[t] - n
  <2>1. Most(0, s.hp[t] + (-n)) = s.hp[t] - n
    BY <1>1, <1>3 DEF Most
  <2>2. Least(MaxHealth, s.hp[t] - n) = s.hp[t] - n
    BY <1>1, <1>3 DEF Least
  <2> QED BY <1>5, <2>1, <2>2
<1> HIDE DEF u
<1>7. Harm(s, s, {t})
  BY HarmNone
<1>8. /\ Harm(s, r, {t}) /\ r.mana = s.mana
      /\ c.spares = FALSE => r.hp[t] = s.hp[t] - n
  BY <1>1, <1>3, <1>4, <1>5, <1>6, <1>7
<1> QED BY <1>3, <1>8 DEF r

LEMMA HealsHarms ==
  ASSUME NEW s \in CastingState, NEW t \in Duellist, NEW n \in Nat, n > 0
  PROVE  Harm(s, Heals(s, t, n), {})
<1>1. Harm(s, s, {})
  BY HarmNone
<1>2. n \in Int /\ n > 0
  OBVIOUS
<1>3. Harm(s, ChangeHealth(s, t, n), {})
  BY <1>2, HealthHarmsOne
<1> QED BY <1>1, <1>3 DEF Heals

LEMMA HurtsUnseenHarms ==
  ASSUME NEW s \in CastingState, NEW t \in Duellist, NEW b \in Blows0, NEW c \in Scripted
  PROVE  Harm(s, HurtsUnseen(s, t, b, c), {t})
<1> DEFINE v == [b EXCEPT !.seen = FALSE]
           r == Absorbs(s, t, v, c)
           u == Drains(r.state, t, r.blow, c)
<1>1. v \in Blows0
  BY DEF Blows0
<1> HIDE DEF v
<1>2. Harm(s, r.state, {}) /\ r.state \in CastingState /\ r.blow \in Blows0
  BY <1>1, AbsorbsHarms
<1> HIDE DEF r
<1>3. Harm(r.state, u, {t})
  BY <1>2, DrainsHarms
<1>4. Harm(s, u, {} \cup {t})
  <2>1. {} \cap {t} = {}
    OBVIOUS
  <2> HIDE DEF u
  <2> QED BY <1>2, <1>3, <2>1, HarmTwice
<1>5. {} \cup {t} = {t}
  OBVIOUS
<1>6. HurtsUnseen(s, t, b, c) = u
  BY DEF HurtsUnseen, u, r, v
<1> QED BY <1>4, <1>5, <1>6

LEMMA OnHealthChangeHarms ==
  ASSUME NEW s \in CastingState, NEW t \in Duellist, NEW b \in Blows0, NEW c \in Scripted
  PROVE  Harm(s, OnHealthChange(s, t, b, c), {t})
<1>1. CASE c.health = Same
  BY <1>1, HurtsUnseenHarms DEF OnHealthChange
<1>2. CASE c.health # Same /\ c.heals /\ c.health > 0
  <2>1. c.health \in Nat
    BY <1>2 DEF Scripted
  <2>2. Harm(s, Heals(s, t, c.health), {})
    BY <1>2, <2>1, HealsHarms
  <2>3. Harm(s, Heals(s, t, c.health), {t})
    <3>1. {} \subseteq {t}
      OBVIOUS
    <3> QED BY <2>2, <3>1, HarmMore
  <2> QED BY <1>2, <2>3 DEF OnHealthChange
<1>3. CASE c.health # Same /\ ~(c.heals /\ c.health > 0)
  <2>1. c.health \in Nat
    BY <1>3 DEF Scripted
  <2>2. Blow(c.health, 0, FALSE) \in Blows0
    BY <2>1, BlowIs
  <2>3. Harm(s, HurtsUnseen(s, t, Blow(c.health, 0, FALSE), c), {t})
    BY <2>2, HurtsUnseenHarms
  <2> QED BY <1>3, <2>3 DEF OnHealthChange
<1> QED BY <1>1, <1>2, <1>3

LEMMA HurtsHarms ==
  ASSUME NEW s \in CastingState, NEW t \in Duellist, NEW b \in Blows0, NEW c \in Scripted
  PROVE  Harm(s, Hurts(s, t, b, c), {t})
<1> DEFINE r == Absorbs(s, t, b, c)
           u == Hurts(s, t, b, c)
<1>1. u = OnHealthChange(r.state, t, r.blow, c) \/ u = Drains(r.state, t, r.blow, c)
  BY DEF Hurts
<1>2. Harm(s, r.state, {}) /\ r.state \in CastingState /\ r.blow \in Blows0
  BY AbsorbsHarms
<1> HIDE DEF r, u
<1>3. Harm(r.state, u, {t})
  <2>1. /\ Harm(r.state, OnHealthChange(r.state, t, r.blow, c), {t})
        /\ Harm(r.state, Drains(r.state, t, r.blow, c), {t})
    BY <1>2, DrainsHarms, OnHealthChangeHarms
  <2> QED BY <1>1, <2>1
<1>4. {} \cap {t} = {} /\ {} \cup {t} = {t}
  OBVIOUS
<1>5. Harm(s, u, {} \cup {t})
  BY <1>2, <1>3, <1>4, HarmTwice
<1> QED BY <1>4, <1>5 DEF u

\* A creature that has none left is not healed; a script may turn healing into
\* a blow.
LEMMA HealsSeenHarms ==
  ASSUME NEW s \in CastingState, NEW t \in Duellist, NEW n \in Nat, n > 0, NEW c \in Scripted
  PROVE  Harm(s, HealsSeen(s, t, n, c), {t})
<1> DEFINE u == HealsSeen(s, t, n, c)
<1>1. {} \subseteq {t} /\ Harm(s, Heals(s, t, n), {})
  BY HealsHarms
<1>2. CASE c.health = Same
  BY <1>1, <1>2, HarmMore DEF HealsSeen
<1>3. CASE c.health # Same
  <2>1. c.health \in Nat
    BY <1>3 DEF Scripted
  <2>2. c.health > 0 => Harm(s, Heals(s, t, c.health), {})
    BY <2>1, HealsHarms
  <2>3. Harm(s, HurtsUnseen(s, t, Blow(c.health, 0, FALSE), c), {t})
    BY <2>1, BlowIs, HurtsUnseenHarms
  <2>4. \/ u = Heals(s, t, n)
        \/ c.health > 0 /\ u = Heals(s, t, c.health)
        \/ u = HurtsUnseen(s, t, Blow(c.health, 0, FALSE), c)
    BY DEF HealsSeen
  <2> HIDE DEF u
  <2>5. Harm(s, u, {}) \/ Harm(s, u, {t})
    BY <1>1, <2>2, <2>3, <2>4
  <2>6. Harm(s, u, {t})
    BY <1>1, <2>5, HarmMore
  <2> QED BY <2>6 DEF u
<1> QED BY <1>2, <1>3

LEMMA DrainsManaHarms ==
  ASSUME NEW s \in CastingState, NEW t \in Duellist, NEW n \in Nat, NEW c \in Scripted
  PROVE  Harm(s, DrainsMana(s, t, n, c), {})
<1> DEFINE m == IF "mana" \in s.watched /\ c.mana # Same THEN c.mana ELSE n
           k == -Least(s.mana[t], m)
<1>1. s.mana[t] \in Nat /\ m \in Nat
  BY CastingAssumption DEF CastingState, Scripted
<1>2. Least(s.mana[t], m) \in Nat
  <2> HIDE DEF m
  <2> QED BY <1>1, LeastOf
<1>3. DrainsMana(s, t, n, c) = ChangeMana(s, t, k)
  BY DEF DrainsMana
<1> HIDE DEF m
<1>4. k \in Int
  BY <1>2
<1> HIDE DEF k
<1> QED BY <1>3, <1>4, ManaHarmsNone

LEMMA LeechesHarm ==
  ASSUME NEW before \in CastingState, NEW s \in CastingState, NEW a \in Duellist,
         NEW t \in Duellist, NEW r \in Leeches(s, before, a, t)
  PROVE  Harm(s, r, {})
<1> DEFINE n == before.hp[t] - s.hp[t]
<1>1. CASE r = s
  BY <1>1, HarmNone
<1>2. CASE r # s
  <2>1. PICK i \in 1..n, j \in 1..n : r = ChangeMana(Heals(s, a, i), a, j)
    BY <1>2 DEF Leeches
  <2>2. n \in Int
    BY DEF CastingState
  <2> HIDE DEF n
  <2>3. i \in Nat /\ i > 0 /\ j \in Int
    BY <2>2
  <2> DEFINE u == Heals(s, a, i)
  <2>4. Harm(s, u, {})
    BY <2>3, HealsHarms
  <2> HIDE DEF u
  <2>5. u \in CastingState
    BY <2>4 DEF Harm
  <2>6. Harm(u, r, {})
    BY <2>1, <2>3, <2>5, ManaHarmsNone DEF u
  <2>7. {} \cap {} = {} /\ {} \cup {} = {}
    OBVIOUS
  <2>8. Harm(s, r, {} \cup {})
    BY <2>4, <2>6, <2>7, HarmTwice
  <2> QED BY <2>7, <2>8
<1> QED BY <1>1, <1>2

LEMMA BlockedIs ==
  ASSUME NEW b \in CombatDamage, NEW d \in CombatBlockHit(b)
  PROVE  d \in Blows0
<1>1. PICK i \in 0..Strength : b = Blow(i, Strength - i, TRUE)
  BY DEF CombatDamage
<1>2. i \in Nat /\ Strength - i \in Nat
  BY CastingAssumption
<1>3. b.first \in Nat /\ b.second \in Nat /\ b.seen \in BOOLEAN
  <2>1. b \in Blows0
    BY <1>1, <1>2, BlowIs
  <2> QED BY <2>1 DEF Blows0
<1>4. PICK j \in 0..b.first, k \in 0..b.second : d = Blow(j, k, b.seen)
  BY DEF CombatBlockHit, BlockHit
<1>5. j \in Nat /\ k \in Nat
  BY <1>3, <1>4
<1> QED BY <1>3, <1>4, <1>5, BlowIs

LEMMA TargetCombatHarms ==
  ASSUME NEW s \in CastingState, NEW a \in Duellist, NEW t \in Duellist, NEW c \in Scripted,
         NEW r \in DoTargetCombat(s, a, t, c)
  PROVE  Harm(s, r, {t})
<1>1. PICK b \in CombatDamage : \E d \in CombatBlockHit(b) : r \in Leeches(Hurts(s, t, d, c), s, a, t)
  BY DEF DoTargetCombat
<1>2. PICK d \in CombatBlockHit(b) : r \in Leeches(Hurts(s, t, d, c), s, a, t)
  BY <1>1
<1> DEFINE u == Hurts(s, t, d, c)
<1>3. d \in Blows0
  BY BlockedIs
<1>4. Harm(s, u, {t})
  BY <1>3, HurtsHarms
<1> HIDE DEF u
<1>5. u \in CastingState /\ r \in Leeches(u, s, a, t)
  BY <1>2, <1>4 DEF u, Harm
<1>6. Harm(u, r, {})
  BY <1>5, LeechesHarm
<1>7. {t} \cap {} = {} /\ {t} \cup {} = {t}
  OBVIOUS
<1>8. Harm(s, r, {t} \cup {})
  BY <1>4, <1>6, <1>7, HarmTwice
<1> QED BY <1>7, <1>8

-----------------------------------------------------------------------------
(* Those in an area, one by one *)

StrikeOf(f, s, a, c) ==
  f = [others \in SUBSET (Present(s) \ {a}) |->
        IF others = {} THEN {s}
        ELSE LET t == CHOOSE p \in others : TRUE
             IN  UNION {DoTargetCombat(r, a, t, c) : r \in f[others \ {t}]}]

LEMMA AreaCombatIs ==
  ASSUME NEW s, NEW a, NEW c
  PROVE  DoAreaCombat(s, a, c) = (CHOOSE f : StrikeOf(f, s, a, c))[Present(s) \ {a}]
  BY DEF DoAreaCombat, StrikeOf

LEMMA StrikeExists ==
  ASSUME NEW s \in CastingState, NEW a \in Duellist, NEW c \in Scripted
  PROVE  \E f : StrikeOf(f, s, a, c)
<1> DEFINE X == Present(s) \ {a}
           Y == SUBSET CastingState
           e == [Z \in SUBSET X |-> CHOOSE p \in Z : TRUE]
           Struck(Z, y) == UNION {DoTargetCombat(r, a, e[Z], c) : r \in y}
           G == [Z \in SUBSET X |-> [y \in Y |-> IF Z = {} THEN {} ELSE Struck(Z, y)]]
<1>1. IsFiniteSet(X) /\ X \subseteq Duellist
  <2>1. X \in SUBSET Duellist
    BY DEF Present
  <2> QED BY <2>1, FS_Subset, CastingAssumption
<1> HIDE DEF X
<1>2. \A Z \in SUBSET X : Z # {} => e[Z] \in Z
  OBVIOUS
<1>3. {s} \in Y
  OBVIOUS
<1>4. ASSUME NEW Z \in SUBSET X, Z # {}, NEW y \in Y PROVE Struck(Z, y) \in Y
  <2>1. e[Z] \in Duellist
    BY <1>1, <1>2, <1>4
  <2> HIDE DEF e
  <2>2. \A r \in y : \A u \in DoTargetCombat(r, a, e[Z], c) : u \in CastingState
    BY <2>1, TargetCombatHarms DEF Harm
  <2> QED BY <2>2
<1>5. G \in [SUBSET X -> [Y -> Y]]
  <2> HIDE DEF Struck, Y
  <2>1. {} \in Y
    BY DEF Y
  <2> QED BY <1>4, <2>1
<1> HIDE DEF Y, e, Struck
<1>6. PICK f \in [SUBSET X -> Y] : GotFrom(f, SUBSET X, {s}, G, e)
  <2> HIDE DEF G
  <2> QED BY <1>1, <1>2, <1>3, <1>5, Recursion
<1>7. ASSUME NEW Z \in SUBSET X
      PROVE  f[Z] = IF Z = {} THEN {s} ELSE Struck(Z, f[Z \ {e[Z]}])
  <2>1. f[Z] = IF Z = {} THEN {s} ELSE G[Z][f[Z \ {e[Z]}]]
    BY <1>6 DEF GotFrom
  <2>2. Z # {} => Z \ {e[Z]} \in SUBSET X /\ f[Z \ {e[Z]}] \in Y
    BY <1>6
  <2> QED BY <2>1, <2>2
<1>8. ASSUME NEW Z \in SUBSET X
      PROVE  f[Z] = IF Z = {} THEN {s}
                    ELSE LET t == CHOOSE p \in Z : TRUE
                         IN  UNION {DoTargetCombat(r, a, t, c) : r \in f[Z \ {t}]}
  <2>1. e[Z] = CHOOSE p \in Z : TRUE
    BY DEF e
  <2> QED BY <1>7, <2>1 DEF Struck
<1>9. StrikeOf(f, s, a, c)
  BY <1>6, <1>8 DEF StrikeOf, X
<1> QED BY <1>9

LEMMA AreaCombatHarms ==
  ASSUME NEW s \in CastingState, NEW a \in Duellist, NEW c \in Scripted,
         NEW r \in DoAreaCombat(s, a, c)
  PROVE  Harm(s, r, Duellist)
<1> DEFINE X == Present(s) \ {a}
           f == CHOOSE g : StrikeOf(g, s, a, c)
           T == {Z \in SUBSET X : \E u \in f[Z] : ~Harm(s, u, Z)}
<1>1. StrikeOf(f, s, a, c)
  BY StrikeExists
<1>2. X \in SUBSET Duellist /\ IsFiniteSet(X)
  <2>1. X \in SUBSET Duellist
    BY DEF Present
  <2> QED BY <2>1, FS_Subset, CastingAssumption
<1>3. r \in f[X]
  BY AreaCombatIs
<1> HIDE DEF f
<1>4. f = [Z \in SUBSET X |->
            IF Z = {} THEN {s}
            ELSE LET t == CHOOSE p \in Z : TRUE
                 IN  UNION {DoTargetCombat(u, a, t, c) : u \in f[Z \ {t}]}]
  BY <1>1 DEF StrikeOf
<1> HIDE DEF X
<1>5. ASSUME NEW Z \in T, \A R \in T : R \subseteq Z => R = Z PROVE FALSE
  <2>1. PICK u \in f[Z] : ~Harm(s, u, Z)
    OBVIOUS
  <2>2. CASE Z = {}
    BY <1>4, <2>1, <2>2, HarmNone
  <2>3. CASE Z # {}
    <3> DEFINE t == CHOOSE p \in Z : TRUE
    <3>1. t \in Z /\ t \in Duellist
      BY <1>2, <2>3
    <3>2. f[Z] = UNION {DoTargetCombat(v, a, t, c) : v \in f[Z \ {t}]}
      BY <1>4, <2>3
    <3> HIDE DEF t
    <3>3. PICK v \in f[Z \ {t}] : u \in DoTargetCombat(v, a, t, c)
      BY <2>1, <3>2
    <3>4. Harm(s, v, Z \ {t})
      <4>1. Z \ {t} \in SUBSET X /\ Z \ {t} \subseteq Z /\ Z \ {t} # Z
        BY <3>1
      <4>2. Z \ {t} \notin T
        BY <1>5, <4>1
      <4> QED BY <4>1, <4>2
    <3>5. Harm(v, u, {t})
      BY <3>1, <3>3, <3>4, TargetCombatHarms DEF Harm
    <3>6. (Z \ {t}) \cap {t} = {} /\ (Z \ {t}) \cup {t} = Z
      BY <3>1
    <3>7. Harm(s, u, (Z \ {t}) \cup {t})
      <4> DEFINE P == Z \ {t}
      <4>1. P \cap {t} = {} /\ Harm(s, v, P) /\ Harm(v, u, {t})
        BY <3>4, <3>5, <3>6
      <4> HIDE DEF P
      <4>2. Harm(s, u, P \cup {t})
        BY <4>1, HarmTwice
      <4> QED BY <4>2 DEF P
    <3> QED BY <2>1, <3>6, <3>7
  <2> QED BY <2>2, <2>3
<1>6. T = {}
  <2>1. T \in SUBSET (SUBSET X)
    OBVIOUS
  <2> HIDE DEF T
  <2> QED BY <1>2, <1>5, <2>1, LeastSet
<1>7. Harm(s, r, X)
  <2>1. X \in SUBSET X
    OBVIOUS
  <2> QED BY <1>3, <1>6, <2>1
<1> QED BY <1>2, <1>7, HarmMore

-----------------------------------------------------------------------------
(* Spells *)

SpellRecord == [group : Group, effect : {"strike", "heal", "shield"}, cost : Nat,
                cooldown : 0..MaxExhaust, param : BOOLEAN]

Cooled(s) == \A p \in Duellist, g \in Group : s.owed[p][g] <= s.exhaust[p][g]

\* t keeps of s what a spell, its price or time may not break.
Sound(s) == s \in CastingState /\ Doomed(s) /\ Cooled(s)
Few(s, n) == \A p \in Duellist : s.deaths[p] <= n

LEMMA HarmIsSound ==
  ASSUME NEW s, Sound(s), NEW n \in Nat, Few(s, n), NEW P, NEW t, Harm(s, t, P)
  PROVE  Sound(t) /\ Few(t, n + 1) /\ (P = {} => Few(t, n))
<1>1. s \in CastingState /\ t \in CastingState
  BY DEF Sound, Harm
<1>2. ASSUME NEW p \in Duellist
      PROVE  /\ s.deaths[p] \in Nat /\ t.deaths[p] \in Nat /\ s.deaths[p] <= n
             /\ t.deaths[p] <= s.deaths[p] + IF p \in P THEN 1 ELSE 0
  BY <1>1 DEF CastingState, Few, Harm
<1>3. Sound(t)
  BY <1>1 DEF Sound, Harm, Cooled
<1>4. Few(t, n + 1)
  BY <1>2 DEF Few
<1>5. P = {} => Few(t, n)
  BY <1>2 DEF Few
<1> QED BY <1>3, <1>4, <1>5

LEMMA ShieldHarms ==
  ASSUME NEW s \in CastingState, NEW p \in Duellist, NEW P \in {s.shielded \cup {p}, s.shielded \ {p}}
  PROVE  Harm(s, [s EXCEPT !.shielded = P], {})
<1>1. P \in SUBSET Duellist
  BY DEF CastingState
<1> DEFINE t == [s EXCEPT !.shielded = P]
<1>2. /\ t \in CastingState /\ t.mana = s.mana /\ t.hp = s.hp /\ t.deaths = s.deaths
      /\ t.exhaust = s.exhaust /\ t.owed = s.owed /\ t.left = s.left
      /\ t.runes = s.runes /\ t.watched = s.watched
  BY <1>1 DEF CastingState
<1> HIDE DEF t
<1>3. Harm(s, t, {})
  BY <1>2 DEF Harm, CastingState, Doomed
<1> QED BY <1>3 DEF t

\* Whatever the script of a spell does, each dies of it once.
LEMMA EffectsHarm ==
  ASSUME NEW s \in CastingState, NEW p \in Duellist, NEW x \in SpellRecord, NEW c \in Scripted,
         NEW r \in Effects(s, p, x, c)
  PROVE  Harm(s, r, Duellist)
<1>1. CASE x.effect = "strike"
  BY <1>1, AreaCombatHarms DEF Effects
<1>2. CASE x.effect = "heal"
  <2>1. \/ \E t \in Present(s), n \in 1..Strength : r = HealsSeen(s, t, n, c)
        \/ \E n \in 1..Strength : r = ChangeMana(s, p, n)
    BY <1>2 DEF Effects
  <2>2. Strength \in Nat
    BY CastingAssumption
  <2>3. ASSUME NEW t \in Present(s), NEW n \in 1..Strength, r = HealsSeen(s, t, n, c)
        PROVE  Harm(s, r, Duellist)
    <3>1. t \in Duellist /\ n \in Nat /\ n > 0
      BY <2>2 DEF Present
    <3>2. Harm(s, r, {t})
      BY <2>3, <3>1, HealsSeenHarms
    <3>3. {t} \subseteq Duellist
      BY <3>1
    <3> QED BY <3>2, <3>3, HarmMore
  <2>4. ASSUME NEW n \in 1..Strength, r = ChangeMana(s, p, n) PROVE Harm(s, r, Duellist)
    <3>1. n \in Int /\ {} \subseteq Duellist
      BY <2>2
    <3>2. Harm(s, r, {})
      BY <2>4, <3>1, ManaHarmsNone
    <3> QED BY <3>1, <3>2, HarmMore
  <2> QED BY <2>1, <2>3, <2>4
<1>3. CASE x.effect = "shield"
  <2>1. r = [s EXCEPT !.shielded = s.shielded \cup {p}]
    BY <1>3 DEF Effects
  <2>2. Harm(s, r, {}) /\ {} \subseteq Duellist
    BY <2>1, ShieldHarms
  <2> QED BY <2>2, HarmMore
<1> QED BY <1>1, <1>2, <1>3 DEF SpellRecord

\* Exhaustion only grows, whatever causes it; what the spell asks for is owed.
LEMMA ExhaustIsSound ==
  ASSUME NEW s, Sound(s), NEW p \in Duellist, NEW g \in Group, NEW n \in 0..MaxExhaust
  PROVE  /\ Sound(AddExhaust(s, p, g, n))
         /\ Sound([AddExhaust(s, p, g, n) EXCEPT !.owed[p][g] = n])
         /\ AddExhaust(s, p, g, n).deaths = s.deaths
         /\ [AddExhaust(s, p, g, n) EXCEPT !.owed[p][g] = n].deaths = s.deaths
         /\ [AddExhaust(s, p, g, n) EXCEPT !.owed[p][g] = n].runes = s.runes
<1> DEFINE m == Most(s.exhaust[p][g], n)
           e == [s.exhaust EXCEPT ![p][g] = m]
           o == [s.owed EXCEPT ![p][g] = n]
           t == AddExhaust(s, p, g, n)
           u == [t EXCEPT !.owed[p][g] = n]
<1>1. MaxExhaust \in Nat /\ s \in CastingState
  BY CastingAssumption DEF Sound
<1>2. \A q \in Duellist, h \in Group : s.exhaust[q][h] \in 0..MaxExhaust /\ s.owed[q][h] \in 0..MaxExhaust
  BY <1>1 DEF CastingState
<1>3. m \in 0..MaxExhaust /\ s.exhaust[p][g] <= m /\ n <= m
  BY <1>1, <1>2 DEF Most
<1>4. t = [s EXCEPT !.exhaust = e]
  BY <1>1 DEF AddExhaust, CastingState
<1> HIDE DEF m
<1>5. /\ e \in [Duellist -> [Group -> 0..MaxExhaust]]
      /\ \A q \in Duellist, h \in Group : e[q][h] = IF q = p /\ h = g THEN m ELSE s.exhaust[q][h]
  BY <1>1, <1>3 DEF CastingState
<1>6. /\ o \in [Duellist -> [Group -> 0..MaxExhaust]]
      /\ \A q \in Duellist, h \in Group : o[q][h] = IF q = p /\ h = g THEN n ELSE s.owed[q][h]
  BY <1>1 DEF CastingState
<1> HIDE DEF e, t
<1>7. /\ t \in CastingState /\ t.exhaust = e /\ t.owed = s.owed /\ t.hp = s.hp /\ t.deaths = s.deaths
      /\ t.runes = s.runes
  BY <1>1, <1>4, <1>5 DEF CastingState
<1>8. u = [t EXCEPT !.owed = o]
  BY <1>7 DEF CastingState
<1> HIDE DEF o, u
<1>9. /\ u \in CastingState /\ u.exhaust = e /\ u.owed = o /\ u.hp = s.hp /\ u.deaths = s.deaths
      /\ u.runes = s.runes
  BY <1>6, <1>7, <1>8 DEF CastingState
<1>10. Doomed(t) /\ Doomed(u)
  BY <1>7, <1>9 DEF Sound, Doomed
<1>11. Cooled(t)
  BY <1>2, <1>3, <1>5, <1>7 DEF Sound, Cooled
<1>12. Cooled(u)
  BY <1>2, <1>3, <1>5, <1>6, <1>9 DEF Sound, Cooled
<1> QED BY <1>7, <1>9, <1>10, <1>11, <1>12 DEF Sound, t, u

LEMMA PostCastIsSound ==
  ASSUME NEW s, Sound(s), NEW p \in Duellist, NEW x \in SpellRecord
  PROVE  /\ Sound(PostCastSpell(s, p, x)) /\ PostCastSpell(s, p, x).deaths = s.deaths
         /\ PostCastSpell(s, p, x).runes = s.runes
<1> DEFINE g == x.group
           n == x.cooldown
           k == -x.cost
           u == [AddExhaust(s, p, g, n) EXCEPT !.owed[p][g] = n]
<1>1. g \in Group /\ n \in 0..MaxExhaust /\ k \in Int
  BY DEF SpellRecord
<1>2. PostCastSpell(s, p, x) = ChangeMana(u, p, k)
  BY DEF PostCastSpell
<1> HIDE DEF g, n, k
<1>3. Sound(u) /\ u.deaths = s.deaths /\ u.runes = s.runes
  BY <1>1, ExhaustIsSound
<1> HIDE DEF u
<1>4. u \in CastingState
  BY <1>3 DEF Sound
<1> DEFINE t == ChangeMana(u, p, k)
<1>5. Harm(u, t, {}) /\ t.deaths = u.deaths
  BY <1>1, <1>4, ManaHarmsNone
<1> HIDE DEF t
<1>6. Sound(t) /\ t.runes = u.runes
  BY <1>3, <1>5 DEF Sound, Harm, Cooled
<1> QED BY <1>2, <1>3, <1>5, <1>6 DEF t

\* As many runes as there are, or one less.
LEMMA RuneIsSound ==
  ASSUME NEW s, Sound(s), s.runes > 0
  PROVE  Sound([s EXCEPT !.runes = @ - 1]) /\ [s EXCEPT !.runes = @ - 1].deaths = s.deaths
<1> DEFINE n == s.runes - 1
           t == [s EXCEPT !.runes = n]
<1>1. n \in 0..MaxRunes /\ s \in CastingState
  BY CastingAssumption DEF Sound, CastingState
<1> HIDE DEF n
<1>2. /\ t \in CastingState /\ t.hp = s.hp /\ t.deaths = s.deaths
      /\ t.exhaust = s.exhaust /\ t.owed = s.owed
  BY <1>1 DEF CastingState
<1> HIDE DEF t
<1>3. Sound(t)
  BY <1>2 DEF Sound, Doomed, Cooled
<1> QED BY <1>2, <1>3 DEF t, n

LEMMA UsedWeaponIsSound ==
  ASSUME NEW s, Sound(s), NEW p \in Duellist
  PROVE  Harm(s, OnUsedWeapon(s, p), {p})
<1> DEFINE k == -Weary.mana
           h == -Weary.health
           t == ChangeMana(s, p, k)
           u == ChangeHealth(t, p, h)
           r == OnUsedWeapon(s, p)
<1>1. k \in Int /\ h \in Int
  BY CastingAssumption
<1>2. r = t \/ r = u
  BY DEF OnUsedWeapon
<1>3. {} \subseteq {p} /\ {} \cap {p} = {} /\ {} \cup {p} = {p} /\ s \in CastingState
  BY DEF Sound
<1> HIDE DEF k, h, r
<1>4. Harm(s, t, {})
  BY <1>1, <1>3, ManaHarmsNone
<1> HIDE DEF t
<1>5. t \in CastingState
  BY <1>4 DEF Harm
<1>6. Harm(t, u, {p})
  BY <1>1, <1>5, HealthHarmsOne
<1> HIDE DEF u
<1>7. Harm(s, t, {p})
  BY <1>3, <1>4, HarmMore
<1>8. Harm(s, u, {} \cup {p})
  BY <1>3, <1>4, <1>6, HarmTwice
<1> QED BY <1>2, <1>3, <1>7, <1>8 DEF r

-----------------------------------------------------------------------------
(* What always holds of the duellists *)

CasInv == Sound(cst) /\ Few(cst, MaxDeaths + 1)

LEMMA Constants ==
  /\ {MaxDeaths, MaxDeaths + 1, Strength, MaxRunes, MaxExhaust} \subseteq Nat
  /\ Spell \subseteq SpellRecord /\ Script \subseteq Scripted /\ Caster \subseteq Duellist
  /\ MaxHealth \in Nat /\ MaxHealth > 0 /\ MaxMana \in Nat
  BY CastingAssumption DEF SpellRecord, Scripted

LEMMA CasInvInit == CastingInit => CasInv
<1> SUFFICES ASSUME CastingInit PROVE CasInv
  OBVIOUS
<1> DEFINE z == [p \in Duellist |-> Rested]
           d == [p \in Duellist |-> 0]
           h == [p \in Duellist |-> MaxHealth]
           m == [p \in Duellist |-> MaxMana]
<1>1. PICK watched \in {{}, {"health", "mana"}} :
        cst = [hp |-> h, mana |-> m, exhaust |-> z, owed |-> z, deaths |-> d,
               shielded |-> {}, left |-> {}, runes |-> MaxRunes, watched |-> watched]
  BY DEF CastingInit
<1>2. /\ z \in [Duellist -> [Group -> 0..MaxExhaust]] /\ h \in [Duellist -> 0..MaxHealth]
      /\ m \in [Duellist -> 0..MaxMana] /\ d \in [Duellist -> Nat] /\ MaxRunes \in 0..MaxRunes
      /\ watched \in SUBSET {"health", "mana"}
  BY Constants DEF Rested
<1>3. \A p \in Duellist : h[p] = MaxHealth /\ d[p] = 0
  OBVIOUS
<1>4. \A p \in Duellist, g \in Group : z[p][g] = 0
  BY DEF Rested
<1> HIDE DEF z, d, h, m
<1>5. /\ cst \in CastingState /\ cst.hp = h /\ cst.deaths = d /\ cst.exhaust = z /\ cst.owed = z
  BY <1>1, <1>2 DEF CastingState
<1>6. Doomed(cst) /\ Few(cst, MaxDeaths + 1)
  BY <1>3, <1>5, Constants DEF Doomed, Few
<1>7. Cooled(cst)
  BY <1>4, <1>5 DEF Cooled
<1> QED BY <1>5, <1>6, <1>7 DEF CasInv, Sound

\* Blows and healing, of which each dies once.
LEMMA HarmKeeps ==
  ASSUME Sound(cst), Few(cst, MaxDeaths), NEW P, Harm(cst, cst', P)
  PROVE  CasInv'
<1>1. Sound(cst') /\ Few(cst', MaxDeaths + 1)
  BY HarmIsSound, Constants
<1> QED BY <1>1 DEF CasInv, Sound, Few, Doomed, Cooled, CastingState

\* What follows from those and costs no life.
LEMMA SoundKeeps ==
  ASSUME NEW s, NEW n \in Nat, Few(s, n), NEW t, Sound(t), t.deaths = s.deaths
  PROVE  Few(t, n)
  BY DEF Few

LEMMA InvNext ==
  ASSUME Sound(cst'), Few(cst', MaxDeaths + 1)
  PROVE  CasInv'
  BY DEF CasInv, Sound, Few, Doomed, Cooled, CastingState

LEMMA SpellKeeps ==
  ASSUME Sound(cst), Few(cst, MaxDeaths), NEW p \in Duellist, NEW x \in SpellRecord, NEW c \in Scripted,
         MisnamesTarget(p, x) \/ CastInstant(p, x, c) \/ UseRune(p, x, c)
  PROVE  CasInv'
<1> USE Constants
<1>1. CASE MisnamesTarget(p, x)
  <2> DEFINE t == AddExhaust(cst, p, "heal", x.cooldown)
  <2>1. cst' = t /\ "heal" \in Group /\ x.cooldown \in 0..MaxExhaust
    BY <1>1 DEF MisnamesTarget, Group, SpellRecord
  <2>2. Sound(t) /\ t.deaths = cst.deaths
    BY <2>1, ExhaustIsSound
  <2> HIDE DEF t
  <2>3. Sound(cst') /\ Few(cst', MaxDeaths + 1)
    BY <2>1, <2>2 DEF Few, Sound, CastingState
  <2> QED BY <2>3, InvNext
<1>2. ASSUME NEW s \in Effects(cst, p, x, c)
      PROVE  /\ Sound(PostCastSpell(s, p, x)) /\ Few(PostCastSpell(s, p, x), MaxDeaths + 1)
             /\ PostCastSpell(s, p, x).runes = cst.runes
  <2>1. Harm(cst, s, Duellist)
    <3>1. cst \in CastingState
      BY DEF Sound
    <3> QED BY <3>1, EffectsHarm
  <2>2. Sound(s) /\ Few(s, MaxDeaths + 1) /\ s.runes = cst.runes
    BY <2>1, HarmIsSound DEF Harm
  <2> DEFINE t == PostCastSpell(s, p, x)
  <2>3. Sound(t) /\ t.deaths = s.deaths /\ t.runes = s.runes
    BY <2>2, PostCastIsSound
  <2> HIDE DEF t
  <2>4. Few(t, MaxDeaths + 1)
    BY <2>2, <2>3 DEF Few
  <2> QED BY <2>2, <2>3, <2>4 DEF t
<1>3. CASE CastInstant(p, x, c)
  <2>1. PICK s \in Effects(cst, p, x, c) : cst' = PostCastSpell(s, p, x)
    BY <1>3 DEF CastInstant
  <2> QED BY <1>2, <2>1, InvNext
<1>4. CASE UseRune(p, x, c)
  <2>1. PICK s \in Effects(cst, p, x, c) : cst' = [PostCastSpell(s, p, x) EXCEPT !.runes = @ - 1]
    BY <1>4 DEF UseRune
  <2> DEFINE t == PostCastSpell(s, p, x)
             u == [t EXCEPT !.runes = @ - 1]
  <2>2. Sound(t) /\ Few(t, MaxDeaths + 1) /\ t.runes > 0
    BY <1>2, <1>4 DEF UseRune, PlayerRuneSpellCheck
  <2>3. cst' = u
    BY <2>1
  <2> HIDE DEF t
  <2>4. Sound(u) /\ u.deaths = t.deaths
    BY <2>2, RuneIsSound
  <2> HIDE DEF u
  <2>5. Few(u, MaxDeaths + 1)
    BY <2>2, <2>4 DEF Few
  <2> QED BY <2>3, <2>4, <2>5, InvNext
<1> QED BY <1>1, <1>3, <1>4

LEMMA WeaponKeeps ==
  ASSUME Sound(cst), Few(cst, MaxDeaths), NEW p \in Duellist, NEW t \in Duellist, NEW c \in Scripted,
         MissesTarget(p, t) \/ UseWeapon(p, t, c) \/ UseFist(p, t, c)
  PROVE  CasInv'
<1>1. p # t
  BY DEF MissesTarget, UseWeapon, UseFist, Attacking
<1>2. cst \in CastingState
  BY DEF Sound
<1>3. CASE MissesTarget(p, t)
  <2>1. Harm(cst, cst', {p})
    BY <1>3, UsedWeaponIsSound DEF MissesTarget
  <2> QED BY <2>1, HarmKeeps
<1>4. CASE UseWeapon(p, t, c)
  <2>1. PICK s \in DoTargetCombat(cst, p, t, c) : cst' = OnUsedWeapon(s, p)
    BY <1>4 DEF UseWeapon
  <2>2. Harm(cst, s, {t})
    BY <1>2, TargetCombatHarms
  <2>3. Sound(s)
    BY <2>2, HarmIsSound, Constants
  <2>4. Harm(s, cst', {p})
    BY <2>1, <2>3, UsedWeaponIsSound
  <2>5. {t} \cap {p} = {}
    BY <1>1
  <2>6. Harm(cst, cst', {t} \cup {p})
    BY <1>2, <2>2, <2>4, <2>5, HarmTwice
  <2> QED BY <2>6, HarmKeeps
<1>5. CASE UseFist(p, t, c)
  <2>1. Harm(cst, cst', {t})
    BY <1>2, <1>5, TargetCombatHarms DEF UseFist
  <2> QED BY <2>1, HarmKeeps
<1> QED BY <1>3, <1>4, <1>5

LEMMA TurnKeeps ==
  ASSUME Sound(cst), Few(cst, MaxDeaths), NEW p \in Duellist, NEW c \in Scripted,
         DrainMana(p, c) \/ ExecuteConditions(p, c)
  PROVE  CasInv'
<1>1. cst \in CastingState
  BY DEF Sound
<1>2. CASE DrainMana(p, c)
  <2>1. PICK n \in 1..Strength : cst' = DrainsMana(cst, p, n, c)
    BY <1>2 DEF DrainMana
  <2>2. n \in Nat
    BY Constants
  <2>3. Harm(cst, cst', {})
    BY <1>1, <2>1, <2>2, DrainsManaHarms
  <2> QED BY <2>3, HarmKeeps
<1>3. CASE ExecuteConditions(p, c)
  <2>1. PICK n \in 0..Strength : \E d \in BlockHit(n), gain \in 0..1 :
          LET s == Hurts(cst, p, Blow(d, 0, TRUE), c)
          IN  cst' = IF gain = 0 THEN s ELSE ChangeMana(ChangeHealth(s, p, gain), p, gain)
    BY <1>3 DEF ExecuteConditions
  <2>2. PICK d \in BlockHit(n), gain \in 0..1 :
          LET s == Hurts(cst, p, Blow(d, 0, TRUE), c)
          IN  cst' = IF gain = 0 THEN s ELSE ChangeMana(ChangeHealth(s, p, gain), p, gain)
    BY <2>1
  <2> DEFINE b == Blow(d, 0, TRUE)
             s == Hurts(cst, p, b, c)
             t == ChangeHealth(s, p, gain)
             u == ChangeMana(t, p, gain)
  <2>3. d \in Nat /\ gain \in Int /\ (gain # 0 => gain > 0)
    BY Constants DEF BlockHit
  <2>4. cst' = IF gain = 0 THEN s ELSE u
    BY <2>2
  <2>5. b \in Blows0
    BY <2>3, BlowIs
  <2> HIDE DEF b
  <2>6. Harm(cst, s, {p})
    BY <1>1, <2>5, HurtsHarms
  <2> HIDE DEF s
  <2>7. s \in CastingState
    BY <2>6 DEF Harm
  <2>8. CASE gain = 0
    BY <2>4, <2>6, <2>8, HarmKeeps
  <2>9. CASE gain # 0
    <3>1. Harm(s, t, {})
      BY <2>3, <2>7, <2>9, HealthHarmsOne
    <3> HIDE DEF t
    <3>2. t \in CastingState
      BY <3>1 DEF Harm
    <3>3. Harm(t, u, {})
      BY <2>3, <3>2, ManaHarmsNone
    <3> HIDE DEF u
    <3>4. {p} \cap {} = {} /\ {p} \cup {} = {p}
      OBVIOUS
    <3>5. Harm(cst, t, {p} \cup {})
      BY <1>1, <2>6, <3>1, <3>4, HarmTwice
    <3>6. Harm(cst, t, {p})
      BY <3>4, <3>5
    <3>7. Harm(cst, u, {p} \cup {})
      BY <1>1, <3>3, <3>4, <3>6, HarmTwice
    <3> QED BY <2>4, <2>9, <3>4, <3>7, HarmKeeps
  <2> QED BY <2>8, <2>9
<1> QED BY <1>2, <1>3

LEMMA TimeKeeps ==
  ASSUME CasInv, Elapse
  PROVE  CasInv'
<1> DEFINE e == [p \in Duellist |-> [g \in Group |-> Most(0, cst.exhaust[p][g] - 1)]]
           o == [p \in Duellist |-> [g \in Group |-> Most(0, cst.owed[p][g] - 1)]]
<1>1. cst \in CastingState /\ Cooled(cst) /\ Doomed(cst) /\ Few(cst, MaxDeaths + 1)
  BY DEF CasInv, Sound
<1>2. ASSUME NEW p \in Duellist, NEW g \in Group
      PROVE  /\ Most(0, cst.exhaust[p][g] - 1) \in 0..MaxExhaust
             /\ Most(0, cst.owed[p][g] - 1) \in 0..MaxExhaust
             /\ Most(0, cst.owed[p][g] - 1) <= Most(0, cst.exhaust[p][g] - 1)
  <2>1. cst.exhaust[p][g] \in 0..MaxExhaust /\ cst.owed[p][g] \in 0..MaxExhaust
    BY <1>1 DEF CastingState
  <2>2. cst.owed[p][g] <= cst.exhaust[p][g]
    BY <1>1 DEF Cooled
  <2> QED BY <2>1, <2>2, Constants DEF Most
<1>3. cst' = [cst EXCEPT !.exhaust = e, !.owed = o]
  BY <1>1 DEF Elapse, CastingState
<1>4. e \in [Duellist -> [Group -> 0..MaxExhaust]] /\ o \in [Duellist -> [Group -> 0..MaxExhaust]]
  BY <1>2
<1>5. \A p \in Duellist, g \in Group : o[p][g] <= e[p][g]
  BY <1>2
<1> HIDE DEF e, o
<1>6. /\ cst' \in CastingState /\ cst'.hp = cst.hp /\ cst'.deaths = cst.deaths
      /\ cst'.exhaust = e /\ cst'.owed = o
  BY <1>1, <1>3, <1>4 DEF CastingState
<1>7. Doomed(cst') /\ Few(cst', MaxDeaths + 1)
  BY <1>1, <1>6 DEF Doomed, Few
<1>8. Cooled(cst')
  BY <1>5, <1>6 DEF Cooled
<1>9. Sound(cst')
  BY <1>6, <1>7, <1>8 DEF Sound
<1> QED BY <1>7, <1>9, InvNext

\* The dead have their health back, owe nothing, and one death less is to come.
LEMMA DeathKeeps ==
  ASSUME CasInv, NEW p \in Duellist, ExecuteDeath(p)
  PROVE  CasInv'
<1> DEFINE h == [cst.hp EXCEPT ![p] = MaxHealth]
           e == [cst.exhaust EXCEPT ![p] = Rested]
           o == [cst.owed EXCEPT ![p] = Rested]
           w == cst.shielded \ {p}
           d == [cst.deaths EXCEPT ![p] = cst.deaths[p] - 1]
           z == [cst.deaths EXCEPT ![p] = 0]
           m == [cst.mana EXCEPT ![p] = MaxMana]
           l == cst.left \cup {p}
<1>1. cst \in CastingState /\ Cooled(cst) /\ Doomed(cst) /\ Few(cst, MaxDeaths + 1)
  BY DEF CasInv, Sound
<1>2. cst.deaths[p] \in Nat /\ cst.deaths[p] > 0
  BY <1>1 DEF ExecuteDeath, CastingState
<1>3. Rested \in [Group -> 0..MaxExhaust] /\ \A g \in Group : Rested[g] = 0
  BY Constants DEF Rested
<1>4. \/ cst' = [cst EXCEPT !.hp = h, !.exhaust = e, !.owed = o, !.shielded = w, !.deaths = d]
      \/ cst' = [cst EXCEPT !.hp = h, !.exhaust = e, !.owed = o, !.shielded = w, !.deaths = z,
                            !.mana = m, !.left = l]
  BY <1>1 DEF ExecuteDeath, Death, CastingState
<1>5. /\ h \in [Duellist -> 0..MaxHealth] /\ m \in [Duellist -> 0..MaxMana]
      /\ e \in [Duellist -> [Group -> 0..MaxExhaust]] /\ o \in [Duellist -> [Group -> 0..MaxExhaust]]
      /\ d \in [Duellist -> Nat] /\ z \in [Duellist -> Nat] /\ w \in SUBSET Duellist /\ l \in SUBSET Duellist
  BY <1>1, <1>2, <1>3, Constants DEF CastingState
<1>6. ASSUME NEW q \in Duellist
      PROVE  /\ h[q] = IF q = p THEN MaxHealth ELSE cst.hp[q]
             /\ q # p => d[q] = cst.deaths[q] /\ z[q] = cst.deaths[q]
             /\ d[q] <= cst.deaths[q] /\ z[q] <= cst.deaths[q] /\ cst.deaths[q] \in Nat
             /\ \A g \in Group : /\ e[q][g] = IF q = p THEN 0 ELSE cst.exhaust[q][g]
                                 /\ o[q][g] = IF q = p THEN 0 ELSE cst.owed[q][g]
  BY <1>1, <1>2, <1>3 DEF CastingState
<1> HIDE DEF h, e, o, w, d, z, m, l
<1>7. PICK f \in {d, z} : /\ cst' \in CastingState /\ cst'.hp = h /\ cst'.deaths = f
                          /\ cst'.exhaust = e /\ cst'.owed = o
  BY <1>1, <1>4, <1>5 DEF CastingState
<1>8. \A q \in Duellist : f[q] <= cst.deaths[q] /\ f[q] \in Nat /\ (q # p => f[q] = cst.deaths[q])
  BY <1>5, <1>6
<1>9. Doomed(cst')
  BY <1>1, <1>6, <1>7, <1>8, Constants DEF Doomed
<1>10. Few(cst', MaxDeaths + 1)
  <2> SUFFICES ASSUME NEW q \in Duellist PROVE f[q] <= MaxDeaths + 1
    BY <1>7 DEF Few
  <2> QED BY <1>1, <1>6, <1>8, Constants DEF Few
<1>11. \A q \in Duellist, g \in Group : o[q][g] <= e[q][g]
  BY <1>1, <1>6 DEF Cooled
<1>12. Cooled(cst')
  BY <1>7, <1>11 DEF Cooled
<1>13. Sound(cst')
  BY <1>7, <1>9, <1>12 DEF Sound
<1> QED BY <1>10, <1>13, InvNext

LEMMA CasInvStep == CasInv /\ [CastingNext]_cst => CasInv'
<1> SUFFICES ASSUME CasInv, [CastingNext]_cst PROVE CasInv'
  OBVIOUS
<1>1. cst \in CastingState /\ Sound(cst)
  BY DEF CasInv, Sound
<1>2. CASE cst' = cst
  <2>1. Sound(cst') /\ Few(cst', MaxDeaths + 1)
    BY <1>2 DEF CasInv
  <2> QED BY <2>1, InvNext
<1>3. ~Crowded => Few(cst, MaxDeaths)
  BY <1>1, Constants DEF Crowded, Few, CastingState
<1>4. Present(cst) \subseteq Duellist
  BY DEF Present
<1>5. ASSUME ~Crowded, NEW p \in Present(cst) \cap Caster, NEW x \in Spell,
             MisnamesTarget(p, x) \/ \E c \in Script : CastInstant(p, x, c) \/ UseRune(p, x, c)
      PROVE  CasInv'
  <2>1. p \in Duellist /\ x \in SpellRecord /\ Watch \in Script
    BY <1>4, Constants, CastingAssumption
  <2>2. PICK c \in Script : MisnamesTarget(p, x) \/ CastInstant(p, x, c) \/ UseRune(p, x, c)
    BY <1>5, <2>1
  <2>3. c \in Scripted
    BY Constants
  <2> QED BY <1>1, <1>3, <1>5, <2>1, <2>2, <2>3, SpellKeeps
<1>6. ASSUME ~Crowded, NEW p \in Present(cst), NEW t \in Present(cst),
             MissesTarget(p, t) \/ \E c \in Script : UseWeapon(p, t, c) \/ UseFist(p, t, c)
      PROVE  CasInv'
  <2>1. p \in Duellist /\ t \in Duellist /\ Watch \in Script
    BY <1>4, CastingAssumption
  <2>2. PICK c \in Script : MissesTarget(p, t) \/ UseWeapon(p, t, c) \/ UseFist(p, t, c)
    BY <1>6, <2>1
  <2>3. c \in Scripted
    BY Constants
  <2> QED BY <1>1, <1>3, <1>6, <2>1, <2>2, <2>3, WeaponKeeps
<1>7. ASSUME ~Crowded, NEW p \in Present(cst), NEW c \in Script, DrainMana(p, c) \/ ExecuteConditions(p, c)
      PROVE  CasInv'
  <2>1. p \in Duellist /\ c \in Scripted
    BY <1>4, Constants
  <2> QED BY <1>1, <1>3, <1>7, <2>1, TurnKeeps
<1>8. ASSUME NEW p \in Present(cst), EndShield(p) PROVE CasInv'
  <2>1. cst' = [cst EXCEPT !.shielded = cst.shielded \ {p}] /\ p \in Duellist
    BY <1>4, <1>8 DEF EndShield
  <2>2. Harm(cst, cst', {})
    BY <1>1, <2>1, ShieldHarms
  <2>3. Sound(cst') /\ Few(cst', MaxDeaths + 1)
    BY <2>2, HarmIsSound, Constants DEF CasInv
  <2> QED BY <2>3, InvNext
<1>9. ASSUME NEW p \in Duellist, LogIn(p) PROVE CasInv'
  <2> DEFINE l == cst.left \ {p}
  <2>1. cst' = [cst EXCEPT !.left = l]
    BY <1>9 DEF LogIn
  <2>2. l \in SUBSET Duellist
    BY <1>1 DEF CastingState
  <2> HIDE DEF l
  <2>3. /\ cst' \in CastingState /\ cst'.hp = cst.hp /\ cst'.deaths = cst.deaths
        /\ cst'.exhaust = cst.exhaust /\ cst'.owed = cst.owed
    BY <1>1, <2>1, <2>2 DEF CastingState
  <2>4. Sound(cst') /\ Few(cst', MaxDeaths + 1)
    BY <2>3 DEF CasInv, Sound, Few, Doomed, Cooled
  <2> QED BY <2>4, InvNext
<1>10. ASSUME NEW p \in Present(cst), ExecuteDeath(p) PROVE CasInv'
  BY <1>4, <1>10, DeathKeeps
<1>11. CASE CastingNext
  BY <1>5, <1>6, <1>7, <1>8, <1>9, <1>10, <1>11, TimeKeeps DEF CastingNext
<1> QED BY <1>2, <1>11

-----------------------------------------------------------------------------
(* Blows add up *)

\* What the mana shield takes of a blow.
Shield(s, t, n) == IF t \in s.shielded THEN Least(n, s.mana[t]) ELSE 0

LEMMA WatchIs == Watch \in Scripted /\ Watch.mana = Same /\ Watch.health = Same /\ Watch.spares = FALSE
  BY DEF Watch, Scripted

\* A shield that has taken all it can takes nothing the second time.
LEMMA AbsorbsWatched ==
  ASSUME NEW s \in CastingState, NEW t \in Duellist, NEW b \in Blows0
  PROVE  LET r == Absorbs(s, t, b, Watch)
             n == Shield(s, t, Total(b))
         IN  /\ r.state \in CastingState /\ r.blow \in Blows0 /\ n \in Nat
             /\ r.state.hp = s.hp /\ r.state.mana[t] = s.mana[t] - n
             /\ Total(r.blow) = Total(b) - n
             /\ Shield(r.state, t, Total(r.blow)) = 0
<1> DEFINE r == Absorbs(s, t, b, Watch)
           n == Shield(s, t, Total(b))
           q == t \in s.shielded /\ s.mana[t] > 0 /\ Total(b) > 0
<1>1. s.mana[t] \in Nat /\ Total(b) \in Nat
  BY TotalIs, Constants DEF CastingState
<1>2. CASE q
  <2> DEFINE k == Least(s.mana[t], Total(b))
             a == Absorbed(s, t, b)
  <2>1. OnManaChange(s, b, Watch) = b
    BY WatchIs DEF OnManaChange
  <2>2. r = a
    BY <1>2, <2>1 DEF Absorbs
  <2>3. n = k /\ k \in Nat
    BY <1>1, <1>2 DEF Shield, Least
  <2>4. /\ Harm(s, a.state, {}) /\ a.blow \in Blows0 /\ Total(a.blow) = Total(b) - k
        /\ a.state.hp = s.hp /\ a.state.shielded = s.shielded
        /\ a.state.mana[t] = s.mana[t] - k
    BY AbsorbedHarms
  <2>5. a.state \in CastingState
    BY <2>4 DEF Harm
  <2>6. a.state.mana[t] = 0 \/ Total(a.blow) = 0
    BY <1>1, <2>4 DEF Least
  <2>7. a.state.mana[t] \in Nat /\ Total(a.blow) \in Nat
    BY <2>4, <2>5, TotalIs, Constants DEF CastingState
  <2> HIDE DEF a, r, k, n
  <2>8. Shield(a.state, t, Total(a.blow)) = 0
    BY <2>6, <2>7 DEF Shield, Least
  <2>9. /\ r.state \in CastingState /\ r.blow \in Blows0 /\ n \in Nat
        /\ r.state.hp = s.hp /\ r.state.mana[t] = s.mana[t] - n
        /\ Total(r.blow) = Total(b) - n
        /\ Shield(r.state, t, Total(r.blow)) = 0
    BY <2>2, <2>3, <2>4, <2>5, <2>8
  <2> QED BY <2>9 DEF r, n
<1>3. CASE ~q
  <2>1. r = [state |-> s, blow |-> b]
    BY <1>3 DEF Absorbs
  <2>2. n = 0
    BY <1>1, <1>3 DEF Shield, Least
  <2> HIDE DEF r
  <2>3. r.state = s /\ r.blow = b
    BY <2>1
  <2>4. /\ r.state \in CastingState /\ r.blow \in Blows0 /\ n \in Nat
        /\ r.state.hp = s.hp /\ r.state.mana[t] = s.mana[t] - n
        /\ Total(r.blow) = Total(b) - n
        /\ Shield(r.state, t, Total(r.blow)) = 0
    BY <1>1, <2>2, <2>3
  <2> QED BY <2>4 DEF r
<1> QED BY <1>2, <1>3

LEMMA UnseenAddsUp ==
  ASSUME NEW s \in CastingState, NEW t \in Duellist, NEW b \in Blows0,
         Shield(s, t, Total(b)) = 0
  PROVE  /\ HurtsUnseen(s, t, b, Watch).mana[t] = s.mana[t]
         /\ HurtsUnseen(s, t, b, Watch).hp[t] = Most(0, s.hp[t] - Total(b))
<1> DEFINE v == [b EXCEPT !.seen = FALSE]
           r == Absorbs(s, t, v, Watch)
           u == Drains(r.state, t, r.blow, Watch)
<1>1. v \in Blows0 /\ Total(v) = Total(b)
  BY DEF Blows0, Total
<1>2. HurtsUnseen(s, t, b, Watch) = u
  BY DEF HurtsUnseen
<1>3. s.mana[t] \in Nat /\ Total(b) \in Nat
  BY TotalIs, Constants DEF CastingState
<1> HIDE DEF v
<1>4. Shield(s, t, Total(v)) = 0
  BY <1>1
<1>5. /\ r.state \in CastingState /\ r.blow \in Blows0
      /\ r.state.hp = s.hp /\ r.state.mana[t] = s.mana[t] - 0
      /\ Total(r.blow) = Total(b) - 0
  BY <1>1, <1>4, AbsorbsWatched
<1> HIDE DEF r
<1>6. u.mana = r.state.mana /\ u.hp[t] = Most(0, r.state.hp[t] - Total(r.blow))
  BY <1>5, WatchIs, DrainsHarms
<1> HIDE DEF u
<1> QED BY <1>2, <1>3, <1>5, <1>6

LEMMA HurtsAddsUp ==
  ASSUME NEW s \in CastingState, NEW t \in Duellist, NEW b \in Blows0
  PROVE  LET n == Shield(s, t, Total(b))
             r == Hurts(s, t, b, Watch)
         IN  r.mana[t] = s.mana[t] - n /\ r.hp[t] = Most(0, s.hp[t] - (Total(b) - n))
<1> DEFINE n == Shield(s, t, Total(b))
           r == Absorbs(s, t, b, Watch)
           u == Hurts(s, t, b, Watch)
           x == HurtsUnseen(r.state, t, r.blow, Watch)
           y == Drains(r.state, t, r.blow, Watch)
<1>1. u = x \/ u = y
  BY WatchIs DEF Hurts, OnHealthChange
<1>2. /\ r.state \in CastingState /\ r.blow \in Blows0 /\ n \in Nat
      /\ r.state.hp = s.hp /\ r.state.mana[t] = s.mana[t] - n
      /\ Total(r.blow) = Total(b) - n
      /\ Shield(r.state, t, Total(r.blow)) = 0
  BY AbsorbsWatched
<1> HIDE DEF n, r, u
<1>3. x.mana[t] = r.state.mana[t] /\ x.hp[t] = Most(0, r.state.hp[t] - Total(r.blow))
  BY <1>2, UnseenAddsUp
<1>4. y.mana[t] = r.state.mana[t] /\ y.hp[t] = Most(0, r.state.hp[t] - Total(r.blow))
  BY <1>2, WatchIs, DrainsHarms
<1> HIDE DEF x, y
<1>5. u.mana[t] = s.mana[t] - n /\ u.hp[t] = Most(0, s.hp[t] - (Total(b) - n))
  BY <1>1, <1>2, <1>3, <1>4
<1> QED BY <1>5 DEF n, u

LEMMA BlowsDoAddUp ==
  ASSUME cst \in CastingState
  PROVE  BlowsAddUp
<1> SUFFICES ASSUME NEW t \in Duellist, NEW first \in 0..Strength, NEW second \in 0..Strength, NEW seen \in BOOLEAN
             PROVE  LET r == Hurts(cst, t, Blow(first, second, seen), Watch)
                        mana == IF t \in cst.shielded THEN Least(first + second, cst.mana[t]) ELSE 0
                    IN  /\ r.mana[t] = cst.mana[t] - mana
                        /\ r.hp[t] = Most(0, cst.hp[t] - (first + second - mana))
  BY DEF BlowsAddUp
<1> DEFINE b == Blow(first, second, seen)
<1>1. first \in Nat /\ second \in Nat
  BY Constants
<1>2. b \in Blows0 /\ Total(b) = first + second
  BY <1>1, BlowIs
<1> HIDE DEF b
<1> DEFINE n == Shield(cst, t, Total(b))
           r == Hurts(cst, t, b, Watch)
<1>3. r.mana[t] = cst.mana[t] - n /\ r.hp[t] = Most(0, cst.hp[t] - (Total(b) - n))
  BY <1>2, HurtsAddsUp
<1>4. n = IF t \in cst.shielded THEN Least(first + second, cst.mana[t]) ELSE 0
  BY <1>2 DEF Shield
<1>5. n \in Nat
  BY <1>2, AbsorbsWatched
<1> HIDE DEF n, r
<1>6. /\ r.mana[t] = cst.mana[t] - n
      /\ r.hp[t] = Most(0, cst.hp[t] - (first + second - n))
  <2>1. Total(b) - n = first + second - n
    BY <1>1, <1>2, <1>5
  <2> QED BY <1>3, <2>1
<1> QED BY <1>4, <1>6 DEF b, r

LEMMA CasInvSound == CasInv => CastingSound
<1> SUFFICES ASSUME CasInv PROVE CastingSound
  OBVIOUS
<1>1. cst \in CastingState /\ Doomed(cst) /\ Cooled(cst) /\ Few(cst, MaxDeaths + 1)
  BY DEF CasInv, Sound
<1>2. CastingTypeOK
  <2>1. cst.deaths \in [Duellist -> 0..MaxDeaths + 3]
    <3>1. \A p \in Duellist : cst.deaths[p] \in 0..MaxDeaths + 3
      BY <1>1, Constants DEF CastingState, Few
    <3> QED BY <1>1, <3>1 DEF CastingState
  <2> QED BY <1>1, <2>1 DEF CastingTypeOK, CastingState
<1>3. DeadAreDoomed
  BY <1>1 DEF DeadAreDoomed, Doomed, Present
<1>4. CooldownsHold
  BY <1>1 DEF CooldownsHold, Cooled
<1>5. BlowsAddUp
  BY <1>1, BlowsDoAddUp
<1> QED BY <1>2, <1>3, <1>4, <1>5 DEF CastingSound

\* Blows add up whatever path they take, the dead have a death to come, and no
\* spell is cast before its cooldown is over.
THEOREM BlowsAndSpells == CastingSpec => []CastingSound
<1>1. CastingSpec => []CasInv
  BY CasInvInit, CasInvStep, PTL DEF CastingSpec
<1> QED BY <1>1, CasInvSound, PTL

-----------------------------------------------------------------------------
(* The run *)

\* A step of the run is one of each of them, or leaves it alone.
LEMMA ProcessSteps ==
  ASSUME [ProcessNext]_<<part, vars, cst, scr>>
  PROVE  [Next]_vars
  BY DEF ProcessNext

\* The process, in the run that checks it.
THEOREM RunProcess ==
  ProcessSpec => [](NothingOwedAtExit /\ WorkBeforeShutdown) /\ ComponentSteps
<1>1. ProcessInit => RuntimeInv /\ D!Init /\ B!DbInit /\ S!SchInit
  BY RuntimeInvInitially DEF ProcessInit, Init
<1>2. RuntimeInv /\ [ProcessNext]_<<part, vars, cst, scr>>
        => RuntimeInv' /\ [D!Next]_dVars /\ [B!DbNext]_bVars /\ [S!SchNext]_sVars
  BY ProcessSteps, RuntimeInvKept, OwnSteps
<1>3. RuntimeInv => NothingOwedAtExit /\ WorkBeforeShutdown
  BY NothingIsOwed, WorkIsDone
<1> QED BY <1>1, <1>2, <1>3, PTL DEF ProcessSpec, ComponentSteps

\* Scripts, in the run that checks them.
THEOREM RunScripts == ProcessSpec => []Ownership
<1> DEFINE Inv == part = "scripts" => ScrInv
<1>1. ProcessInit => Inv
  BY ScrInitially DEF ProcessInit
<1>2. Inv /\ [ProcessNext]_<<part, vars, cst, scr>> => Inv'
  BY ScrInductive DEF ProcessNext
<1>3. Inv => Ownership
  BY ScrInvSuffices DEF Ownership
<1> QED BY <1>1, <1>2, <1>3, PTL DEF ProcessSpec

\* Blows and spells, in the run that checks them.
THEOREM RunBlows == ProcessSpec => []Blows
<1> DEFINE Inv == part = "casting" => CasInv
<1>1. ProcessInit => Inv
  BY CasInvInit DEF ProcessInit
<1>2. Inv /\ [ProcessNext]_<<part, vars, cst, scr>> => Inv'
  BY CasInvStep DEF ProcessNext
<1>3. Inv => Blows
  BY CasInvSound DEF Blows
<1> QED BY <1>1, <1>2, <1>3, PTL DEF ProcessSpec
=============================================================================
