--------------------------- MODULE DatabaseTasks ---------------------------
(***************************************************************************)
(* class DatabaseTasks (src/engine/src/databasetasks.h, databasetasks.cpp):*)
(* the queue of asynchronous SQL statements, run by a thread of its own,   *)
(* and by whoever calls flush() on the caller's thread at the same time.   *)
(*                                                                         *)
(* As in Dispatcher, a critical section under taskLock is one step; a      *)
(* query, which Database serialises with databaseLock, is one step; what   *)
(* happens between two of these may be interleaved with the other thread.  *)
(***************************************************************************)
EXTENDS Naturals, Sequences, Functions

CONSTANTS Query,         \* DatabaseTask objects
          WithCallback,  \* those given a callback
          Caller,        \* threads that call addTask, flush, stop, shutdown
          Worker,        \* the thread started by start()
          NoQuery        \* an empty hand

ASSUME DatabaseTasksAssumption == /\ WithCallback \subseteq Query
                                  /\ Worker \notin Caller
                                  /\ NoQuery \notin Query

VARIABLES dbState,      \* ThreadHolder::threadState
          dbPc,         \* where each thread is in the code of DatabaseTasks
          tasks,        \* DatabaseTasks::tasks
          hand,         \* the local variable task of threadMain and flush
          closing,      \* callers whose flush was called by shutdown()
          queued,       \* history: queries accepted by addTask, in order
          executed,     \* history: queries the database has run, in order
          lost,         \* history: queries addTask silently ignored
          posted        \* history: callbacks handed to the dispatcher, in order

dbVars == <<dbState, dbPc, tasks, hand, closing, queued, executed, lost, posted>>

Holder == Caller \cup {Worker}

\* start(): connect, then RUNNING, then the thread.
DbInit == /\ dbState = "RUNNING"
          /\ dbPc = [h \in Holder |-> IF h = Worker THEN "test" ELSE "idle"]
          /\ tasks = <<>>
          /\ hand = [h \in Holder |-> NoQuery]
          /\ closing = {}
          /\ queued = <<>>
          /\ executed = <<>>
          /\ lost = {}
          /\ posted = <<>>

\* Thread h goes on to its step to.
Go(h, to) == dbPc' = [dbPc EXCEPT ![h] = to]

Unused(q) == q \notin Range(queued) /\ q \notin lost

\* notify_one: only the worker ever waits.
Awake(h, to) ==
  dbPc' = [dbPc EXCEPT ![h] = to,
                       ![Worker] = IF @ = "waiting" THEN "woken" ELSE @]

-----------------------------------------------------------------------------
(* Callers *)

\* What addTask does while RUNNING; it signals only if the list was empty.
Enqueue(t, q) ==
  /\ tasks' = Append(tasks, q)
  /\ queued' = Append(queued, q)
  /\ Go(t, IF tasks = <<>> THEN "notify" ELSE "idle")
  /\ UNCHANGED lost

\* addTask.  Outside RUNNING the query and its callback simply vanish.
DbAddTask(t, q) ==
  /\ dbPc[t] = "idle"
  /\ Unused(q)
  /\ \/ dbState = "RUNNING" /\ Enqueue(t, q)
     \/ /\ dbState # "RUNNING"
        /\ lost' = lost \cup {q}
        /\ UNCHANGED <<dbPc, tasks, queued>>
  /\ UNCHANGED <<dbState, hand, closing, executed, posted>>

\* The notify_one after the unlock, in addTask and at the end of shutdown.
DbNotify(t) == /\ dbPc[t] = "notify"
               /\ Awake(t, "idle")
               /\ UNCHANGED <<dbState, tasks, hand, closing,
                              queued, executed, lost, posted>>

DbStop(t) == /\ dbPc[t] = "idle"
             /\ dbState # "TERMINATED"
             /\ dbState' = "CLOSING"
             /\ UNCHANGED <<dbPc, tasks, hand, closing,
                            queued, executed, lost, posted>>

Flush(t) == /\ dbPc[t] = "idle"
            /\ Go(t, "pop")
            /\ UNCHANGED <<dbState, tasks, hand, closing,
                           queued, executed, lost, posted>>

\* Mutant: shutdown trusts the worker to empty the list.
DbShutdownNoFlush(t) == /\ dbPc[t] = "idle"
                        /\ dbState # "TERMINATED"
                        /\ dbState' = "TERMINATED"
                        /\ Go(t, "notify")
                        /\ UNCHANGED <<tasks, hand, closing,
                                       queued, executed, lost, posted>>

\* shutdown(): TERMINATED under the lock, then flush, then notify_one.
DbShutdown(t) == /\ dbPc[t] = "idle"
                 /\ dbState # "TERMINATED"
                 /\ dbState' = "TERMINATED"
                 /\ closing' = closing \cup {t}
                 /\ Go(t, "pop")
                 /\ UNCHANGED <<tasks, hand, queued, executed, lost, posted>>

-----------------------------------------------------------------------------
(* runTask, shared by threadMain and flush *)

\* Mutant: the newest query is taken first.
PopBack(h) == /\ tasks # <<>>
              /\ hand' = [hand EXCEPT ![h] = tasks[Len(tasks)]]
              /\ tasks' = SubSeq(tasks, 1, Len(tasks) - 1)
              /\ Go(h, "execute")

Pop(h) == /\ tasks # <<>>
          /\ hand' = [hand EXCEPT ![h] = Head(tasks)]
          /\ tasks' = Tail(tasks)
          /\ Go(h, "execute")

\* Where h continues once a query is done with.
Resume(h) == IF h = Worker THEN "test" ELSE "pop"

Finish(h) == /\ Go(h, Resume(h))
             /\ hand' = [hand EXCEPT ![h] = NoQuery]

\* executeQuery or storeQuery; failing is an outcome of it like any other.
Execute(h) ==
  /\ dbPc[h] = "execute"
  /\ executed' = Append(executed, hand[h])
  /\ \/ hand[h] \in WithCallback /\ Go(h, "post") /\ UNCHANGED hand
     \/ hand[h] \notin WithCallback /\ Finish(h)
  /\ UNCHANGED <<dbState, tasks, closing, queued, lost, posted>>

\* g_dispatcher.addTask(callback)
PostCallback(h) ==
  /\ dbPc[h] = "post"
  /\ posted' = Append(posted, hand[h])
  /\ Finish(h)
  /\ UNCHANGED <<dbState, tasks, closing, queued, executed, lost>>

\* One round of the loop of flush ...
FlushPop(t) == /\ t \in Caller
               /\ dbPc[t] = "pop"
               /\ Pop(t)
               /\ UNCHANGED <<dbState, closing, queued, executed, lost, posted>>

\* ... and its end, which does not wait for the worker's query.
FlushEnd(t) == /\ t \in Caller
               /\ dbPc[t] = "pop"
               /\ tasks = <<>>
               /\ Go(t, IF t \in closing THEN "notify" ELSE "idle")
               /\ closing' = closing \ {t}
               /\ UNCHANGED <<dbState, tasks, hand, queued, executed, lost, posted>>

-----------------------------------------------------------------------------
(* threadMain *)

DbTestState ==
  /\ dbPc[Worker] = "test"
  /\ Go(Worker, IF dbState = "TERMINATED" THEN "exited" ELSE "lock")
  /\ UNCHANGED <<dbState, tasks, hand, closing, queued, executed, lost, posted>>

DbTake == /\ dbPc[Worker] \in {"lock", "woken"}
          /\ Pop(Worker)
          /\ UNCHANGED <<dbState, closing, queued, executed, lost, posted>>

DbWait == /\ dbPc[Worker] = "lock"
          /\ tasks = <<>>
          /\ Go(Worker, "waiting")
          /\ UNCHANGED <<dbState, tasks, hand, closing,
                         queued, executed, lost, posted>>

\* Woken, by a signal or spuriously, to find nothing left.
DbWokenForNothing ==
  /\ dbPc[Worker] = "woken"
  /\ tasks = <<>>
  /\ Go(Worker, "test")
  /\ UNCHANGED <<dbState, tasks, hand, closing, queued, executed, lost, posted>>

DbSpuriousWake ==
  /\ dbPc[Worker] = "waiting"
  /\ Go(Worker, "woken")
  /\ UNCHANGED <<dbState, tasks, hand, closing, queued, executed, lost, posted>>

-----------------------------------------------------------------------------
DbThreadMain == \/ DbTestState \/ DbTake \/ DbWait \/ DbWokenForNothing
                \/ Execute(Worker) \/ PostCallback(Worker)

\* What a caller does once it is inside a call.
DbFinishCall(t) == \/ DbNotify(t) \/ FlushPop(t) \/ FlushEnd(t)
                   \/ Execute(t) \/ PostCallback(t)

DbNext == \/ DbThreadMain
          \/ DbSpuriousWake
          \/ \E t \in Caller : \/ DbFinishCall(t)
                               \/ DbStop(t) \/ Flush(t) \/ DbShutdown(t)
                               \/ \E q \in Query : DbAddTask(t, q)

\* Both threads are scheduled, and every query returns.  No fairness for
\* spurious wake-ups or for making calls.
DbFairness == /\ WF_dbVars(DbThreadMain)
              /\ \A t \in Caller : WF_dbVars(DbFinishCall(t))

DbSpec == DbInit /\ [][DbNext]_dbVars /\ DbFairness

-----------------------------------------------------------------------------
(* Properties *)

InHand == {hand[h] : h \in Holder} \ {NoQuery}

\* The values every variable takes; a callback is posted only for a query
\* that has one.
DbTypeOK ==
  /\ dbState \in {"RUNNING", "CLOSING", "TERMINATED"}
  /\ dbPc \in [Holder -> {"idle", "notify", "pop", "execute", "post",
                          "test", "lock", "waiting", "woken", "exited"}]
  /\ tasks \in Seq(Query)
  /\ hand \in [Holder -> Query \cup {NoQuery}]
  /\ closing \subseteq Caller
  /\ queued \in Seq(Query)
  /\ executed \in Seq(Query)
  /\ lost \subseteq Query
  /\ posted \in Seq(WithCallback)

\* flush() takes queries from under the worker while the worker takes them
\* too: no query is run twice, no callback is posted twice, and every
\* accepted query is still queued, in the hands of one thread, or run.
EachQueryOnce ==
  /\ IsInjective(executed)
  /\ IsInjective(posted)
  /\ \A h, k \in Holder : hand[h] = hand[k] /\ hand[h] # NoQuery => h = k
  /\ Range(queued) = Range(tasks) \cup InHand \cup Range(executed)

\* Statements are issued in an order that matters (ban.cpp:75-76).  One that
\* is overtaken by a later statement is in the hands of a thread: flush
\* overtakes the worker's one query, and nothing that is still queued.
OnlyInHandOvertaken ==
  \A i, j \in DOMAIN queued :
    (i < j /\ queued[j] \in Range(executed) /\ queued[i] \notin Range(executed))
      => queued[i] \in InHand

\* addTask signals only if the list was empty, flush may empty it meanwhile:
\* still the worker never sleeps over queued statements unless the notify_one
\* that wakes it is yet to come.
DbNoLostWakeup ==
  dbPc[Worker] = "waiting" /\ tasks # <<>> =>
    \E t \in Caller : dbPc[t] = "notify"

\* Whatever the interleaving of addTask, flush, shutdown and the worker: every
\* accepted query is in one place, is run once, is overtaken only while in hand,
\* and is not slept over (databasetasks.cpp:33-104).
QueriesAccounted ==
  DbTypeOK /\ EachQueryOnce /\ OnlyInHandOvertaken /\ DbNoLostWakeup

\* Every accepted statement is eventually run, shut down or not.
AcceptedQueriesRun == []<>(Range(queued) \subseteq Range(executed))
=============================================================================
