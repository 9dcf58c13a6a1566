----------------------------- MODULE MCThreads -----------------------------
(***************************************************************************)
(* The threads, and what is scheduled on them, for TLC: the dispatcher     *)
(* with two other threads and three tasks, one of which expires; the       *)
(* database worker with the dispatcher as its caller and three queries;    *)
(* the scheduler with three events and ids modulo two; one spawn; the      *)
(* raids; and a player who walks to what it uses and to whom it pushes.    *)
(* They share no state here (Runtime composes the threads), so each        *)
(* behaviour has one of them at work, the others as they start.            *)
(***************************************************************************)
EXTENDS Dispatcher, DatabaseTasks, Scheduler, Spawns, Raids, Walking

VARIABLE part

MCStyle == [r \in Request |-> IF r = "u" THEN "use" ELSE "push"]

MCLength == [r \in RaidName |-> IF r \in Repeated THEN 2 ELSE 1]

ThreadsInit == /\ part \in {"dispatcher", "database", "scheduler", "spawns", "raids", "walking"}
               /\ Init /\ DbInit /\ SchInit /\ SpawnsInit /\ RaidsInit /\ WalkingInit

ThreadsNext ==
  /\ UNCHANGED part
  /\ \/ part = "dispatcher" /\ Next /\ UNCHANGED <<dbVars, schVars, spn, raid, wk>>
     \/ part = "database" /\ DbNext /\ UNCHANGED <<vars, schVars, spn, raid, wk>>
     \/ part = "scheduler" /\ SchNext /\ UNCHANGED <<vars, dbVars, spn, raid, wk>>
     \/ part = "spawns" /\ SpawnsNext /\ UNCHANGED <<vars, dbVars, schVars, raid, wk>>
     \/ part = "raids" /\ RaidsNext /\ UNCHANGED <<vars, dbVars, schVars, spn, wk>>
     \/ part = "walking" /\ WalkingNext /\ UNCHANGED <<vars, dbVars, schVars, spn, raid>>

\* The fairness of each component, when it is the one at work.
ThreadsFairness ==
  /\ WF_vars(part = "dispatcher" /\ ThreadMain)
  /\ \A t \in Thread : WF_vars(part = "dispatcher" /\ Notify(t))
  /\ WF_dbVars(part = "database" /\ DbThreadMain)
  /\ \A t \in Caller : WF_dbVars(part = "database" /\ DbFinishCall(t))
  /\ WF_schVars(part = "scheduler" /\ RunHandler)
  /\ \A id \in EventId : WF_schVars(part = "scheduler" /\ TimerExpires(id))
  /\ WF_spn(part = "spawns" /\ TimerFires) /\ WF_spn(part = "spawns" /\ CheckSpawn)
  /\ \A b \in Block : WF_spn(part = "spawns" /\ Elapse(b))
  /\ WF_raid(part = "raids" /\ TimerHandsOverEvent) /\ WF_raid(part = "raids" /\ ExecuteRaidEvent)
  /\ WF_wk(part = "walking" /\ (RunTask \/ ExecutesDeath))
  /\ WF_wk(part = "walking" /\ HandOver)
  /\ WF_wk(part = "walking" /\ Rests) /\ WF_wk(part = "walking" /\ MayAct)

ThreadsSpec == ThreadsInit /\ [][ThreadsNext]_<<part, vars, dbVars, schVars, spn, raid, wk>>
               /\ ThreadsFairness

\* A spawn knows its monsters and is checked while one is missing, and raids
\* run one at a time (Spawns!SpawnAgrees, Raids!OneRaidAtATime).
SpawnsAndRaids == SpawnAgrees /\ OneRaidAtATime

\* What was killed comes back, and every raid ends (Spawns!BlocksRefill,
\* Raids!RaidsEnd).
TheWorldGoesOn == BlocksRefill /\ RaidsEnd
=============================================================================
