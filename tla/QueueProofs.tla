----------------------------- MODULE QueueProofs -----------------------------
(***************************************************************************)
(* The two task queues, proved for any tasks, queries, threads, callers    *)
(* and callbacks: the invariants of Dispatcher, that every step of it is a *)
(* step of TaskQueue or changes nothing there, and that DatabaseTasks      *)
(* accounts for every query it accepted (QueriesAccounted).                *)
(***************************************************************************)
EXTENDS Dispatcher, DatabaseTasks, SequenceTheorems, TLAPS

-----------------------------------------------------------------------------
(* The dispatcher *)

\* What NothingLost says of the three sequences is kept by pushing on the
\* list, by swapping the lists and by dropping the head of the batch.
LEMMA PushAtEnd ==
  \A S : \A h, b, l \in Seq(S) : \A e \in S : \A a \in Seq(S) :
    a = h \o (b \o l) => Append(a, e) = h \o (b \o Append(l, e))
<1> SUFFICES ASSUME NEW S, NEW h \in Seq(S), NEW b \in Seq(S), NEW l \in Seq(S),
                    NEW e \in S, NEW a \in Seq(S), a = h \o (b \o l)
             PROVE  Append(a, e) = h \o (b \o Append(l, e))
  OBVIOUS
<1>1. b \o l \in Seq(S) /\ <<e>> \in Seq(S)
  BY ConcatProperties
<1>2. Append(a, e) = a \o <<e>>
  BY AppendIsConcat
<1>3. @ = h \o ((b \o l) \o <<e>>)
  BY SMTT(30), <1>1, ConcatAssociative
<1>4. (b \o l) \o <<e>> = b \o (l \o <<e>>)
  BY <1>1, ConcatAssociative
<1>5. l \o <<e>> = Append(l, e)
  BY AppendIsConcat
<1> QED BY <1>2, <1>3, <1>4, <1>5

LEMMA HeadAndTail ==
  ASSUME NEW S, NEW b \in Seq(S), b # <<>>
  PROVE  /\ Head(b) \in S
         /\ Tail(b) \in Seq(S)
         /\ b = <<Head(b)>> \o Tail(b)
<1>1. Head(b) \in S /\ Tail(b) \in Seq(S) /\ Len(Tail(b)) = Len(b) - 1
      /\ \A i \in 1 .. Len(Tail(b)) : Tail(b)[i] = b[i + 1]
  BY HeadTailProperties
<1>2. Len(b) \in Nat \ {0}
  BY EmptySeq
<1>3. <<Head(b)>> \in Seq(S) /\ Len(<<Head(b)>>) = 1 /\ <<Head(b)>>[1] = Head(b)
  BY <1>1
<1>4. Head(b) = b[1]
  BY <1>2
<1>5. /\ <<Head(b)>> \o Tail(b) \in Seq(S)
      /\ Len(<<Head(b)>> \o Tail(b)) = Len(b)
      /\ \A i \in 1 .. Len(b) : (<<Head(b)>> \o Tail(b))[i] =
           IF i <= 1 THEN <<Head(b)>>[i] ELSE Tail(b)[i - 1]
  BY <1>1, <1>2, <1>3, ConcatProperties
<1>6. \A i \in 1 .. Len(b) : b[i] = (<<Head(b)>> \o Tail(b))[i]
  BY <1>1, <1>2, <1>3, <1>4, <1>5
<1> QED BY <1>1, <1>5, <1>6, SeqEqual

LEMMA DropHead ==
  ASSUME NEW S, NEW h \in Seq(S), NEW b \in Seq(S), NEW l \in Seq(S), b # <<>>
  PROVE  Append(h, Head(b)) \o (Tail(b) \o l) = h \o (b \o l)
<1>1. Head(b) \in S /\ Tail(b) \in Seq(S) /\ b = <<Head(b)>> \o Tail(b)
  BY HeadAndTail
<1>2. <<Head(b)>> \in Seq(S) /\ Tail(b) \o l \in Seq(S)
  BY <1>1, ConcatProperties
<1>3. Append(h, Head(b)) = h \o <<Head(b)>>
  BY <1>1, AppendIsConcat
<1>4. (h \o <<Head(b)>>) \o (Tail(b) \o l) = h \o (<<Head(b)>> \o (Tail(b) \o l))
  BY SMTT(30), <1>2, ConcatAssociative
<1>5. (<<Head(b)>> \o Tail(b)) \o l = <<Head(b)>> \o (Tail(b) \o l)
  BY <1>1, <1>2, ConcatAssociative
<1> QED BY <1>1, <1>3, <1>4, <1>5

\* The head of the batch is the accepted task next to be handled.
LEMMA NextIsHead ==
  ASSUME NEW S, NEW h \in Seq(S), NEW b \in Seq(S), NEW l \in Seq(S), b # <<>>
  PROVE  /\ Len(h) < Len(h \o (b \o l))
         /\ (h \o (b \o l))[Len(h) + 1] = Head(b)
<1>1. b \o l \in Seq(S) /\ Len(b \o l) = Len(b) + Len(l)
      /\ \A i \in 1 .. Len(b) + Len(l) :
           (b \o l)[i] = IF i <= Len(b) THEN b[i] ELSE l[i - Len(b)]
  BY ConcatProperties
<1>2. Len(h \o (b \o l)) = Len(h) + Len(b \o l)
      /\ \A i \in 1 .. Len(h) + Len(b \o l) :
           (h \o (b \o l))[i] = IF i <= Len(h) THEN h[i] ELSE (b \o l)[i - Len(h)]
  BY <1>1, ConcatProperties
<1>3. Len(b) \in Nat \ {0} /\ Len(h) \in Nat /\ Len(l) \in Nat
  BY EmptySeq, LenProperties
<1>4. b[1] = Head(b)
  BY <1>3
<1> QED BY <1>1, <1>2, <1>3, <1>4

-----------------------------------------------------------------------------
\* The two halves of TypeCorrect.
LEMMA TypeInitially == Init => TypeOK
BY DEF Init, TypeOK, RUNNING, CLOSING, TERMINATED

LEMMA TypeKept == TypeOK /\ [Next]_vars => TypeOK'
<1> SUFFICES ASSUME TypeOK, [Next]_vars PROVE TypeOK'
  OBVIOUS
<1> USE DispatcherAssumption DEF RUNNING, CLOSING, TERMINATED
<1>1. ASSUME NEW t \in Thread, NEW task \in Task, AddTask(t, task) PROVE TypeOK'
  <2>1. task \in Entry
    BY DEF Entry
  <2>2. Append(taskList, task) \in Seq(Entry) /\ Append(accepted, task) \in Seq(Entry)
    BY <2>1 DEF TypeOK
  <2> QED BY <1>1, <2>2 DEF AddTask, Push, TypeOK
<1>2. ASSUME NEW t \in Thread, Notify(t) PROVE TypeOK'
  BY <1>2 DEF Notify, Woken, TypeOK
<1>3. ASSUME NEW t \in Thread, Stop(t) PROVE TypeOK'
  BY <1>3 DEF Stop, TypeOK
<1>4. ASSUME NEW t \in Thread, Shutdown(t) PROVE TypeOK'
  <2>1. Append(taskList, Terminator) \in Seq(Entry)
        /\ Append(accepted, Terminator) \in Seq(Entry)
    BY DEF TypeOK, Entry
  <2> QED BY <1>4, <2>1 DEF Shutdown, Woken, TypeOK
<1>5. CASE SpuriousWake
  BY <1>5 DEF SpuriousWake, TypeOK
<1>6. CASE TestState
  BY <1>6 DEF TestState, TypeOK
<1>7. CASE Take
  BY <1>7 DEF Take, Swap, TypeOK
<1>8. CASE Wait
  BY <1>8 DEF Wait, TypeOK
<1>9. CASE Relock
  BY <1>9 DEF Relock, Swap, TypeOK
<1>10. ASSUME batch # <<>>, Drop PROVE handled' \in Seq(Entry) /\ batch' \in Seq(Entry)
  <2>1. batch \in Seq(Entry) /\ handled \in Seq(Entry)
    BY DEF TypeOK
  <2>2. Head(batch) \in Entry /\ Tail(batch) \in Seq(Entry)
    BY <1>10, <2>1, HeadAndTail
  <2> QED BY <1>10, <2>1, <2>2 DEF Drop
<1>11. CASE Expire
  <2>1. handled' \in Seq(Entry) /\ batch' \in Seq(Entry) /\ pc' = "run"
    BY <1>10, <1>11 DEF Expire, Drop
  <2> QED BY <1>11, <2>1 DEF Expire, TypeOK
<1>12. CASE BeginTask
  <2>1. Head(batch) \in Entry
    BY <1>12, HeadAndTail DEF BeginTask, TypeOK
  <2> QED BY <1>12, <2>1 DEF BeginTask, TypeOK
<1>13. CASE EndTask
  <2>1. handled' \in Seq(Entry) /\ batch' \in Seq(Entry) /\ pc' = "run"
    BY <1>10, <1>13 DEF EndTask, Drop, TypeOK
  <2> QED BY <1>13, <2>1 DEF EndTask, TypeOK
<1>14. CASE EndBatch
  BY <1>14 DEF EndBatch, TypeOK
<1>15. CASE UNCHANGED vars
  BY <1>15 DEF vars, TypeOK
<1> QED
  BY <1>1, <1>2, <1>3, <1>4, <1>5, <1>6, <1>7, <1>8, <1>9, <1>11, <1>12,
     <1>13, <1>14, <1>15 DEF Next, ThreadMain

\* Every variable of Dispatcher keeps to the values the code can give it.
THEOREM TypeCorrect == Spec => []TypeOK
BY TypeInitially, TypeKept, PTL DEF Spec

-----------------------------------------------------------------------------
\* The two halves of NeverSleepsOnWork.
LEMMA WakeupInitially == Init => NoLostWakeup
BY DEF Init, NoLostWakeup

LEMMA WakeupKept == NoLostWakeup /\ [Next]_vars => NoLostWakeup'
<1> SUFFICES ASSUME NoLostWakeup, [Next]_vars, pc' = "waiting", taskList' # <<>>
             PROVE  notifying' # {}
  BY DEF NoLostWakeup
<1>1. ASSUME NEW t \in Thread, NEW task \in Task, AddTask(t, task)
      PROVE  notifying' # {}
  <2>1. CASE taskList = <<>>
    <3>1. threadState = RUNNING /\ Push(t, task)
      BY <1>1, <2>1 DEF AddTask
    <3> QED BY <2>1, <3>1 DEF Push
  <2>2. CASE taskList # <<>>
    <3>1. notifying # {}
      BY <1>1, <2>2 DEF AddTask, NoLostWakeup
    <3> QED BY <1>1, <2>2, <3>1 DEF AddTask, Push
  <2> QED BY <2>1, <2>2
<1>2. ASSUME NEW t \in Thread, Notify(t) PROVE FALSE
  BY <1>2 DEF Notify, Woken
<1>3. ASSUME NEW t \in Thread, Stop(t) PROVE notifying' # {}
  BY <1>3 DEF Stop, NoLostWakeup
<1>4. ASSUME NEW t \in Thread, Shutdown(t) PROVE FALSE
  BY <1>4 DEF Shutdown, Woken
<1>5. CASE Wait
  BY <1>5 DEF Wait
<1>6. CASE \/ SpuriousWake \/ TestState \/ Take \/ Relock
           \/ Expire \/ BeginTask \/ EndTask \/ EndBatch
  BY <1>6 DEF SpuriousWake, TestState, Take, Relock, Swap, Expire, BeginTask,
              EndTask, EndBatch, Drop
<1>7. CASE UNCHANGED vars
  BY <1>7 DEF vars, NoLostWakeup
<1> QED
  BY <1>1, <1>2, <1>3, <1>4, <1>5, <1>6, <1>7 DEF Next, ThreadMain

\* addTask notifies after it has unlocked, and only if the list was empty:
\* the thread that made the list non-empty under a waiting dispatcher has
\* always still got its notify_one to do.
THEOREM NeverSleepsOnWork == Spec => []NoLostWakeup
BY WakeupInitially, WakeupKept, PTL DEF Spec

-----------------------------------------------------------------------------
\* One step of Dispatcher keeps NothingLost, given the types.
LEMMA NothingLostStep ==
  TypeOK /\ NothingLost /\ [Next]_vars => NothingLost'
<1> SUFFICES ASSUME TypeOK, NothingLost, [Next]_vars PROVE NothingLost'
  OBVIOUS
<1>a. /\ taskList \in Seq(Entry) /\ batch \in Seq(Entry)
      /\ handled \in Seq(Entry) /\ accepted \in Seq(Entry)
  BY DEF TypeOK
<1>b. accepted = handled \o (batch \o taskList)
  BY DEF NothingLost
<1>c. \A e \in Entry : Append(accepted, e) = handled \o (batch \o Append(taskList, e))
  <2>1. \A h, b, l \in Seq(Entry) : \A e \in Entry : \A a \in Seq(Entry) :
          a = h \o (b \o l) => Append(a, e) = h \o (b \o Append(l, e))
    BY PushAtEnd, Zenon
  <2>2. taskList \in Seq(Entry) /\ batch \in Seq(Entry) /\ handled \in Seq(Entry)
    BY <1>a
  <2>3. \A e \in Entry : \A a \in Seq(Entry) :
          a = handled \o (batch \o taskList)
            => Append(a, e) = handled \o (batch \o Append(taskList, e))
    BY ZenonT(30), <2>1, <2>2
  <2>4. accepted \in Seq(Entry)
    BY <1>a
  <2> QED BY <1>b, <2>3, <2>4, Zenon
<1>1. ASSUME NEW t \in Thread, NEW task \in Task, AddTask(t, task)
      PROVE  NothingLost'
  <2>1. CASE Push(t, task)
    <3>1. task \in Entry
      BY DEF Entry
    <3>2. Append(accepted, task) = handled \o (batch \o Append(taskList, task))
      BY <1>c, <3>1, Zenon
    <3> QED BY <1>1, <2>1, <3>2 DEF AddTask, Push, NothingLost
  <2>2. CASE UNCHANGED <<taskList, accepted, notifying>>
    BY <1>1, <2>2, <1>b DEF AddTask, NothingLost
  <2> QED BY <1>1, <2>1, <2>2 DEF AddTask
<1>2. ASSUME NEW t \in Thread, Shutdown(t) PROVE NothingLost'
  <2>1. Terminator \in Entry
    BY DEF Entry
  <2>2. Append(accepted, Terminator) = handled \o (batch \o Append(taskList, Terminator))
    BY <1>c, <2>1, Zenon
  <2> QED BY <1>2, <2>2 DEF Shutdown, NothingLost
<1>3. CASE Take \/ Relock
  <2>1. batch = <<>>
    BY <1>3 DEF Take, Relock, TypeOK
  <2>2. batch' = taskList /\ taskList' = <<>>
        /\ handled' = handled /\ accepted' = accepted
    BY <1>3 DEF Take, Relock, Swap
  <2>3. batch \o taskList = taskList \o <<>>
    BY <1>a, <2>1, ConcatEmptySeq
  <2> QED BY <1>b, <2>2, <2>3 DEF NothingLost
<1>4. CASE Expire \/ EndTask
  <2>1. batch # <<>> /\ Drop /\ UNCHANGED <<taskList, accepted>>
    BY <1>4 DEF Expire, EndTask, TypeOK
  <2>2. Append(handled, Head(batch)) \o (Tail(batch) \o taskList)
          = handled \o (batch \o taskList)
    BY <1>a, <2>1, DropHead
  <2> QED BY <1>b, <2>1, <2>2 DEF Drop, NothingLost
<1>5. CASE \/ SpuriousWake \/ TestState \/ Wait \/ BeginTask \/ EndBatch
           \/ UNCHANGED vars \/ \E t \in Thread : Notify(t) \/ Stop(t)
  BY <1>5, <1>b DEF SpuriousWake, TestState, Wait, BeginTask, EndBatch,
                    Notify, Stop, vars, NothingLost
<1> QED
  BY <1>1, <1>2, <1>3, <1>4, <1>5 DEF Next, ThreadMain

LEMMA NothingLostInitially == Init => NothingLost
<1>1. <<>> \in Seq({})
  BY EmptySeq
<1>2. <<>> \o (<<>> \o <<>>) = <<>>
  BY <1>1, ConcatEmptySeq
<1> QED BY <1>2 DEF Init, NothingLost

\* Tasks are neither lost nor duplicated nor reordered on their way from
\* addTask through the two lists to the end of threadMain's loop.
THEOREM AcceptedIsHandledOrPending == Spec => []NothingLost
BY NothingLostInitially, NothingLostStep, TypeCorrect, PTL DEF Spec

-----------------------------------------------------------------------------
\* Dispatcher implements TaskQueue: addTask accepts or refuses, shutdown
\* accepts the terminator, the end of a task (or its expiry) handles the
\* next one, and everything else is invisible.
THEOREM ImplementsTaskQueue == Spec => QueueSteps
<1>1. Init => Queue!Init
  BY DEF Init, Queue!Init
<1>2. TypeOK /\ NothingLost /\ [Next]_vars => [Queue!Next]_(Queue!vars)
  <2> SUFFICES ASSUME TypeOK, NothingLost, [Next]_vars
               PROVE  Queue!Next \/ UNCHANGED <<accepted, handled, refused>>
    BY DEF Queue!vars
  <2>a. /\ taskList \in Seq(Entry) /\ batch \in Seq(Entry) /\ handled \in Seq(Entry)
        /\ accepted = handled \o (batch \o taskList)
    BY DEF TypeOK, NothingLost
  <2>b. \A task : Fresh(task) <=> Queue!Fresh(task)
    BY DEF Fresh, Queue!Fresh, Range, Queue!Range
  <2>1. ASSUME NEW t \in Thread, NEW task \in Task, AddTask(t, task)
        PROVE  Queue!Next
    <3>1. Queue!Fresh(task)
      BY <2>1, <2>b DEF AddTask
    <3>2. CASE Push(t, task)
      BY <2>1, <3>1, <3>2 DEF AddTask, Push, Queue!Accept, Queue!Next
    <3>3. CASE ~Push(t, task)
      <4>1. /\ refused' = refused \cup {task}
            /\ accepted' = accepted /\ handled' = handled
        BY <2>1, <3>3 DEF AddTask
      <4>2. task # Terminator
        BY DispatcherAssumption
      <4> QED BY <3>1, <4>1, <4>2 DEF Queue!Refuse, Queue!Next
    <3> QED BY <3>2, <3>3
  <2>2. ASSUME NEW t \in Thread, Shutdown(t) PROVE Queue!Next
    <3>1. Queue!Fresh(Terminator)
      BY <2>2, <2>b DEF Shutdown
    <3> QED BY <2>2, <3>1 DEF Shutdown, Queue!Accept, Queue!Next
  <2>3. CASE Expire \/ EndTask
    <3>1. /\ batch # <<>>
          /\ handled' = Append(handled, Head(batch))
          /\ accepted' = accepted /\ refused' = refused
      BY <2>3 DEF Expire, EndTask, Drop, TypeOK
    <3>2. Len(handled) < Len(accepted) /\ accepted[Len(handled) + 1] = Head(batch)
      BY <2>a, <3>1, NextIsHead
    <3> QED BY <3>1, <3>2 DEF Queue!Handle, Queue!Next
  <2>4. CASE \/ SpuriousWake \/ TestState \/ Take \/ Wait \/ Relock \/ BeginTask
             \/ EndBatch \/ UNCHANGED vars
             \/ \E t \in Thread : Notify(t) \/ Stop(t)
    BY <2>4 DEF SpuriousWake, TestState, Take, Wait, Relock, Swap, BeginTask,
                EndBatch, Notify, Stop, vars
  <2> QED
    BY <2>1, <2>2, <2>3, <2>4 DEF Next, ThreadMain
<1> QED BY <1>1, <1>2, TypeCorrect, AcceptedIsHandledOrPending, PTL DEF Spec, QueueSteps

-----------------------------------------------------------------------------
(* The queries.  The inductive invariant DbInv says where they are: tasks is *)
(* the rest of queued, and what has been popped from it is in a hand or has  *)
(* been run.                                                                 *)

\* How many of the accepted queries have left the list.
Popped == Len(queued) - Len(tasks)

\* The worker is in threadMain, callers are in addTask, flush or shutdown.
Places ==
  /\ dbPc[Worker] \in {"test", "lock", "waiting", "woken", "exited", "execute", "post"}
  /\ \A t \in Caller : dbPc[t] \in {"idle", "notify", "pop", "execute", "post"}

\* A thread holds a query while it runs it and posts its callback.
Hands ==
  \A h \in Holder :
    /\ hand[h] # NoQuery <=> dbPc[h] \in {"execute", "post"}
    /\ dbPc[h] = "execute" => hand[h] \notin Range(executed)
    /\ dbPc[h] = "post" => /\ hand[h] \in WithCallback
                           /\ hand[h] \in Range(executed) \ Range(posted)

\* Both addTask and runTask keep the list in the order of acceptance.
RestIsQueued ==
  /\ IsInjective(queued)
  /\ Len(tasks) <= Len(queued)
  /\ \A i \in 1 .. Len(tasks) : tasks[i] = queued[Popped + i]

PoppedIsTaken == InHand \cup Range(executed) = {queued[i] : i \in 1 .. Popped}

RunOnce ==
  /\ IsInjective(executed)
  /\ IsInjective(posted)
  /\ Range(posted) \subseteq Range(executed)
  /\ \A h, k \in Holder : hand[h] = hand[k] /\ hand[h] # NoQuery => h = k

DbInv == DbTypeOK /\ Places /\ Hands /\ RestIsQueued /\ PoppedIsTaken /\ RunOnce /\ DbNoLostWakeup

-----------------------------------------------------------------------------
\* What addTask and runTask do to the sequences, as sets.
LEMMA AppendRange ==
  ASSUME NEW S, NEW s \in Seq(S), NEW e \in S
  PROVE  /\ Append(s, e) \in Seq(S)
         /\ Range(Append(s, e)) = Range(s) \cup {e}
         /\ IsInjective(s) /\ e \notin Range(s) => IsInjective(Append(s, e))
<1>1. /\ Append(s, e) \in Seq(S) /\ Len(Append(s, e)) = Len(s) + 1
      /\ \A i \in 1 .. Len(s) : Append(s, e)[i] = s[i]
      /\ Append(s, e)[Len(s) + 1] = e
      /\ Len(s) \in Nat
  BY AppendProperties, LenProperties
<1>2. DOMAIN s = 1 .. Len(s) /\ DOMAIN Append(s, e) = 1 .. Len(s) + 1
  BY <1>1, LenProperties
<1>3. Range(Append(s, e)) = Range(s) \cup {e}
  BY <1>1, <1>2 DEF Range
<1>4. ASSUME IsInjective(s), e \notin Range(s)
      PROVE  IsInjective(Append(s, e))
  <2> SUFFICES ASSUME NEW a \in 1 .. Len(s) + 1, NEW b \in 1 .. Len(s) + 1,
                      Append(s, e)[a] = Append(s, e)[b]
               PROVE  a = b
    BY <1>2 DEF IsInjective
  <2>1. CASE a \in 1 .. Len(s) /\ b \in 1 .. Len(s)
    BY <1>1, <1>2, <1>4, <2>1 DEF IsInjective
  <2>2. CASE a = Len(s) + 1 \/ b = Len(s) + 1
    BY <1>1, <1>2, <1>4, <2>2 DEF Range
  <2> QED BY <1>1, <2>1, <2>2
<1> QED BY <1>1, <1>3, <1>4

\* The query runTask takes is the first that has not left the list.
LEMMA HeadIsNext ==
  ASSUME DbTypeOK, RestIsQueued, tasks # <<>>
  PROVE  /\ Head(tasks) \in Query /\ Tail(tasks) \in Seq(Query)
         /\ Len(Tail(tasks)) = Len(tasks) - 1
         /\ Popped \in Nat /\ Popped + 1 \in 1 .. Len(queued)
         /\ Head(tasks) = queued[Popped + 1]
         /\ \A i \in 1 .. Len(Tail(tasks)) : Tail(tasks)[i] = queued[Popped + 1 + i]
<1>1. tasks \in Seq(Query) /\ queued \in Seq(Query)
  BY DEF DbTypeOK
<1>2. Len(tasks) \in Nat \ {0} /\ Len(queued) \in Nat /\ Len(tasks) <= Len(queued)
  BY <1>1, EmptySeq, LenProperties DEF RestIsQueued
<1>3. /\ Head(tasks) \in Query /\ Tail(tasks) \in Seq(Query)
      /\ Len(Tail(tasks)) = Len(tasks) - 1
      /\ \A i \in 1 .. Len(Tail(tasks)) : Tail(tasks)[i] = tasks[i + 1]
  BY <1>1, HeadTailProperties
<1>4. Head(tasks) = tasks[1]
  BY <1>1, <1>2
<1>5. Popped \in Nat /\ Popped + 1 \in 1 .. Len(queued)
  BY <1>2 DEF Popped
<1>6. \A i \in 1 .. Len(Tail(tasks)) : /\ i + 1 \in 1 .. Len(tasks)
                                       /\ Popped + (i + 1) = Popped + 1 + i
  BY <1>2, <1>3, <1>5
<1> QED BY <1>2, <1>3, <1>4, <1>5, <1>6 DEF RestIsQueued
-----------------------------------------------------------------------------
\* The list and the hands are left alone by whatever does not touch them.
LEMMA SameQueries ==
  ASSUME RestIsQueued, PoppedIsTaken, RunOnce,
         UNCHANGED <<tasks, hand, queued, executed, posted>>
  PROVE  RestIsQueued' /\ PoppedIsTaken' /\ RunOnce'
BY DEF RestIsQueued, PoppedIsTaken, RunOnce, Popped, InHand

\* h takes the first query of the list.
LEMMA PopKeeps ==
  ASSUME DbInv, NEW h \in Holder, Pop(h), dbPc[h] \in {"pop", "lock", "woken"},
         UNCHANGED <<dbState, closing, queued, executed, lost, posted>>
  PROVE  DbInv'
<1> USE DatabaseTasksAssumption DEF Holder
<1> DEFINE q == Head(tasks)
<1>1. /\ q \in Query /\ Tail(tasks) \in Seq(Query)
      /\ Len(tasks') = Len(tasks) - 1
      /\ Popped \in Nat /\ Popped + 1 \in 1 .. Len(queued)
      /\ q = queued[Popped + 1]
      /\ \A i \in 1 .. Len(tasks') : tasks'[i] = queued[Popped + 1 + i]
  BY HeadIsNext DEF DbInv, Pop
<1>2. /\ dbPc \in [Holder -> {"idle", "notify", "pop", "execute", "post",
                              "test", "lock", "waiting", "woken", "exited"}]
      /\ hand \in [Holder -> Query \cup {NoQuery}]
      /\ tasks \in Seq(Query) /\ queued \in Seq(Query)
  BY DEF DbInv, DbTypeOK
<1>3. Len(tasks) \in Nat /\ Len(queued) \in Nat /\ DOMAIN queued = 1 .. Len(queued)
  BY <1>2, LenProperties
<1>4. Popped' = Popped + 1
  BY <1>1, <1>3 DEF Popped
<1>5. hand[h] = NoQuery /\ q # NoQuery
  BY <1>1 DEF DbInv, Hands
<1>6. hand' = [hand EXCEPT ![h] = q] /\ dbPc' = [dbPc EXCEPT ![h] = "execute"]
  BY DEF Pop, Go
<1>7. q \notin InHand \cup Range(executed)
  <2>1. \A i \in 1 .. Popped : i \in DOMAIN queued /\ Popped + 1 \in DOMAIN queued /\ i # Popped + 1
    BY <1>1, <1>3
  <2>2. \A i \in 1 .. Popped : queued[i] # q
    BY <1>1, <2>1 DEF DbInv, RestIsQueued, IsInjective
  <2> QED BY <2>2 DEF DbInv, PoppedIsTaken
<1>8. DbTypeOK'
  BY <1>1, <1>2, <1>6 DEF DbInv, DbTypeOK, Pop
<1>9. Places'
  BY <1>2, <1>6 DEF DbInv, Places
<1>10. Hands'
  BY <1>2, <1>5, <1>6, <1>7 DEF DbInv, Hands
<1>11. RestIsQueued'
  BY <1>1, <1>3, <1>4 DEF DbInv, RestIsQueued
<1>12. PoppedIsTaken'
  <2>1. InHand' = InHand \cup {q}
    BY <1>2, <1>5, <1>6 DEF InHand
  <2>2. 1 .. Popped + 1 = (1 .. Popped) \cup {Popped + 1}
    BY <1>1
  <2>3. {queued[i] : i \in 1 .. Popped + 1} = {queued[i] : i \in 1 .. Popped} \cup {q}
    BY <1>1, <2>2
  <2> QED BY <1>4, <2>1, <2>3 DEF DbInv, PoppedIsTaken
<1>13. RunOnce'
  <2>1. \A k \in Holder : hand[k] # q
    BY <1>5, <1>7 DEF InHand
  <2> QED BY <1>2, <1>6, <2>1 DEF DbInv, RunOnce
<1>14. DbNoLostWakeup'
  <2>1. \A t \in Caller : dbPc[t] = "notify" => dbPc'[t] = "notify"
    BY <1>2, <1>6
  <2>2. tasks # <<>>
    BY DEF Pop
  <2>3. CASE dbPc'[Worker] = "waiting"
    <3>1. dbPc[Worker] = "waiting" /\ h # Worker
      BY <1>2, <1>6, <2>3
    <3>2. PICK t \in Caller : dbPc[t] = "notify"
      BY <2>2, <3>1 DEF DbInv, DbNoLostWakeup
    <3> QED BY <2>1, <3>2 DEF DbNoLostWakeup
  <2> QED BY <2>3 DEF DbNoLostWakeup
<1> QED BY <1>8, <1>9, <1>10, <1>11, <1>12, <1>13, <1>14 DEF DbInv
\* h has run its query: the query stays in hand for its callback, or not.
LEMMA ExecuteKeeps ==
  ASSUME DbInv, NEW h \in Holder, Execute(h)
  PROVE  DbInv'
<1> USE DatabaseTasksAssumption DEF Holder
<1> DEFINE q == hand[h]
<1>1. /\ dbPc \in [Holder -> {"idle", "notify", "pop", "execute", "post",
                              "test", "lock", "waiting", "woken", "exited"}]
      /\ hand \in [Holder -> Query \cup {NoQuery}]
      /\ executed \in Seq(Query)
  BY DEF DbInv, DbTypeOK
<1>2. dbPc[h] = "execute" /\ q \in Query /\ q \notin Range(executed)
  BY <1>1 DEF Execute, DbInv, Hands
<1>3. /\ executed' \in Seq(Query) /\ Range(executed') = Range(executed) \cup {q}
      /\ IsInjective(executed')
  BY <1>1, <1>2, AppendRange DEF Execute, DbInv, RunOnce
<1>4. \/ q \in WithCallback /\ dbPc' = [dbPc EXCEPT ![h] = "post"] /\ hand' = hand
      \/ /\ q \notin WithCallback
         /\ dbPc' = [dbPc EXCEPT ![h] = IF h = Worker THEN "test" ELSE "pop"]
         /\ hand' = [hand EXCEPT ![h] = NoQuery]
  BY DEF Execute, Finish, Go, Resume
<1>5. DbTypeOK'
  BY <1>1, <1>3, <1>4 DEF DbInv, DbTypeOK, Execute
<1>6. Places'
  BY <1>1, <1>4 DEF DbInv, Places
<1>7. \A k \in Holder : k # h => hand[k] # q
  BY <1>2 DEF DbInv, RunOnce
<1>8. Hands'
  <2> SUFFICES ASSUME NEW k \in Holder
               PROVE  /\ hand'[k] # NoQuery <=> dbPc'[k] \in {"execute", "post"}
                      /\ dbPc'[k] = "execute" => hand'[k] \notin Range(executed')
                      /\ dbPc'[k] = "post" => /\ hand'[k] \in WithCallback
                                              /\ hand'[k] \in Range(executed') \ Range(posted')
    BY DEF Hands
  <2>1. posted' = posted /\ q \notin Range(posted)
    BY <1>2 DEF Execute, DbInv, RunOnce
  <2>2. CASE k # h
    BY <1>1, <1>3, <1>4, <1>7, <2>1, <2>2 DEF DbInv, Hands
  <2>3. CASE k = h
    BY <1>1, <1>2, <1>3, <1>4, <2>1, <2>3 DEF DbInv, Hands
  <2> QED BY <2>2, <2>3
<1>9. RestIsQueued'
  BY DEF DbInv, RestIsQueued, Popped, Execute
<1>10. PoppedIsTaken'
  <2>1. InHand' \cup Range(executed') = InHand \cup Range(executed)
    BY <1>1, <1>2, <1>3, <1>4 DEF InHand
  <2> QED BY <2>1 DEF DbInv, PoppedIsTaken, Popped, Execute
<1>11. RunOnce'
  BY <1>1, <1>3, <1>4 DEF DbInv, RunOnce, Execute
<1>12. DbNoLostWakeup'
  BY <1>1, <1>2, <1>4 DEF DbInv, DbNoLostWakeup, Execute
<1> QED BY <1>5, <1>6, <1>8, <1>9, <1>10, <1>11, <1>12 DEF DbInv

LEMMA PostKeeps ==
  ASSUME DbInv, NEW h \in Holder, PostCallback(h)
  PROVE  DbInv'
<1> USE DatabaseTasksAssumption DEF Holder
<1> DEFINE q == hand[h]
<1>1. /\ dbPc \in [Holder -> {"idle", "notify", "pop", "execute", "post",
                              "test", "lock", "waiting", "woken", "exited"}]
      /\ hand \in [Holder -> Query \cup {NoQuery}]
      /\ posted \in Seq(WithCallback)
  BY DEF DbInv, DbTypeOK
<1>2. dbPc[h] = "post" /\ q \in WithCallback /\ q \in Range(executed) \ Range(posted)
  BY DEF PostCallback, DbInv, Hands
<1>3. /\ posted' \in Seq(WithCallback) /\ Range(posted') = Range(posted) \cup {q}
      /\ IsInjective(posted')
  BY <1>1, <1>2, AppendRange DEF PostCallback, DbInv, RunOnce
<1>4. /\ dbPc' = [dbPc EXCEPT ![h] = IF h = Worker THEN "test" ELSE "pop"]
      /\ hand' = [hand EXCEPT ![h] = NoQuery]
  BY DEF PostCallback, Finish, Go, Resume
<1>5. DbTypeOK'
  BY <1>1, <1>3, <1>4 DEF DbInv, DbTypeOK, PostCallback
<1>6. Places'
  BY <1>1, <1>4 DEF DbInv, Places
<1>7. \A k \in Holder : k # h => hand[k] # q
  BY <1>2 DEF DbInv, RunOnce
<1>8. Hands'
  BY <1>1, <1>3, <1>4, <1>7 DEF DbInv, Hands, PostCallback
<1>9. RestIsQueued'
  BY DEF DbInv, RestIsQueued, Popped, PostCallback
<1>10. PoppedIsTaken'
  <2>1. InHand' \cup Range(executed) = InHand \cup Range(executed)
    BY <1>1, <1>2, <1>4 DEF InHand
  <2> QED BY <2>1 DEF DbInv, PoppedIsTaken, Popped, PostCallback
<1>11. RunOnce'
  BY <1>1, <1>2, <1>3, <1>4 DEF DbInv, RunOnce, PostCallback
<1>12. DbNoLostWakeup'
  BY <1>1, <1>2, <1>4 DEF DbInv, DbNoLostWakeup, PostCallback
<1> QED BY <1>5, <1>6, <1>8, <1>9, <1>10, <1>11, <1>12 DEF DbInv

\* addTask, whose caller is to signal if the list was empty.
LEMMA AddTaskKeeps ==
  ASSUME DbInv, NEW t \in Caller, NEW q \in Query, DbAddTask(t, q)
  PROVE  DbInv'
<1> USE DatabaseTasksAssumption DEF Holder
<1>1. /\ dbPc \in [Holder -> {"idle", "notify", "pop", "execute", "post",
                              "test", "lock", "waiting", "woken", "exited"}]
      /\ tasks \in Seq(Query) /\ queued \in Seq(Query)
  BY DEF DbInv, DbTypeOK
<1>2. CASE dbState # "RUNNING"
  <2>1. UNCHANGED <<dbState, dbPc, tasks, hand, closing, queued, executed, posted>>
        /\ lost' = lost \cup {q}
    BY <1>2 DEF DbAddTask
  <2>2. DbTypeOK'
    BY <2>1 DEF DbInv, DbTypeOK
  <2>3. RestIsQueued' /\ PoppedIsTaken' /\ RunOnce'
    BY <2>1, SameQueries DEF DbInv
  <2>4. Places' /\ Hands' /\ DbNoLostWakeup'
    BY <2>1 DEF DbInv, Places, Hands, DbNoLostWakeup
  <2> QED BY <2>2, <2>3, <2>4 DEF DbInv
<1>3. CASE dbState = "RUNNING"
  <2>1. /\ tasks' = Append(tasks, q) /\ queued' = Append(queued, q)
        /\ dbPc[t] = "idle" /\ q \notin Range(queued)
        /\ dbPc' = [dbPc EXCEPT ![t] = IF tasks = <<>> THEN "notify" ELSE "idle"]
        /\ UNCHANGED <<dbState, lost, hand, closing, executed, posted>>
    BY <1>3 DEF DbAddTask, Enqueue, Unused, Go
  <2>2. /\ tasks' \in Seq(Query) /\ queued' \in Seq(Query)
        /\ IsInjective(queued')
    BY <1>1, <2>1, AppendRange DEF DbInv, RestIsQueued
  <2>3. /\ Len(tasks') = Len(tasks) + 1 /\ Len(queued') = Len(queued) + 1
        /\ \A i \in 1 .. Len(tasks) : tasks'[i] = tasks[i]
        /\ \A i \in 1 .. Len(queued) : queued'[i] = queued[i]
        /\ tasks'[Len(tasks) + 1] = q /\ queued'[Len(queued) + 1] = q
        /\ Len(tasks) \in Nat /\ Len(queued) \in Nat /\ Len(tasks) <= Len(queued)
    BY <1>1, <2>1, AppendProperties, LenProperties DEF DbInv, RestIsQueued
  <2>4. Popped' = Popped /\ Popped \in Nat /\ Popped <= Len(queued)
    BY <2>3 DEF Popped
  <2>5. DbTypeOK'
    BY <1>1, <2>1, <2>2 DEF DbInv, DbTypeOK
  <2>6. Places' /\ Hands'
    BY <1>1, <2>1 DEF DbInv, Places, Hands
  <2>7. RestIsQueued'
    <3> SUFFICES ASSUME NEW i \in 1 .. Len(tasks')
                 PROVE  tasks'[i] = queued'[Popped' + i]
      BY <2>2, <2>3 DEF RestIsQueued
    <3>1. CASE i \in 1 .. Len(tasks)
      <4>1. Popped + i \in 1 .. Len(queued)
        BY <2>3, <2>4, <3>1 DEF Popped
      <4> QED BY <2>3, <2>4, <3>1, <4>1 DEF DbInv, RestIsQueued
    <3>2. CASE i = Len(tasks) + 1
      <4>1. Popped + i = Len(queued) + 1
        BY <2>3, <3>2 DEF Popped
      <4> QED BY <2>3, <2>4, <3>2, <4>1
    <3> QED BY <2>3, <3>1, <3>2
  <2>8. PoppedIsTaken'
    <3>1. {queued'[i] : i \in 1 .. Popped'} = {queued[i] : i \in 1 .. Popped}
      BY <2>3, <2>4
    <3> QED BY <2>1, <3>1 DEF DbInv, PoppedIsTaken, InHand
  <2>9. RunOnce'
    BY <2>1 DEF DbInv, RunOnce
  <2>10. DbNoLostWakeup'
    <3>1. CASE tasks = <<>>
      BY <1>1, <2>1, <3>1 DEF DbNoLostWakeup
    <3>2. CASE tasks # <<>>
      BY <1>1, <2>1, <3>2 DEF DbInv, DbNoLostWakeup
    <3> QED BY <3>1, <3>2
  <2> QED BY <2>5, <2>6, <2>7, <2>8, <2>9, <2>10 DEF DbInv
<1> QED BY <1>2, <1>3

\* The steps that move no query.
LEMMA OthersKeep ==
  ASSUME DbInv, UNCHANGED <<tasks, hand, queued, executed, posted>>,
         \/ DbTestState \/ DbWait \/ DbWokenForNothing \/ DbSpuriousWake
         \/ \E t \in Caller : DbNotify(t) \/ FlushEnd(t) \/ DbStop(t) \/ Flush(t) \/ DbShutdown(t)
         \/ UNCHANGED dbVars
  PROVE  DbInv'
<1> USE DatabaseTasksAssumption DEF Holder, Go
<1>1. dbPc \in [Holder -> {"idle", "notify", "pop", "execute", "post",
                           "test", "lock", "waiting", "woken", "exited"}]
  BY DEF DbInv, DbTypeOK
<1>2. RestIsQueued' /\ PoppedIsTaken' /\ RunOnce'
  BY SameQueries DEF DbInv
<1>3. ASSUME NEW t \in Caller, DbNotify(t) PROVE DbInv'
  <2>1. /\ dbPc' = [dbPc EXCEPT ![t] = "idle", ![Worker] = IF @ = "waiting" THEN "woken" ELSE @]
        /\ dbPc[t] = "notify" /\ t # Worker
    BY <1>3 DEF DbNotify, Awake
  <2>2. DbTypeOK' /\ Places' /\ Hands'
    BY <1>1, <1>3, <2>1 DEF DbNotify, DbInv, DbTypeOK, Places, Hands
  <2>3. dbPc'[Worker] # "waiting"
    BY <1>1, <2>1
  <2> QED BY <1>2, <2>2, <2>3 DEF DbInv, DbNoLostWakeup
<1>4. ASSUME NEW t \in Caller, FlushEnd(t) PROVE DbInv'
  <2>1. tasks' = <<>>
    BY <1>4 DEF FlushEnd
  <2>2. DbTypeOK' /\ Places' /\ Hands'
    BY <1>1, <1>4 DEF FlushEnd, DbInv, DbTypeOK, Places, Hands
  <2> QED BY <1>2, <2>1, <2>2 DEF DbInv, DbNoLostWakeup
<1>5. ASSUME NEW t \in Caller, DbStop(t) PROVE DbInv'
  BY <1>2, <1>5 DEF DbStop, DbInv, DbTypeOK, Places, Hands, DbNoLostWakeup
<1>6. ASSUME NEW t \in Caller, Flush(t) PROVE DbInv'
  <2>1. DbTypeOK' /\ Places' /\ Hands'
    BY <1>1, <1>6 DEF Flush, DbInv, DbTypeOK, Places, Hands
  <2>2. DbNoLostWakeup'
    BY <1>1, <1>6 DEF Flush, DbInv, DbNoLostWakeup
  <2> QED BY <1>2, <2>1, <2>2 DEF DbInv
<1>7. ASSUME NEW t \in Caller, DbShutdown(t) PROVE DbInv'
  <2>1. DbTypeOK' /\ Places' /\ Hands'
    BY <1>1, <1>7 DEF DbShutdown, DbInv, DbTypeOK, Places, Hands
  <2>2. DbNoLostWakeup'
    BY <1>1, <1>7 DEF DbShutdown, DbInv, DbNoLostWakeup
  <2> QED BY <1>2, <2>1, <2>2 DEF DbInv
<1>8. ASSUME DbTestState \/ DbWait \/ DbWokenForNothing \/ DbSpuriousWake PROVE DbInv'
  <2>1. DbTypeOK' /\ Places' /\ Hands'
    BY <1>1, <1>8 DEF DbTestState, DbWait, DbWokenForNothing, DbSpuriousWake,
                      DbInv, DbTypeOK, Places, Hands
  <2>2. dbPc'[Worker] = "waiting" => tasks' = <<>>
    BY <1>1, <1>8 DEF DbTestState, DbWait, DbWokenForNothing, DbSpuriousWake
  <2> QED BY <1>2, <2>1, <2>2 DEF DbInv, DbNoLostWakeup
<1>9. ASSUME UNCHANGED dbVars PROVE DbInv'
  BY <1>2, <1>9 DEF dbVars, DbInv, DbTypeOK, Places, Hands, DbNoLostWakeup
<1> QED BY <1>3, <1>4, <1>5, <1>6, <1>7, <1>8, <1>9

-----------------------------------------------------------------------------
LEMMA DbInvInitially == DbInit => DbInv
<1> SUFFICES ASSUME DbInit PROVE DbInv
  OBVIOUS
<1> USE DatabaseTasksAssumption DEF DbInit, Holder
<1>1. /\ Len(<<>>) = 0 /\ Range(<<>>) = {} /\ IsInjective(<<>>)
      /\ <<>> \in Seq(Query) /\ <<>> \in Seq(WithCallback)
  BY DEF Range, IsInjective
<1>2. DbTypeOK
  BY <1>1 DEF DbTypeOK
<1>3. Places /\ Hands /\ DbNoLostWakeup
  BY DEF Places, Hands, DbNoLostWakeup
<1>4. InHand = {}
  BY DEF InHand
<1>5. RestIsQueued
  BY <1>1 DEF RestIsQueued
<1>6. PoppedIsTaken
  BY <1>1, <1>4 DEF PoppedIsTaken, Popped
<1>7. RunOnce
  BY <1>1 DEF RunOnce
<1> QED BY <1>2, <1>3, <1>5, <1>6, <1>7 DEF DbInv

LEMMA DbInvKept == DbInv /\ [DbNext]_dbVars => DbInv'
<1> SUFFICES ASSUME DbInv, [DbNext]_dbVars PROVE DbInv'
  OBVIOUS
<1> USE DEF Holder
<1>1. CASE DbTake
  BY <1>1, PopKeeps DEF DbTake
<1>2. ASSUME NEW t \in Caller, FlushPop(t) PROVE DbInv'
  BY <1>2, PopKeeps DEF FlushPop
<1>3. ASSUME NEW h \in Holder, Execute(h) PROVE DbInv'
  BY <1>3, ExecuteKeeps
<1>4. ASSUME NEW h \in Holder, PostCallback(h) PROVE DbInv'
  BY <1>4, PostKeeps
<1>5. ASSUME NEW t \in Caller, NEW q \in Query, DbAddTask(t, q) PROVE DbInv'
  BY <1>5, AddTaskKeeps
<1>6. CASE DbTestState \/ DbWait \/ DbWokenForNothing \/ DbSpuriousWake
  BY <1>6, OthersKeep DEF DbTestState, DbWait, DbWokenForNothing, DbSpuriousWake
<1>7. ASSUME NEW t \in Caller, DbNotify(t) \/ FlushEnd(t) \/ DbStop(t) \/ Flush(t) \/ DbShutdown(t)
      PROVE  DbInv'
  BY <1>7, OthersKeep DEF DbNotify, FlushEnd, DbStop, Flush, DbShutdown
<1>8. CASE UNCHANGED dbVars
  BY <1>8, OthersKeep DEF dbVars
<1> QED BY <1>1, <1>2, <1>3, <1>4, <1>5, <1>6, <1>7, <1>8
        DEF DbNext, DbThreadMain, DbFinishCall

\* Nothing that has been popped is forgotten, nothing still queued is run.
LEMMA DbInvImplies == DbInv => QueriesAccounted
<1> SUFFICES ASSUME DbInv PROVE QueriesAccounted
  OBVIOUS
<1>1. /\ tasks \in Seq(Query) /\ queued \in Seq(Query)
      /\ Len(tasks) \in Nat /\ Len(queued) \in Nat /\ Len(tasks) <= Len(queued)
      /\ DOMAIN tasks = 1 .. Len(tasks) /\ DOMAIN queued = 1 .. Len(queued)
  BY LenProperties DEF DbInv, DbTypeOK, RestIsQueued
<1>2. Popped \in Nat /\ Popped <= Len(queued) /\ Len(queued) = Popped + Len(tasks)
  BY <1>1 DEF Popped
<1>3. Range(tasks) = {queued[i] : i \in Popped + 1 .. Len(queued)}
  <2>1. \A i \in 1 .. Len(tasks) : Popped + i \in Popped + 1 .. Len(queued)
                                   /\ tasks[i] = queued[Popped + i]
    BY <1>1, <1>2 DEF DbInv, RestIsQueued
  <2>2. \A j \in Popped + 1 .. Len(queued) : j - Popped \in 1 .. Len(tasks) /\ Popped + (j - Popped) = j
    BY <1>1, <1>2
  <2> QED BY <1>1, <2>1, <2>2 DEF Range
<1>4. Range(queued) = {queued[i] : i \in 1 .. Popped} \cup {queued[i] : i \in Popped + 1 .. Len(queued)}
  <2>1. 1 .. Len(queued) = (1 .. Popped) \cup (Popped + 1 .. Len(queued))
    BY <1>1, <1>2
  <2> QED BY <1>1, <2>1 DEF Range
<1>5. EachQueryOnce
  BY <1>3, <1>4 DEF DbInv, RunOnce, PoppedIsTaken, EachQueryOnce
<1>6. OnlyInHandOvertaken
  <2> SUFFICES ASSUME NEW i \in DOMAIN queued, NEW j \in DOMAIN queued, i < j,
                      queued[j] \in Range(executed), queued[i] \notin Range(executed)
               PROVE  queued[i] \in InHand
    BY DEF OnlyInHandOvertaken
  <2>1. PICK k \in 1 .. Popped : queued[j] = queued[k]
    BY DEF DbInv, PoppedIsTaken
  <2>2. j = k
    BY SMTT(30), <1>1, <1>2, <2>1 DEF DbInv, RestIsQueued, IsInjective
  <2>3. i \in 1 .. Popped
    BY <1>1, <1>2, <2>2
  <2> QED BY <2>3 DEF DbInv, PoppedIsTaken
<1> QED BY <1>5, <1>6 DEF DbInv, QueriesAccounted

\* Whatever the interleaving of addTask, flush, shutdown and the worker,
\* spurious wake-ups included: every accepted query is in one place, is run
\* once and in order but for those in hand, and is not slept over
\* (databasetasks.cpp:33-104).
THEOREM QueriesAreAccounted == DbSpec => []QueriesAccounted
BY DbInvInitially, DbInvKept, DbInvImplies, PTL DEF DbSpec
==============================================================================
