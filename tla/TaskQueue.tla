----------------------------- MODULE TaskQueue -----------------------------
(***************************************************************************)
(* What Dispatcher (src/engine/src/tasks.h, tasks.cpp) promises the rest   *)
(* of the server: whoever calls addTask either has the task refused, or    *)
(* the task joins the end of one queue and is handled there exactly once,  *)
(* in the order of acceptance.  Threads, the mutex, the condition variable *)
(* and the batches of threadMain are absent: Dispatcher implements this.   *)
(***************************************************************************)
EXTENDS Naturals, Sequences, Functions

CONSTANTS Task,        \* tasks the rest of the server creates
          Terminator   \* the task Dispatcher::shutdown creates

VARIABLES accepted,    \* tasks accepted so far, in order
          handled,     \* tasks run or dropped as expired so far, in order
          refused      \* tasks deleted by addTask

vars == <<accepted, handled, refused>>

Init == /\ accepted = <<>>
        /\ handled = <<>>
        /\ refused = {}

\* A task is created once, so it is offered to addTask once.
Fresh(task) == task \notin Range(accepted) /\ task \notin refused

Accept(task) == /\ Fresh(task)
                /\ accepted' = Append(accepted, task)
                /\ UNCHANGED <<handled, refused>>

Refuse(task) == /\ Fresh(task)
                /\ task # Terminator
                /\ refused' = refused \cup {task}
                /\ UNCHANGED <<accepted, handled>>

Handle == /\ Len(handled) < Len(accepted)
          /\ handled' = Append(handled, accepted[Len(handled) + 1])
          /\ UNCHANGED <<accepted, refused>>

Next == \/ \E task \in Task \cup {Terminator} : Accept(task) \/ Refuse(task)
        \/ Handle

\* Handling goes on as long as the terminator has not been handled; what is
\* accepted behind it may never be.
Spec == Init /\ [][Next]_vars
             /\ WF_vars(Terminator \notin Range(handled) /\ Handle)
=============================================================================
