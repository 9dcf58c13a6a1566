------------------------------ MODULE Walking ------------------------------
(***************************************************************************)
(* How a player walks, and how an action waits for the walk it needs.      *)
(*                                                                         *)
(* A creature with somewhere to go has a list of directions and one event  *)
(* of the scheduler, whose task takes a step and schedules the next one    *)
(* (creature.cpp).  A player who acts on something out of reach is sent    *)
(* there: the handler posts a walk, keeps itself as walkTask, and is       *)
(* scheduled again when the walk is complete (game.cpp, player.cpp).  An   *)
(* event that has expired is a task in the dispatcher's queue and can no   *)
(* longer be stopped; what it finds when it runs may have changed.         *)
(*                                                                         *)
(* Distances are what the properties tell apart: the length of the list    *)
(* and whether the player is near what is to be used.  resting is          *)
(* getWalkDelay() > 0 and busy is ~canDoAction(); the clock ends both.     *)
(* nextStepEvent is left out: no caller ever sets it.                      *)
(***************************************************************************)
EXTENDS Naturals, Sequences, FiniteSets

CONSTANTS Request,      \* what a client asks for: one action each
          Style,        \* Style[r]: the handler it is for: "use", "move", "push" or "rotate"
          MaxPath,      \* bound: directions in a path
          MaxMishaps    \* bound: refused steps, teleports, pushes, changes of speed

None == "none"

ASSUME WalkingAssumption == /\ Style \in [Request -> {"use", "move", "push", "rotate"}]
                            /\ None \notin Request
                            /\ MaxPath \in Nat \ {0} /\ MaxMishaps \in Nat

VARIABLE wk    \* the player, the scheduler's timers and the dispatcher's queue

NoWay == MaxPath + 1
Check == [do |-> "walk"]                  \* Game::checkCreatureWalk
AutoWalk(n) == [do |-> "auto", path |-> n]    \* Game::playerAutoWalk
Act(r) == [do |-> "act", what |-> r]      \* the handler of r again
DeathTask == [do |-> "death"]               \* Game::executeDeath

WalkingTypeOK ==
  /\ DOMAIN wk.timers \subseteq Nat \ {0} /\ wk.list \in 0..MaxPath
  /\ {wk.event, wk.taskEvent, wk.actionEvent} \subseteq Nat
  /\ wk.task \in Request \cup {None} /\ wk.asked \subseteq Request /\ wk.mishaps \in 0..MaxMishaps + 1

WalkingInit ==
  wk = [list |-> 0, cancel |-> FALSE, event |-> 0, task |-> None, taskEvent |-> 0, actionEvent |-> 0,
        timers |-> <<>>, queue |-> <<>>, resting |-> FALSE, busy |-> FALSE, near |-> FALSE,
        astray |-> FALSE, frozen |-> FALSE, blocked |-> FALSE, dying |-> FALSE, chase |-> "not yet",
        thrown |-> FALSE, asked |-> {}, done |-> {}, mishaps |-> 0]

\* The scheduler: ids are not used again while anything remembers them.
Remembered(w) == DOMAIN w.timers \cup {w.queue[k].id : k \in DOMAIN w.queue}
                 \cup {w.event, w.taskEvent, w.actionEvent}
Ids(w) == 1..(Cardinality(DOMAIN w.timers) + Len(w.queue) + 4)
FreshId(w) == CHOOSE i \in Ids(w) : i \notin Remembered(w)
SetTimer(w, i, what) == [w EXCEPT !.timers = [j \in DOMAIN @ \cup {i} |-> IF j = i THEN what ELSE @[j]]]
ClearTimer(w, i) == [w EXCEPT !.timers = [j \in DOMAIN @ \ {i} |-> @[j]]]
Post(w, what) == [w EXCEPT !.queue = Append(@, [id |-> 0, task |-> what])]

-----------------------------------------------------------------------------
(* creature.cpp *)

StopEventWalk(w) == [ClearTimer(w, w.event) EXCEPT !.event = 0]

SetNextWalkActionTask(w, r) ==
  [ClearTimer(w, w.taskEvent) EXCEPT !.taskEvent = 0, !.task = r]

OnWalkAborted(w) == SetNextWalkActionTask(w, None)

\* Mutant: the walk is complete, but the action is still kept for a walk.
ScheduleTaskAndKeep(w, i) == [SetTimer(w, i, Act(w.task)) EXCEPT !.taskEvent = i]
ScheduleTask(w, i) == [SetTimer(w, i, Act(w.task)) EXCEPT !.taskEvent = i, !.task = None]
OnWalkComplete(w) == IF w.task = None THEN w ELSE ScheduleTask(w, FreshId(w))

\* A step of a walk: it succeeds, the tile refuses it, or it ends elsewhere.
\* Player::onWalk makes the player busy and drops the action that was waiting.
Outcome == {"moved", "refused", "teleported"}
Leaves(w) == [ClearTimer(w, w.actionEvent) EXCEPT !.actionEvent = 0, !.busy = TRUE, !.list = @ - 1]
Lands(w, o) ==
  CASE o = "moved" -> [w EXCEPT !.resting = TRUE, !.near = w.list = 0 /\ ~w.astray]
    [] o = "refused" -> [w EXCEPT !.astray = TRUE, !.mishaps = @ + 1]
    [] o = "teleported" -> [StopEventWalk(w) EXCEPT !.resting = TRUE, !.astray = TRUE, !.near = FALSE,
                                                    !.thrown = TRUE, !.mishaps = @ + 1]
\* Mutant: a walk that is complete does not stop its event.
WalksOn(w, o) == IF w.resting THEN w
                 ELSE IF w.list = 0 THEN OnWalkComplete(w) ELSE Lands(Leaves(w), o)
Walks(w, o) == IF w.resting THEN w
               ELSE IF w.list = 0 THEN OnWalkComplete(StopEventWalk(w)) ELSE Lands(Leaves(w), o)
Obeys(w) == IF w.cancel THEN [OnWalkAborted(w) EXCEPT !.list = 0, !.cancel = FALSE] ELSE w

ArmWalk(w) == [SetTimer(w, FreshId(w), Check) EXCEPT !.event = FreshId(w)]

\* The first step of a walk is taken at once, inside addEventWalk, and with
\* no event: eventWalk is assigned after it.
FirstStep(w, o) == IF w.dying THEN w ELSE Obeys(Walks(w, o))
\* Mutant: the first step is taken, but no event follows it.
AddEventWalkOnce(w, first, o) ==
  IF w.frozen \/ w.event # 0 THEN [w EXCEPT !.cancel = FALSE]
  ELSE IF first /\ ~w.resting THEN FirstStep([w EXCEPT !.cancel = FALSE], o)
  ELSE ArmWalk([w EXCEPT !.cancel = FALSE])
AddEventWalk(w, first, o) ==
  IF w.frozen \/ w.event # 0 THEN [w EXCEPT !.cancel = FALSE]
  ELSE IF first /\ ~w.resting THEN ArmWalk(FirstStep([w EXCEPT !.cancel = FALSE], o))
  ELSE ArmWalk([w EXCEPT !.cancel = FALSE])

OnWalk(w, o) == LET v == Obeys(Walks(w, o)) IN
                IF v.event = 0 THEN v ELSE AddEventWalk([v EXCEPT !.event = 0], FALSE, o)

StartAutoWalk(w, n, first, o) ==
  IF w.blocked THEN w ELSE AddEventWalk([w EXCEPT !.list = n, !.astray = FALSE, !.thrown = FALSE], first, o)

-----------------------------------------------------------------------------
(* The handlers of game.cpp *)

SetNextActionTask(w) == [ClearTimer(w, w.actionEvent) EXCEPT !.actionEvent = 0]
Later(w, i, r) == [SetTimer(w, i, Act(r)) EXCEPT !.actionEvent = i]
Waits(w, r) == Later(SetNextActionTask(w), FreshId(SetNextActionTask(w)), r)

\* Out of reach: post the walk and come back after it, if there is a way.
Goes(w, r, n) == IF n = NoWay THEN w ELSE SetNextWalkActionTask(Post(w, AutoWalk(n)), r)
Does(w, r) == [w EXCEPT !.done = @ \cup {r}]

\* playerUseItem, playerUseItemEx, playerUseWithCreature: reach, then time.
Uses(w, r, n) == IF ~w.near THEN Goes(w, r, n)
                 ELSE IF w.busy THEN Waits(w, r)
                 ELSE [Does(SetNextActionTask(w), r) EXCEPT !.busy = TRUE]
\* playerMoveItem, playerMoveCreature: time, then reach.
Moves(w, r, n) == IF w.busy THEN Waits(w, r)
                  ELSE IF ~w.near THEN Goes(SetNextActionTask(w), r, n) ELSE Does(SetNextActionTask(w), r)
\* playerRotateItem, playerBrowseField, playerRequestTrade: reach only.
Rotates(w, r, n) == IF ~w.near THEN Goes(w, r, n) ELSE Does(w, r)

Handles(w, r, n) == CASE Style[r] = "use" -> Uses(w, r, n)
                      [] Style[r] \in {"move", "push"} -> Moves(w, r, n)
                      [] Style[r] = "rotate" -> Rotates(w, r, n)

\* Every handler starts as its retries do, except that a creature within
\* reach is pushed a moment later (playerMoveThing).
Starts(w, r, n) == IF Style[r] = "push" /\ w.near THEN Waits(w, r) ELSE Handles(w, r, n)

Path == 1..MaxPath \cup {NoWay}
Possible(o) == o = "moved" \/ wk.mishaps < MaxMishaps

\* The next task of the dispatcher, with the outcome o of a step it may take
\* and the way n that getPathTo finds.
Runs(w, task, o, n) ==
  CASE task.do = "walk" -> IF w.dying THEN w ELSE OnWalk(w, o)
    [] task.do = "auto" -> StartAutoWalk(w, task.path, task.path = 1, o)
    [] task.do = "act" -> Handles(w, task.what, n)
RunTask ==
  /\ wk.queue # <<>> /\ Head(wk.queue).task # DeathTask
  /\ \E o \in Outcome, n \in Path :
       Possible(o) /\ wk' = Runs([wk EXCEPT !.queue = Tail(@)], Head(wk.queue).task, o, n)

\* The scheduler thread hands over an event that has expired.  A walk event
\* takes at least the rest after the last step (getEventStepTicks).
EventExpires(i) ==
  /\ wk.timers[i] = Check => ~wk.resting
  /\ wk' = [ClearTimer(wk, i) EXCEPT !.queue = Append(@, [id |-> i, task |-> wk.timers[i]])]
HandOver == \E i \in DOMAIN wk.timers : EventExpires(i)

\* A client asks for an action.
Ask(r) == /\ r \notin wk.asked
          /\ \E n \in Path : wk' = Starts([wk EXCEPT !.asked = @ \cup {r}], r, n)

\* What else clients and the world do, within the bound.
Mishap(w) == wk.mishaps < MaxMishaps /\ wk' = [w EXCEPT !.mishaps = @ + 1]

\* A client moves one step (playerMove), along a path of its own, or stops.
PlayerMove == \E o \in Outcome :
  /\ Possible(o) /\ wk.mishaps < MaxMishaps /\ ~wk.blocked
  /\ wk' = StartAutoWalk([SetNextWalkActionTask(wk, None) EXCEPT !.mishaps = @ + 1], 1, TRUE, o)
PlayerStopAutoWalk == ~wk.cancel /\ Mishap([wk EXCEPT !.cancel = TRUE])

\* Following (with chase mode, attacking): what was being walked is dropped,
\* and the path is sought when the creature thinks, unless an action waits.
SetFollowCreature ==
  /\ wk.chase = "not yet"
  /\ wk' = [(IF wk.list > 0 THEN OnWalkAborted(wk) ELSE wk) EXCEPT !.list = 0, !.chase = "on"]
GoToFollowCreature == \E n \in 1..MaxPath, o \in Outcome :
  /\ wk.chase = "on" /\ wk.task = None /\ ~wk.dying /\ Possible(o) /\ wk.mishaps < MaxMishaps
  /\ wk' = StartAutoWalk([wk EXCEPT !.mishaps = @ + 1], n, n = 1, o)
Unfollow == wk.chase = "on" /\ wk' = [wk EXCEPT !.chase = "over", !.cancel = TRUE]

\* Something else moves the player, or changes whether it can walk.
Thrown(w) == [StopEventWalk(w) EXCEPT !.resting = TRUE, !.near = FALSE, !.astray = TRUE, !.thrown = TRUE]
Teleport == Mishap(Thrown(wk))
SetMovementBlocked == Mishap([wk EXCEPT !.blocked = ~@, !.cancel = TRUE])
SetSpeedToNothing == ~wk.frozen /\ Mishap([StopEventWalk(wk) EXCEPT !.frozen = TRUE, !.cancel = TRUE])
SetSpeedAgain == \E o \in Outcome : /\ wk.frozen /\ Possible(o)
                  /\ wk' = IF wk.list > 0 THEN AddEventWalk([wk EXCEPT !.frozen = FALSE], FALSE, o)
                           ELSE [wk EXCEPT !.frozen = FALSE]

\* No health is left: the player dies in a task of its own, and with
\* skillLoss unset it comes back to life at the temple.
Dies == ~wk.dying /\ Mishap(Post([wk EXCEPT !.dying = TRUE], DeathTask))
ExecutesDeath == /\ wk.queue # <<>> /\ Head(wk.queue).task = DeathTask
                /\ wk' = Thrown([wk EXCEPT !.queue = Tail(@), !.dying = FALSE])

\* The clock.
Rests == wk.resting /\ wk' = [wk EXCEPT !.resting = FALSE]
MayAct == wk.busy /\ wk' = [wk EXCEPT !.busy = FALSE]

WalkingNext ==
  \/ RunTask \/ HandOver \/ (\E r \in Request : Ask(r))
  \/ PlayerMove \/ PlayerStopAutoWalk \/ SetFollowCreature \/ GoToFollowCreature \/ Unfollow
  \/ Teleport \/ SetMovementBlocked \/ SetSpeedToNothing \/ SetSpeedAgain
  \/ Dies \/ ExecutesDeath \/ Rests \/ MayAct

\* The dispatcher and the scheduler go on, and so does time.
WalkingFairness == /\ WF_wk(RunTask \/ ExecutesDeath) /\ WF_wk(HandOver)
                   /\ WF_wk(Rests) /\ WF_wk(MayAct)

WalkingSpec == WalkingInit /\ [][WalkingNext]_wk /\ WalkingFairness

-----------------------------------------------------------------------------
Queued(task) == {k \in 1..Len(wk.queue) : wk.queue[k].task = task}
Armed(task) == {i \in DOMAIN wk.timers : wk.timers[i] = task}
Carriers(r) == Cardinality(Queued(Act(r))) + Cardinality(Armed(Act(r))) + (IF wk.task = r THEN 1 ELSE 0)

\* An action that is put off (for the walk, for the exhaustion of the last
\* action, or both in turn) is in one place at a time, and in none once it is
\* done: it is never done twice, whatever cancels, replaces or overtakes it.
PutOffOnce == \A r \in Request : Carriers(r) + Cardinality({r} \cap wk.done) <= 1

\* eventWalk names an event that is still to run, else addEventWalk would
\* schedule none and the creature could not walk again.  Only while the
\* player dies are its walk events dropped (Game::checkCreatureWalk).
WalkEventIsAlive ==
  wk.event # 0 /\ ~wk.dying =>
    wk.event \in DOMAIN wk.timers \cup {wk.queue[k].id : k \in 1..Len(wk.queue)}

WalkInOrder == WalkingTypeOK /\ PutOffOnce /\ WalkEventIsAlive

\* An action waits for a walk that nothing will complete: no walk is posted
\* and no event is left.  As long as it is there, Player::goToFollowCreature
\* does nothing and the player does not follow.
Stranded == wk.task # None /\ wk.event = 0 /\ \A n \in 1..MaxPath : Queued(AutoWalk(n)) = {}

\* That happens for four reasons only: the walk was refused (movement
\* blocked), the creature has no speed, it was moved elsewhere, or it died.
StrandedForAReason == [][Stranded' /\ ~Stranded => wk'.blocked \/ wk'.frozen \/ wk'.thrown \/ wk'.dying]_wk

\* When clients stop asking, walks end and no action is put off for ever, as
\* long as a creature has one walk event.  It has two when one that could not
\* be stopped any more (it had expired) meets its successor: then a step may
\* come between the search of a path and the walk, again and again.
OneWalkEvent == Cardinality(Queued(Check)) + Cardinality(Armed(Check)) <= 1
Standing == wk.queue = <<>> /\ DOMAIN wk.timers = {}
WalksEnd == <>[]OneWalkEvent => <>[]Standing
=============================================================================
