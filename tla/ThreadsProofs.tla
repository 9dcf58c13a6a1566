--------------------------- MODULE ThreadsProofs ---------------------------
(***************************************************************************)
(* What is scheduled on the threads, proved for any requests, paths and    *)
(* mishaps of a player, any raids, and any blocks and rate of a spawn.     *)
(*                                                                         *)
(* Walking: that an action which is put off is in one place at a time and  *)
(* a walk event that is remembered is still to run (WalkInOrder), and that *)
(* an action is left waiting for no walk for the four reasons only         *)
(* (StrandedForAReason).  WalkInOrder is not inductive: that the three     *)
(* events a player remembers are of three kinds (Named) keeps one from     *)
(* being stopped for another.                                              *)
(*                                                                         *)
(* Spawns and raids: that a spawn knows its monsters and is checked while  *)
(* one is missing (SpawnInv), and that raids run one at a time (RaidInv):  *)
(* because what may still be started is new, neither begun nor deleted.    *)
(*                                                                         *)
(* Last, that all of it holds of the behaviours MCThreads checks.          *)
(***************************************************************************)
EXTENDS MCThreads, SequenceTheorems, FiniteSetTheorems, FunctionTheorems, TLAPS

WTask == {Check, DeathTask} \cup {AutoWalk(n) : n \in 1..MaxPath} \cup {Act(r) : r \in Request}

Timers == UNION {[S -> WTask] : S \in SUBSET (Nat \ {0})}

WalkState ==
  [list : 0..MaxPath, cancel : BOOLEAN, event : Nat, task : Request \cup {None}, taskEvent : Nat,
   actionEvent : Nat, timers : Timers, queue : Seq([id : Nat, task : WTask]), resting : BOOLEAN,
   busy : BOOLEAN, near : BOOLEAN, astray : BOOLEAN, frozen : BOOLEAN, blocked : BOOLEAN,
   dying : BOOLEAN, chase : {"not yet", "on", "over"}, thrown : BOOLEAN, asked : SUBSET Request,
   done : SUBSET Request, mishaps : 0..MaxMishaps + 1]

Typed(w) == w \in WalkState /\ IsFiniteSet(DOMAIN w.timers)

InQueue(w, r) == \E k \in DOMAIN w.queue : w.queue[k].task = Act(r)

InTimers(w, r) == \E i \in DOMAIN w.timers : w.timers[i] = Act(r)

\* PutOffOnce, with the places told apart; only what was asked for is there.
Single(w, r) ==
  /\ \A j, k \in DOMAIN w.queue : w.queue[j].task = Act(r) /\ w.queue[k].task = Act(r) => j = k
  /\ \A i, j \in DOMAIN w.timers : w.timers[i] = Act(r) /\ w.timers[j] = Act(r) => i = j
  /\ InQueue(w, r) => ~InTimers(w, r)
  /\ InQueue(w, r) \/ InTimers(w, r) => w.task # r /\ r \notin w.done
  /\ w.task = r => r \notin w.done
  /\ InQueue(w, r) \/ InTimers(w, r) \/ w.task = r \/ r \in w.done => r \in w.asked

Once(w) == \A r \in Request : Single(w, r)

\* What eventWalk, walkTaskEvent and actionTaskEvent may name.
Named(w) ==
  /\ w.event \in DOMAIN w.timers => w.timers[w.event] = Check
  /\ w.event # 0 => \A k \in DOMAIN w.queue : w.queue[k].id = w.event => w.queue[k].task = Check
  /\ w.taskEvent \in DOMAIN w.timers => w.timers[w.taskEvent] # Check
  /\ w.actionEvent \in DOMAIN w.timers => w.timers[w.actionEvent] # Check

Kept(w) == Typed(w) /\ Once(w) /\ Named(w)

Alive(w) ==
  w.event # 0 /\ ~w.dying =>
    w.event \in DOMAIN w.timers \/ \E k \in DOMAIN w.queue : w.queue[k].id = w.event

WalkInv == Kept(wk) /\ Alive(wk)

-----------------------------------------------------------------------------
(* Timers *)

LEMMA TimersAre ==
  ASSUME NEW f
  PROVE  f \in Timers <=> /\ f = [i \in DOMAIN f |-> f[i]]
                          /\ DOMAIN f \subseteq Nat \ {0}
                          /\ \A i \in DOMAIN f : f[i] \in WTask
<1>1. ASSUME f \in Timers
      PROVE  /\ f = [i \in DOMAIN f |-> f[i]]
             /\ DOMAIN f \subseteq Nat \ {0}
             /\ \A i \in DOMAIN f : f[i] \in WTask
  <2>1. PICK S \in SUBSET (Nat \ {0}) : f \in [S -> WTask]
    BY <1>1 DEF Timers
  <2> QED
    BY <2>1
<1>2. ASSUME f = [i \in DOMAIN f |-> f[i]], DOMAIN f \subseteq Nat \ {0},
             \A i \in DOMAIN f : f[i] \in WTask
      PROVE  f \in Timers
  <2>1. f \in [DOMAIN f -> WTask]
    BY <1>2
  <2> QED
    BY <1>2, <2>1 DEF Timers
<1> QED
  BY <1>1, <1>2

\* The task Check is that of no request.
LEMMA KindsDiffer ==
  /\ \A r : Act(r) # Check /\ Act(r) # DeathTask
  /\ \A r, q : Act(r) = Act(q) => r = q
  /\ \A n : AutoWalk(n) # Check /\ AutoWalk(n) # DeathTask
  /\ \A n, r : AutoWalk(n) # Act(r)
  /\ \A n, m : AutoWalk(n) = AutoWalk(m) => n = m
  /\ Check # DeathTask
<1>1. /\ \A r : Act(r).do = "act" /\ Act(r).what = r
      /\ \A n : AutoWalk(n).do = "auto" /\ AutoWalk(n).path = n
      /\ Check.do = "walk" /\ DeathTask.do = "death"
  BY DEF Act, AutoWalk, Check, DeathTask
<1>2. "act" # "walk" /\ "act" # "death" /\ "auto" # "walk" /\ "auto" # "death" /\ "auto" # "act"
      /\ "walk" # "death"
  OBVIOUS
<1> QED
  BY <1>1, <1>2

LEMMA ClearIs ==
  ASSUME NEW w, Typed(w), NEW i, NEW t, t = ClearTimer(w, i)
  PROVE  /\ Typed(t) /\ t = [w EXCEPT !.timers = t.timers]
         /\ DOMAIN t.timers = DOMAIN w.timers \ {i}
         /\ \A j \in DOMAIN t.timers : t.timers[j] = w.timers[j]
<1> DEFINE f == [j \in DOMAIN w.timers \ {i} |-> w.timers[j]]
<1>1. w \in WalkState /\ w.timers \in Timers
  BY DEF Typed, WalkState
<1>2. t = [w EXCEPT !.timers = f]
  BY DEF ClearTimer
<1>3. f \in Timers
  BY <1>1, TimersAre
<1>4. t \in WalkState /\ t.timers = f
  BY ZenonT(30), <1>1, <1>2, <1>3 DEF WalkState
<1>5. IsFiniteSet(DOMAIN f)
  BY FS_Subset DEF Typed
<1> QED
  BY <1>2, <1>4, <1>5 DEF Typed

LEMMA SetIs ==
  ASSUME NEW w, Typed(w), NEW i \in Nat \ {0}, NEW what \in WTask, NEW t, t = SetTimer(w, i, what)
  PROVE  /\ Typed(t) /\ t = [w EXCEPT !.timers = t.timers]
         /\ DOMAIN t.timers = DOMAIN w.timers \cup {i}
         /\ t.timers[i] = what
         /\ \A j \in DOMAIN w.timers \ {i} : t.timers[j] = w.timers[j]
<1> DEFINE f == [j \in DOMAIN w.timers \cup {i} |-> IF j = i THEN what ELSE w.timers[j]]
<1>1. w \in WalkState /\ w.timers \in Timers
  BY DEF Typed, WalkState
<1>2. t = [w EXCEPT !.timers = f]
  BY <1>1 DEF SetTimer, WalkState
<1>3. f \in Timers
  BY <1>1, TimersAre
<1>4. t \in WalkState /\ t.timers = f
  BY <1>1, <1>2, <1>3 DEF WalkState
<1>5. IsFiniteSet(DOMAIN f)
  BY FS_AddElement DEF Typed
<1> QED
  BY <1>2, <1>4, <1>5 DEF Typed

LEMMA UnionBound ==
  ASSUME NEW S, NEW T, IsFiniteSet(S), IsFiniteSet(T), NEW m \in Nat, NEW n \in Nat,
         Cardinality(S) <= m, Cardinality(T) <= n
  PROVE  IsFiniteSet(S \cup T) /\ Cardinality(S \cup T) <= m + n
<1>1. Cardinality(S) \in Nat /\ Cardinality(T) \in Nat
  BY FS_CardinalityType
<1>2. IsFiniteSet(S \cap T)
  BY FS_Subset
<1>3. Cardinality(S \cap T) \in Nat
  BY <1>2, FS_CardinalityType
<1>4. IsFiniteSet(S \cup T)
      /\ Cardinality(S \cup T) = Cardinality(S) + Cardinality(T) - Cardinality(S \cap T)
  BY FS_Union
<1> QED
  BY <1>1, <1>3, <1>4

LEMMA IdsOfQueue ==
  ASSUME NEW q, NEW n \in Nat
  PROVE  LET Q == {q[k].id : k \in 1..n}
         IN  IsFiniteSet(Q) /\ Cardinality(Q) <= n
<1> DEFINE Q == {q[k].id : k \in 1..n}
           f == [k \in 1..n |-> q[k].id]
<1>1. f \in Surjection(1..n, Q)
  BY DEF Surjection
<1>2. IsFiniteSet(1..n) /\ Cardinality(1..n) = n
  BY FS_Interval
<1> HIDE DEF f, Q
<1>3. IsFiniteSet(Q) /\ Cardinality(Q) <= Cardinality(1..n)
  BY <1>1, <1>2, FS_Surjection
<1>4. IsFiniteSet(Q) /\ Cardinality(Q) <= n
  BY <1>2, <1>3
<1> QED
  BY <1>4 DEF Q

\* There always is an id that nothing remembers.
LEMMA FreshIdIsFresh ==
  ASSUME NEW w, Typed(w)
  PROVE  /\ FreshId(w) \in Nat \ {0}
         /\ FreshId(w) \notin DOMAIN w.timers \cup {w.event, w.taskEvent, w.actionEvent}
         /\ \A k \in DOMAIN w.queue : w.queue[k].id # FreshId(w)
<1> DEFINE D == DOMAIN w.timers
           l == Len(w.queue)
           Q == {w.queue[k].id : k \in 1..l}
           E == {w.event, w.taskEvent, w.actionEvent}
           c == Cardinality(D)
<1>1. IsFiniteSet(D) /\ c \in Nat /\ c <= c
  <2>1. IsFiniteSet(D)
    BY DEF Typed
  <2>2. c \in Nat
    BY <2>1, FS_CardinalityType
  <2> QED
    BY <2>1, <2>2
<1>2. l \in Nat /\ DOMAIN w.queue = 1..l
  <2>1. w.queue \in Seq([id : Nat, task : WTask])
    BY DEF Typed, WalkState
  <2> QED
    BY <2>1
<1>3. IsFiniteSet(Q) /\ Cardinality(Q) <= l
  <2> HIDE DEF l
  <2> QED
    BY <1>2, IdsOfQueue
<1>4. IsFiniteSet(E) /\ Cardinality(E) <= 3
  <2>1. ASSUME NEW x PROVE IsFiniteSet({x}) /\ Cardinality({x}) <= 1
    <3>1. IsFiniteSet({x}) /\ Cardinality({x}) = 1
      BY FS_Singleton
    <3> QED
      BY <3>1
  <2>2. IsFiniteSet({w.event} \cup {w.taskEvent})
        /\ Cardinality({w.event} \cup {w.taskEvent}) <= 1 + 1
    BY <2>1, UnionBound
  <2>3. IsFiniteSet({w.actionEvent}) /\ Cardinality({w.actionEvent}) <= 1
    BY <2>1
  <2>4. 1 + 1 \in Nat
    OBVIOUS
  <2>5. IsFiniteSet(({w.event} \cup {w.taskEvent}) \cup {w.actionEvent})
        /\ Cardinality(({w.event} \cup {w.taskEvent}) \cup {w.actionEvent}) <= (1 + 1) + 1
    BY <2>3, <2>4, <2>2, UnionBound
  <2>6. E = ({w.event} \cup {w.taskEvent}) \cup {w.actionEvent}
    OBVIOUS
  <2> QED
    BY <2>5, <2>6
<1>5. D \cup Q \cup E = Remembered(w)
  BY <1>2 DEF Remembered
<1>6. Ids(w) = 1..(c + l + 4)
  BY DEF Ids
<1> HIDE DEF D, Q, E, l, c
<1>7. IsFiniteSet(D \cup Q) /\ Cardinality(D \cup Q) <= c + l
  BY <1>1, <1>2, <1>3, UnionBound DEF c
<1>8. IsFiniteSet(D \cup Q \cup E) /\ Cardinality(D \cup Q \cup E) <= (c + l) + 3
  <2>1. c + l \in Nat
    BY <1>1, <1>2
  <2> QED
    BY <1>4, <1>7, <2>1, UnionBound
<1>9. Cardinality(Ids(w)) = c + l + 4
  BY <1>1, <1>2, <1>6, FS_Interval
<1>10. \E i \in Ids(w) : i \notin Remembered(w)
  <2> SUFFICES ASSUME Ids(w) \subseteq Remembered(w) PROVE FALSE
    OBVIOUS
  <2>1. IsFiniteSet(Remembered(w)) /\ Cardinality(Remembered(w)) <= (c + l) + 3
    BY <1>5, <1>8
  <2>2. Cardinality(Ids(w)) <= Cardinality(Remembered(w))
        /\ Cardinality(Remembered(w)) \in Nat
    BY <2>1, FS_Subset, FS_CardinalityType
  <2> QED
    BY <1>1, <1>2, <1>9, <2>1, <2>2
<1>11. FreshId(w) \in Ids(w) /\ FreshId(w) \notin Remembered(w)
  BY <1>10 DEF FreshId
<1> QED
  BY <1>1, <1>2, <1>6, <1>11 DEF Remembered

-----------------------------------------------------------------------------
(* What the operators do to the invariant *)

\* t is w with nothing new to do: timers may have been cleared and what they
\* were for forgotten.
Drops(w, t) ==
  /\ DOMAIN t.timers \subseteq DOMAIN w.timers
  /\ \A i \in DOMAIN t.timers : t.timers[i] = w.timers[i]
  /\ t.queue = w.queue /\ t.done = w.done /\ t.asked = w.asked /\ t.dying = w.dying
  /\ t.task \in {w.task, None}
  /\ t.event \in {w.event, 0} /\ t.taskEvent \in {w.taskEvent, 0}
  /\ t.actionEvent \in {w.actionEvent, 0}
  /\ t.event \in DOMAIN w.timers => t.event \in DOMAIN t.timers

\* A walk is posted.
Led(w) == \E k \in DOMAIN w.queue : \E n \in 1..MaxPath : w.queue[k].task = AutoWalk(n)

Follows(w, t) == Kept(t) /\ (Alive(w) => Alive(t)) /\ (Led(w) => Led(t))

\* r is to be put somewhere: it is nowhere yet.
Free(w, r) == /\ r \in w.asked /\ r \notin w.done /\ w.task # r
              /\ ~InQueue(w, r) /\ ~InTimers(w, r)

LEMMA NoZeroTimer == ASSUME NEW w, Typed(w) PROVE 0 \notin DOMAIN w.timers
<1>1. w.timers \in Timers
  BY DEF Typed, WalkState
<1> QED
  BY <1>1, TimersAre

LEMMA DropsFollows ==
  ASSUME NEW w, Kept(w), NEW t, Typed(t), Drops(w, t)
  PROVE  Follows(w, t)
<1>1. 0 \notin DOMAIN w.timers /\ 0 \notin DOMAIN t.timers
  BY NoZeroTimer DEF Kept
<1>2. \A r : InTimers(t, r) => InTimers(w, r)
  BY DEF Drops, InTimers
<1>3. \A r : InQueue(t, r) <=> InQueue(w, r)
  BY DEF Drops, InQueue
<1>4. Once(t)
  <2> SUFFICES ASSUME NEW r \in Request PROVE Single(t, r)
    BY DEF Once
  <2>1. r # None
    BY WalkingAssumption
  <2>2. Single(w, r)
    BY DEF Kept, Once
  <2>3. \A i, j \in DOMAIN t.timers : t.timers[i] = Act(r) /\ t.timers[j] = Act(r) => i = j
    BY <2>2 DEF Drops, Single
  <2> QED
    BY <1>2, <1>3, <2>1, <2>2, <2>3 DEF Drops, Single
<1>5. Named(t)
  <2>1. Named(w)
    BY DEF Kept
  <2> QED
    BY <1>1, <2>1 DEF Named, Drops
<1>6. Alive(w) => Alive(t)
  BY DEF Alive, Drops
<1>7. Led(w) => Led(t)
  BY DEF Led, Drops
<1> QED
  BY <1>4, <1>5, <1>6, <1>7 DEF Follows, Kept

LEMMA DropsFree ==
  ASSUME NEW w, NEW t, Drops(w, t), NEW r \in Request, Free(w, r)
  PROVE  Free(t, r)
<1>1. r # None
  BY WalkingAssumption
<1> QED
  BY <1>1 DEF Drops, Free, InQueue, InTimers

\* Only what the properties do not tell apart has changed.
Same(w, t) ==
  /\ t.timers = w.timers /\ t.queue = w.queue /\ t.done = w.done /\ t.asked = w.asked
  /\ t.dying = w.dying /\ t.task = w.task /\ t.event = w.event
  /\ t.taskEvent = w.taskEvent /\ t.actionEvent = w.actionEvent

LEMMA SameDrops == ASSUME NEW w, NEW t, Same(w, t) PROVE Drops(w, t)
BY DEF Same, Drops

LEMMA SameFollows ==
  ASSUME NEW w, Kept(w), NEW t, t \in WalkState, Same(w, t) PROVE Follows(w, t)
<1>1. Typed(t)
  BY DEF Typed, Same, Kept
<1> QED
  BY <1>1, SameDrops, DropsFollows

LEMMA Forgets ==
  ASSUME NEW u, u \in WalkState
  PROVE  /\ [u EXCEPT !.event = 0] \in WalkState
         /\ [u EXCEPT !.actionEvent = 0] \in WalkState
         /\ [u EXCEPT !.taskEvent = 0, !.task = None] \in WalkState
BY DEF WalkState

LEMMA StopEventWalkDrops ==
  ASSUME NEW w, Kept(w), NEW t, t = StopEventWalk(w)
  PROVE  /\ Typed(t) /\ Drops(w, t) /\ t.event = 0
         /\ t = [w EXCEPT !.timers = t.timers, !.event = 0]
<1> DEFINE u == ClearTimer(w, w.event)
<1>1. /\ Typed(u) /\ u = [w EXCEPT !.timers = u.timers]
      /\ DOMAIN u.timers = DOMAIN w.timers \ {w.event}
      /\ \A j \in DOMAIN u.timers : u.timers[j] = w.timers[j]
  BY ClearIs DEF Kept
<1>2. t = [u EXCEPT !.event = 0]
  BY DEF StopEventWalk
<1>3. 0 \notin DOMAIN w.timers
  BY NoZeroTimer DEF Kept
<1>4. w \in WalkState
  BY DEF Kept, Typed
<1> HIDE DEF u
<1>5. t = [w EXCEPT !.timers = u.timers, !.event = 0]
  BY <1>1, <1>2
<1>6. t.timers = u.timers /\ t.event = 0 /\ Typed(t)
  <2>1. u \in WalkState
    BY <1>1 DEF Typed
  <2>2. t \in WalkState
    BY <1>2, <2>1, Forgets
  <2>3. t.timers = u.timers /\ t.event = 0
    BY <1>2, <2>1 DEF WalkState
  <2> QED
    BY <1>1, <2>2, <2>3 DEF Typed
<1>7. /\ t.queue = w.queue /\ t.done = w.done /\ t.asked = w.asked /\ t.dying = w.dying
      /\ t.task \in {w.task, None} /\ t.event \in {w.event, 0}
      /\ t.taskEvent \in {w.taskEvent, 0} /\ t.actionEvent \in {w.actionEvent, 0}
  BY <1>4, <1>5 DEF WalkState
<1> QED
  BY <1>1, <1>3, <1>5, <1>6, <1>7 DEF Drops

LEMMA ForgetTaskDrops ==
  ASSUME NEW w, Kept(w), NEW t, t = SetNextWalkActionTask(w, None)
  PROVE  /\ Typed(t) /\ Drops(w, t) /\ t.task = None /\ t.taskEvent = 0
         /\ t = [w EXCEPT !.timers = t.timers, !.taskEvent = 0, !.task = None]
<1> DEFINE u == ClearTimer(w, w.taskEvent)
<1>1. /\ Typed(u) /\ u = [w EXCEPT !.timers = u.timers]
      /\ DOMAIN u.timers = DOMAIN w.timers \ {w.taskEvent}
      /\ \A j \in DOMAIN u.timers : u.timers[j] = w.timers[j]
  BY ClearIs DEF Kept
<1>2. t = [u EXCEPT !.taskEvent = 0, !.task = None]
  BY DEF SetNextWalkActionTask
<1>3. w.event \in DOMAIN w.timers => w.event # w.taskEvent
  BY DEF Kept, Named
<1>4. w \in WalkState
  BY DEF Kept, Typed
<1> HIDE DEF u
<1>5. t = [w EXCEPT !.timers = u.timers, !.taskEvent = 0, !.task = None]
  BY <1>1, <1>2
<1>6. t.timers = u.timers /\ t.task = None /\ t.taskEvent = 0 /\ Typed(t)
  <2>1. u \in WalkState
    BY <1>1 DEF Typed
  <2>2. t \in WalkState
    BY <1>2, <2>1, Forgets
  <2>3. t.timers = u.timers /\ t.task = None /\ t.taskEvent = 0
    BY <1>2, <2>1 DEF WalkState
  <2> QED
    BY <1>1, <2>2, <2>3 DEF Typed
<1>7. /\ t.queue = w.queue /\ t.done = w.done /\ t.asked = w.asked /\ t.dying = w.dying
      /\ t.task \in {w.task, None} /\ t.event \in {w.event, 0}
      /\ t.taskEvent \in {w.taskEvent, 0} /\ t.actionEvent \in {w.actionEvent, 0}
  BY <1>4, <1>5 DEF WalkState
<1> QED
  BY <1>1, <1>3, <1>5, <1>6, <1>7 DEF Drops

LEMMA ForgetActionDrops ==
  ASSUME NEW w, Kept(w), NEW t, t = SetNextActionTask(w)
  PROVE  /\ Typed(t) /\ Drops(w, t) /\ t.actionEvent = 0
         /\ t = [w EXCEPT !.timers = t.timers, !.actionEvent = 0]
<1> DEFINE u == ClearTimer(w, w.actionEvent)
<1>1. /\ Typed(u) /\ u = [w EXCEPT !.timers = u.timers]
      /\ DOMAIN u.timers = DOMAIN w.timers \ {w.actionEvent}
      /\ \A j \in DOMAIN u.timers : u.timers[j] = w.timers[j]
  BY ClearIs DEF Kept
<1>2. t = [u EXCEPT !.actionEvent = 0]
  BY DEF SetNextActionTask
<1>3. w.event \in DOMAIN w.timers => w.event # w.actionEvent
  BY DEF Kept, Named
<1>4. w \in WalkState
  BY DEF Kept, Typed
<1> HIDE DEF u
<1>5. t = [w EXCEPT !.timers = u.timers, !.actionEvent = 0]
  BY <1>1, <1>2
<1>6. t.timers = u.timers /\ t.actionEvent = 0 /\ Typed(t)
  <2>1. u \in WalkState
    BY <1>1 DEF Typed
  <2>2. t \in WalkState
    BY <1>2, <2>1, Forgets
  <2>3. t.timers = u.timers /\ t.actionEvent = 0
    BY <1>2, <2>1 DEF WalkState
  <2> QED
    BY <1>1, <2>2, <2>3 DEF Typed
<1>7. /\ t.queue = w.queue /\ t.done = w.done /\ t.asked = w.asked /\ t.dying = w.dying
      /\ t.task \in {w.task, None} /\ t.event \in {w.event, 0}
      /\ t.taskEvent \in {w.taskEvent, 0} /\ t.actionEvent \in {w.actionEvent, 0}
  BY <1>4, <1>5 DEF WalkState
<1> QED
  BY <1>1, <1>3, <1>5, <1>6, <1>7 DEF Drops

\* A free action is given to the scheduler.
LEMMA PutOff ==
  ASSUME NEW w, Kept(w), NEW r \in Request, Free(w, r), NEW i \in Nat \ {0},
         i \notin DOMAIN w.timers \cup {w.event, w.taskEvent, w.actionEvent},
         NEW t, Typed(t), DOMAIN t.timers = DOMAIN w.timers \cup {i}, t.timers[i] = Act(r),
         \A j \in DOMAIN w.timers : t.timers[j] = w.timers[j],
         t.queue = w.queue, t.done = w.done, t.asked = w.asked, t.dying = w.dying,
         t.task = w.task, t.event = w.event, t.taskEvent \in {w.taskEvent, i},
         t.actionEvent \in {w.actionEvent, i}
  PROVE  Follows(w, t)
<1>1. \A q \in Request : InTimers(t, q) <=> InTimers(w, q) \/ q = r
  BY KindsDiffer DEF InTimers
<1>2. \A q \in Request : InQueue(t, q) <=> InQueue(w, q)
  BY DEF InQueue
<1>3. Once(t)
  <2> SUFFICES ASSUME NEW q \in Request PROVE Single(t, q)
    BY DEF Once
  <2>1. Single(w, q)
    BY DEF Kept, Once
  <2>2. \A a, b \in DOMAIN t.timers : t.timers[a] = Act(q) /\ t.timers[b] = Act(q) => a = b
    <3>1. CASE q = r
      <4>1. \A a \in DOMAIN w.timers : w.timers[a] # Act(r)
        BY DEF Free, InTimers
      <4> QED
        BY <3>1, <4>1
    <3>2. CASE q # r
      <4>1. Act(r) # Act(q)
        BY <3>2, KindsDiffer
      <4> QED
        BY <2>1, <4>1 DEF Single
    <3> QED
      BY <3>1, <3>2
  <2> QED
    BY <1>1, <1>2, <2>1, <2>2 DEF Free, Single
<1>4. Named(t)
  <2>1. Named(w) /\ Act(r) # Check
    BY KindsDiffer DEF Kept
  <2> QED
    BY <2>1 DEF Named
<1>5. Alive(w) => Alive(t)
  BY DEF Alive
<1>6. Led(w) => Led(t)
  BY DEF Led
<1> QED
  BY <1>3, <1>4, <1>5, <1>6 DEF Follows, Kept

-----------------------------------------------------------------------------
(* creature.cpp *)

\* The action that waits for the walk is given to the scheduler.
LEMMA CompleteFollows ==
  ASSUME NEW w, Kept(w), NEW t, t = OnWalkComplete(w)
  PROVE  /\ Follows(w, t) /\ t.task = None
         /\ t.event = w.event /\ t.blocked = w.blocked /\ t.frozen = w.frozen
         /\ t.thrown = w.thrown /\ t.dying = w.dying /\ t.cancel = w.cancel
<1>1. w \in WalkState /\ Typed(w)
  BY DEF Kept, Typed
<1>2. CASE w.task = None
  <2>1. t = w
    BY <1>2 DEF OnWalkComplete
  <2> QED
    BY <1>2, <2>1 DEF Follows
<1>3. CASE w.task # None
  <2> DEFINE i == FreshId(w)
             r == w.task
             v == [w EXCEPT !.task = None]
             u == SetTimer(w, i, Act(r))
  <2>1. r \in Request /\ Act(r) \in WTask
    BY <1>1, <1>3 DEF WalkState, WTask
  <2>2. /\ i \in Nat \ {0}
        /\ i \notin DOMAIN w.timers \cup {w.event, w.taskEvent, w.actionEvent}
    BY <1>1, FreshIdIsFresh
  <2> HIDE DEF i
  <2>3. /\ Typed(u) /\ u = [w EXCEPT !.timers = u.timers]
        /\ DOMAIN u.timers = DOMAIN w.timers \cup {i}
        /\ u.timers[i] = Act(r)
        /\ \A j \in DOMAIN w.timers \ {i} : u.timers[j] = w.timers[j]
    BY <1>1, <2>1, <2>2, SetIs
  <2>4. t = [u EXCEPT !.taskEvent = i, !.task = None]
    BY <1>3 DEF OnWalkComplete, ScheduleTask, i
  <2>5. v \in WalkState /\ Typed(v)
    BY <1>1 DEF WalkState, Typed
  <2>6. Drops(w, v)
    BY <1>1 DEF WalkState, Drops
  <2>7. Kept(v) /\ (Alive(w) => Alive(v)) /\ (Led(w) => Led(v))
    BY <2>5, <2>6, DropsFollows DEF Follows
  <2>8. Free(v, r)
    <3>1. r \in w.asked /\ r \notin w.done /\ ~InQueue(w, r) /\ ~InTimers(w, r)
      BY <2>1 DEF Kept, Once, Single
    <3>2. v.asked = w.asked /\ v.done = w.done /\ v.queue = w.queue /\ v.timers = w.timers
          /\ v.task = None
      BY <1>1 DEF WalkState
    <3> QED
      BY <1>3, <3>1, <3>2 DEF Free, InQueue, InTimers
  <2>9. u \in WalkState
    BY <2>3 DEF Typed
  <2> HIDE DEF u
  <2>10. t \in WalkState /\ t.timers = u.timers /\ t.taskEvent = i /\ t.task = None
    BY ZenonT(30), <2>2, <2>4, <2>9 DEF WalkState
  <2>11. Typed(t)
    BY <2>3, <2>10 DEF Typed
  <2>12. t = [w EXCEPT !.timers = u.timers, !.taskEvent = i, !.task = None]
    BY <2>3, <2>4
  <2>13. /\ t.queue = w.queue /\ t.done = w.done /\ t.asked = w.asked /\ t.dying = w.dying
         /\ t.event = w.event /\ t.actionEvent = w.actionEvent
         /\ t.blocked = w.blocked /\ t.frozen = w.frozen /\ t.thrown = w.thrown
         /\ t.cancel = w.cancel
    BY <1>1, <2>12 DEF WalkState
  <2>14. /\ v.timers = w.timers /\ v.queue = w.queue /\ v.done = w.done /\ v.asked = w.asked
         /\ v.dying = w.dying /\ v.event = w.event /\ v.actionEvent = w.actionEvent
         /\ v.taskEvent = w.taskEvent /\ v.task = None
    BY <1>1 DEF WalkState
  <2> HIDE DEF v, r
  <2>15. Follows(v, t)
    <3>1. i \notin DOMAIN v.timers \cup {v.event, v.taskEvent, v.actionEvent}
      BY <2>2, <2>14
    <3>2. DOMAIN t.timers = DOMAIN v.timers \cup {i} /\ t.timers[i] = Act(r)
      BY <2>3, <2>10, <2>14
    <3>3. \A j \in DOMAIN v.timers : t.timers[j] = v.timers[j]
      BY <2>2, <2>3, <2>10, <2>14
    <3>4. /\ t.queue = v.queue /\ t.done = v.done /\ t.asked = v.asked /\ t.dying = v.dying
          /\ t.task = v.task /\ t.event = v.event /\ t.taskEvent \in {v.taskEvent, i}
          /\ t.actionEvent \in {v.actionEvent, i}
      BY <2>10, <2>13, <2>14
    <3> QED
      BY <2>1, <2>2, <2>7, <2>8, <2>11, <3>1, <3>2, <3>3, <3>4, PutOff
  <2> QED
    BY <2>7, <2>10, <2>13, <2>15 DEF Follows
<1> QED
  BY <1>2, <1>3

\* A walk event is set, and remembered.
LEMMA ArmFollows ==
  ASSUME NEW w, Kept(w), NEW t, t = ArmWalk(w)
  PROVE  /\ Follows(w, t) /\ Alive(t) /\ t.event # 0
<1> DEFINE i == FreshId(w)
           u == SetTimer(w, i, Check)
<1>1. w \in WalkState /\ Typed(w) /\ Check \in WTask
  BY DEF Kept, Typed, WTask
<1>2. /\ i \in Nat \ {0}
      /\ i \notin DOMAIN w.timers \cup {w.event, w.taskEvent, w.actionEvent}
      /\ \A k \in DOMAIN w.queue : w.queue[k].id # i
  BY <1>1, FreshIdIsFresh
<1>3. t = [u EXCEPT !.event = i]
  BY DEF ArmWalk
<1> HIDE DEF i
<1>4. /\ Typed(u) /\ u = [w EXCEPT !.timers = u.timers]
      /\ DOMAIN u.timers = DOMAIN w.timers \cup {i}
      /\ u.timers[i] = Check
      /\ \A j \in DOMAIN w.timers \ {i} : u.timers[j] = w.timers[j]
  BY <1>1, <1>2, SetIs
<1>5. u \in WalkState
  BY <1>4 DEF Typed
<1> HIDE DEF u
<1>6. t \in WalkState /\ t.timers = u.timers /\ t.event = i
  BY <1>2, <1>3, <1>5 DEF WalkState
<1>7. Typed(t)
  BY <1>4, <1>6 DEF Typed
<1>8. t = [w EXCEPT !.timers = u.timers, !.event = i]
  BY <1>3, <1>4
<1>9. /\ t.queue = w.queue /\ t.done = w.done /\ t.asked = w.asked /\ t.task = w.task
      /\ t.taskEvent = w.taskEvent /\ t.actionEvent = w.actionEvent
  BY <1>1, <1>8 DEF WalkState
<1>10. \A r : (InTimers(t, r) <=> InTimers(w, r)) /\ (InQueue(t, r) <=> InQueue(w, r))
  BY <1>2, <1>4, <1>6, <1>9, KindsDiffer DEF InTimers, InQueue
<1>11. Once(t)
  <2> SUFFICES ASSUME NEW q \in Request PROVE Single(t, q)
    BY DEF Once
  <2>1. Single(w, q)
    BY DEF Kept, Once
  <2>2. \A a, b \in DOMAIN t.timers : t.timers[a] = Act(q) /\ t.timers[b] = Act(q) => a = b
    <3>1. Act(q) # Check
      BY KindsDiffer
    <3> QED
      BY <1>4, <1>6, <2>1, <3>1 DEF Single
  <2> QED
    BY <1>9, <1>10, <2>1, <2>2 DEF Single
<1>12. Named(t)
  <2>1. Named(w)
    BY DEF Kept
  <2> QED
    BY <1>2, <1>4, <1>6, <1>9, <2>1 DEF Named
<1>13. Alive(t)
  BY <1>4, <1>6 DEF Alive
<1>14. Led(w) => Led(t)
  BY <1>9 DEF Led
<1> QED
  BY <1>2, <1>6, <1>7, <1>11, <1>12, <1>13, <1>14 DEF Follows, Kept

\* An action waits for a walk, and there is no walk event.
Unled(w) == w.task # None /\ w.event = 0

Steady(w, t) == t.frozen = w.frozen /\ t.blocked = w.blocked /\ t.dying = w.dying

LEMMA FollowsFollows ==
  ASSUME NEW w, NEW u, NEW t, Follows(w, u), Follows(u, t) PROVE Follows(w, t)
BY DEF Follows

LEMMA LeavesFollows ==
  ASSUME NEW w, Kept(w), w.list # 0, NEW t, t = Leaves(w)
  PROVE  /\ Follows(w, t) /\ Steady(w, t) /\ t.thrown = w.thrown /\ t.cancel = w.cancel
         /\ t.task = w.task /\ t.event = w.event /\ t.mishaps = w.mishaps
<1> DEFINE v == SetNextActionTask(w)
<1>1. /\ Typed(v) /\ Drops(w, v) /\ v.actionEvent = 0
      /\ v = [w EXCEPT !.timers = v.timers, !.actionEvent = 0]
  BY ForgetActionDrops
<1>2. Follows(w, v)
  BY <1>1, DropsFollows
<1>3. t = [v EXCEPT !.busy = TRUE, !.list = @ - 1]
  BY DEF Leaves, SetNextActionTask
<1>4. w \in WalkState /\ v \in WalkState /\ w.list \in 1..MaxPath
  <2>1. w \in WalkState /\ v \in WalkState
    BY <1>1 DEF Kept, Typed
  <2>2. w.list \in 0..MaxPath
    BY <2>1 DEF WalkState
  <2> QED
    BY <2>1, <2>2, WalkingAssumption
<1> HIDE DEF v
<1>5. v.list = w.list
  BY <1>1, <1>4 DEF WalkState
<1>6. v.list - 1 \in 0..MaxPath
  BY <1>4, <1>5, WalkingAssumption
<1>7. t \in WalkState
  BY ZenonT(30), <1>3, <1>4, <1>6 DEF WalkState
<1>8. Same(v, t)
  BY <1>3, <1>4 DEF Same, WalkState
<1>9. Follows(v, t)
  BY <1>2, <1>7, <1>8, SameFollows DEF Follows
<1>10. t = [w EXCEPT !.timers = v.timers, !.actionEvent = 0, !.busy = TRUE, !.list = v.list - 1]
  BY <1>1, <1>3
<1>11. Steady(w, t) /\ t.thrown = w.thrown /\ t.cancel = w.cancel
       /\ t.task = w.task /\ t.event = w.event /\ t.mishaps = w.mishaps
  BY <1>4, <1>10 DEF WalkState, Steady
<1> QED
  BY <1>2, <1>9, <1>11, FollowsFollows

LEMMA LandsFollows ==
  ASSUME NEW w, Kept(w), NEW o \in Outcome, o = "moved" \/ w.mishaps <= MaxMishaps,
         NEW t, t = Lands(w, o)
  PROVE  /\ Follows(w, t) /\ Steady(w, t) /\ t.cancel = w.cancel
         /\ Unled(t) => Unled(w) \/ t.thrown
<1>1. w \in WalkState
  BY DEF Kept, Typed
<1>2. o # "moved" => w.mishaps + 1 \in 0..MaxMishaps + 1
  <2>1. w.mishaps \in 0..MaxMishaps + 1
    BY <1>1 DEF WalkState
  <2> QED
    BY <2>1, WalkingAssumption
<1>3. CASE o = "moved"
  <2>1. t = [w EXCEPT !.resting = TRUE, !.near = w.list = 0 /\ ~w.astray]
    BY <1>3 DEF Lands
  <2>2. (w.list = 0 /\ ~w.astray) \in BOOLEAN
    OBVIOUS
  <2>3. t \in WalkState
    BY <1>1, <2>1, <2>2 DEF WalkState
  <2>4. Same(w, t) /\ Steady(w, t) /\ t.cancel = w.cancel
    BY <1>1, <2>1 DEF Same, Steady, WalkState
  <2> QED
    BY <2>3, <2>4, SameFollows DEF Same, Unled
<1>4. CASE o = "refused"
  <2>1. t = [w EXCEPT !.astray = TRUE, !.mishaps = @ + 1]
    BY <1>4 DEF Lands
  <2>2. t \in WalkState
    BY <1>1, <1>2, <1>4, <2>1 DEF WalkState
  <2>3. Same(w, t) /\ Steady(w, t) /\ t.cancel = w.cancel
    BY <1>1, <2>1 DEF Same, Steady, WalkState
  <2> QED
    BY <2>2, <2>3, SameFollows DEF Same, Unled
<1>5. CASE o = "teleported"
  <2> DEFINE v == StopEventWalk(w)
  <2>1. /\ Typed(v) /\ Drops(w, v) /\ v.event = 0
        /\ v = [w EXCEPT !.timers = v.timers, !.event = 0]
    BY StopEventWalkDrops
  <2>2. Follows(w, v)
    BY <2>1, DropsFollows
  <2>3. t = [v EXCEPT !.resting = TRUE, !.astray = TRUE, !.near = FALSE, !.thrown = TRUE,
                      !.mishaps = @ + 1]
    BY <1>5 DEF Lands
  <2>4. v \in WalkState
    BY <2>1 DEF Typed
  <2> HIDE DEF v
  <2>5. v.mishaps = w.mishaps
    BY <1>1, <2>1 DEF WalkState
  <2>6. v.mishaps + 1 \in 0..MaxMishaps + 1
    BY <1>2, <1>5, <2>5
  <2>7. t \in WalkState
    BY ZenonT(30), <2>3, <2>4, <2>6 DEF WalkState
  <2>8. Same(v, t) /\ t.thrown
    BY <2>3, <2>4 DEF Same, WalkState
  <2>9. Follows(v, t)
    BY <2>2, <2>7, <2>8, SameFollows DEF Follows
  <2>10. t = [w EXCEPT !.timers = v.timers, !.event = 0, !.resting = TRUE, !.astray = TRUE,
                       !.near = FALSE, !.thrown = TRUE, !.mishaps = v.mishaps + 1]
    BY <2>1, <2>3
  <2>11. Steady(w, t) /\ t.cancel = w.cancel
    BY <1>1, <2>10 DEF Steady, WalkState
  <2> QED
    BY <2>2, <2>8, <2>9, <2>11, FollowsFollows
<1> QED
  BY <1>3, <1>4, <1>5 DEF Outcome

LEMMA WalksFollows ==
  ASSUME NEW w, Kept(w), NEW o \in Outcome, o = "moved" \/ w.mishaps <= MaxMishaps,
         NEW t, t = Walks(w, o)
  PROVE  /\ Follows(w, t) /\ Steady(w, t) /\ t.cancel = w.cancel
         /\ Unled(t) => Unled(w) \/ t.thrown
<1>1. CASE w.resting
  BY <1>1 DEF Walks, Follows, Steady
<1>2. CASE ~w.resting /\ w.list = 0
  <2> DEFINE v == StopEventWalk(w)
  <2>1. /\ Typed(v) /\ Drops(w, v) /\ v.event = 0
        /\ v = [w EXCEPT !.timers = v.timers, !.event = 0]
    BY StopEventWalkDrops
  <2>2. Follows(w, v)
    BY <2>1, DropsFollows
  <2>3. t = OnWalkComplete(v)
    BY <1>2 DEF Walks
  <2>4. w \in WalkState
    BY DEF Kept, Typed
  <2> HIDE DEF v
  <2>5. Steady(w, v) /\ v.cancel = w.cancel
    BY <2>1, <2>4 DEF Steady, WalkState
  <2>6. Kept(v)
    BY <2>2 DEF Follows
  <2>7. Follows(v, t) /\ t.task = None /\ Steady(v, t) /\ t.cancel = v.cancel
    BY <2>3, <2>6, CompleteFollows DEF Steady
  <2> QED
    BY <2>2, <2>5, <2>7, FollowsFollows DEF Steady, Unled
<1>3. CASE ~w.resting /\ w.list # 0
  <2> DEFINE v == Leaves(w)
  <2>1. t = Lands(v, o)
    BY <1>3 DEF Walks
  <2>2. /\ Follows(w, v) /\ Steady(w, v) /\ v.thrown = w.thrown /\ v.cancel = w.cancel
        /\ v.task = w.task /\ v.event = w.event /\ v.mishaps = w.mishaps
    BY <1>3, LeavesFollows
  <2> HIDE DEF v
  <2>3. Kept(v) /\ (o = "moved" \/ v.mishaps <= MaxMishaps)
    BY <2>2 DEF Follows
  <2>4. /\ Follows(v, t) /\ Steady(v, t) /\ t.cancel = v.cancel
        /\ Unled(t) => Unled(v) \/ t.thrown
    BY <2>1, <2>3, LandsFollows
  <2> QED
    BY <2>2, <2>4, FollowsFollows DEF Steady, Unled
<1> QED
  BY <1>1, <1>2, <1>3

LEMMA ObeysFollows ==
  ASSUME NEW w, Kept(w), NEW t, t = Obeys(w)
  PROVE  /\ Follows(w, t) /\ Steady(w, t) /\ t.event = w.event /\ t.thrown = w.thrown
         /\ Unled(t) => Unled(w)
<1>1. CASE ~w.cancel
  BY <1>1 DEF Obeys, Follows, Steady
<1>2. CASE w.cancel
  <2> DEFINE v == SetNextWalkActionTask(w, None)
  <2>1. /\ Typed(v) /\ Drops(w, v) /\ v.task = None /\ v.taskEvent = 0
        /\ v = [w EXCEPT !.timers = v.timers, !.taskEvent = 0, !.task = None]
    BY ForgetTaskDrops
  <2>2. Follows(w, v)
    BY <2>1, DropsFollows
  <2>3. t = [v EXCEPT !.list = 0, !.cancel = FALSE]
    BY <1>2 DEF Obeys, OnWalkAborted
  <2>4. w \in WalkState /\ v \in WalkState
    BY <2>1 DEF Kept, Typed
  <2> HIDE DEF v
  <2>5. t \in WalkState
    <3>1. 0 \in 0..MaxPath
      BY WalkingAssumption
    <3> QED
      BY <2>3, <2>4, <3>1 DEF WalkState
  <2>6. Same(v, t)
    BY <2>3, <2>4 DEF Same, WalkState
  <2>7. Follows(v, t)
    BY <2>2, <2>5, <2>6, SameFollows DEF Follows
  <2>8. t = [w EXCEPT !.timers = v.timers, !.taskEvent = 0, !.task = None, !.list = 0, !.cancel = FALSE]
    BY <2>1, <2>3
  <2>9. Steady(w, t) /\ t.event = w.event /\ t.thrown = w.thrown /\ t.task = None
    BY <2>4, <2>8 DEF Steady, WalkState
  <2> QED
    BY <2>2, <2>7, <2>9, FollowsFollows DEF Unled
<1> QED
  BY <1>1, <1>2

LEMMA AddEventWalkFollows ==
  ASSUME NEW w, Kept(w), w.event = 0, NEW first, NEW o \in Outcome,
         o = "moved" \/ w.mishaps <= MaxMishaps, NEW t, t = AddEventWalk(w, first, o)
  PROVE  Follows(w, t) /\ (t.event # 0 \/ t.frozen)
<1> DEFINE u == [w EXCEPT !.cancel = FALSE]
<1>1. w \in WalkState /\ u \in WalkState
  BY ZenonT(30) DEF Kept, Typed, WalkState
<1>2. Same(w, u) /\ u.frozen = w.frozen /\ u.mishaps = w.mishaps /\ u.resting = w.resting
  BY <1>1 DEF Same, WalkState
<1>3. Follows(w, u)
  BY <1>1, <1>2, SameFollows
<1>4. Kept(u)
  BY <1>3 DEF Follows
<1>5. CASE w.frozen
  <2>1. t = u
    BY <1>5 DEF AddEventWalk
  <2> QED
    BY <1>2, <1>3, <1>5, <2>1
<1>6. CASE ~w.frozen /\ first /\ ~w.resting
  <2> DEFINE v == FirstStep(u, o)
  <2>1. t = ArmWalk(v)
    BY <1>6 DEF AddEventWalk
  <2>2. Follows(u, v)
    <3>1. CASE u.dying
      BY <1>4, <3>1 DEF FirstStep, Follows
    <3>2. CASE ~u.dying
      <4>1. Follows(u, Walks(u, o))
        BY <1>2, <1>4, WalksFollows
      <4>2. Follows(Walks(u, o), Obeys(Walks(u, o)))
        BY <4>1, ObeysFollows DEF Follows
      <4>3. v = Obeys(Walks(u, o))
        BY <3>2 DEF FirstStep
      <4> QED
        BY <4>1, <4>2, <4>3, FollowsFollows
    <3> QED
      BY <3>1, <3>2
  <2> HIDE DEF v, u
  <2>3. Kept(v)
    BY <2>2 DEF Follows
  <2>4. Follows(v, t) /\ t.event # 0
    BY <2>1, <2>3, ArmFollows
  <2>5. Follows(w, v)
    BY <1>3, <2>2, FollowsFollows
  <2> QED
    BY <2>4, <2>5, FollowsFollows
<1>7. CASE ~w.frozen /\ ~(first /\ ~w.resting)
  <2>1. t = ArmWalk(u)
    BY <1>7 DEF AddEventWalk
  <2> HIDE DEF u
  <2>2. Follows(u, t) /\ t.event # 0
    BY <1>4, <2>1, ArmFollows
  <2> QED
    BY <1>3, <2>2, FollowsFollows
<1> QED
  BY <1>5, <1>6, <1>7

\* With an event already set, no other is.
LEMMA AddNoEventWalk ==
  ASSUME NEW w, Kept(w), w.event # 0, NEW first, NEW o, NEW t, t = AddEventWalk(w, first, o)
  PROVE  Follows(w, t) /\ t.event # 0
<1>1. t = [w EXCEPT !.cancel = FALSE]
  BY DEF AddEventWalk
<1>2. w \in WalkState
  BY DEF Kept, Typed
<1>3. t \in WalkState /\ Same(w, t)
  BY <1>1, <1>2 DEF Same, WalkState
<1> QED
  BY <1>3, SameFollows DEF Same

\* The task Check has the event set again, or none to remember.
LEMMA OnWalkFollows ==
  ASSUME NEW w, Kept(w), NEW o \in Outcome, o = "moved" \/ w.mishaps < MaxMishaps,
         NEW t, t = OnWalk(w, o)
  PROVE  /\ Kept(t) /\ Alive(t) /\ (Led(w) => Led(t))
         /\ Unled(t) => Unled(w) \/ t.thrown \/ t.frozen
<1> DEFINE u == Walks(w, o)
           v == Obeys(u)
           x == [v EXCEPT !.event = 0]
<1>1. w \in WalkState /\ (o = "moved" \/ w.mishaps <= MaxMishaps)
  <2>1. w \in WalkState
    BY DEF Kept, Typed
  <2>2. w.mishaps \in 0..MaxMishaps + 1
    BY <2>1 DEF WalkState
  <2> QED
    BY <2>1, <2>2, WalkingAssumption
<1>2. /\ Follows(w, u) /\ Steady(w, u) /\ (Unled(u) => Unled(w) \/ u.thrown)
  BY <1>1, WalksFollows
<1>3. Kept(u)
  BY <1>2 DEF Follows
<1> HIDE DEF u
<1>4. /\ Follows(u, v) /\ Steady(u, v) /\ v.event = u.event /\ v.thrown = u.thrown
      /\ Unled(v) => Unled(u)
  BY <1>3, ObeysFollows
<1>5. Kept(v) /\ (Led(w) => Led(v))
  BY <1>2, <1>4 DEF Follows
<1>6. t = IF v.event = 0 THEN v ELSE AddEventWalk(x, FALSE, o)
  BY DEF OnWalk, u
<1> HIDE DEF v
<1>7. CASE v.event = 0
  BY <1>2, <1>4, <1>5, <1>6, <1>7 DEF Alive, Follows
<1>8. CASE v.event # 0
  <2>1. v \in WalkState /\ Typed(v)
    BY <1>5 DEF Kept, Typed
  <2>2. x \in WalkState /\ x.event = 0 /\ x.timers = v.timers /\ x.frozen = v.frozen
    BY <2>1 DEF WalkState
  <2>3. Typed(x)
    BY <2>1, <2>2 DEF Typed
  <2>4. 0 \notin DOMAIN v.timers
    BY <2>1, NoZeroTimer
  <2>5. /\ x.queue = v.queue /\ x.done = v.done /\ x.asked = v.asked /\ x.dying = v.dying
        /\ x.task = v.task /\ x.taskEvent = v.taskEvent /\ x.actionEvent = v.actionEvent
        /\ x.resting = v.resting /\ x.cancel = v.cancel
    BY <2>1 DEF WalkState
  <2>6. Drops(v, x)
    BY <2>2, <2>4, <2>5 DEF Drops
  <2>7. Kept(x) /\ (Led(v) => Led(x))
    BY <1>5, <2>3, <2>6, DropsFollows DEF Follows
  <2>8. Alive(x)
    BY <2>2 DEF Alive
  <2>9. t = AddEventWalk(x, FALSE, o)
    BY <1>6, <1>8
  <2> HIDE DEF x
  <2>10. CASE x.frozen
    <3>1. t = [x EXCEPT !.cancel = FALSE]
      BY <2>9, <2>10 DEF AddEventWalk
    <3>2. x \in WalkState
      BY <2>2
    <3>3. t \in WalkState /\ Same(x, t) /\ t.frozen = x.frozen
      BY <3>1, <3>2 DEF Same, WalkState
    <3>4. Follows(x, t)
      BY <2>7, <3>3, SameFollows
    <3> QED
      BY <1>5, <2>7, <2>8, <2>10, <3>3, <3>4 DEF Follows
  <2>11. CASE ~x.frozen
    <3> DEFINE y == [x EXCEPT !.cancel = FALSE]
    <3>1. t = ArmWalk(y)
      BY <2>2, <2>9, <2>11 DEF AddEventWalk
    <3>2. y \in WalkState /\ Same(x, y)
      BY ZenonT(30), <2>2 DEF Same, WalkState
    <3>3. Kept(y) /\ (Led(x) => Led(y))
      BY <2>7, <3>2, SameFollows DEF Follows
    <3> HIDE DEF y
    <3>4. Follows(y, t) /\ Alive(t) /\ t.event # 0
      BY <3>1, <3>3, ArmFollows
    <3> QED
      BY <1>5, <2>7, <3>3, <3>4 DEF Follows, Unled
  <2> QED
    BY <2>10, <2>11
<1> QED
  BY <1>7, <1>8

LEMMA StartAutoWalkFollows ==
  ASSUME NEW w, Kept(w), NEW n \in 1..MaxPath, NEW first, NEW o \in Outcome,
         o = "moved" \/ w.mishaps <= MaxMishaps, NEW t, t = StartAutoWalk(w, n, first, o)
  PROVE  Follows(w, t) /\ (Unled(t) => t.blocked \/ t.frozen)
<1> DEFINE u == [w EXCEPT !.list = n, !.astray = FALSE, !.thrown = FALSE]
<1>1. CASE w.blocked
  BY <1>1 DEF StartAutoWalk, Follows
<1>2. CASE ~w.blocked
  <2>1. w \in WalkState /\ n \in 0..MaxPath
    BY WalkingAssumption DEF Kept, Typed
  <2>2. u \in WalkState /\ Same(w, u) /\ u.mishaps = w.mishaps
    BY <2>1 DEF Same, WalkState
  <2>3. Follows(w, u) /\ Kept(u)
    BY <2>2, SameFollows DEF Follows
  <2>4. t = AddEventWalk(u, first, o)
    BY <1>2 DEF StartAutoWalk
  <2> HIDE DEF u
  <2>5. CASE u.event = 0
    <3>1. Follows(u, t) /\ (t.event # 0 \/ t.frozen)
      BY <2>2, <2>3, <2>4, <2>5, AddEventWalkFollows
    <3> QED
      BY <2>3, <3>1, FollowsFollows DEF Unled
  <2>6. CASE u.event # 0
    <3>1. Follows(u, t) /\ t.event # 0
      BY <2>3, <2>4, <2>6, AddNoEventWalk
    <3> QED
      BY <2>3, <3>1, FollowsFollows DEF Unled
  <2> QED
    BY <2>5, <2>6
<1> QED
  BY <1>1, <1>2

-----------------------------------------------------------------------------
(* The handlers *)

\* A handler that puts a free action off until the player may act.
LEMMA WaitsFollows ==
  ASSUME NEW w, Kept(w), NEW r \in Request, Free(w, r), NEW t, t = Waits(w, r)
  PROVE  Follows(w, t) /\ (Unled(t) => Unled(w)) /\ t.queue = w.queue
<1> DEFINE v == SetNextActionTask(w)
           i == FreshId(v)
           u == SetTimer(v, i, Act(r))
<1>1. /\ Typed(v) /\ Drops(w, v) /\ v.actionEvent = 0
      /\ v = [w EXCEPT !.timers = v.timers, !.actionEvent = 0]
  BY ForgetActionDrops
<1>2. Follows(w, v) /\ Kept(v)
  BY <1>1, DropsFollows DEF Follows
<1>3. Free(v, r)
  BY <1>1, DropsFree
<1>4. t = [u EXCEPT !.actionEvent = i]
  BY DEF Waits, Later
<1> HIDE DEF v
<1>5. /\ i \in Nat \ {0}
      /\ i \notin DOMAIN v.timers \cup {v.event, v.taskEvent, v.actionEvent}
  BY <1>1, FreshIdIsFresh
<1>6. Act(r) \in WTask
  BY DEF WTask
<1> HIDE DEF i
<1>7. /\ Typed(u) /\ u = [v EXCEPT !.timers = u.timers]
      /\ DOMAIN u.timers = DOMAIN v.timers \cup {i}
      /\ u.timers[i] = Act(r)
      /\ \A j \in DOMAIN v.timers \ {i} : u.timers[j] = v.timers[j]
  BY <1>1, <1>5, <1>6, SetIs
<1> HIDE DEF u
<1>8. u \in WalkState /\ v \in WalkState /\ w \in WalkState
  BY <1>1, <1>7 DEF Typed, Kept
<1>9. t \in WalkState /\ t.timers = u.timers /\ t.actionEvent = i
  BY ZenonT(30), <1>4, <1>5, <1>8 DEF WalkState
<1>10. Typed(t)
  BY <1>7, <1>9 DEF Typed
<1>11. t = [v EXCEPT !.timers = u.timers, !.actionEvent = i]
  BY <1>4, <1>7
<1>12. /\ t.queue = v.queue /\ t.done = v.done /\ t.asked = v.asked /\ t.dying = v.dying
       /\ t.task = v.task /\ t.event = v.event /\ t.taskEvent = v.taskEvent
  BY <1>8, <1>11 DEF WalkState
<1>13. DOMAIN t.timers = DOMAIN v.timers \cup {i} /\ t.timers[i] = Act(r)
       /\ \A j \in DOMAIN v.timers : t.timers[j] = v.timers[j]
  BY <1>5, <1>7, <1>9
<1>14. Follows(v, t)
  BY <1>2, <1>3, <1>5, <1>9, <1>10, <1>12, <1>13, PutOff
<1>15. v.event = w.event /\ v.task = w.task /\ v.queue = w.queue
  BY <1>1, <1>8 DEF WalkState
<1> QED
  BY <1>2, <1>12, <1>14, <1>15, FollowsFollows DEF Unled

LEMMA SeqAppend ==
  ASSUME NEW S, NEW q \in Seq(S), NEW x \in S
  PROVE  /\ Append(q, x) \in Seq(S) /\ Len(Append(q, x)) = Len(q) + 1 /\ Len(q) \in Nat
         /\ DOMAIN q = 1..Len(q) /\ DOMAIN Append(q, x) = 1..Len(q) + 1
         /\ \A k \in 1..Len(q) : Append(q, x)[k] = q[k]
         /\ Append(q, x)[Len(q) + 1] = x
OBVIOUS

\* A task without an id is posted, that is of no request.
LEMMA PostFollows ==
  ASSUME NEW w, Kept(w), NEW what \in WTask, \A r : what # Act(r), NEW t, t = Post(w, what)
  PROVE  /\ Follows(w, t) /\ t = [w EXCEPT !.queue = t.queue] /\ t.timers = w.timers
         /\ \A r \in Request : Free(w, r) => Free(t, r)
         /\ \E k \in DOMAIN t.queue : t.queue[k].task = what
         /\ \A x : (\E k \in DOMAIN w.queue : w.queue[k].task = x)
                     => \E k \in DOMAIN t.queue : t.queue[k].task = x
<1> DEFINE x == [id |-> 0, task |-> what]
           q == Append(w.queue, x)
           n == Len(w.queue)
<1>1. w \in WalkState /\ Typed(w)
  BY DEF Kept, Typed
<1>2. w.queue \in Seq([id : Nat, task : WTask]) /\ x \in [id : Nat, task : WTask]
      /\ x.id = 0 /\ x.task = what
  BY <1>1 DEF WalkState
<1>3. t = [w EXCEPT !.queue = q]
  BY DEF Post
<1> HIDE DEF x
<1>4. /\ q \in Seq([id : Nat, task : WTask]) /\ n \in Nat
      /\ DOMAIN w.queue = 1..n /\ DOMAIN q = 1..n + 1
      /\ \A k \in 1..n : q[k] = w.queue[k]
      /\ q[n + 1] = x
  BY <1>2, SeqAppend
<1> HIDE DEF q, n
<1>5. t \in WalkState /\ t.queue = q /\ t.timers = w.timers
  BY ZenonT(30), <1>1, <1>3, <1>4 DEF WalkState
<1>6. Typed(t)
  BY <1>1, <1>5 DEF Typed
<1>7. /\ t.done = w.done /\ t.asked = w.asked /\ t.dying = w.dying /\ t.task = w.task
      /\ t.event = w.event /\ t.taskEvent = w.taskEvent /\ t.actionEvent = w.actionEvent
  BY <1>1, <1>3 DEF WalkState
<1>8. \A k \in 1..n + 1 : k \in 1..n \/ k = n + 1
  BY <1>4
<1>9. \A k \in 1..n : k \in 1..n + 1
  BY <1>4
<1>10. \A r : InTimers(t, r) <=> InTimers(w, r)
  BY <1>5 DEF InTimers
<1>11. \A r, k : k \in DOMAIN t.queue /\ t.queue[k].task = Act(r)
                   <=> k \in DOMAIN w.queue /\ w.queue[k].task = Act(r)
  BY <1>2, <1>4, <1>5, <1>8, <1>9
<1>12. \A r : InQueue(t, r) <=> InQueue(w, r)
  BY <1>11 DEF InQueue
<1>13. Once(t)
  <2> SUFFICES ASSUME NEW r \in Request PROVE Single(t, r)
    BY DEF Once
  <2>1. Single(w, r)
    BY DEF Kept, Once
  <2>2. \A j, k \in DOMAIN t.queue : t.queue[j].task = Act(r) /\ t.queue[k].task = Act(r) => j = k
    BY <1>11, <2>1 DEF Single
  <2> QED
    BY <1>5, <1>7, <1>10, <1>12, <2>1, <2>2 DEF Single
<1>14. Named(t)
  <2>1. Named(w)
    BY DEF Kept
  <2>2. \A k \in DOMAIN t.queue : t.queue[k].id = t.event /\ t.event # 0
                                    => k \in DOMAIN w.queue /\ t.queue[k] = w.queue[k]
    BY <1>2, <1>4, <1>5, <1>8
  <2> QED
    BY <1>5, <1>7, <2>1, <2>2 DEF Named
<1>15. \A k \in DOMAIN w.queue : k \in DOMAIN t.queue /\ t.queue[k] = w.queue[k]
  BY <1>4, <1>5, <1>9
<1>16. Alive(w) => Alive(t)
  BY <1>5, <1>7, <1>15 DEF Alive
<1>17. \A r \in Request : Free(w, r) => Free(t, r)
  BY <1>7, <1>10, <1>12 DEF Free
<1>18. n + 1 \in DOMAIN t.queue /\ t.queue[n + 1].task = what
  BY <1>2, <1>4, <1>5
<1>19. Led(w) => Led(t)
  BY <1>15 DEF Led
<1> QED
  BY <1>3, <1>5, <1>6, <1>13, <1>14, <1>15, <1>16, <1>17, <1>18, <1>19 DEF Follows, Kept

\* What was free is kept for a walk, or done.
LEMMA TakesFree ==
  ASSUME NEW w, Kept(w), NEW r \in Request, Free(w, r), NEW t, Typed(t),
         t.timers = w.timers, t.queue = w.queue, t.asked = w.asked, t.dying = w.dying,
         t.event = w.event, t.taskEvent = w.taskEvent, t.actionEvent = w.actionEvent,
         \/ t.task = r /\ t.done = w.done
         \/ t.task = w.task /\ t.done = w.done \cup {r}
  PROVE  Follows(w, t)
<1>1. \A q : (InTimers(t, q) <=> InTimers(w, q)) /\ (InQueue(t, q) <=> InQueue(w, q))
  BY DEF InTimers, InQueue
<1>2. Once(t)
  <2> SUFFICES ASSUME NEW q \in Request PROVE Single(t, q)
    BY DEF Once
  <2>1. Single(w, q)
    BY DEF Kept, Once
  <2> QED
    BY <1>1, <2>1 DEF Free, Single
<1>3. Named(t)
  BY DEF Kept, Named
<1>4. Alive(w) => Alive(t)
  BY DEF Alive
<1>5. Led(w) => Led(t)
  BY DEF Led
<1> QED
  BY <1>2, <1>3, <1>4, <1>5 DEF Follows, Kept

LEMMA KeepForWalkFollows ==
  ASSUME NEW w, Kept(w), NEW r \in Request, Free(w, r), NEW t, t = SetNextWalkActionTask(w, r)
  PROVE  Follows(w, t) /\ t.queue = w.queue /\ t.event = w.event
<1> DEFINE v == SetNextWalkActionTask(w, None)
<1>1. /\ Typed(v) /\ Drops(w, v) /\ v.task = None
      /\ v = [w EXCEPT !.timers = v.timers, !.taskEvent = 0, !.task = None]
  BY ForgetTaskDrops
<1>2. Follows(w, v) /\ Kept(v)
  BY <1>1, DropsFollows DEF Follows
<1>3. Free(v, r)
  BY <1>1, DropsFree
<1>4. t = [v EXCEPT !.task = r]
  BY DEF SetNextWalkActionTask
<1> HIDE DEF v
<1>5. v \in WalkState /\ w \in WalkState
  BY <1>1 DEF Typed, Kept
<1>6. t \in WalkState /\ t.timers = v.timers
  BY ZenonT(60), <1>4, <1>5 DEF WalkState
<1>7. Typed(t)
  BY <1>1, <1>6 DEF Typed
<1>8. /\ t.queue = v.queue /\ t.asked = v.asked /\ t.dying = v.dying
      /\ t.event = v.event /\ t.taskEvent = v.taskEvent /\ t.actionEvent = v.actionEvent
      /\ t.task = r /\ t.done = v.done
  BY <1>4, <1>5 DEF WalkState
<1>9. Follows(v, t)
  BY <1>2, <1>3, <1>6, <1>7, <1>8, TakesFree
<1>10. v.queue = w.queue /\ v.event = w.event
  BY <1>1, <1>5 DEF WalkState
<1> QED
  BY <1>2, <1>8, <1>9, <1>10, FollowsFollows

\* What a handler does with a free action.
Handled(w, t) == Follows(w, t) /\ (Unled(t) => Unled(w) \/ Led(t))

LEMMA GoesHandled ==
  ASSUME NEW w, Kept(w), NEW r \in Request, Free(w, r), NEW n \in Path, NEW t, t = Goes(w, r, n)
  PROVE  Handled(w, t)
<1>1. CASE n = NoWay
  <2>1. t = w
    BY <1>1 DEF Goes
  <2> QED
    BY <2>1 DEF Handled, Follows
<1>2. CASE n # NoWay
  <2> DEFINE v == Post(w, AutoWalk(n))
  <2>1. n \in 1..MaxPath /\ AutoWalk(n) \in WTask /\ \A q : AutoWalk(n) # Act(q)
    BY <1>2, KindsDiffer DEF Path, WTask
  <2>2. /\ Follows(w, v) /\ Free(v, r)
        /\ \E k \in DOMAIN v.queue : v.queue[k].task = AutoWalk(n)
    BY <2>1, PostFollows
  <2>3. t = SetNextWalkActionTask(v, r)
    BY <1>2 DEF Goes
  <2> HIDE DEF v
  <2>4. Kept(v)
    BY <2>2 DEF Follows
  <2>5. Follows(v, t) /\ t.queue = v.queue
    BY <2>2, <2>3, <2>4, KeepForWalkFollows
  <2>6. Led(t)
    BY <2>1, <2>2, <2>5 DEF Led
  <2> QED
    BY <2>2, <2>5, <2>6, FollowsFollows DEF Handled
<1> QED
  BY <1>1, <1>2

LEMMA WaitsHandled ==
  ASSUME NEW w, Kept(w), NEW r \in Request, Free(w, r), NEW t, t = Waits(w, r)
  PROVE  Handled(w, t)
BY WaitsFollows DEF Handled

LEMMA DoesHandled ==
  ASSUME NEW w, Kept(w), NEW r \in Request, Free(w, r), NEW b \in BOOLEAN,
         NEW t, t = Does(w, r) \/ t = [Does(w, r) EXCEPT !.busy = b]
  PROVE  Handled(w, t)
<1> DEFINE v == Does(w, r)
<1>1. w \in WalkState /\ Typed(w)
  BY DEF Kept, Typed
<1>2. w.done \cup {r} \in SUBSET Request
  BY <1>1 DEF WalkState
<1>3. v = [w EXCEPT !.done = w.done \cup {r}]
  BY DEF Does
<1> HIDE DEF v
<1>4. v \in WalkState
  BY <1>1, <1>2, <1>3 DEF WalkState
<1>5. /\ v.timers = w.timers /\ v.queue = w.queue /\ v.asked = w.asked /\ v.dying = w.dying
      /\ v.event = w.event /\ v.taskEvent = w.taskEvent /\ v.actionEvent = w.actionEvent
      /\ v.task = w.task /\ v.done = w.done \cup {r}
  BY <1>1, <1>3 DEF WalkState
<1>6. Typed(v)
  BY <1>1, <1>4, <1>5 DEF Typed
<1>7. Follows(w, v)
  BY <1>5, <1>6, TakesFree
<1>8. Kept(v)
  BY <1>7 DEF Follows
<1>9. t = v \/ t = [v EXCEPT !.busy = b]
  BY DEF v
<1>10. t \in WalkState /\ Same(v, t)
  <2>1. CASE t = v
    BY <2>1, <1>4 DEF Same
  <2>2. CASE t = [v EXCEPT !.busy = b]
    BY ZenonT(30), <2>2, <1>4 DEF Same, WalkState
  <2> QED
    BY <1>9, <2>1, <2>2
<1>11. Follows(v, t)
  BY <1>8, <1>10, SameFollows
<1>12. Follows(w, t)
  BY <1>7, <1>11, FollowsFollows
<1> QED
  BY <1>5, <1>10, <1>12 DEF Handled, Unled, Led, Same

\* Dropping the action that waited changes nothing else.
LEMMA ForgetActionThen ==
  ASSUME NEW w, Kept(w), NEW r \in Request, Free(w, r), NEW v, v = SetNextActionTask(w)
  PROVE  /\ Kept(v) /\ Free(v, r)
         /\ \A t : Handled(v, t) => Handled(w, t)
<1>1. /\ Typed(v) /\ Drops(w, v)
      /\ v = [w EXCEPT !.timers = v.timers, !.actionEvent = 0]
  BY ForgetActionDrops
<1>2. Follows(w, v) /\ Kept(v)
  BY <1>1, DropsFollows DEF Follows
<1>3. Free(v, r)
  BY <1>1, DropsFree
<1>4. w \in WalkState
  BY DEF Kept, Typed
<1>5. v.task = w.task /\ v.event = w.event /\ v.queue = w.queue
  BY <1>1, <1>4 DEF WalkState
<1>6. (Unled(v) <=> Unled(w)) /\ (Led(v) <=> Led(w))
  BY <1>5 DEF Unled, Led
<1>7. ASSUME NEW t, Handled(v, t) PROVE Handled(w, t)
  <2>1. Follows(w, t)
    BY <1>2, <1>7, FollowsFollows DEF Handled
  <2> QED
    BY <1>6, <1>7, <2>1 DEF Handled
<1> QED
  BY <1>2, <1>3, <1>7

LEMMA HandlesHandled ==
  ASSUME NEW w, Kept(w), NEW r \in Request, Free(w, r), NEW n \in Path, NEW t, t = Handles(w, r, n)
  PROVE  Handled(w, t)
<1> DEFINE v == SetNextActionTask(w)
<1>1. Kept(v) /\ Free(v, r) /\ \A x : Handled(v, x) => Handled(w, x)
  BY ForgetActionThen
<1>2. Style[r] \in {"use", "move", "push", "rotate"}
  BY WalkingAssumption
<1>3. CASE Style[r] = "use"
  <2>1. t = Uses(w, r, n)
    BY <1>3 DEF Handles
  <2>2. CASE ~w.near
    BY <2>1, <2>2, GoesHandled DEF Uses
  <2>3. CASE w.near /\ w.busy
    BY <2>1, <2>3, WaitsHandled DEF Uses
  <2>4. CASE w.near /\ ~w.busy
    <3>1. t = [Does(v, r) EXCEPT !.busy = TRUE]
      BY <2>1, <2>4 DEF Uses
    <3> HIDE DEF v
    <3> QED
      BY <1>1, <3>1, DoesHandled
  <2> QED
    BY <2>2, <2>3, <2>4
<1>4. CASE Style[r] \in {"move", "push"}
  <2>1. t = Moves(w, r, n)
    BY <1>4 DEF Handles
  <2>2. CASE w.busy
    BY <2>1, <2>2, WaitsHandled DEF Moves
  <2>3. CASE ~w.busy /\ ~w.near
    <3>1. t = Goes(v, r, n)
      BY <2>1, <2>3 DEF Moves
    <3> HIDE DEF v
    <3> QED
      BY <1>1, <3>1, GoesHandled
  <2>4. CASE ~w.busy /\ w.near
    <3>1. t = Does(v, r)
      BY <2>1, <2>4 DEF Moves
    <3> HIDE DEF v
    <3> QED
      BY <1>1, <3>1, DoesHandled
  <2> QED
    BY <2>2, <2>3, <2>4
<1>5. CASE Style[r] = "rotate"
  <2>1. t = Rotates(w, r, n)
    BY <1>5 DEF Handles
  <2>2. CASE ~w.near
    BY <2>1, <2>2, GoesHandled DEF Rotates
  <2>3. CASE w.near
    BY <2>1, <2>3, DoesHandled DEF Rotates
  <2> QED
    BY <2>2, <2>3
<1> QED
  BY <1>2, <1>3, <1>4, <1>5

LEMMA StartsHandled ==
  ASSUME NEW w, Kept(w), NEW r \in Request, Free(w, r), NEW n \in Path, NEW t, t = Starts(w, r, n)
  PROVE  Handled(w, t)
BY WaitsHandled, HandlesHandled DEF Starts

-----------------------------------------------------------------------------
(* The actions *)

\* Stranded, and the reasons for it, of a state.
StrandedIn(w) == Unled(w) /\ ~Led(w)
Excused(w) == w.blocked \/ w.frozen \/ w.thrown \/ w.dying

\* What every step from w to t has to show.
Well(w, t) == Kept(t) /\ Alive(t) /\ (StrandedIn(t) => StrandedIn(w) \/ Excused(t))

LEMMA FollowsWell ==
  ASSUME NEW w, Alive(w), NEW t, Follows(w, t), Unled(t) => Unled(w) \/ Led(t) \/ Excused(t)
  PROVE  Well(w, t)
BY DEF Follows, Well, StrandedIn

LEMMA SeqTail ==
  ASSUME NEW S, NEW q \in Seq(S), q # <<>>
  PROVE  /\ Tail(q) \in Seq(S) /\ Len(q) \in Nat /\ Len(q) > 0
         /\ DOMAIN q = 1..Len(q) /\ DOMAIN Tail(q) = 1..Len(q) - 1
         /\ \A k \in 1..Len(q) - 1 : k + 1 \in 1..Len(q) /\ Tail(q)[k] = q[k + 1]
         /\ Head(q) = q[1] /\ q[1] \in S
OBVIOUS

\* The next task is taken out of the queue.
Popped(w) == [w EXCEPT !.queue = Tail(@)]

LEMMA Pops ==
  ASSUME NEW w, Kept(w), Alive(w), w.queue # <<>>, NEW t, t = Popped(w)
  PROVE  /\ Kept(t) /\ Head(w.queue).task \in WTask
         /\ t.task = w.task /\ t.event = w.event /\ t.dying = w.dying /\ t.mishaps = w.mishaps
         /\ Head(w.queue).task # Check => Alive(t)
         /\ (\A n : Head(w.queue).task # AutoWalk(n)) => (Led(w) => Led(t))
         /\ \A r \in Request : Head(w.queue).task = Act(r) => Free(t, r)
<1> DEFINE q == w.queue
           n == Len(q)
           p == Tail(q)
<1>1. w \in WalkState /\ Typed(w)
  BY DEF Kept, Typed
<1>2. q \in Seq([id : Nat, task : WTask])
  BY <1>1 DEF WalkState
<1>3. /\ p \in Seq([id : Nat, task : WTask]) /\ n \in Nat /\ n > 0
      /\ DOMAIN q = 1..n /\ DOMAIN p = 1..n - 1
      /\ \A k \in 1..n - 1 : k + 1 \in 1..n /\ p[k] = q[k + 1]
      /\ Head(q) = q[1] /\ q[1] \in [id : Nat, task : WTask]
  BY <1>2, SeqTail
<1>4. t = [w EXCEPT !.queue = p]
  BY DEF Popped
<1> HIDE DEF n, p
<1>5. t \in WalkState /\ t.queue = p
  BY <1>1, <1>3, <1>4 DEF WalkState
<1>6. /\ t.timers = w.timers /\ t.done = w.done /\ t.asked = w.asked /\ t.dying = w.dying
      /\ t.task = w.task /\ t.event = w.event /\ t.taskEvent = w.taskEvent
      /\ t.actionEvent = w.actionEvent /\ t.mishaps = w.mishaps
  BY <1>1, <1>4 DEF WalkState
<1>7. Typed(t)
  BY <1>1, <1>5, <1>6 DEF Typed
<1>8. 1 \in DOMAIN q /\ \A k \in DOMAIN p : k + 1 \in DOMAIN q /\ p[k] = q[k + 1]
  BY SMTT(30), <1>3
<1>9. \A k \in DOMAIN q : k = 1 \/ \E j \in DOMAIN p : p[j] = q[k] /\ k = j + 1
  <2> SUFFICES ASSUME NEW k \in 1..n, k # 1 PROVE \E j \in DOMAIN p : p[j] = q[k] /\ k = j + 1
    BY <1>3
  <2>1. k - 1 \in 1..n - 1 /\ (k - 1) + 1 = k
    BY <1>3
  <2> QED
    BY <1>3, <2>1
<1>10. \A r : InTimers(t, r) <=> InTimers(w, r)
  BY <1>6 DEF InTimers
<1>11. \A r : InQueue(t, r) => InQueue(w, r)
  BY <1>5, <1>8 DEF InQueue
<1>12. Once(t)
  <2> SUFFICES ASSUME NEW r \in Request PROVE Single(t, r)
    BY DEF Once
  <2>1. Single(w, r)
    BY DEF Kept, Once
  <2>2. ASSUME NEW j \in DOMAIN p, NEW k \in DOMAIN p, p[j].task = Act(r), p[k].task = Act(r)
        PROVE  j = k
    <3>1. j + 1 = k + 1
      BY <1>8, <2>1, <2>2 DEF Single
    <3>2. j \in Nat /\ k \in Nat
      BY <1>3
    <3> QED
      BY <3>1, <3>2
  <2> QED
    BY <1>5, <1>6, <1>10, <1>11, <2>1, <2>2 DEF Single
<1>13. Named(t)
  <2>1. Named(w)
    BY DEF Kept
  <2> QED
    BY <1>5, <1>6, <1>8, <2>1 DEF Named
<1>14. Head(q).task # Check => Alive(t)
  <2> SUFFICES ASSUME q[1].task # Check, w.event # 0, ~w.dying, w.event \notin DOMAIN w.timers
               PROVE  \E k \in DOMAIN p : p[k].id = w.event
    BY <1>3, <1>5, <1>6 DEF Alive
  <2>1. PICK k \in DOMAIN q : q[k].id = w.event
    BY DEF Alive
  <2>2. k # 1
    BY <2>1 DEF Kept, Named
  <2> QED
    BY <1>9, <2>1, <2>2
<1>15. ASSUME \A m : Head(q).task # AutoWalk(m), Led(w) PROVE Led(t)
  <2>1. PICK k \in DOMAIN q, m \in 1..MaxPath : q[k].task = AutoWalk(m)
    BY <1>15 DEF Led
  <2>2. k # 1
    BY <1>3, <1>15, <2>1
  <2>3. PICK j \in DOMAIN p : p[j] = q[k]
    BY <1>9, <2>1, <2>2
  <2> QED
    BY <1>5, <2>1, <2>3 DEF Led
<1>16. ASSUME NEW r \in Request, Head(q).task = Act(r) PROVE Free(t, r)
  <2>1. q[1].task = Act(r)
    BY <1>3, <1>16
  <2>2. InQueue(w, r)
    BY <1>8, <2>1 DEF InQueue
  <2>3. /\ \A j, k \in DOMAIN q : q[j].task = Act(r) /\ q[k].task = Act(r) => j = k
        /\ ~InTimers(w, r) /\ w.task # r /\ r \notin w.done /\ r \in w.asked
    BY <2>2 DEF Kept, Once, Single
  <2>4. ASSUME NEW k \in DOMAIN p, p[k].task = Act(r) PROVE FALSE
    <3>1. k + 1 = 1
      BY <1>8, <2>1, <2>3, <2>4
    <3>2. k \in 1..n - 1
      BY <1>3
    <3> QED
      BY <1>3, <3>1, <3>2
  <2>5. ~InQueue(t, r)
    BY <1>5, <2>4 DEF InQueue
  <2> QED
    BY <1>6, <1>10, <2>3, <2>5 DEF Free
<1>17. Head(q).task \in WTask
  BY <1>3
<1> QED
  BY <1>6, <1>7, <1>12, <1>13, <1>14, <1>15, <1>16, <1>17 DEF Kept

LEMMA RunTaskWell == ASSUME WalkInv, RunTask PROVE Well(wk, wk')
<1> DEFINE what == Head(wk.queue).task
           w == Popped(wk)
<1>1. Kept(wk) /\ Alive(wk) /\ wk.queue # <<>> /\ what # DeathTask
  BY DEF WalkInv, RunTask
<1>2. PICK o \in Outcome, n \in Path : Possible(o) /\ wk' = Runs(w, what, o, n)
  BY DEF RunTask, Popped
<1>3. /\ Kept(w) /\ what \in WTask
      /\ w.task = wk.task /\ w.event = wk.event /\ w.dying = wk.dying /\ w.mishaps = wk.mishaps
      /\ what # Check => Alive(w)
      /\ (\A m : what # AutoWalk(m)) => (Led(wk) => Led(w))
      /\ \A r \in Request : what = Act(r) => Free(w, r)
  BY <1>1, Pops
<1> HIDE DEF w, what
<1>4. Unled(w) <=> Unled(wk)
  BY <1>3 DEF Unled
<1>5. o = "moved" \/ w.mishaps < MaxMishaps
  BY <1>2, <1>3 DEF Possible
<1>6. CASE what = Check
  <2>1. Led(wk) => Led(w)
    BY <1>3, <1>6, KindsDiffer
  <2>2. wk' = IF w.dying THEN w ELSE OnWalk(w, o)
    BY <1>2, <1>6 DEF Runs, Check
  <2>3. CASE w.dying
    <3>1. wk' = w /\ Alive(w)
      BY <2>2, <2>3 DEF Alive
    <3> QED
      BY <1>3, <1>4, <2>1, <3>1 DEF Well, StrandedIn
  <2>4. CASE ~w.dying
    <3>1. wk' = OnWalk(w, o)
      BY <2>2, <2>4
    <3>2. /\ Kept(wk') /\ Alive(wk') /\ (Led(w) => Led(wk'))
          /\ Unled(wk') => Unled(w) \/ wk'.thrown \/ wk'.frozen
      BY <1>3, <1>5, <3>1, OnWalkFollows
    <3> QED
      BY <1>4, <2>1, <3>2 DEF Well, StrandedIn, Excused
  <2> QED
    BY <2>3, <2>4
<1>7. ASSUME NEW m \in 1..MaxPath, what = AutoWalk(m) PROVE Well(wk, wk')
  <2>1. what # Check /\ AutoWalk(m).do = "auto" /\ AutoWalk(m).path = m
    BY <1>7, KindsDiffer DEF AutoWalk
  <2>2. wk' = StartAutoWalk(w, m, m = 1, o)
    BY <1>2, <1>7, <2>1 DEF Runs
  <2>3. o = "moved" \/ w.mishaps <= MaxMishaps
    <3>1. w.mishaps \in 0..MaxMishaps + 1
      BY <1>3 DEF Kept, Typed, WalkState
    <3> QED
      BY <1>5, <3>1, WalkingAssumption
  <2>4. Follows(w, wk') /\ (Unled(wk') => wk'.blocked \/ wk'.frozen)
    BY <1>3, <2>2, <2>3, StartAutoWalkFollows
  <2> QED
    BY <1>3, <2>1, <2>4 DEF Well, Follows, StrandedIn, Excused
<1>8. ASSUME NEW r \in Request, what = Act(r) PROVE Well(wk, wk')
  <2>1. what # Check /\ (\A m : what # AutoWalk(m)) /\ Act(r).do = "act" /\ Act(r).what = r
    BY <1>8, KindsDiffer DEF Act
  <2>2. wk' = Handles(w, r, n)
    BY <1>2, <1>8, <2>1 DEF Runs
  <2>3. Handled(w, wk')
    BY <1>3, <1>8, <2>2, HandlesHandled
  <2> QED
    BY <1>3, <1>4, <2>1, <2>3 DEF Well, Handled, Follows, StrandedIn
<1> QED
  BY <1>1, <1>3, <1>6, <1>7, <1>8 DEF WTask, what

LEMMA AskWell == ASSUME WalkInv, NEW r \in Request, Ask(r) PROVE Well(wk, wk')
<1> DEFINE w == [wk EXCEPT !.asked = @ \cup {r}]
<1>1. Kept(wk) /\ Alive(wk) /\ r \notin wk.asked /\ wk \in WalkState
  BY DEF WalkInv, Ask, Kept, Typed
<1>2. PICK n \in Path : wk' = Starts(w, r, n)
  BY DEF Ask
<1>3. /\ w \in WalkState
      /\ w.timers = wk.timers /\ w.queue = wk.queue /\ w.done = wk.done /\ w.dying = wk.dying
      /\ w.task = wk.task /\ w.event = wk.event /\ w.taskEvent = wk.taskEvent
      /\ w.actionEvent = wk.actionEvent /\ w.asked = wk.asked \cup {r}
  BY <1>1 DEF WalkState
<1> HIDE DEF w
<1>4. \A q : (InTimers(w, q) <=> InTimers(wk, q)) /\ (InQueue(w, q) <=> InQueue(wk, q))
  BY <1>3 DEF InTimers, InQueue
<1>5. Once(w)
  BY <1>1, <1>3, <1>4 DEF Kept, Once, Single
<1>6. Typed(w) /\ Named(w)
  BY <1>1, <1>3 DEF Kept, Typed, Named
<1>7. Follows(wk, w)
  BY <1>3, <1>5, <1>6 DEF Follows, Kept, Alive, Led
<1>8. Free(w, r)
  BY <1>1, <1>3, <1>4 DEF Free, Kept, Once, Single
<1>9. Handled(w, wk')
  BY <1>2, <1>5, <1>6, <1>8, StartsHandled DEF Kept
<1>10. Follows(wk, wk') /\ (Unled(wk') => Unled(wk) \/ Led(wk'))
  BY <1>3, <1>7, <1>9, FollowsFollows DEF Handled, Unled
<1> QED
  BY <1>1, <1>10, FollowsWell

LEMMA EventExpiresWell ==
  ASSUME WalkInv, NEW i \in DOMAIN wk.timers, EventExpires(i) PROVE Well(wk, wk')
<1> DEFINE u == ClearTimer(wk, i)
           x == [id |-> i, task |-> wk.timers[i]]
           q == Append(wk.queue, x)
           n == Len(wk.queue)
           t == wk'
<1>1. Kept(wk) /\ Alive(wk) /\ wk \in WalkState /\ Typed(wk)
  BY DEF WalkInv, Kept, Typed
<1>2. i \in Nat \ {0} /\ wk.timers[i] \in WTask
  <2>1. wk.timers \in Timers
    BY <1>1 DEF WalkState
  <2> QED
    BY <2>1, TimersAre
<1>3. /\ Typed(u) /\ u = [wk EXCEPT !.timers = u.timers]
      /\ DOMAIN u.timers = DOMAIN wk.timers \ {i}
      /\ \A j \in DOMAIN u.timers : u.timers[j] = wk.timers[j]
  BY <1>1, ClearIs
<1>4. t = [u EXCEPT !.queue = Append(@, x)]
  BY DEF EventExpires
<1> HIDE DEF u
<1>5. u \in WalkState /\ u.queue = wk.queue
  <2>1. u \in WalkState
    BY <1>3 DEF Typed
  <2> QED
    BY <1>1, <1>3, <2>1 DEF WalkState
<1>6. /\ wk.queue \in Seq([id : Nat, task : WTask]) /\ x \in [id : Nat, task : WTask]
      /\ x.id = i /\ x.task = wk.timers[i]
  BY <1>1, <1>2 DEF WalkState
<1> HIDE DEF x
<1>7. /\ q \in Seq([id : Nat, task : WTask]) /\ n \in Nat
      /\ DOMAIN wk.queue = 1..n /\ DOMAIN q = 1..n + 1
      /\ \A k \in 1..n : q[k] = wk.queue[k]
      /\ q[n + 1] = x
  BY <1>6, SeqAppend
<1>8. t = [u EXCEPT !.queue = q]
  BY <1>4, <1>5
<1> HIDE DEF q, n, t
<1>9. t \in WalkState /\ t.queue = q /\ t.timers = u.timers
  BY <1>5, <1>7, <1>8 DEF WalkState
<1>10. Typed(t)
  BY <1>3, <1>9 DEF Typed
<1>11. t = [wk EXCEPT !.timers = u.timers, !.queue = q]
  BY <1>3, <1>8
<1>12. /\ t.done = wk.done /\ t.asked = wk.asked /\ t.dying = wk.dying /\ t.task = wk.task
       /\ t.event = wk.event /\ t.taskEvent = wk.taskEvent /\ t.actionEvent = wk.actionEvent
  BY <1>1, <1>11 DEF WalkState
<1>13. \A k \in 1..n + 1 : k \in 1..n \/ k = n + 1
  BY <1>7
<1>14. \A k \in 1..n : k \in 1..n + 1
  BY <1>7
<1>15. n + 1 \in 1..n + 1 /\ n + 1 \notin 1..n
  BY <1>7
<1>16. Once(t)
  <2> SUFFICES ASSUME NEW r \in Request PROVE Single(t, r)
    BY DEF Once
  <2>1. Single(wk, r)
    BY <1>1 DEF Kept, Once
  <2>2. CASE wk.timers[i] = Act(r)
    <3>1. InTimers(wk, r)
      BY <2>2 DEF InTimers
    <3>2. ~InQueue(wk, r) /\ wk.task # r /\ r \notin wk.done /\ r \in wk.asked
      BY <2>1, <3>1 DEF Single
    <3>3. ~InTimers(t, r)
      BY <1>3, <1>9, <2>1, <2>2 DEF InTimers, Single
    <3>4. \A k \in DOMAIN t.queue : t.queue[k].task = Act(r) => k = n + 1
      BY <1>7, <1>9, <1>13, <3>2 DEF InQueue
    <3> QED
      BY <1>12, <3>2, <3>3, <3>4 DEF Single, InTimers
  <2>3. CASE wk.timers[i] # Act(r)
    <3>1. InTimers(t, r) => InTimers(wk, r)
      BY <1>3, <1>9 DEF InTimers
    <3>2. \A k \in DOMAIN t.queue : t.queue[k].task = Act(r)
                                      => k \in DOMAIN wk.queue /\ wk.queue[k].task = Act(r)
      BY <1>6, <1>7, <1>9, <1>13, <2>3
    <3>3. InQueue(t, r) => InQueue(wk, r)
      BY <3>2 DEF InQueue
    <3>4. \A a, b \in DOMAIN t.timers : t.timers[a] = Act(r) /\ t.timers[b] = Act(r) => a = b
      BY <1>3, <1>9, <2>1 DEF Single
    <3>5. \A j, k \in DOMAIN t.queue : t.queue[j].task = Act(r) /\ t.queue[k].task = Act(r) => j = k
      BY <2>1, <3>2 DEF Single
    <3> QED
      BY <1>12, <2>1, <3>1, <3>3, <3>4, <3>5 DEF Single
  <2> QED
    BY <2>2, <2>3
<1>17. Named(t)
  <2>1. Named(wk)
    BY <1>1 DEF Kept
  <2>2. ASSUME t.event # 0, NEW k \in DOMAIN t.queue, t.queue[k].id = t.event
        PROVE  t.queue[k].task = Check
    <3>1. CASE k \in 1..n
      BY <1>7, <1>9, <1>12, <2>1, <2>2, <3>1 DEF Named
    <3>2. CASE k = n + 1
      BY <1>6, <1>7, <1>9, <1>12, <2>1, <2>2, <3>2 DEF Named
    <3> QED
      BY <1>7, <1>9, <1>13, <3>1, <3>2
  <2> QED
    BY <1>3, <1>9, <1>12, <2>1, <2>2 DEF Named
<1>18. Alive(t)
  <2> SUFFICES ASSUME t.event # 0, ~t.dying
               PROVE  t.event \in DOMAIN t.timers \/ \E k \in DOMAIN t.queue : t.queue[k].id = t.event
    BY DEF Alive
  <2>1. CASE t.event = i
    BY <1>6, <1>7, <1>9, <1>15, <2>1
  <2>2. CASE t.event # i /\ t.event \in DOMAIN wk.timers
    BY <1>3, <1>9, <2>2
  <2>3. CASE \E k \in DOMAIN wk.queue : wk.queue[k].id = wk.event
    BY <1>7, <1>9, <1>12, <1>14, <2>3
  <2> QED
    BY <1>1, <1>12, <2>1, <2>2, <2>3 DEF Alive
<1>19. Unled(t) => Unled(wk)
  BY <1>12 DEF Unled
<1>20. Led(wk) => Led(t)
  BY <1>7, <1>9, <1>14 DEF Led
<1> QED
  BY <1>10, <1>16, <1>17, <1>18, <1>19, <1>20 DEF Well, Kept, StrandedIn, t

\* Steps that change nothing the invariant is about, or only forget.
LEMMA SameWell ==
  ASSUME WalkInv, wk' \in WalkState, Same(wk, wk') PROVE Well(wk, wk')
<1>1. Kept(wk) /\ Alive(wk)
  BY DEF WalkInv
<1>2. Follows(wk, wk')
  BY <1>1, SameFollows
<1>3. Unled(wk') => Unled(wk)
  BY DEF Unled, Same
<1> QED
  BY <1>1, <1>2, <1>3, FollowsWell

LEMMA MishapTyped ==
  ASSUME NEW w, Kept(w), w.mishaps < MaxMishaps
  PROVE  w.mishaps + 1 \in 0..MaxMishaps + 1 /\ w.mishaps + 1 <= MaxMishaps
<1>1. w.mishaps \in 0..MaxMishaps + 1
  BY DEF Kept, Typed, WalkState
<1> QED
  BY <1>1, WalkingAssumption

LEMMA PlayerMoveWell == ASSUME WalkInv, PlayerMove PROVE Well(wk, wk')
<1> DEFINE u == SetNextWalkActionTask(wk, None)
           v == [u EXCEPT !.mishaps = @ + 1]
<1>1. Kept(wk) /\ Alive(wk) /\ wk.mishaps < MaxMishaps /\ wk \in WalkState
  BY DEF WalkInv, PlayerMove, Kept, Typed
<1>2. PICK o \in Outcome : wk' = StartAutoWalk(v, 1, TRUE, o)
  BY DEF PlayerMove
<1>3. /\ Typed(u) /\ Drops(wk, u) /\ u.task = None
      /\ u = [wk EXCEPT !.timers = u.timers, !.taskEvent = 0, !.task = None]
  BY <1>1, ForgetTaskDrops
<1>4. Follows(wk, u) /\ Kept(u)
  BY <1>1, <1>3, DropsFollows DEF Follows
<1> HIDE DEF u
<1>5. u \in WalkState /\ u.mishaps = wk.mishaps
  BY <1>1, <1>3 DEF Typed, WalkState
<1>6. u.mishaps + 1 \in 0..MaxMishaps + 1 /\ u.mishaps + 1 <= MaxMishaps
  BY <1>1, <1>5, MishapTyped
<1>7. v \in WalkState /\ Same(u, v) /\ v.mishaps = u.mishaps + 1
  BY <1>5, <1>6 DEF Same, WalkState
<1> HIDE DEF v
<1>8. Follows(u, v) /\ Kept(v)
  BY <1>4, <1>7, SameFollows DEF Follows
<1>9. 1 \in 1..MaxPath
  BY WalkingAssumption
<1>10. Follows(v, wk') /\ (Unled(wk') => wk'.blocked \/ wk'.frozen)
  BY <1>2, <1>6, <1>7, <1>8, <1>9, StartAutoWalkFollows
<1>11. Follows(wk, wk')
  BY <1>4, <1>8, <1>10, FollowsFollows
<1> QED
  BY <1>1, <1>10, <1>11, FollowsWell DEF Excused

LEMMA GoToFollowCreatureWell == ASSUME WalkInv, GoToFollowCreature PROVE Well(wk, wk')
<1> DEFINE v == [wk EXCEPT !.mishaps = @ + 1]
<1>1. Kept(wk) /\ Alive(wk) /\ wk.mishaps < MaxMishaps /\ wk \in WalkState
  BY DEF WalkInv, GoToFollowCreature, Kept, Typed
<1>2. PICK n \in 1..MaxPath, o \in Outcome : wk' = StartAutoWalk(v, n, n = 1, o)
  BY DEF GoToFollowCreature
<1>3. wk.mishaps + 1 \in 0..MaxMishaps + 1 /\ wk.mishaps + 1 <= MaxMishaps
  BY <1>1, MishapTyped
<1>4. v \in WalkState /\ Same(wk, v) /\ v.mishaps = wk.mishaps + 1
  BY <1>1, <1>3 DEF Same, WalkState
<1> HIDE DEF v
<1>5. Follows(wk, v) /\ Kept(v)
  BY <1>1, <1>4, SameFollows DEF Follows
<1>6. Follows(v, wk') /\ (Unled(wk') => wk'.blocked \/ wk'.frozen)
  BY <1>2, <1>3, <1>4, <1>5, StartAutoWalkFollows
<1>7. Follows(wk, wk')
  BY <1>5, <1>6, FollowsFollows
<1> QED
  BY <1>1, <1>6, <1>7, FollowsWell DEF Excused

LEMMA SetFollowCreatureWell == ASSUME WalkInv, SetFollowCreature PROVE Well(wk, wk')
<1> DEFINE u == IF wk.list > 0 THEN OnWalkAborted(wk) ELSE wk
<1>1. Kept(wk) /\ Alive(wk) /\ wk \in WalkState
  BY DEF WalkInv, Kept, Typed
<1>2. wk' = [u EXCEPT !.list = 0, !.chase = "on"]
  BY DEF SetFollowCreature
<1>3. Follows(wk, u) /\ (Unled(u) => Unled(wk))
  <2>1. CASE wk.list > 0
    <3> DEFINE v == SetNextWalkActionTask(wk, None)
    <3>1. Typed(v) /\ Drops(wk, v) /\ v.task = None
      BY <1>1, ForgetTaskDrops
    <3>2. Follows(wk, v)
      BY <1>1, <3>1, DropsFollows
    <3> QED
      BY <2>1, <3>1, <3>2 DEF OnWalkAborted, Unled
  <2>2. CASE ~(wk.list > 0)
    BY <1>1, <2>2 DEF Follows
  <2> QED
    BY <2>1, <2>2
<1> HIDE DEF u
<1>4. u \in WalkState /\ Kept(u) /\ 0 \in 0..MaxPath
  BY <1>3, WalkingAssumption DEF Follows, Kept, Typed
<1>5. wk' \in WalkState /\ Same(u, wk')
  BY <1>2, <1>4 DEF Same, WalkState
<1>6. Follows(u, wk')
  BY <1>4, <1>5, SameFollows
<1>7. Follows(wk, wk') /\ (Unled(wk') => Unled(wk))
  BY <1>3, <1>5, <1>6, FollowsFollows DEF Same, Unled
<1> QED
  BY <1>1, <1>7, FollowsWell

\* The player is put elsewhere.
LEMMA ThrownFollows ==
  ASSUME NEW w, Kept(w), NEW t, t = Thrown(w)
  PROVE  Follows(w, t) /\ t.thrown /\ t.mishaps = w.mishaps
<1> DEFINE v == StopEventWalk(w)
<1>1. /\ Typed(v) /\ Drops(w, v) /\ v.event = 0
      /\ v = [w EXCEPT !.timers = v.timers, !.event = 0]
  BY StopEventWalkDrops
<1>2. Follows(w, v) /\ Kept(v)
  BY <1>1, DropsFollows DEF Follows
<1>3. t = [v EXCEPT !.resting = TRUE, !.near = FALSE, !.astray = TRUE, !.thrown = TRUE]
  BY DEF Thrown
<1>4. w \in WalkState /\ v \in WalkState
  BY <1>1 DEF Kept, Typed
<1> HIDE DEF v
<1>5. t \in WalkState /\ Same(v, t) /\ t.thrown
  BY ZenonT(30), <1>3, <1>4 DEF Same, WalkState
<1>6. t.mishaps = v.mishaps /\ v.mishaps = w.mishaps
  BY <1>1, <1>3, <1>4 DEF WalkState
<1>7. Follows(v, t)
  BY <1>2, <1>5, SameFollows
<1> QED
  BY <1>2, <1>5, <1>6, <1>7, FollowsFollows

LEMMA TeleportWell == ASSUME WalkInv, Teleport PROVE Well(wk, wk')
<1> DEFINE v == Thrown(wk)
<1>1. Kept(wk) /\ Alive(wk) /\ wk.mishaps < MaxMishaps
  BY DEF WalkInv, Teleport, Mishap
<1>2. Follows(wk, v) /\ Kept(v) /\ v.thrown /\ v.mishaps = wk.mishaps
  BY <1>1, ThrownFollows DEF Follows
<1>3. wk' = [v EXCEPT !.mishaps = @ + 1]
  BY DEF Teleport, Mishap
<1> HIDE DEF v
<1>4. v \in WalkState /\ v.mishaps + 1 \in 0..MaxMishaps + 1
  BY <1>1, <1>2, MishapTyped DEF Kept, Typed
<1>5. wk' \in WalkState /\ Same(v, wk') /\ wk'.thrown
  BY <1>2, <1>3, <1>4 DEF Same, WalkState
<1>6. Follows(wk, wk')
  BY <1>2, <1>5, SameFollows, FollowsFollows
<1> QED
  BY <1>1, <1>5, <1>6, FollowsWell DEF Excused

LEMMA SmallStepsWell ==
  ASSUME WalkInv, \/ PlayerStopAutoWalk \/ SetMovementBlocked \/ Unfollow \/ Rests \/ MayAct
  PROVE  Well(wk, wk')
<1>1. Kept(wk) /\ wk \in WalkState
  BY DEF WalkInv, Kept, Typed
<1>2. wk.mishaps < MaxMishaps => wk.mishaps + 1 \in 0..MaxMishaps + 1
  BY <1>1, MishapTyped
<1>3. CASE PlayerStopAutoWalk
  <2>1. wk' = [wk EXCEPT !.cancel = TRUE, !.mishaps = wk.mishaps + 1] /\ wk.mishaps < MaxMishaps
    BY <1>1, <1>3 DEF PlayerStopAutoWalk, Mishap, WalkState
  <2>2. wk' \in WalkState
    BY <1>1, <1>2, <2>1 DEF WalkState
  <2>3. Same(wk, wk')
    BY <1>1, <2>1 DEF Same, WalkState
  <2> QED
    BY <2>2, <2>3, SameWell
<1>4. CASE SetMovementBlocked
  <2> DEFINE b == ~wk.blocked
  <2>1. /\ wk' = [wk EXCEPT !.blocked = b, !.cancel = TRUE, !.mishaps = wk.mishaps + 1]
        /\ wk.mishaps < MaxMishaps
    BY <1>1, <1>4 DEF SetMovementBlocked, Mishap, WalkState
  <2>2. b \in BOOLEAN
    OBVIOUS
  <2> HIDE DEF b
  <2>3. wk' \in WalkState
    BY <1>1, <1>2, <2>1, <2>2 DEF WalkState
  <2>4. Same(wk, wk')
    BY <1>1, <2>1 DEF Same, WalkState
  <2> QED
    BY <2>3, <2>4, SameWell
<1>5. CASE Unfollow
  <2>1. wk' = [wk EXCEPT !.chase = "over", !.cancel = TRUE]
    BY <1>5 DEF Unfollow
  <2>2. wk' \in WalkState /\ Same(wk, wk')
    BY <1>1, <2>1 DEF Same, WalkState
  <2> QED
    BY <2>2, SameWell
<1>6. CASE Rests
  <2>1. wk' = [wk EXCEPT !.resting = FALSE]
    BY <1>6 DEF Rests
  <2>2. wk' \in WalkState /\ Same(wk, wk')
    BY <1>1, <2>1 DEF Same, WalkState
  <2> QED
    BY <2>2, SameWell
<1>7. CASE MayAct
  <2>1. wk' = [wk EXCEPT !.busy = FALSE]
    BY <1>7 DEF MayAct
  <2>2. wk' \in WalkState /\ Same(wk, wk')
    BY <1>1, <2>1 DEF Same, WalkState
  <2> QED
    BY <2>2, SameWell
<1> QED
  BY <1>3, <1>4, <1>5, <1>6, <1>7

LEMMA SetSpeedToNothingWell == ASSUME WalkInv, SetSpeedToNothing PROVE Well(wk, wk')
<1> DEFINE v == StopEventWalk(wk)
<1>1. Kept(wk) /\ Alive(wk) /\ wk.mishaps < MaxMishaps /\ wk \in WalkState
  BY DEF WalkInv, SetSpeedToNothing, Mishap, Kept, Typed
<1>2. /\ Typed(v) /\ Drops(wk, v) /\ v.event = 0
      /\ v = [wk EXCEPT !.timers = v.timers, !.event = 0]
  BY <1>1, StopEventWalkDrops
<1>3. Follows(wk, v) /\ Kept(v)
  BY <1>1, <1>2, DropsFollows DEF Follows
<1>4. wk' = [[v EXCEPT !.frozen = TRUE, !.cancel = TRUE] EXCEPT !.mishaps = @ + 1]
  BY DEF SetSpeedToNothing, Mishap
<1> HIDE DEF v
<1>5. v \in WalkState /\ v.mishaps = wk.mishaps
  BY <1>1, <1>2 DEF Typed, WalkState
<1>6. v.mishaps + 1 \in 0..MaxMishaps + 1
  BY <1>1, <1>5, MishapTyped
<1>7. wk' = [v EXCEPT !.frozen = TRUE, !.cancel = TRUE, !.mishaps = v.mishaps + 1]
  BY <1>4, <1>5 DEF WalkState
<1>8. wk' \in WalkState /\ Same(v, wk') /\ wk'.frozen
  BY <1>5, <1>6, <1>7 DEF Same, WalkState
<1>9. Follows(wk, wk')
  BY <1>3, <1>8, SameFollows, FollowsFollows
<1> QED
  BY <1>1, <1>8, <1>9, FollowsWell DEF Excused

LEMMA SetSpeedAgainWell == ASSUME WalkInv, SetSpeedAgain PROVE Well(wk, wk')
<1> DEFINE v == [wk EXCEPT !.frozen = FALSE]
<1>1. Kept(wk) /\ Alive(wk) /\ wk \in WalkState
  BY DEF WalkInv, Kept, Typed
<1>2. v \in WalkState /\ Same(wk, v) /\ v.mishaps = wk.mishaps /\ ~v.frozen
  BY <1>1 DEF Same, WalkState
<1>3. Follows(wk, v) /\ Kept(v)
  BY <1>1, <1>2, SameFollows DEF Follows
<1>4. PICK o \in Outcome : /\ Possible(o)
                           /\ wk' = IF wk.list > 0 THEN AddEventWalk(v, FALSE, o) ELSE v
  BY DEF SetSpeedAgain
<1> HIDE DEF v
<1>5. o = "moved" \/ v.mishaps <= MaxMishaps
  <2>1. v.mishaps \in 0..MaxMishaps + 1
    BY <1>2 DEF WalkState
  <2> QED
    BY <1>2, <1>4, <2>1, WalkingAssumption DEF Possible
<1>6. CASE wk.list > 0 /\ v.event = 0
  <2>1. Follows(v, wk') /\ (wk'.event # 0 \/ wk'.frozen)
    BY <1>3, <1>4, <1>5, <1>6, AddEventWalkFollows
  <2>2. Follows(wk, wk')
    BY <1>3, <2>1, FollowsFollows
  <2> QED
    BY <1>1, <2>1, <2>2, FollowsWell DEF Excused, Unled
<1>7. CASE wk.list > 0 /\ v.event # 0
  <2>1. Follows(v, wk') /\ wk'.event # 0
    BY <1>3, <1>4, <1>7, AddNoEventWalk
  <2>2. Follows(wk, wk')
    BY <1>3, <2>1, FollowsFollows
  <2> QED
    BY <1>1, <2>1, <2>2, FollowsWell DEF Unled
<1>8. CASE ~(wk.list > 0)
  <2>1. wk' = v
    BY <1>4, <1>8
  <2> QED
    BY <1>2, <2>1, SameWell
<1> QED
  BY <1>6, <1>7, <1>8

\* Whether the player dies matters to nothing but the tasks that are dropped.
LEMMA DyingKept ==
  ASSUME NEW w, Kept(w), NEW d \in BOOLEAN, NEW t, t = [w EXCEPT !.dying = d]
  PROVE  Kept(t) /\ t.dying = d /\ t.event = w.event /\ t.task = w.task
         /\ t.mishaps = w.mishaps /\ t.queue = w.queue
<1>1. w \in WalkState /\ Typed(w)
  BY DEF Kept, Typed
<1>2. /\ t \in WalkState /\ t.dying = d
      /\ t.timers = w.timers /\ t.queue = w.queue /\ t.done = w.done /\ t.asked = w.asked
      /\ t.task = w.task /\ t.event = w.event /\ t.taskEvent = w.taskEvent
      /\ t.actionEvent = w.actionEvent /\ t.mishaps = w.mishaps
  BY <1>1 DEF WalkState
<1>3. \A r : (InTimers(t, r) <=> InTimers(w, r)) /\ (InQueue(t, r) <=> InQueue(w, r))
  BY <1>2 DEF InTimers, InQueue
<1>4. Once(t)
  <2> SUFFICES ASSUME NEW r \in Request PROVE Single(t, r)
    BY DEF Once
  <2>1. Single(w, r)
    BY DEF Kept, Once
  <2> QED
    BY <1>2, <1>3, <2>1 DEF Single
<1>5. Typed(t) /\ Named(t)
  BY <1>1, <1>2 DEF Typed, Named, Kept
<1> QED
  BY <1>2, <1>4, <1>5 DEF Kept

LEMMA DiesWell == ASSUME WalkInv, Dies PROVE Well(wk, wk')
<1> DEFINE u == [wk EXCEPT !.dying = TRUE]
           v == Post(u, DeathTask)
<1>1. Kept(wk) /\ wk.mishaps < MaxMishaps
  BY DEF WalkInv, Dies, Mishap
<1>2. Kept(u) /\ u.dying /\ u.mishaps = wk.mishaps
  BY <1>1, DyingKept
<1>3. wk' = [v EXCEPT !.mishaps = @ + 1]
  BY DEF Dies, Mishap
<1>4. DeathTask \in WTask /\ \A r : DeathTask # Act(r)
  BY KindsDiffer DEF WTask
<1> HIDE DEF u
<1>5. Follows(u, v) /\ v = [u EXCEPT !.queue = v.queue]
  BY <1>2, <1>4, PostFollows
<1> HIDE DEF v
<1>6. Kept(v) /\ v \in WalkState /\ u \in WalkState
  BY <1>2, <1>5 DEF Follows, Kept, Typed
<1>7. v.dying /\ v.mishaps = wk.mishaps
  BY <1>2, <1>5, <1>6 DEF WalkState
<1>8. v.mishaps + 1 \in 0..MaxMishaps + 1
  BY <1>1, <1>7, MishapTyped
<1>9. wk' \in WalkState /\ Same(v, wk')
  BY <1>3, <1>6, <1>8 DEF Same, WalkState
<1>10. Kept(wk')
  BY <1>6, <1>9, SameFollows DEF Follows
<1>11. wk'.dying
  BY <1>7, <1>9 DEF Same
<1> QED
  BY <1>10, <1>11 DEF Well, Excused, Alive

LEMMA ExecutesDeathWell == ASSUME WalkInv, ExecutesDeath PROVE Well(wk, wk')
<1> DEFINE u == Popped(wk)
           v == [u EXCEPT !.dying = FALSE]
<1>1. Kept(wk) /\ Alive(wk) /\ wk.queue # <<>> /\ wk \in WalkState
  BY DEF WalkInv, ExecutesDeath, Kept, Typed
<1>2. Kept(u)
  BY <1>1, Pops
<1>3. Kept(v)
  BY <1>2, DyingKept
<1>4. wk' = Thrown(v)
  BY DEF ExecutesDeath, Popped
<1> HIDE DEF v
<1>5. Kept(wk') /\ wk'.thrown
  BY <1>3, <1>4, ThrownFollows DEF Follows
<1>6. wk'.event = 0
  <2> DEFINE x == StopEventWalk(v)
  <2>1. Typed(x) /\ x.event = 0
    BY <1>3, StopEventWalkDrops
  <2>2. wk' = [x EXCEPT !.resting = TRUE, !.near = FALSE, !.astray = TRUE, !.thrown = TRUE]
    BY <1>4 DEF Thrown
  <2> HIDE DEF x
  <2>3. x \in WalkState
    BY <2>1 DEF Typed
  <2> QED
    BY <2>1, <2>2, <2>3 DEF WalkState
<1> QED
  BY <1>5, <1>6 DEF Well, Excused, Alive

LEMMA WalkingInitially == ASSUME WalkingInit PROVE WalkInv
<1>1. /\ wk.timers = <<>> /\ wk.queue = <<>> /\ wk.event = 0 /\ wk.taskEvent = 0
      /\ wk.actionEvent = 0 /\ wk.task = None /\ wk.done = {} /\ wk.asked = {}
  BY DEF WalkingInit
<1>2. DOMAIN wk.timers = {} /\ DOMAIN wk.queue = {}
  BY <1>1
<1>3. wk.timers \in Timers
  <2>1. wk.timers = [i \in DOMAIN wk.timers |-> wk.timers[i]]
    BY <1>1
  <2> QED
    BY <1>2, <2>1, TimersAre
<1>4. IsFiniteSet(DOMAIN wk.timers)
  BY <1>2, FS_EmptySet
<1>5. /\ 0 \in 0..MaxPath /\ 0 \in 0..MaxMishaps + 1
      /\ wk.queue \in Seq([id : Nat, task : WTask])
  BY <1>1, WalkingAssumption
<1>6. <<>> \in Timers /\ <<>> \in Seq([id : Nat, task : WTask])
  BY <1>1, <1>3
<1>7. wk \in WalkState
  BY <1>5, <1>6 DEF WalkingInit, WalkState
<1>8. \A r : ~InQueue(wk, r) /\ ~InTimers(wk, r)
  BY <1>2 DEF InQueue, InTimers
<1>9. Once(wk)
  BY <1>1, <1>2, <1>8, WalkingAssumption DEF Once, Single
<1>10. Named(wk) /\ Alive(wk)
  BY <1>1, <1>2 DEF Named, Alive
<1> QED
  BY <1>4, <1>7, <1>9, <1>10 DEF WalkInv, Kept, Typed

LEMMA WalkingStep ==
  ASSUME WalkInv, [WalkingNext]_wk
  PROVE  WalkInv' /\ (StrandedIn(wk') => StrandedIn(wk) \/ Excused(wk'))
<1>1. ASSUME Well(wk, wk')
      PROVE  WalkInv' /\ (StrandedIn(wk') => StrandedIn(wk) \/ Excused(wk'))
  BY <1>1 DEF Well, WalkInv, Kept, Typed, Once, Single, InQueue, InTimers, Named, Alive
<1>2. CASE RunTask
  BY <1>1, <1>2, RunTaskWell
<1>3. CASE HandOver
  BY <1>1, <1>3, EventExpiresWell DEF HandOver
<1>4. ASSUME NEW r \in Request, Ask(r) PROVE Well(wk, wk')
  BY <1>4, AskWell
<1>5. CASE PlayerMove
  BY <1>1, <1>5, PlayerMoveWell
<1>6. CASE PlayerStopAutoWalk \/ SetMovementBlocked \/ Unfollow \/ Rests \/ MayAct
  BY <1>1, <1>6, SmallStepsWell
<1>7. CASE SetFollowCreature
  BY <1>1, <1>7, SetFollowCreatureWell
<1>8. CASE GoToFollowCreature
  BY <1>1, <1>8, GoToFollowCreatureWell
<1>9. CASE Teleport
  BY <1>1, <1>9, TeleportWell
<1>10. CASE SetSpeedToNothing
  BY <1>1, <1>10, SetSpeedToNothingWell
<1>11. CASE SetSpeedAgain
  BY <1>1, <1>11, SetSpeedAgainWell
<1>12. CASE Dies
  BY <1>1, <1>12, DiesWell
<1>13. CASE ExecutesDeath
  BY <1>1, <1>13, ExecutesDeathWell
<1>14. CASE UNCHANGED wk
  <2>1. Kept(wk) /\ Alive(wk)
    BY DEF WalkInv
  <2>2. Well(wk, wk')
    BY <1>14, <2>1 DEF Well
  <2> QED
    BY <1>1, <2>2
<1> QED
  BY <1>1, <1>2, <1>3, <1>4, <1>5, <1>6, <1>7, <1>8, <1>9, <1>10, <1>11, <1>12, <1>13, <1>14
     DEF WalkingNext

\* WalkInOrder, of the invariant.
LEMMA WalkInvSuffices == ASSUME WalkInv PROVE WalkInOrder
<1>1. Typed(wk) /\ Once(wk) /\ wk \in WalkState /\ Alive(wk)
  BY DEF WalkInv, Kept, Typed
<1>2. WalkingTypeOK
  <2>1. wk.timers \in Timers
    BY <1>1 DEF WalkState
  <2>2. DOMAIN wk.timers \subseteq Nat \ {0}
    BY <2>1, TimersAre
  <2> QED
    BY <1>1, <2>2 DEF WalkingTypeOK, WalkState
<1>3. wk.queue \in Seq([id : Nat, task : WTask])
  BY <1>1 DEF WalkState
<1>4. DOMAIN wk.queue = 1..Len(wk.queue)
  BY <1>3
<1>5. PutOffOnce
  <2> SUFFICES ASSUME NEW r \in Request
               PROVE  Carriers(r) + Cardinality({r} \cap wk.done) <= 1
    BY DEF PutOffOnce
  <2> DEFINE Q == Queued(Act(r))
             A == Armed(Act(r))
             D == {r} \cap wk.done
  <2>1. Single(wk, r)
    BY <1>1 DEF Once
  <2>2. ASSUME NEW S, \A a, b \in S : a = b
        PROVE  Cardinality(S) = IF S = {} THEN 0 ELSE 1
    <3>1. CASE S = {}
      BY <3>1, FS_EmptySet
    <3>2. CASE S # {}
      <4>1. PICK a : a \in S
        BY <3>2
      <4>2. S = {a}
        BY <2>2, <4>1
      <4> QED
        BY <3>2, <4>2, FS_Singleton
    <3> QED
      BY <3>1, <3>2
  <2>3. Cardinality(Q) = (IF Q = {} THEN 0 ELSE 1) /\ (Q # {} <=> InQueue(wk, r))
    <3>1. \A a, b \in Q : a = b
      BY <1>4, <2>1 DEF Queued, Single
    <3>2. Q # {} <=> InQueue(wk, r)
      BY <1>4 DEF Queued, InQueue
    <3> QED
      BY <2>2, <3>1, <3>2
  <2>4. Cardinality(A) = (IF A = {} THEN 0 ELSE 1) /\ (A # {} <=> InTimers(wk, r))
    <3>1. \A a, b \in A : a = b
      BY <2>1 DEF Armed, Single
    <3>2. A # {} <=> InTimers(wk, r)
      BY DEF Armed, InTimers
    <3> QED
      BY <2>2, <3>1, <3>2
  <2>5. Cardinality(D) = (IF D = {} THEN 0 ELSE 1) /\ (D # {} <=> r \in wk.done)
    <3>1. \A a, b \in D : a = b
      OBVIOUS
    <3> QED
      BY <2>2, <3>1
  <2>6. Carriers(r) = Cardinality(Q) + Cardinality(A) + (IF wk.task = r THEN 1 ELSE 0)
    BY DEF Carriers
  <2> HIDE DEF Q, A, D
  <2> QED
    BY <2>1, <2>3, <2>4, <2>5, <2>6 DEF Single, D
<1>6. WalkEventIsAlive
  BY <1>1, <1>4 DEF WalkEventIsAlive, Alive
<1> QED
  BY <1>2, <1>5, <1>6 DEF WalkInOrder

\* Stranded is StrandedIn of the state.
LEMMA StrandedIs == ASSUME WalkInv PROVE Stranded <=> StrandedIn(wk)
<1>1. wk.queue \in Seq([id : Nat, task : WTask])
  BY DEF WalkInv, Kept, Typed, WalkState
<1>2. DOMAIN wk.queue = 1..Len(wk.queue)
  BY <1>1
<1> QED
  BY <1>2 DEF Stranded, StrandedIn, Unled, Led, Queued

\* Whatever requests come, and however walks are refused, stopped, replaced or
\* cut short, an action that was put off is in one place and is done once, and
\* a creature that remembers a walk event has one that will be run
\* (creature.cpp:1388-1440, player.cpp:3095-3181, game.cpp:730-1160).
THEOREM ActionsAreDoneOnce == WalkingSpec => []WalkInOrder
<1>1. WalkingInit => WalkInv
  BY WalkingInitially
<1>2. WalkInv /\ [WalkingNext]_wk => WalkInv'
  BY WalkingStep
<1>3. WalkInv => WalkInOrder
  BY WalkInvSuffices
<1> QED
  BY <1>1, <1>2, <1>3, PTL DEF WalkingSpec

\* A step that leaves an action waiting for a walk that nothing will complete
\* is one that finds the player unable to walk, moves it or kills it: no
\* handler and no task of a walk forgets to complete or to abort it.
THEOREM NoActionIsForgotten == WalkingSpec => StrandedForAReason
<1>1. WalkingInit => WalkInv
  BY WalkingInitially
<1>2. WalkInv /\ [WalkingNext]_wk => WalkInv'
  BY WalkingStep
<1>3. WalkInv /\ WalkInv' /\ [WalkingNext]_wk
        => [Stranded' /\ ~Stranded => wk'.blocked \/ wk'.frozen \/ wk'.thrown \/ wk'.dying]_wk
  <2> SUFFICES ASSUME WalkInv, WalkInv', [WalkingNext]_wk, Stranded', ~Stranded
               PROVE  wk'.blocked \/ wk'.frozen \/ wk'.thrown \/ wk'.dying
    OBVIOUS
  <2>1. StrandedIn(wk') => StrandedIn(wk) \/ Excused(wk')
    BY WalkingStep
  <2>2. ~StrandedIn(wk)
    BY StrandedIs
  <2>3. StrandedIn(wk')
    <3>1. wk'.queue \in Seq([id : Nat, task : WTask])
      BY DEF WalkInv, Kept, Typed, WalkState
    <3>2. DOMAIN wk'.queue = 1..Len(wk'.queue)
      BY <3>1
    <3> QED
      BY <3>2 DEF Stranded, StrandedIn, Unled, Led, Queued
  <2> QED
    BY <2>1, <2>2, <2>3 DEF Excused
<1> QED
  BY <1>1, <1>2, <1>3, PTL DEF WalkingSpec, StrandedForAReason

-----------------------------------------------------------------------------
(* The raids *)

\* The fields of a state, of a check event and of a raid event.
RaidRecord(r) ==
  r = [open |-> r.open, started |-> r.started, loads |-> r.loads, list |-> r.list,
       deleted |-> r.deleted, running |-> r.running, nextEvent |-> r.nextEvent,
       checks |-> r.checks, chains |-> r.chains, late |-> r.late, stray |-> r.stray]
CheckRecord(e) == e = [id |-> e.id, posted |-> e.posted, known |-> e.known]
ChainRecord(c) ==
  c = [id |-> c.id, raid |-> c.raid, event |-> c.event, posted |-> c.posted, known |-> c.known]

\* One check event, which is known; one event of the running raid, if it has
\* any, which is known, too, and the next.
OneCheck(r) == \E e \in r.checks : r.checks = {e} /\ e.known = TRUE /\ CheckRecord(e)

HasEvents(r) == r.running # NoRaid /\ Length[r.running[1]] # 0

NextOf(r, c) == /\ c.known = TRUE /\ c.raid = r.running /\ c.event = r.nextEvent[c.raid]
                /\ c.raid \notin r.deleted /\ ChainRecord(c)

OneChain(r) == IF HasEvents(r) THEN \E c \in r.chains : r.chains = {c} /\ NextOf(r, c)
               ELSE r.chains = {}

\* The raids that may start are new: neither deleted nor begun.
Unbegun(r) ==
  /\ r.nextEvent \in [RaidObject -> Nat]
  /\ r.running \in RaidObject \cup {NoRaid}
  /\ \A o \in r.list : /\ o \in RaidObject \ r.deleted /\ o[2] = r.loads
                       /\ o # r.running => r.nextEvent[o] = 0
  /\ \A o \in RaidObject : o[2] > r.loads => r.nextEvent[o] = 0 /\ o \notin r.deleted /\ o # r.running
  /\ r.loads \in 1..MaxLoads

RaidSound(r) ==
  r.late = FALSE => /\ r.started => OneCheck(r)
                    /\ r.stray = FALSE => OneChain(r) /\ Unbegun(r)

\* Late and stray are late and stray for ever.
RaidInv == RaidRecord(raid) /\ raid.late \in BOOLEAN /\ raid.stray \in BOOLEAN /\ RaidSound(raid)

LEMMA ObjectIsNot == \A o \in RaidObject : o # NoRaid /\ o[1] \in RaidName /\ o[2] \in 1..MaxLoads
  BY DEF RaidObject, NoRaid

\* t is s but for the next event of o, the only one, which is scheduled.
NextScheduled(s, t, o) ==
  /\ RaidRecord(t) /\ t.open = s.open /\ t.started = s.started /\ t.loads = s.loads
  /\ t.list = s.list /\ t.deleted = s.deleted /\ t.running = s.running
  /\ t.nextEvent = s.nextEvent /\ t.checks = s.checks /\ t.late = s.late /\ t.stray = s.stray
  /\ \E c \in t.chains : /\ t.chains = {c} /\ ChainRecord(c) /\ c.known = TRUE
                         /\ c.raid = o /\ c.event = s.nextEvent[o]

LEMMA Scheduled ==
  ASSUME NEW s, RaidRecord(s), s.chains = {}, NEW o
  PROVE  NextScheduled(s, Schedule(s, o), o)
<1> DEFINE c == [id |-> FreeId(s.chains), raid |-> o, event |-> s.nextEvent[o],
                 posted |-> FALSE, known |-> TRUE]
           ch == {IF b.raid = o THEN [b EXCEPT !.known = FALSE] ELSE b : b \in s.chains} \cup {c}
           t == Schedule(s, o)
<1>1. t = [s EXCEPT !.chains = ch]
  BY DEF Schedule
<1>2. ch = {c}
  OBVIOUS
<1>3. ChainRecord(c) /\ c.known = TRUE /\ c.raid = o /\ c.event = s.nextEvent[o]
  BY DEF ChainRecord
<1> HIDE DEF c, ch, t
<1>4. /\ t.open = s.open /\ t.started = s.started /\ t.loads = s.loads
      /\ t.list = s.list /\ t.deleted = s.deleted /\ t.running = s.running
      /\ t.nextEvent = s.nextEvent /\ t.checks = s.checks /\ t.late = s.late /\ t.stray = s.stray
      /\ t.chains = {c}
  BY <1>1, <1>2 DEF RaidRecord
<1>5. RaidRecord(t)
  BY <1>1 DEF RaidRecord
<1>6. \E b \in t.chains : /\ t.chains = {b} /\ ChainRecord(b) /\ b.known = TRUE
                          /\ b.raid = o /\ b.event = s.nextEvent[o]
  BY <1>3, <1>4
<1>7. NextScheduled(s, t, o)
  BY <1>4, <1>5, <1>6 DEF NextScheduled
<1> QED BY <1>7 DEF t

\* A raid that has not begun starts, no other one running.
RaidStarted(s, t, o) ==
  /\ RaidRecord(t) /\ OneChain(t) /\ Unbegun(t)
  /\ t.open = s.open /\ t.started = s.started /\ t.list = s.list /\ t.deleted = s.deleted
  /\ t.running = o /\ t.loads = s.loads /\ t.nextEvent = s.nextEvent
  /\ t.checks = s.checks /\ t.late = s.late /\ t.stray = s.stray

LEMMA StartRaidKeeps ==
  ASSUME NEW s, RaidRecord(s), s.running = NoRaid, OneChain(s), Unbegun(s), NEW o \in s.list
  PROVE  RaidStarted(s, StartRaid(s, o), o)
<1> DEFINE u == [s EXCEPT !.running = o]
           t == StartRaid(s, o)
<1>1. o \in RaidObject /\ o \notin s.deleted /\ s.nextEvent[o] = 0 /\ o # NoRaid
  BY ObjectIsNot DEF Unbegun
<1>2. Length[o[1]] \in Nat
  BY <1>1, ObjectIsNot, RaidsAssumption
<1>3. /\ RaidRecord(u) /\ u.running = o /\ u.open = s.open /\ u.started = s.started
      /\ u.loads = s.loads /\ u.list = s.list /\ u.deleted = s.deleted
      /\ u.nextEvent = s.nextEvent /\ u.checks = s.checks /\ u.late = s.late
      /\ u.stray = s.stray /\ u.chains = s.chains
  BY DEF RaidRecord
<1>4. s.chains = {}
  BY DEF OneChain, HasEvents
<1>5. t = IF HasNext(u, o) THEN Schedule(u, o) ELSE u
  BY DEF StartRaid
<1>6. HasNext(u, o) <=> Length[o[1]] # 0
  BY <1>1, <1>2, <1>3 DEF HasNext
<1> HIDE DEF u, t
<1>7. /\ RaidRecord(t) /\ t.open = s.open /\ t.started = s.started /\ t.list = s.list
      /\ t.deleted = s.deleted /\ t.running = o /\ t.loads = s.loads
      /\ t.nextEvent = s.nextEvent /\ t.checks = s.checks /\ t.late = s.late /\ t.stray = s.stray
      /\ OneChain(t)
  <2>1. CASE HasNext(u, o)
    <3>1. u.chains = {} /\ RaidRecord(u) /\ t = Schedule(u, o)
      BY <1>3, <1>4, <1>5, <2>1
    <3>2. NextScheduled(u, t, o)
      BY <3>1, Scheduled
    <3> QED BY <1>1, <1>3, <1>6, <2>1, <3>2 DEF NextScheduled, OneChain, HasEvents, NextOf
  <2>2. CASE ~HasNext(u, o)
    BY <1>3, <1>4, <1>5, <1>6, <2>2 DEF OneChain, HasEvents
  <2> QED BY <2>1, <2>2
<1>8. Unbegun(t)
  <2>1. o[2] = s.loads /\ s.loads \in 1..MaxLoads
    BY DEF Unbegun
  <2>2. \A x \in s.list : x # NoRaid
    BY ObjectIsNot DEF Unbegun
  <2>3. \A x \in s.list : x \in RaidObject \ s.deleted /\ x[2] = s.loads /\ s.nextEvent[x] = 0
    BY <2>2 DEF Unbegun
  <2>4. \A x \in RaidObject : x[2] > s.loads => x # o
    BY <2>1
  <2> QED BY <1>1, <1>7, <2>1, <2>3, <2>4 DEF Unbegun
<1>9. RaidStarted(s, t, o)
  BY <1>7, <1>8 DEF RaidStarted
<1> QED BY <1>9 DEF t

-----------------------------------------------------------------------------
(* Whatever happens it is a state, and what was late or stray is. *)

Shaped(s, t) == RaidRecord(t) /\ t.late = s.late /\ t.stray = s.stray

LEMMA OperationsShape ==
  ASSUME NEW s, RaidRecord(s), NEW o
  PROVE  /\ Shaped(s, Schedule(s, o)) /\ Shaped(s, StartRaid(s, o))
         /\ Shaped(s, ScheduleCheck(s)) /\ Shaped(s, ResetRaid(s, o))
         /\ \A x : Shaped(s, [s EXCEPT !.list = x]) /\ Shaped(s, [s EXCEPT !.checks = x])
                   /\ Shaped(s, [s EXCEPT !.chains = x]) /\ Shaped(s, [s EXCEPT !.running = x])
                   /\ Shaped(s, [s EXCEPT !.nextEvent = x])
<1>1. \A x : /\ Shaped(s, [s EXCEPT !.list = x]) /\ Shaped(s, [s EXCEPT !.checks = x])
             /\ Shaped(s, [s EXCEPT !.chains = x]) /\ Shaped(s, [s EXCEPT !.running = x])
             /\ Shaped(s, [s EXCEPT !.nextEvent = x])
  BY DEF Shaped, RaidRecord
<1>2. ASSUME NEW u, RaidRecord(u) PROVE Shaped(u, Schedule(u, o))
  BY <1>2 DEF Schedule, Shaped, RaidRecord
<1>3. Shaped(s, StartRaid(s, o))
  <2> DEFINE u == [s EXCEPT !.running = o]
  <2>1. Shaped(s, u)
    BY <1>1
  <2>2. StartRaid(s, o) = u \/ StartRaid(s, o) = Schedule(u, o)
    BY DEF StartRaid
  <2> HIDE DEF u
  <2> QED BY <1>2, <2>1, <2>2 DEF Shaped
<1>4. Shaped(s, ScheduleCheck(s))
  BY DEF ScheduleCheck, Shaped, RaidRecord
<1>5. Shaped(s, ResetRaid(s, o))
  <2> DEFINE n == [s.nextEvent EXCEPT ![o] = 0]
  <2>1. ResetRaid(s, o) = [s EXCEPT !.nextEvent = n, !.running = NoRaid]
    BY DEF ResetRaid
  <2> HIDE DEF n
  <2> QED BY <2>1 DEF Shaped, RaidRecord
<1> QED BY <1>1, <1>2, <1>3, <1>4, <1>5

\* What was late before stays so: nothing more is to be shown then.
LEMMA ShapedIsEnough ==
  ASSUME RaidInv, NEW t, Shaped(raid, t),
         raid.late = FALSE /\ t.started => OneCheck(t),
         raid.late = FALSE /\ raid.stray = FALSE => OneChain(t) /\ Unbegun(t)
  PROVE  RaidRecord(t) /\ t.late \in BOOLEAN /\ t.stray \in BOOLEAN /\ RaidSound(t)
  BY DEF RaidInv, Shaped, RaidSound

-----------------------------------------------------------------------------
(* The actions *)

\* The check event that was handed over schedules the next.
LEMMA ScheduledCheck ==
  ASSUME NEW s, RaidRecord(s), s.checks = {}
  PROVE  LET t == ScheduleCheck(s) IN
         /\ RaidRecord(t) /\ OneCheck(t) /\ t.open = s.open /\ t.started = s.started
         /\ t.loads = s.loads /\ t.list = s.list /\ t.deleted = s.deleted /\ t.running = s.running
         /\ t.nextEvent = s.nextEvent /\ t.chains = s.chains /\ t.late = s.late /\ t.stray = s.stray
<1> DEFINE e == [id |-> FreeId(s.checks), posted |-> FALSE, known |-> TRUE]
           ch == Unknown(s.checks) \cup {e}
           t == ScheduleCheck(s)
<1>1. t = [s EXCEPT !.checks = ch]
  BY DEF ScheduleCheck
<1>2. ch = {e}
  BY DEF Unknown
<1>3. CheckRecord(e) /\ e.known = TRUE
  BY DEF CheckRecord
<1> HIDE DEF e, ch, t
<1>4. /\ RaidRecord(t) /\ t.open = s.open /\ t.started = s.started /\ t.loads = s.loads
      /\ t.list = s.list /\ t.deleted = s.deleted /\ t.running = s.running
      /\ t.nextEvent = s.nextEvent /\ t.chains = s.chains /\ t.late = s.late /\ t.stray = s.stray
      /\ t.checks = {e}
  BY <1>1, <1>2 DEF RaidRecord
<1>5. OneCheck(t)
  BY <1>3, <1>4 DEF OneCheck
<1> QED BY <1>4, <1>5 DEF t

\* A raid that leaves the list as it starts, or does not, is the running one.
LEMMA UnlistedKeeps ==
  ASSUME NEW s, RaidRecord(s), OneChain(s), Unbegun(s), NEW l \in SUBSET s.list
  PROVE  OneChain([s EXCEPT !.list = l]) /\ Unbegun([s EXCEPT !.list = l])
<1> DEFINE t == [s EXCEPT !.list = l]
<1>1. /\ t.loads = s.loads /\ t.list = l /\ t.deleted = s.deleted /\ t.running = s.running
      /\ t.nextEvent = s.nextEvent /\ t.chains = s.chains
  BY DEF RaidRecord
<1> HIDE DEF t
<1>2. OneChain(t) /\ Unbegun(t)
  BY <1>1 DEF OneChain, HasEvents, NextOf, Unbegun
<1> QED BY <1>2 DEF t

LEMMA CheckRaidsKeeps ==
  ASSUME RaidInv, CheckRaids
  PROVE  RaidInv'
<1>1. PICK e \in raid.checks : \E o \in Startable(raid) :
        e.posted /\ raid.open /\ raid' = CheckedRaids([raid EXCEPT !.checks = @ \ {e}], o)
  BY DEF CheckRaids
<1>2. PICK o \in Startable(raid) :
        e.posted /\ raid.open /\ raid' = CheckedRaids([raid EXCEPT !.checks = @ \ {e}], o)
  BY <1>1
<1> DEFINE s == [raid EXCEPT !.checks = raid.checks \ {e}]
           u == StartRaid(s, o)
           l == IF o[1] \in Repeated THEN u.list ELSE u.list \ {o}
           v == IF o = NoRaid THEN s ELSE [u EXCEPT !.list = l]
           t == raid'
<1>3. /\ Shaped(raid, s) /\ s.running = raid.running /\ s.list = raid.list /\ s.chains = raid.chains
      /\ s.deleted = raid.deleted /\ s.nextEvent = raid.nextEvent /\ s.loads = raid.loads
      /\ s.checks = raid.checks \ {e} /\ s.started = raid.started
  BY DEF RaidInv, RaidRecord, Shaped
<1>4. t = ScheduleCheck(v)
  BY <1>2 DEF CheckedRaids
<1>5. Shaped(s, u) /\ u.list \subseteq u.list /\ RaidRecord(s)
  BY <1>3, OperationsShape DEF Shaped
<1> HIDE DEF s, u, t
<1>6. Shaped(s, v)
  <2> HIDE DEF l
  <2>1. Shaped(u, [u EXCEPT !.list = l])
    BY <1>5, OperationsShape DEF Shaped
  <2> QED BY <1>5, <2>1 DEF Shaped
<1>7. Shaped(raid, t)
  <2> HIDE DEF v
  <2>1. Shaped(v, ScheduleCheck(v))
    BY <1>6, OperationsShape DEF Shaped
  <2> QED BY <1>3, <1>4, <1>6, <2>1 DEF Shaped
<1>8. ASSUME raid.late = FALSE, t.started PROVE OneCheck(t)
  <2>1. v.started = raid.started /\ v.checks = s.checks
    <3>1. u.started = s.started /\ u.checks = s.checks
      BY <1>5 DEF StartRaid, Schedule, RaidRecord, u
    <3> QED BY <1>3, <1>5, <3>1 DEF Shaped, RaidRecord
  <2> HIDE DEF v
  <2>2. t.started = v.started
    BY <1>4, <1>6 DEF ScheduleCheck, Shaped, RaidRecord
  <2>3. OneCheck(raid)
    BY <1>8, <2>1, <2>2 DEF RaidInv, RaidSound
  <2>4. v.checks = {}
    BY <1>3, <2>1, <2>3 DEF OneCheck
  <2> QED BY <1>4, <1>6, <2>4, ScheduledCheck DEF Shaped
<1>9. ASSUME raid.late = FALSE, raid.stray = FALSE PROVE OneChain(t) /\ Unbegun(t)
  <2>1. OneChain(raid) /\ Unbegun(raid)
    BY <1>9 DEF RaidInv, RaidSound
  <2>2. OneChain(s) /\ Unbegun(s)
    BY <1>3, <2>1 DEF OneChain, HasEvents, NextOf, Unbegun
  <2>3. OneChain(v) /\ Unbegun(v)
    <3>1. CASE o = NoRaid
      BY <2>2, <3>1
    <3>2. CASE o # NoRaid
      <4>1. raid.running = NoRaid /\ o \in s.list
        BY <1>2, <1>3, <3>2 DEF Startable
      <4>2. RaidStarted(s, u, o)
        BY <1>3, <1>5, <2>2, <4>1, StartRaidKeeps DEF u
      <4>3. l \in SUBSET u.list
        OBVIOUS
      <4>4. RaidRecord(u) /\ OneChain(u) /\ Unbegun(u)
        BY <4>2 DEF RaidStarted
      <4> HIDE DEF l
      <4>5. OneChain([u EXCEPT !.list = l]) /\ Unbegun([u EXCEPT !.list = l])
        BY <4>3, <4>4, UnlistedKeeps
      <4> QED BY <3>2, <4>5
    <3> QED BY <3>1, <3>2
  <2> HIDE DEF v
  <2>4. /\ t.running = v.running /\ t.list = v.list /\ t.chains = v.chains
        /\ t.deleted = v.deleted /\ t.nextEvent = v.nextEvent /\ t.loads = v.loads
    BY <1>4, <1>6 DEF ScheduleCheck, Shaped, RaidRecord
  <2> QED BY <2>3, <2>4 DEF OneChain, HasEvents, NextOf, Unbegun
<1>10. RaidRecord(t) /\ t.late \in BOOLEAN /\ t.stray \in BOOLEAN /\ RaidSound(t)
  BY <1>7, <1>8, <1>9, ShapedIsEnough
<1> QED BY <1>10 DEF t, RaidInv

LEMMA ScriptStartsRaidKeeps ==
  ASSUME RaidInv, ScriptStartsRaid
  PROVE  RaidInv'
<1>1. PICK o \in raid.list : raid.running = NoRaid /\ raid' = StartRaid(raid, o)
  BY DEF ScriptStartsRaid
<1> DEFINE t == StartRaid(raid, o)
<1>2. Shaped(raid, t)
  BY OperationsShape DEF RaidInv
<1>3. ASSUME raid.late = FALSE, t.started PROVE OneCheck(t)
  <2>1. t.started = raid.started /\ t.checks = raid.checks
    BY DEF StartRaid, Schedule, RaidRecord, RaidInv
  <2> HIDE DEF t
  <2> QED BY <1>3, <2>1 DEF RaidInv, RaidSound, OneCheck
<1>4. ASSUME raid.late = FALSE, raid.stray = FALSE PROVE OneChain(t) /\ Unbegun(t)
  <2>1. RaidRecord(raid) /\ OneChain(raid) /\ Unbegun(raid)
    BY <1>4 DEF RaidInv, RaidSound
  <2>2. RaidStarted(raid, t, o)
    BY <1>1, <2>1, StartRaidKeeps
  <2> QED BY <2>2 DEF RaidStarted
<1> HIDE DEF t
<1>5. RaidRecord(t) /\ t.late \in BOOLEAN /\ t.stray \in BOOLEAN /\ RaidSound(t)
  BY <1>2, <1>3, <1>4, ShapedIsEnough
<1>6. raid' = t
  BY <1>1 DEF t
<1> QED BY <1>5, <1>6 DEF RaidInv

\* The event that was handed over is executed: it fails, is the last, or
\* schedules the next.
LEMMA ExecuteRaidEventKeeps ==
  ASSUME RaidInv, ExecuteRaidEvent
  PROVE  RaidInv'
<1>1. PICK c \in raid.chains, ok \in BOOLEAN :
        /\ c.raid \notin raid.deleted
        /\ raid' = Executed([raid EXCEPT !.chains = @ \ {c}], c.raid, ok)
  BY DEF ExecuteRaidEvent
<1> DEFINE o == c.raid
           s == [raid EXCEPT !.chains = raid.chains \ {c}]
           n == [s.nextEvent EXCEPT ![o] = @ + 1]
           u == [s EXCEPT !.nextEvent = n]
           w == IF ok THEN u ELSE s
           t == raid'
<1>2. /\ RaidRecord(raid) /\ Shaped(raid, s) /\ s.running = raid.running /\ s.list = raid.list
      /\ s.chains = raid.chains \ {c} /\ s.deleted = raid.deleted /\ s.nextEvent = raid.nextEvent
      /\ s.loads = raid.loads /\ s.checks = raid.checks /\ s.started = raid.started
  BY DEF RaidInv, RaidRecord, Shaped
<1>3. t = IF ok /\ HasNext(u, o) THEN Schedule(u, o) ELSE ResetRaid(w, o)
  BY <1>1 DEF Executed
<1> HIDE DEF s
<1>4. /\ Shaped(raid, u) /\ u.running = s.running /\ u.list = s.list /\ u.chains = s.chains
      /\ u.deleted = s.deleted /\ u.nextEvent = n /\ u.loads = s.loads
      /\ u.checks = s.checks /\ u.started = s.started
  <2> HIDE DEF n
  <2> QED BY <1>2 DEF Shaped, RaidRecord
<1> HIDE DEF u, t, n
<1>5. /\ Shaped(raid, w) /\ w.running = raid.running /\ w.list = raid.list
      /\ w.chains = raid.chains \ {c} /\ w.deleted = raid.deleted /\ w.loads = raid.loads
      /\ w.checks = raid.checks /\ w.started = raid.started
      /\ w.nextEvent = n \/ w.nextEvent = raid.nextEvent
  BY <1>2, <1>4
<1> HIDE DEF w
<1>6. Shaped(raid, t) /\ t.checks = raid.checks /\ t.started = raid.started
  <2>1. Shaped(u, Schedule(u, o)) /\ Shaped(w, ResetRaid(w, o))
    BY <1>4, <1>5, OperationsShape DEF Shaped
  <2>2. /\ Schedule(u, o).checks = u.checks /\ Schedule(u, o).started = u.started
        /\ ResetRaid(w, o).checks = w.checks /\ ResetRaid(w, o).started = w.started
    <3> DEFINE m == [w.nextEvent EXCEPT ![o] = 0]
    <3>1. ResetRaid(w, o) = [w EXCEPT !.nextEvent = m, !.running = NoRaid]
      BY DEF ResetRaid
    <3> HIDE DEF m
    <3> QED BY <1>4, <1>5, <3>1 DEF Schedule, Shaped, RaidRecord
  <2> QED BY <1>2, <1>3, <1>4, <1>5, <2>1, <2>2 DEF Shaped
<1>7. ASSUME raid.late = FALSE, t.started PROVE OneCheck(t)
  BY <1>6, <1>7 DEF RaidInv, RaidSound, OneCheck
<1>8. ASSUME raid.late = FALSE, raid.stray = FALSE PROVE OneChain(t) /\ Unbegun(t)
  <2>1. OneChain(raid) /\ Unbegun(raid)
    BY <1>8 DEF RaidInv, RaidSound
  <2>2. HasEvents(raid) /\ raid.chains = {c} /\ NextOf(raid, c)
    BY <1>1, <2>1 DEF OneChain
  <2>3. o = raid.running /\ o \in RaidObject /\ o # NoRaid /\ raid.chains \ {c} = {}
    BY <2>1, <2>2 DEF NextOf, HasEvents, Unbegun
  <2>4. /\ raid.nextEvent \in [RaidObject -> Nat] /\ n \in [RaidObject -> Nat]
        /\ \A x \in RaidObject : x # o => n[x] = raid.nextEvent[x]
    BY <1>2, <2>1, <2>3 DEF Unbegun, n
  <2>5. o[2] <= raid.loads /\ raid.loads \in 1..MaxLoads /\ o[2] \in 1..MaxLoads
    BY <2>1, <2>3, ObjectIsNot DEF Unbegun
  <2>6. CASE ok /\ HasNext(u, o)
    <3>1. u.chains = {} /\ RaidRecord(u) /\ t = Schedule(u, o)
      BY <1>2, <1>3, <1>4, <2>3, <2>6 DEF Shaped
    <3>2. NextScheduled(u, t, o)
      BY <3>1, Scheduled
    <3>3. HasEvents(t)
      BY <1>2, <1>4, <2>2, <3>2 DEF HasEvents, NextScheduled
    <3>4. OneChain(t)
      BY <1>1, <1>2, <1>4, <2>3, <3>2, <3>3 DEF OneChain, NextOf, NextScheduled
    <3>5. Unbegun(t)
      BY <1>2, <1>4, <2>1, <2>3, <2>4, <2>5, <3>2 DEF Unbegun, NextScheduled
    <3> QED BY <3>4, <3>5
  <2>7. CASE ~(ok /\ HasNext(u, o))
    <3> DEFINE m == [w.nextEvent EXCEPT ![o] = 0]
    <3>1. t = [w EXCEPT !.nextEvent = m, !.running = NoRaid]
      BY <1>3, <2>7 DEF ResetRaid
    <3>2. m \in [RaidObject -> Nat] /\ m[o] = 0 /\ \A x \in RaidObject : x # o => m[x] = raid.nextEvent[x]
      BY <1>5, <2>3, <2>4
    <3> HIDE DEF m
    <3>3. /\ t.running = NoRaid /\ t.nextEvent = m /\ t.list = raid.list /\ t.deleted = raid.deleted
          /\ t.chains = {} /\ t.loads = raid.loads
      BY <1>5, <2>3, <3>1 DEF Shaped, RaidRecord
    <3>4. OneChain(t)
      BY <3>3 DEF OneChain, HasEvents
    <3>5. \A x \in RaidObject : x # NoRaid
      BY ObjectIsNot
    <3>6. Unbegun(t)
      BY <2>1, <2>3, <3>2, <3>3, <3>5 DEF Unbegun
    <3> QED BY <3>4, <3>6
  <2> QED BY <2>6, <2>7
<1>9. RaidRecord(t) /\ t.late \in BOOLEAN /\ t.stray \in BOOLEAN /\ RaidSound(t)
  BY <1>6, <1>7, <1>8, ShapedIsEnough
<1> QED BY <1>9 DEF t, RaidInv

HandedOver(e, p) == [e EXCEPT !.posted = p]

LEMMA HandedOverIsTheSame ==
  ASSUME NEW e, NEW p
  PROVE  LET f == HandedOver(e, p) IN
         /\ CheckRecord(e) => CheckRecord(f) /\ f.known = e.known
         /\ ChainRecord(e) => ChainRecord(f) /\ f.known = e.known /\ f.raid = e.raid /\ f.event = e.event
  BY DEF HandedOver, CheckRecord, ChainRecord

\* The timer hands an event over; it is the same event.
LEMMA TimerHandsOverKeeps ==
  ASSUME RaidInv, TimerHandsOverCheck \/ TimerHandsOverEvent
  PROVE  RaidInv'
<1> DEFINE t == raid'
<1>1. CASE TimerHandsOverCheck
  <2>1. PICK e \in raid.checks :
          raid' = [raid EXCEPT !.checks = (@ \ {e}) \cup {[e EXCEPT !.posted = TRUE]}]
    BY <1>1 DEF TimerHandsOverCheck
  <2> DEFINE f == [e EXCEPT !.posted = TRUE]
             ch == (raid.checks \ {e}) \cup {f}
  <2>2. t = [raid EXCEPT !.checks = ch]
    BY <2>1
  <2> HIDE DEF t, ch
  <2>3. /\ Shaped(raid, t) /\ t.checks = ch /\ t.started = raid.started /\ t.chains = raid.chains
        /\ t.running = raid.running /\ t.nextEvent = raid.nextEvent /\ t.list = raid.list
        /\ t.deleted = raid.deleted /\ t.loads = raid.loads
    BY <2>2 DEF Shaped, RaidInv, RaidRecord
  <2>4. ASSUME raid.late = FALSE, t.started PROVE OneCheck(t)
    <3>1. OneCheck(raid)
      BY <2>3, <2>4 DEF RaidInv, RaidSound
    <3>2. raid.checks = {e} /\ e.known = TRUE /\ CheckRecord(e)
      BY <3>1 DEF OneCheck
    <3>3. CheckRecord(f) /\ f.known = TRUE
      <4>1. f = HandedOver(e, TRUE)
        BY DEF HandedOver
      <4>2. CheckRecord(HandedOver(e, TRUE)) /\ HandedOver(e, TRUE).known = e.known
        BY <3>2, HandedOverIsTheSame, Zenon
      <4> HIDE DEF f
      <4> QED BY <3>2, <4>1, <4>2, Zenon
    <3> HIDE DEF f
    <3>4. ch = {f}
      BY <3>2 DEF ch
    <3> QED BY <2>3, <3>3, <3>4 DEF OneCheck
  <2>5. ASSUME raid.late = FALSE, raid.stray = FALSE PROVE OneChain(t) /\ Unbegun(t)
    BY <2>3, <2>5 DEF RaidInv, RaidSound, OneChain, HasEvents, NextOf, Unbegun
  <2>6. RaidRecord(t) /\ t.late \in BOOLEAN /\ t.stray \in BOOLEAN /\ RaidSound(t)
    BY <2>3, <2>4, <2>5, ShapedIsEnough
  <2> QED BY <2>6 DEF t, RaidInv
<1>2. CASE TimerHandsOverEvent
  <2>1. PICK c \in raid.chains :
          raid' = [raid EXCEPT !.chains = (@ \ {c}) \cup {[c EXCEPT !.posted = TRUE]}]
    BY <1>2 DEF TimerHandsOverEvent
  <2> DEFINE d == [c EXCEPT !.posted = TRUE]
             ch == (raid.chains \ {c}) \cup {d}
  <2>2. t = [raid EXCEPT !.chains = ch]
    BY <2>1
  <2> HIDE DEF t, ch
  <2>3. /\ Shaped(raid, t) /\ t.checks = raid.checks /\ t.started = raid.started /\ t.chains = ch
        /\ t.running = raid.running /\ t.nextEvent = raid.nextEvent /\ t.list = raid.list
        /\ t.deleted = raid.deleted /\ t.loads = raid.loads
    BY <2>2 DEF Shaped, RaidInv, RaidRecord
  <2>4. ASSUME raid.late = FALSE, t.started PROVE OneCheck(t)
    BY <2>3, <2>4 DEF RaidInv, RaidSound, OneCheck
  <2>5. ASSUME raid.late = FALSE, raid.stray = FALSE PROVE OneChain(t) /\ Unbegun(t)
    <3>1. OneChain(raid) /\ Unbegun(raid)
      BY <2>5 DEF RaidInv, RaidSound
    <3>2. HasEvents(raid) /\ raid.chains = {c} /\ NextOf(raid, c)
      BY <3>1 DEF OneChain
    <3>3. ChainRecord(d) /\ d.known = TRUE /\ d.raid = c.raid /\ d.event = c.event
      <4>1. d = HandedOver(c, TRUE)
        BY DEF HandedOver
      <4>2. ChainRecord(c) /\ c.known = TRUE
        BY <3>2 DEF NextOf
      <4>3. /\ ChainRecord(HandedOver(c, TRUE)) /\ HandedOver(c, TRUE).known = c.known
            /\ HandedOver(c, TRUE).raid = c.raid /\ HandedOver(c, TRUE).event = c.event
        BY <4>2, HandedOverIsTheSame, Zenon
      <4> HIDE DEF d
      <4> QED BY <4>1, <4>2, <4>3, Zenon
    <3> HIDE DEF d
    <3>4. ch = {d}
      BY <3>2 DEF ch
    <3>5. HasEvents(t) /\ t.chains = {d} /\ NextOf(t, d)
      BY <2>3, <3>2, <3>3, <3>4 DEF HasEvents, NextOf
    <3>6. Unbegun(t)
      BY <2>3, <3>1 DEF Unbegun
    <3> QED BY <3>5, <3>6 DEF OneChain
  <2>6. RaidRecord(t) /\ t.late \in BOOLEAN /\ t.stray \in BOOLEAN /\ RaidSound(t)
    BY <2>3, <2>4, <2>5, ShapedIsEnough
  <2> QED BY <2>6 DEF t, RaidInv
<1> QED BY <1>1, <1>2

\* clear leaves nothing scheduled, unless something was late or stray.
Cleared(s, t) ==
  /\ RaidRecord(t) /\ t.late \in BOOLEAN /\ t.stray \in BOOLEAN
  /\ t.started = FALSE /\ t.running = NoRaid /\ t.list = {} /\ t.loads = s.loads
  /\ t.late = FALSE => s.late = FALSE /\ t.checks = {}
  /\ t.late = FALSE /\ t.stray = FALSE =>
       OneChain(t) /\ Unbegun(t) /\ \A o \in RaidObject : o[2] > s.loads => o \notin t.deleted

LEMMA ClearRaidsClears ==
  ASSUME RaidInv
  PROVE  Cleared(raid, ClearRaids(raid))
<1> DEFINE ch == raid.checks \ Stopped(raid.checks)
           s == [raid EXCEPT !.checks = ch]
           cn == s.chains \ Stopped({c \in s.chains : c.raid \in s.list})
           u == StopEvents(s)
           lt == u.late \/ u.checks # {} \/ \E c \in u.chains : c.posted /\ c.raid \in u.list
           st == u.stray \/ \E c \in u.chains : c.raid \notin u.list
           de == u.deleted \cup u.list
           t == ClearRaids(raid)
<1>1. t = [u EXCEPT !.late = lt, !.stray = st, !.deleted = de, !.list = {}, !.running = NoRaid,
                    !.started = FALSE]
  BY Zenon DEF ClearRaids
<1>2. u = [s EXCEPT !.chains = cn]
  BY Zenon DEF StopEvents
<1> HIDE DEF t, lt, st, de, cn, ch, u
<1>3. /\ RaidRecord(s) /\ s.open = raid.open /\ s.started = raid.started /\ s.loads = raid.loads
      /\ s.list = raid.list /\ s.deleted = raid.deleted /\ s.running = raid.running
      /\ s.nextEvent = raid.nextEvent /\ s.checks = ch /\ s.chains = raid.chains
      /\ s.late = raid.late /\ s.stray = raid.stray
  BY DEF RaidInv, RaidRecord
<1> HIDE DEF s
<1>4. /\ RaidRecord(u) /\ u.open = raid.open /\ u.started = raid.started /\ u.loads = raid.loads
      /\ u.list = raid.list /\ u.deleted = raid.deleted /\ u.running = raid.running
      /\ u.nextEvent = raid.nextEvent /\ u.checks = ch /\ u.chains = cn
      /\ u.late = raid.late /\ u.stray = raid.stray
  BY <1>2, <1>3 DEF RaidRecord
<1>5. t = [open |-> u.open, started |-> FALSE, loads |-> u.loads, list |-> {}, deleted |-> de,
           running |-> NoRaid, nextEvent |-> u.nextEvent, checks |-> u.checks,
           chains |-> u.chains, late |-> lt, stray |-> st]
  BY <1>1, <1>4 DEF RaidRecord
<1>6. /\ RaidRecord(t) /\ t.started = FALSE /\ t.running = NoRaid /\ t.list = {}
      /\ t.loads = raid.loads /\ t.deleted = de /\ t.nextEvent = raid.nextEvent
      /\ t.checks = ch /\ t.chains = cn /\ t.late = lt /\ t.stray = st
  BY <1>4, <1>5 DEF RaidRecord
<1>7. lt \in BOOLEAN /\ st \in BOOLEAN
  BY DEF lt, st
<1>8. lt = FALSE => /\ raid.late = FALSE /\ ch = {}
                    /\ \A c \in cn : ~c.posted \/ c.raid \notin raid.list
  BY <1>4, Zenon DEF lt, RaidInv
<1>9. st = FALSE => raid.stray = FALSE /\ \A c \in cn : c.raid \in raid.list
  BY <1>4, Zenon DEF st, RaidInv
<1>10. ASSUME lt = FALSE, st = FALSE
       PROVE  OneChain(t) /\ Unbegun(t) /\ \A o \in RaidObject : o[2] > raid.loads => o \notin t.deleted
  <2>1. OneChain(raid) /\ Unbegun(raid)
    BY <1>8, <1>9, <1>10 DEF RaidInv, RaidSound
  <2>2. \A c \in raid.chains : c.known = TRUE
    BY <2>1 DEF OneChain, NextOf
  <2>3. ASSUME NEW c \in cn PROVE FALSE
    <3>1. c \in raid.chains /\ c.raid \in raid.list /\ ~c.posted
      BY <1>3, <1>8, <1>9, <1>10, <2>3 DEF cn
    <3>2. c \in Stopped({d \in s.chains : d.raid \in s.list})
      BY <1>3, <2>2, <3>1 DEF Stopped
    <3> QED BY <2>3, <3>2 DEF cn
  <2>4. OneChain(t)
    BY <1>6, <2>3 DEF OneChain, HasEvents
  <2>5. \A o \in RaidObject : o # NoRaid
    BY ObjectIsNot
  <2>6. /\ raid.nextEvent \in [RaidObject -> Nat] /\ raid.loads \in 1..MaxLoads
        /\ \A o \in raid.list : o[2] = raid.loads
        /\ \A o \in RaidObject : o[2] > raid.loads => raid.nextEvent[o] = 0 /\ o \notin raid.deleted
    BY <2>1 DEF Unbegun
  <2>7. \A o \in RaidObject : o[2] > raid.loads => o \notin de
    BY <1>4, <2>6 DEF de
  <2>8. Unbegun(t)
    BY <1>6, <2>5, <2>6, <2>7 DEF Unbegun
  <2> QED BY <1>6, <2>4, <2>7, <2>8
<1>11. Cleared(raid, t)
  BY <1>6, <1>7, <1>8, <1>10 DEF Cleared
<1> QED BY <1>11 DEF t

LEMMA ReloadRaidsKeeps ==
  ASSUME RaidInv, ReloadRaids
  PROVE  RaidInv'
<1> DEFINE s == ClearRaids(raid)
           n == RaidName \X {s.loads + 1}
           u == [s EXCEPT !.loads = @ + 1, !.started = TRUE, !.list = n]
           t == raid'
<1>1. t = ScheduleCheck(u) /\ raid.loads < MaxLoads
  BY Zenon DEF ReloadRaids
<1>2. Cleared(raid, s)
  BY ClearRaidsClears
<1> DEFINE l1 == s.loads + 1
<1> HIDE DEF s, t, n, l1
<1>3a. u = [s EXCEPT !.loads = l1, !.started = TRUE, !.list = n]
  BY DEF l1
<1> HIDE DEF u
<1>3. /\ RaidRecord(u) /\ u.started = TRUE /\ u.loads = l1 /\ u.list = n
      /\ u.deleted = s.deleted /\ u.running = NoRaid /\ u.nextEvent = s.nextEvent
      /\ u.checks = s.checks /\ u.chains = s.chains /\ u.late = s.late /\ u.stray = s.stray
  BY <1>2, <1>3a DEF RaidRecord, Cleared
<1>4. Shaped(u, t)
  BY <1>1, <1>3, OperationsShape DEF Shaped
<1>5. ASSUME t.late = FALSE PROVE OneCheck(t)
  <2>1. u.checks = {}
    BY <1>2, <1>3, <1>4, <1>5 DEF Cleared, Shaped
  <2> QED BY <1>1, <1>3, <2>1, ScheduledCheck
<1>6. ASSUME t.late = FALSE, t.stray = FALSE PROVE OneChain(t) /\ Unbegun(t)
  <2>1. /\ OneChain(s) /\ Unbegun(s) /\ s.running = NoRaid /\ s.loads = raid.loads
        /\ \A o \in RaidObject : o[2] > raid.loads => o \notin s.deleted
    BY <1>2, <1>3, <1>4, <1>6 DEF Cleared, Shaped
  <2>2. /\ t.running = NoRaid /\ t.list = n /\ t.chains = s.chains
        /\ t.deleted = s.deleted /\ t.nextEvent = s.nextEvent /\ t.loads = s.loads + 1
    BY <1>1, <1>3 DEF ScheduleCheck, RaidRecord, l1
  <2>3. /\ raid.loads \in 1..MaxLoads /\ MaxLoads \in Nat /\ s.nextEvent \in [RaidObject -> Nat]
        /\ \A o \in RaidObject : o[2] > raid.loads => s.nextEvent[o] = 0 /\ o \notin s.deleted
    BY <2>1, RaidsAssumption DEF Unbegun
  <2>4. t.loads \in 1..MaxLoads
    BY <1>1, <2>1, <2>2, <2>3
  <2>5. \A o \in n : o \in RaidObject /\ o[2] = t.loads
    BY <2>1, <2>2, <2>4 DEF n, RaidObject
  <2>6. \A o \in n : o[2] > raid.loads
    BY <2>1, <2>2, <2>3, <2>5
  <2>7. \A o \in RaidObject : o # NoRaid /\ o[2] \in 1..MaxLoads
    BY ObjectIsNot
  <2>8. \A o \in RaidObject : o[2] > t.loads => o[2] > raid.loads
    BY <2>1, <2>2, <2>3, <2>7
  <2>9. Unbegun(t)
    BY <2>2, <2>3, <2>4, <2>5, <2>6, <2>7, <2>8 DEF Unbegun
  <2>10. OneChain(t)
    BY <2>1, <2>2 DEF OneChain, HasEvents
  <2> QED BY <2>9, <2>10
<1>7. RaidRecord(t) /\ t.late \in BOOLEAN /\ t.stray \in BOOLEAN
  BY <1>2, <1>3, <1>4 DEF Shaped, Cleared
<1> QED BY <1>5, <1>6, <1>7 DEF t, RaidInv, RaidSound

LEMMA ShutdownRaidsKeeps ==
  ASSUME RaidInv, ShutdownRaids
  PROVE  RaidInv'
<1> DEFINE s == ClearRaids(raid)
           t == raid'
<1>1. t = [s EXCEPT !.open = FALSE]
  BY DEF ShutdownRaids
<1>2. Cleared(raid, s)
  BY ClearRaidsClears
<1> HIDE DEF s, t
<1>3. /\ Shaped(s, t) /\ t.started = FALSE /\ t.loads = s.loads /\ t.list = s.list
      /\ t.deleted = s.deleted /\ t.running = s.running /\ t.nextEvent = s.nextEvent
      /\ t.chains = s.chains
  BY <1>1, <1>2 DEF RaidRecord, Shaped, Cleared
<1>4. ASSUME t.late = FALSE, t.stray = FALSE PROVE OneChain(t) /\ Unbegun(t)
  <2>1. OneChain(s) /\ Unbegun(s)
    BY <1>2, <1>3, <1>4 DEF Cleared, Shaped
  <2> QED BY <1>3, <2>1 DEF OneChain, HasEvents, NextOf, Unbegun
<1>5. RaidRecord(t) /\ t.late \in BOOLEAN /\ t.stray \in BOOLEAN
  BY <1>2, <1>3 DEF Shaped, Cleared
<1> QED BY <1>3, <1>4, <1>5 DEF t, RaidInv, RaidSound

-----------------------------------------------------------------------------

LEMMA RaidsInitInv ==
  ASSUME RaidsInit
  PROVE  RaidInv
<1> DEFINE e == [id |-> 1, posted |-> FALSE, known |-> TRUE]
           z == [o \in RaidObject |-> 0]
<1>1. raid = [open |-> TRUE, started |-> TRUE, loads |-> 1, list |-> RaidName \X {1},
              deleted |-> {}, running |-> NoRaid, nextEvent |-> z, checks |-> {e}, chains |-> {},
              late |-> FALSE, stray |-> FALSE]
  BY DEF RaidsInit
<1>2. CheckRecord(e) /\ e.known = TRUE
  BY DEF CheckRecord
<1>3. z \in [RaidObject -> Nat] /\ \A o \in RaidObject : z[o] = 0
  OBVIOUS
<1> HIDE DEF e, z
<1>4. /\ RaidRecord(raid) /\ raid.loads = 1 /\ raid.list = RaidName \X {1} /\ raid.deleted = {}
      /\ raid.running = NoRaid /\ raid.nextEvent = z /\ raid.checks = {e} /\ raid.chains = {}
      /\ raid.late = FALSE /\ raid.stray = FALSE
  BY <1>1 DEF RaidRecord
<1>5. OneCheck(raid) /\ OneChain(raid)
  BY <1>2, <1>4 DEF OneCheck, OneChain, HasEvents
<1>6. 1 \in 1..MaxLoads
  BY RaidsAssumption
<1>7. \A o \in RaidName \X {1} : o \in RaidObject /\ o[2] = 1
  BY <1>6 DEF RaidObject
<1>8. \A o \in RaidObject : o # NoRaid
  BY ObjectIsNot
<1>9. Unbegun(raid)
  BY <1>3, <1>4, <1>6, <1>7, <1>8 DEF Unbegun
<1> QED BY <1>4, <1>5, <1>9 DEF RaidInv, RaidSound

LEMMA RaidInductive ==
  ASSUME RaidInv, [RaidsNext]_raid
  PROVE  RaidInv'
<1>1. CASE CheckRaids
  BY <1>1, CheckRaidsKeeps
<1>2. CASE ScriptStartsRaid
  BY <1>2, ScriptStartsRaidKeeps
<1>3. CASE ExecuteRaidEvent
  BY <1>3, ExecuteRaidEventKeeps
<1>4. CASE TimerHandsOverCheck \/ TimerHandsOverEvent
  BY <1>4, TimerHandsOverKeeps
<1>5. CASE ReloadRaids
  BY <1>5, ReloadRaidsKeeps
<1>6. CASE ShutdownRaids
  BY <1>6, ShutdownRaidsKeeps
<1>7. CASE UNCHANGED raid
  BY <1>7 DEF RaidInv, RaidSound, RaidRecord, OneCheck, CheckRecord, OneChain, NextOf, ChainRecord,
              HasEvents, Unbegun
<1> QED BY <1>1, <1>2, <1>3, <1>4, <1>5, <1>6, <1>7 DEF RaidsNext

LEMMA RaidInvSuffices ==
  ASSUME RaidInv
  PROVE  OneRaidAtATime
<1>1. SUFFICES ASSUME ~raid.late
               PROVE  /\ raid.started => \E e \in raid.checks : raid.checks = {e} /\ e.known
                      /\ raid.stray \/ IF raid.running = NoRaid \/ Length[raid.running[1]] = 0
                           THEN raid.chains = {}
                           ELSE \E c \in raid.chains :
                                  /\ raid.chains = {c} /\ c.known /\ c.raid = raid.running
                                  /\ c.event = raid.nextEvent[c.raid] /\ c.raid \notin raid.deleted
  BY DEF OneRaidAtATime
<1>2. raid.late = FALSE
  BY <1>1 DEF RaidInv
<1>3. raid.started => OneCheck(raid)
  BY <1>2 DEF RaidInv, RaidSound
<1>4. raid.stray \/ OneChain(raid)
  BY <1>2 DEF RaidInv, RaidSound
<1> QED BY <1>3, <1>4 DEF OneCheck, OneChain, HasEvents, NextOf

\* Raids are checked by one chain of events and at most one raid is under way,
\* as long as clear was neither late nor passed a raid by.
THEOREM OneRaid == RaidsSpec => []OneRaidAtATime
<1>1. RaidsInit => RaidInv
  BY RaidsInitInv
<1>2. RaidInv /\ [RaidsNext]_raid => RaidInv'
  BY RaidInductive
<1>3. RaidInv => OneRaidAtATime
  BY RaidInvSuffices
<1> QED BY <1>1, <1>2, <1>3, PTL DEF RaidsSpec

-----------------------------------------------------------------------------
(* A spawn *)

SpawnState ==
  [open : BOOLEAN, started : BOOLEAN, stage : [Monster -> {"none", "live", "removed"}],
   held : [Monster -> Block \cup {Away, Unheld}], owned : SUBSET Monster, outside : SUBSET Monster,
   elapsed : SUBSET Block, barred : SUBSET Block, eventId : BOOLEAN, timers : Nat, posted : Nat,
   skipped : SUBSET Block]

\* Who is held is owned and exists, and no block is held by two.
HeldWell(s) ==
  /\ s.owned = Entries(s)
  /\ \A m \in Entries(s) : s.stage[m] # "none"
  /\ \A m, n \in Monster : s.held[m] \in Block /\ s.held[m] = s.held[n] => m = n

\* The check under way is the one that is remembered, and one is if a monster
\* was lost.
CheckUnderWay(s) ==
  /\ s.timers + s.posted = IF s.eventId THEN 1 ELSE 0
  /\ (\E m \in Entries(s) : s.stage[m] = "removed") => s.eventId = TRUE

Full(s) == Cardinality(Entries(s)) + Cardinality(s.skipped) >= Cardinality(Block)

\* Before startup there is nothing.
Untouched(s) ==
  /\ \A m \in Monster : s.stage[m] = "none"
  /\ s.open = TRUE /\ Entries(s) = {} /\ s.eventId = FALSE /\ s.timers = 0 /\ s.posted = 0

SpawnSound(s) ==
  /\ s \in SpawnState /\ HeldWell(s)
  /\ s.started = FALSE => Untouched(s)
  /\ s.open = FALSE => s.owned = {}
  /\ s.open = TRUE => /\ CheckUnderWay(s)
                      /\ s.started = TRUE /\ s.eventId = FALSE => Full(s)

SpawnInv == SpawnSound(spn)

LEMMA Blocks == /\ Away \notin Block /\ Unheld \notin Block /\ Away # Unheld
                /\ Cardinality(Block) \in Nat
<1>1. Cardinality(Block) \in Nat /\ Block = 1..Cardinality(Block)
  BY FS_CardinalityType, SpawnsAssumption
<1> QED BY <1>1 DEF Away, Unheld

LEMMA SizeOf == ASSUME NEW S \in SUBSET Monster PROVE IsFiniteSet(S) /\ Cardinality(S) \in Nat
  BY FS_Subset, FS_CardinalityType, SpawnsAssumption

LEMMA SizeOfBlocks ==
  ASSUME NEW S \in SUBSET Block
  PROVE  IsFiniteSet(S) /\ Cardinality(S) \in Nat /\ Cardinality(S) <= Cardinality(Block)
  BY FS_Subset, FS_CardinalityType, SpawnsAssumption

\* Into a set that is at least as large there is an injection.
LEMMA Fits ==
  ASSUME NEW S, IsFiniteSet(S), NEW T, IsFiniteSet(T), Cardinality(S) <= Cardinality(T)
  PROVE  ExistsInjection(S, T)
<1> DEFINE a == 1..Cardinality(S)
           b == 1..Cardinality(T)
<1>1. /\ Cardinality(S) \in Nat /\ Cardinality(T) \in Nat
      /\ ExistsBijection(a, S) /\ ExistsBijection(b, T)
  BY FS_CardinalityType
<1>2. ExistsBijection(S, a)
  BY <1>1, Fun_ExistsBijSymmetric
<1>3. a \subseteq b
  BY <1>1
<1> HIDE DEF a, b
<1>4. [x \in a |-> x] \in Injection(a, b)
  BY <1>3, Fun_IsInj
<1>5. ExistsInjection(S, a) /\ ExistsInjection(a, b) /\ ExistsInjection(b, T)
  BY <1>1, <1>2, <1>4 DEF ExistsInjection, ExistsBijection, Bijection
<1>6. ExistsInjection(S, b)
  BY <1>5, Fun_ExistsInjTransitive
<1> QED BY <1>5, <1>6, Fun_ExistsInjTransitive

LEMMA TakenIs ==
  ASSUME NEW s, NEW blocks \in SUBSET Block, Cardinality(Spare(s)) >= Cardinality(blocks)
  PROVE  Taken(s, blocks) \in Injection(blocks, Spare(s))
<1>1. Spare(s) \in SUBSET Monster
  BY DEF Spare
<1>2. IsFiniteSet(Spare(s)) /\ IsFiniteSet(blocks)
      /\ Cardinality(Spare(s)) \in Nat /\ Cardinality(blocks) \in Nat
  BY <1>1, SizeOf, SizeOfBlocks
<1>3. ExistsInjection(blocks, Spare(s))
  BY <1>2, Fits
<1> QED BY <1>3 DEF ExistsInjection, Injection, Taken

\* t is s but for the monsters of new, which are live and held.
Spawned(s, t, new) ==
  /\ t \in SpawnState /\ HeldWell(t)
  /\ Entries(t) = Entries(s) \cup Range(new) /\ Entries(s) \cap Range(new) = {}
  /\ Cardinality(Range(new)) = Cardinality(DOMAIN new)
  /\ \A m \in Monster : t.stage[m] = IF m \in Range(new) THEN "live" ELSE s.stage[m]
  /\ t.open = s.open /\ t.started = s.started /\ t.eventId = s.eventId /\ t.timers = s.timers
  /\ t.posted = s.posted /\ t.skipped = s.skipped

LEMMA SpawnMonstersSpawns ==
  ASSUME NEW s \in SpawnState, HeldWell(s), NEW blocks \in SUBSET Block,
         \A b \in blocks : ~Occupied(s, b), NEW new \in Injection(blocks, Spare(s))
  PROVE  Spawned(s, SpawnMonsters(s, new), new)
<1> DEFINE st == [m \in Monster |-> IF m \in Range(new) THEN "live" ELSE s.stage[m]]
           B(m) == CHOOSE b \in DOMAIN new : new[b] = m
           he == [m \in Monster |-> IF m \in Range(new) THEN B(m) ELSE s.held[m]]
           ow == s.owned \cup Range(new)
           el == s.elapsed \ DOMAIN new
           t == SpawnMonsters(s, new)
<1>1. t = [s EXCEPT !.stage = st, !.held = he, !.owned = ow, !.elapsed = el]
  BY Zenon DEF SpawnMonsters
<1>2. /\ new \in [blocks -> Spare(s)] /\ DOMAIN new = blocks
      /\ \A a, b \in blocks : new[a] = new[b] => a = b
  BY Fun_InjectionProperties DEF Injection
<1>3. Range(new) \subseteq Spare(s) /\ Spare(s) \subseteq Monster
  BY <1>2 DEF Range, Spare
<1>4. \A m \in Range(new) : B(m) \in blocks /\ new[B(m)] = m
  BY <1>2 DEF Range
<1> HIDE DEF B
<1>5. /\ st \in [Monster -> {"none", "live", "removed"}] /\ ow \in SUBSET Monster
      /\ he \in [Monster -> Block \cup {Away, Unheld}] /\ el \in SUBSET Block
  BY <1>3, <1>4 DEF SpawnState
<1>6. \A m \in Monster : /\ st[m] = IF m \in Range(new) THEN "live" ELSE s.stage[m]
                         /\ he[m] = IF m \in Range(new) THEN B(m) ELSE s.held[m]
  OBVIOUS
<1> HIDE DEF st, he, el, t
<1>7. /\ t \in SpawnState /\ t.stage = st /\ t.held = he /\ t.owned = ow
      /\ t.open = s.open /\ t.started = s.started /\ t.eventId = s.eventId /\ t.timers = s.timers
      /\ t.posted = s.posted /\ t.skipped = s.skipped
  <2> HIDE DEF ow
  <2> QED BY <1>1, <1>5 DEF SpawnState
<1>8. Entries(t) = Entries(s) \cup Range(new)
  BY <1>3, <1>4, <1>6, <1>7, Blocks DEF Entries
<1>9. Entries(s) \cap Range(new) = {}
  BY <1>3 DEF HeldWell, Spare
<1>10. Cardinality(Range(new)) = Cardinality(DOMAIN new)
  <2>1. new \in Bijection(blocks, Range(new)) /\ IsFiniteSet(blocks)
    BY Fun_InjMeansBijImage, SizeOfBlocks
  <2>2. ExistsBijection(blocks, Range(new))
    BY <2>1 DEF ExistsBijection
  <2> QED BY <1>2, <2>1, <2>2, FS_Bijection
<1>11. HeldWell(t)
  <2>1. t.owned = Entries(t)
    BY <1>7, <1>8 DEF HeldWell
  <2>2. \A m \in Entries(t) : t.stage[m] # "none"
    BY <1>6, <1>7, <1>8 DEF HeldWell, Entries
  <2>3. ASSUME NEW m \in Monster, NEW n \in Monster, he[m] \in Block, he[m] = he[n]
        PROVE  m = n
    <3>1. CASE m \in Range(new) /\ n \in Range(new)
      BY <1>4, <1>6, <2>3, <3>1
    <3>2. CASE m \in Range(new) /\ n \notin Range(new)
      BY <1>4, <1>6, <2>3, <3>2 DEF Occupied
    <3>3. CASE m \notin Range(new) /\ n \in Range(new)
      BY <1>4, <1>6, <2>3, <3>3 DEF Occupied
    <3>4. CASE m \notin Range(new) /\ n \notin Range(new)
      BY <1>6, <2>3, <3>4 DEF HeldWell
    <3> QED BY <3>1, <3>2, <3>3, <3>4
  <2> QED BY <1>7, <2>1, <2>2, <2>3 DEF HeldWell
<1>12. Spawned(s, t, new)
  BY <1>6, <1>7, <1>8, <1>9, <1>10, <1>11 DEF Spawned
<1> QED BY <1>12 DEF t

\* The check that a spawn starts, if none is under way.
LEMMA StartSpawnCheckStarts ==
  ASSUME NEW s \in SpawnState, HeldWell(s), s.timers + s.posted = IF s.eventId THEN 1 ELSE 0
  PROVE  LET t == StartSpawnCheck(s) IN
         /\ t \in SpawnState /\ HeldWell(t) /\ CheckUnderWay(t) /\ t.eventId = TRUE
         /\ t.open = s.open /\ t.started = s.started
<1> DEFINE n == s.timers + 1
           u == [s EXCEPT !.eventId = TRUE, !.timers = n]
           t == StartSpawnCheck(s)
<1>1. t = IF s.eventId THEN s ELSE u
  BY DEF StartSpawnCheck
<1>2. s.timers \in Nat /\ s.posted \in Nat /\ s.eventId \in BOOLEAN /\ n \in Nat
  BY DEF SpawnState
<1> HIDE DEF n
<1>3. /\ u \in SpawnState /\ u.eventId = TRUE /\ u.timers = n /\ u.posted = s.posted
      /\ u.held = s.held /\ u.stage = s.stage /\ u.owned = s.owned /\ u.open = s.open
      /\ u.started = s.started
  BY <1>2 DEF SpawnState
<1> HIDE DEF u, t
<1>4. /\ t \in SpawnState /\ t.eventId = TRUE /\ t.held = s.held /\ t.stage = s.stage
      /\ t.owned = s.owned /\ t.open = s.open /\ t.started = s.started
      /\ t.timers + t.posted = 1
  BY <1>1, <1>2, <1>3 DEF n
<1>5. HeldWell(t) /\ CheckUnderWay(t)
  BY <1>4 DEF HeldWell, Entries, CheckUnderWay
<1> QED BY <1>4, <1>5 DEF t

\* t is s but for what cleanup let go and moved out of its block.
Cleaned(s, t) ==
  /\ t \in SpawnState /\ HeldWell(t)
  /\ \A m \in Entries(t) : t.stage[m] # "removed"
  /\ Spare(s) \subseteq Spare(t)
  /\ t.open = s.open /\ t.started = s.started /\ t.eventId = s.eventId /\ t.timers = s.timers
  /\ t.posted = s.posted /\ t.skipped = s.skipped

LEMMA CleanupCleans ==
  ASSUME NEW s \in SpawnState, HeldWell(s)
  PROVE  Cleaned(s, Cleanup(s))
<1> DEFINE gone == {m \in Entries(s) : s.stage[m] = "removed"}
           stray == {m \in Entries(s) \ gone : m \in s.outside /\ s.held[m] # Away}
           he == [m \in Monster |-> IF m \in gone THEN Unheld
                                    ELSE IF m \in stray THEN Away ELSE s.held[m]]
           st == [m \in Monster |-> IF m \in gone THEN "none" ELSE s.stage[m]]
           ow == s.owned \ gone
           ou == s.outside \ gone
           el == s.elapsed \ {s.held[m] : m \in gone}
           t == Cleanup(s)
<1>1. t = [s EXCEPT !.held = he, !.stage = st, !.owned = ow, !.outside = ou, !.elapsed = el]
  BY Zenon DEF Cleanup
<1>2. /\ st \in [Monster -> {"none", "live", "removed"}] /\ ow \in SUBSET Monster
      /\ he \in [Monster -> Block \cup {Away, Unheld}] /\ ou \in SUBSET Monster
      /\ el \in SUBSET Block
  BY DEF SpawnState
<1>3. \A m \in Monster : /\ st[m] = IF m \in gone THEN "none" ELSE s.stage[m]
                         /\ he[m] = IF m \in gone THEN Unheld
                                    ELSE IF m \in stray THEN Away ELSE s.held[m]
  OBVIOUS
<1>4. \A m \in Monster : /\ m \in gone <=> m \in Entries(s) /\ s.stage[m] = "removed"
                         /\ m \in stray => m \in Entries(s) /\ m \notin gone
  OBVIOUS
<1> HIDE DEF st, he, el, ou, t, stray
<1>5. /\ t \in SpawnState /\ t.stage = st /\ t.held = he /\ t.owned = ow
      /\ t.open = s.open /\ t.started = s.started /\ t.eventId = s.eventId /\ t.timers = s.timers
      /\ t.posted = s.posted /\ t.skipped = s.skipped
  <2> HIDE DEF ow
  <2> QED BY <1>1, <1>2 DEF SpawnState
<1> HIDE DEF gone
<1>6. Entries(t) = Entries(s) \ gone
  BY <1>3, <1>4, <1>5, Blocks DEF Entries
<1>7. HeldWell(t)
  <2>1. t.owned = Entries(t)
    BY <1>5, <1>6 DEF HeldWell
  <2>2. \A m \in Entries(t) : t.stage[m] # "none"
    BY <1>3, <1>5, <1>6 DEF HeldWell, Entries
  <2>3. ASSUME NEW m \in Monster, NEW n \in Monster, he[m] \in Block, he[m] = he[n]
        PROVE  m = n
    <3>1. he[m] = s.held[m] /\ he[n] = s.held[n]
      BY <1>3, <2>3, Blocks
    <3> QED BY <2>3, <3>1 DEF HeldWell
  <2> QED BY <1>5, <2>1, <2>2, <2>3 DEF HeldWell
<1>8. \A m \in Entries(t) : t.stage[m] # "removed"
  BY <1>3, <1>4, <1>5, <1>6 DEF Entries
<1>9. Spare(s) \subseteq Spare(t)
  BY <1>3, <1>5 DEF Spare
<1>10. Cleaned(s, t)
  BY <1>5, <1>7, <1>8, <1>9 DEF Cleaned
<1> QED BY <1>10 DEF t

LEMMA Ranges ==
  ASSUME NEW s, NEW t, NEW new, Spawned(s, t, new), NEW blocks \in SUBSET Block,
         DOMAIN new = blocks, Entries(s) = {}
  PROVE  Cardinality(Entries(t)) = Cardinality(blocks)
  BY DEF Spawned

LEMMA StartupKeeps ==
  ASSUME SpawnInv, Startup
  PROVE  SpawnInv'
<1> DEFINE blocks == Block \ spn.barred
           new == Taken(spn, blocks)
           s == [spn EXCEPT !.started = TRUE, !.skipped = spn.barred]
           t == spn'
<1>1. t = SpawnMonsters(s, new)
  BY Zenon DEF Startup
<1>2. /\ spn \in SpawnState /\ HeldWell(spn) /\ Untouched(spn) /\ spn.barred \in SUBSET Block
  BY DEF Startup, SpawnInv, SpawnSound, SpawnState
<1>3. /\ s \in SpawnState /\ s.started = TRUE /\ s.skipped = spn.barred /\ s.open = spn.open
      /\ s.held = spn.held /\ s.stage = spn.stage /\ s.owned = spn.owned
      /\ s.eventId = FALSE /\ s.timers = 0 /\ s.posted = 0 /\ s.open = TRUE
  BY <1>2 DEF SpawnState, Untouched
<1> HIDE DEF s, t
<1>4. Spare(s) = Monster /\ Spare(spn) = Monster
  BY <1>2, <1>3 DEF Spare, Untouched
<1>5. Cardinality(Spare(spn)) >= Cardinality(blocks)
  BY <1>4, Blocks, SizeOf, SizeOfBlocks, SpawnsAssumption
<1>6. new \in Injection(blocks, Spare(s))
  BY <1>4, <1>5, TakenIs
<1>7. DOMAIN new = blocks
  BY <1>6, Fun_InjectionProperties
<1> HIDE DEF new
<1>8. HeldWell(s) /\ Entries(s) = {} /\ \A b \in blocks : ~Occupied(s, b)
  <2>1. HeldWell(s) /\ Entries(s) = {}
    BY <1>2, <1>3 DEF HeldWell, Entries, Untouched
  <2> QED BY <2>1, Blocks DEF Entries, Occupied
<1>9. Spawned(s, t, new)
  BY <1>1, <1>3, <1>6, <1>8, SpawnMonstersSpawns
<1>10. Full(t)
  <2>1. Cardinality(Entries(t)) = Cardinality(blocks) /\ t.skipped = spn.barred
    BY <1>3, <1>7, <1>8, <1>9, Ranges DEF Spawned
  <2>2. Block \cap spn.barred = spn.barred
    BY <1>2
  <2>3. Cardinality(blocks) = Cardinality(Block) - Cardinality(spn.barred)
    BY <2>2, FS_Difference, SpawnsAssumption
  <2> QED BY <1>2, <2>1, <2>3, Blocks, SizeOfBlocks DEF Full
<1>11. CheckUnderWay(t)
  <2>1. t.timers = 0 /\ t.posted = 0 /\ t.eventId = FALSE
    BY <1>3, <1>9 DEF Spawned
  <2>2. \A m \in Entries(t) : t.stage[m] # "removed"
    BY <1>8, <1>9 DEF Spawned, Entries
  <2> QED BY <2>1, <2>2 DEF CheckUnderWay
<1>12. SpawnSound(t)
  BY <1>3, <1>9, <1>10, <1>11 DEF SpawnSound, Spawned
<1> QED BY <1>12 DEF t, SpawnInv

\* What a check finds and makes, before it asks whether to schedule another.
LEMMA CheckSpawnKeeps ==
  ASSUME SpawnInv, CheckSpawn
  PROVE  SpawnInv'
<1> DEFINE p == spn.posted - 1
           u == [spn EXCEPT !.posted = p, !.eventId = FALSE, !.skipped = {}]
           s == Cleanup(u)
           reached == Reached(s)
           blocks == reached \ s.barred
           el == s.elapsed \ reached
           w == [s EXCEPT !.elapsed = el]
           new == Taken(s, blocks)
           t == SpawnMonsters(w, new)
           n == spn'
<1>1. /\ spn.open /\ spn.posted > 0 /\ Cardinality(Spare(spn)) >= Cardinality(Block)
      /\ n = IF Lacking(t) THEN StartSpawnCheck(t) ELSE t
  BY Zenon DEF CheckSpawn
<1>2. spn \in SpawnState /\ HeldWell(spn) /\ CheckUnderWay(spn) /\ spn.open = TRUE
  BY <1>1 DEF SpawnInv, SpawnSound, SpawnState
<1>3. /\ spn.posted = 1 /\ spn.timers = 0 /\ p = 0
      /\ spn.started = TRUE
  <2>1. spn.timers \in Nat /\ spn.posted \in Nat /\ spn.timers + spn.posted <= 1
    BY <1>2 DEF SpawnState, CheckUnderWay
  <2>2. spn.posted = 1 /\ spn.timers = 0 /\ p = 0
    BY <1>1, <2>1
  <2> QED BY <2>2 DEF SpawnInv, SpawnSound, Untouched, SpawnState
<1> HIDE DEF p
<1>4. /\ u \in SpawnState /\ u.posted = 0 /\ u.eventId = FALSE /\ u.skipped = {} /\ u.timers = 0
      /\ u.open = TRUE /\ u.started = TRUE /\ u.held = spn.held /\ u.stage = spn.stage
      /\ u.owned = spn.owned
  BY <1>2, <1>3 DEF SpawnState
<1> HIDE DEF u, n
<1>5. HeldWell(u) /\ Spare(u) = Spare(spn)
  BY <1>2, <1>4 DEF HeldWell, Entries, Spare
<1>6. Cleaned(u, s)
  BY <1>4, <1>5, CleanupCleans
<1> HIDE DEF s
<1>7. /\ reached \in SUBSET Block /\ blocks \in SUBSET Block /\ el \in SUBSET Block
      /\ \A b \in blocks : ~Occupied(s, b)
  BY <1>6 DEF Reached, Cleaned, SpawnState
<1> HIDE DEF reached, blocks, el
<1>8. Cardinality(Spare(s)) >= Cardinality(blocks)
  <2>1. Spare(spn) \in SUBSET Spare(s) /\ Spare(s) \in SUBSET Monster /\ Spare(spn) \in SUBSET Monster
    BY <1>5, <1>6 DEF Cleaned, Spare
  <2>2. Cardinality(Spare(spn)) <= Cardinality(Spare(s))
    BY <2>1, SizeOf, FS_Subset
  <2>3. /\ Cardinality(blocks) <= Cardinality(Block) /\ Cardinality(blocks) \in Nat
        /\ Cardinality(Block) \in Nat
    BY <1>7, Blocks, SizeOfBlocks
  <2> QED BY <1>1, <2>1, <2>2, <2>3, SizeOf
<1>9. new \in Injection(blocks, Spare(s))
  BY <1>7, <1>8, TakenIs
<1> HIDE DEF new
<1>10. /\ w \in SpawnState /\ w.held = s.held /\ w.stage = s.stage /\ w.owned = s.owned
       /\ w.open = s.open /\ w.started = s.started /\ w.eventId = s.eventId /\ w.timers = s.timers
       /\ w.posted = s.posted /\ w.skipped = s.skipped
  BY <1>6, <1>7 DEF Cleaned, SpawnState
<1> HIDE DEF w
<1>11. /\ HeldWell(w) /\ Spare(w) = Spare(s) /\ Entries(w) = Entries(s)
       /\ \A b \in blocks : ~Occupied(w, b)
  BY <1>6, <1>7, <1>10 DEF Cleaned, HeldWell, Entries, Spare, Occupied
<1>12. Spawned(w, t, new)
  BY <1>7, <1>9, <1>10, <1>11, SpawnMonstersSpawns
<1> HIDE DEF t
<1>13. /\ t \in SpawnState /\ HeldWell(t) /\ t.open = TRUE /\ t.started = TRUE
       /\ t.eventId = FALSE /\ t.timers = 0 /\ t.posted = 0 /\ t.skipped = {}
  BY <1>4, <1>6, <1>10, <1>12 DEF Spawned, Cleaned
<1>14. CASE Lacking(t)
  <2>1. t.timers + t.posted = IF t.eventId THEN 1 ELSE 0
    BY <1>13
  <2>2. n = StartSpawnCheck(t)
    BY <1>1, <1>14
  <2>3. /\ n \in SpawnState /\ HeldWell(n) /\ CheckUnderWay(n) /\ n.eventId = TRUE
        /\ n.open = TRUE /\ n.started = TRUE
    BY <1>13, <2>1, <2>2, StartSpawnCheckStarts
  <2>4. SpawnSound(n)
    BY <2>3 DEF SpawnSound
  <2> QED BY <2>4 DEF n, SpawnInv
<1>15. CASE ~Lacking(t)
  <2>1. n = t
    BY <1>1, <1>15
  <2>2. Full(t)
    <3>1. Cardinality(Entries(t)) >= Cardinality(Block)
      BY <1>15, SizeOf, Blocks DEF Lacking, Entries
    <3>2. Cardinality(t.skipped) = 0
      BY <1>13, FS_EmptySet
    <3> QED BY <3>1, <3>2, SizeOf DEF Full, Entries
  <2>3. CheckUnderWay(t)
    <3>1. \A m \in Entries(t) : t.stage[m] # "removed"
      BY <1>6, <1>10, <1>11, <1>12 DEF Spawned, Cleaned, Entries
    <3> QED BY <1>13, <3>1 DEF CheckUnderWay
  <2>4. SpawnSound(n)
    BY <1>13, <2>1, <2>2, <2>3 DEF SpawnSound
  <2> QED BY <2>4 DEF n, SpawnInv
<1> QED BY <1>14, <1>15

\* A monster that was lost starts a check.
LEMMA DieKeeps ==
  ASSUME SpawnInv, Die
  PROVE  SpawnInv'
<1>1. PICK m \in Monster :
        /\ spn.stage[m] = "live"
        /\ LET s == [spn EXCEPT !.stage[m] = IF spn.held[m] = Unheld THEN "none" ELSE "removed"]
           IN  spn' = IF m \in spn.owned THEN StartSpawnCheck(s) ELSE s
  BY Zenon DEF Die
<1> DEFINE x == IF spn.held[m] = Unheld THEN "none" ELSE "removed"
           st == [spn.stage EXCEPT ![m] = x]
           s == [spn EXCEPT !.stage = st]
           n == spn'
<1>2. n = IF m \in spn.owned THEN StartSpawnCheck(s) ELSE s
  BY <1>1
<1>3. spn \in SpawnState /\ HeldWell(spn) /\ spn.started = TRUE
  BY <1>1 DEF SpawnInv, SpawnSound, Untouched, SpawnState
<1>4. /\ st \in [Monster -> {"none", "live", "removed"}]
      /\ \A k \in Monster : st[k] = IF k = m THEN x ELSE spn.stage[k]
  BY <1>3 DEF SpawnState
<1> HIDE DEF st
<1>5. /\ s \in SpawnState /\ s.stage = st /\ s.held = spn.held /\ s.owned = spn.owned
      /\ s.open = spn.open /\ s.started = TRUE /\ s.eventId = spn.eventId /\ s.timers = spn.timers
      /\ s.posted = spn.posted /\ s.skipped = spn.skipped
  BY <1>3, <1>4 DEF SpawnState
<1> HIDE DEF s, n
<1>6. Entries(s) = Entries(spn) /\ HeldWell(s)
  BY <1>3, <1>4, <1>5 DEF HeldWell, Entries
<1>7. CASE m \in spn.owned /\ spn.open = TRUE
  <2>1. s.timers + s.posted = IF s.eventId THEN 1 ELSE 0
    BY <1>5, <1>7 DEF SpawnInv, SpawnSound, CheckUnderWay
  <2>2. n = StartSpawnCheck(s)
    BY <1>2, <1>7
  <2>3. /\ n \in SpawnState /\ HeldWell(n) /\ CheckUnderWay(n) /\ n.eventId = TRUE
        /\ n.started = TRUE /\ n.open = TRUE
    BY <1>5, <1>6, <1>7, <2>1, <2>2, StartSpawnCheckStarts
  <2>4. SpawnSound(n)
    BY <2>3 DEF SpawnSound
  <2> QED BY <2>4 DEF n, SpawnInv
<1>8. CASE m \notin spn.owned
  <2>1. n = s
    BY <1>2, <1>8
  <2>2. m \notin Entries(s) /\ \A k \in Entries(s) : s.stage[k] = spn.stage[k]
    BY <1>3, <1>4, <1>5, <1>6, <1>8 DEF HeldWell, Entries
  <2>3. ASSUME s.open = TRUE PROVE CheckUnderWay(s) /\ (s.eventId = FALSE => Full(s))
    <3>1. CheckUnderWay(spn) /\ (spn.eventId = FALSE => Full(spn))
      BY <1>3, <1>5, <2>3 DEF SpawnInv, SpawnSound
    <3> QED BY <1>5, <1>6, <2>2, <3>1 DEF CheckUnderWay, Full
  <2>4. s.open = FALSE => s.owned = {}
    BY <1>5 DEF SpawnInv, SpawnSound
  <2>5. SpawnSound(n)
    BY <1>5, <1>6, <2>1, <2>3, <2>4 DEF SpawnSound
  <2> QED BY <2>5 DEF n, SpawnInv
<1>9. CASE m \in spn.owned /\ spn.open = FALSE
  BY <1>9 DEF SpawnInv, SpawnSound
<1> QED BY <1>3, <1>7, <1>8, <1>9 DEF SpawnState

\* What leaves alone whom a spawn holds and the count of its checks.
LEMMA SmallStepsKeep ==
  ASSUME SpawnInv, Stray \/ TimerFires \/ (\E b \in Block : Elapse(b)) \/ Bar
  PROVE  SpawnInv'
<1> DEFINE n == spn'
<1>1. spn \in SpawnState
  BY DEF SpawnInv, SpawnSound
<1>2. /\ n \in SpawnState /\ n.held = spn.held /\ n.owned = spn.owned /\ n.open = spn.open
      /\ n.started = spn.started /\ n.eventId = spn.eventId /\ n.skipped = spn.skipped
      /\ n.stage = spn.stage
      /\ \/ n.timers = spn.timers /\ n.posted = spn.posted
         \/ spn.timers > 0 /\ n.timers = spn.timers - 1 /\ n.posted = spn.posted + 1
  <2>1. CASE Stray
    <3>1. PICK m \in Monster : n = [spn EXCEPT !.outside = (@ \ {m}) \cup ({m} \ @)]
      BY <2>1 DEF Stray
    <3> DEFINE o == (spn.outside \ {m}) \cup ({m} \ spn.outside)
    <3>2. n = [spn EXCEPT !.outside = o] /\ o \in SUBSET Monster
      BY <1>1, <3>1 DEF SpawnState
    <3> HIDE DEF o, n
    <3> QED BY <1>1, <3>2 DEF SpawnState
  <2>2. CASE TimerFires
    <3> DEFINE a == spn.timers - 1
               b == spn.posted + 1
    <3>1. n = [spn EXCEPT !.timers = a, !.posted = b] /\ a \in Nat /\ b \in Nat /\ spn.timers > 0
      BY <1>1, <2>2 DEF TimerFires, SpawnState
    <3> HIDE DEF a, b, n
    <3>2. /\ n \in SpawnState /\ n.timers = a /\ n.posted = b /\ n.held = spn.held
          /\ n.owned = spn.owned /\ n.open = spn.open /\ n.stage = spn.stage
          /\ n.started = spn.started /\ n.eventId = spn.eventId /\ n.skipped = spn.skipped
      BY <1>1, <3>1 DEF SpawnState
    <3> QED BY <3>1, <3>2 DEF a, b
  <2>3. CASE \E b \in Block : Elapse(b)
    <3>1. PICK b \in Block : n = [spn EXCEPT !.elapsed = @ \cup {b}]
      BY <2>3 DEF Elapse
    <3> HIDE DEF n
    <3> QED BY <1>1, <3>1 DEF SpawnState
  <2>4. CASE Bar
    <3>1. PICK b \in Block : n = [spn EXCEPT !.barred = (@ \ {b}) \cup ({b} \ @)]
      BY <2>4 DEF Bar
    <3> DEFINE o == (spn.barred \ {b}) \cup ({b} \ spn.barred)
    <3>2. n = [spn EXCEPT !.barred = o] /\ o \in SUBSET Block
      BY <1>1, <3>1 DEF SpawnState
    <3> HIDE DEF o, n
    <3> QED BY <1>1, <3>2 DEF SpawnState
  <2> QED BY <2>1, <2>2, <2>3, <2>4
<1> HIDE DEF n
<1>3. HeldWell(n) /\ Entries(n) = Entries(spn)
  BY <1>2 DEF SpawnInv, SpawnSound, HeldWell, Entries
<1>4. n.timers + n.posted = spn.timers + spn.posted
  BY <1>1, <1>2 DEF SpawnState
<1>5. n.started = FALSE => Untouched(n)
  BY <1>1, <1>2, <1>3 DEF SpawnInv, SpawnSound, Untouched, SpawnState
<1>6. n.open = FALSE => n.owned = {}
  BY <1>2 DEF SpawnInv, SpawnSound
<1>7. n.open = TRUE => CheckUnderWay(n) /\ (n.started = TRUE /\ n.eventId = FALSE => Full(n))
  BY <1>2, <1>3, <1>4 DEF SpawnInv, SpawnSound, CheckUnderWay, Full
<1>8. SpawnSound(n)
  BY <1>2, <1>3, <1>5, <1>6, <1>7 DEF SpawnSound
<1> QED BY <1>8 DEF n, SpawnInv

LEMMA ClearKeeps ==
  ASSUME SpawnInv, Clear
  PROVE  SpawnInv'
<1> DEFINE he == [m \in Monster |-> Unheld]
           st == [m \in Monster |-> IF spn.stage[m] = "removed" THEN "none" ELSE spn.stage[m]]
           ti == IF spn.eventId THEN 0 ELSE spn.timers
           n == spn'
<1>1. n = [spn EXCEPT !.open = FALSE, !.eventId = FALSE, !.timers = ti, !.held = he,
                      !.owned = {}, !.skipped = {}, !.stage = st]
  BY Zenon DEF Clear
<1>2. spn \in SpawnState /\ spn.started = TRUE
  BY DEF Clear, SpawnInv, SpawnSound, SpawnState
<1>3. /\ he \in [Monster -> Block \cup {Away, Unheld}] /\ ti \in Nat
      /\ st \in [Monster -> {"none", "live", "removed"}]
  BY <1>2 DEF SpawnState
<1>4. \A m \in Monster : he[m] = Unheld
  OBVIOUS
<1> HIDE DEF he, st, ti, n
<1>5. /\ n \in SpawnState /\ n.open = FALSE /\ n.started = TRUE /\ n.held = he /\ n.owned = {}
  BY <1>1, <1>2, <1>3 DEF SpawnState
<1>6. HeldWell(n)
  BY <1>4, <1>5, Blocks DEF HeldWell, Entries
<1>7. SpawnSound(n)
  BY <1>5, <1>6 DEF SpawnSound
<1> QED BY <1>7 DEF n, SpawnInv

LEMMA SpawnsInitInv ==
  ASSUME SpawnsInit
  PROVE  SpawnInv
<1>1. spn \in SpawnState
  BY DEF SpawnsInit, SpawnState
<1>2. /\ spn.open = TRUE /\ spn.started = FALSE /\ spn.owned = {} /\ spn.eventId = FALSE
      /\ spn.timers = 0 /\ spn.posted = 0
      /\ \A m \in Monster : spn.held[m] = Unheld /\ spn.stage[m] = "none"
  BY DEF SpawnsInit
<1>3. Entries(spn) = {}
  BY <1>2 DEF Entries
<1>4. HeldWell(spn) /\ Untouched(spn) /\ CheckUnderWay(spn)
  BY <1>2, <1>3, Blocks DEF HeldWell, Untouched, CheckUnderWay
<1> QED BY <1>1, <1>2, <1>4 DEF SpawnInv, SpawnSound

LEMMA SpawnInductive ==
  ASSUME SpawnInv, [SpawnsNext]_spn
  PROVE  SpawnInv'
<1>1. CASE Startup
  BY <1>1, StartupKeeps
<1>2. CASE CheckSpawn
  BY <1>2, CheckSpawnKeeps
<1>3. CASE Die
  BY <1>3, DieKeeps
<1>4. CASE Stray \/ TimerFires \/ (\E b \in Block : Elapse(b)) \/ Bar
  BY <1>4, SmallStepsKeep
<1>5. CASE Clear
  BY <1>5, ClearKeeps
<1>6. CASE UNCHANGED spn
  BY <1>6 DEF SpawnInv, SpawnSound, HeldWell, Entries, Untouched, CheckUnderWay, Full
<1> QED BY <1>1, <1>2, <1>3, <1>4, <1>5, <1>6 DEF SpawnsNext

LEMMA SpawnInvSuffices ==
  ASSUME SpawnInv
  PROVE  SpawnAgrees
<1>1. spn \in SpawnState /\ HeldWell(spn)
  BY DEF SpawnInv, SpawnSound
<1>2. ASSUME NEW b \in Block PROVE Cardinality({m \in Monster : spn.held[m] = b}) <= 1
  <2> DEFINE S == {m \in Monster : spn.held[m] = b}
  <2>1. \A m, n \in S : m = n
    BY <1>1 DEF HeldWell
  <2>2. S = {} \/ \E m : S = {m}
    BY <2>1
  <2>3. Cardinality({}) = 0 /\ \A m : Cardinality({m}) = 1
    <3>1. Cardinality({}) = 0 /\ IsFiniteSet({})
      BY FS_EmptySet
    <3>2. ASSUME NEW m PROVE Cardinality({} \cup {m}) = 1
      BY <3>1, FS_AddElement
    <3>3. \A m : {} \cup {m} = {m}
      OBVIOUS
    <3> QED BY <3>1, <3>2, <3>3
  <2> HIDE DEF S
  <2>4. Cardinality(S) <= 1
    <3>1. CASE S = {}
      <4>1. Cardinality(S) = 0
        BY <2>3, <3>1, Zenon
      <4> QED BY <4>1
    <3>2. CASE \E m : S = {m}
      <4>1. Cardinality(S) = 1
        BY <2>3, <3>2, Zenon
      <4> QED BY <4>1
    <3> QED BY <2>2, <3>1, <3>2
  <2> QED BY <2>4 DEF S
<1>3. spn.open \in BOOLEAN /\ spn.started \in BOOLEAN /\ spn.eventId \in BOOLEAN
  BY <1>1 DEF SpawnState
<1> QED BY <1>1, <1>2, <1>3 DEF SpawnAgrees, SpawnInv, SpawnSound, HeldWell, CheckUnderWay, Full

\* A spawn owns exactly what it holds, a block has one monster at most, and as
\* long as a monster is missing a check is under way, for any blocks and rate.
THEOREM SpawnsAgree == SpawnsSpec => []SpawnAgrees
<1>1. SpawnsInit => SpawnInv
  BY SpawnsInitInv
<1>2. SpawnInv /\ [SpawnsNext]_spn => SpawnInv'
  BY SpawnInductive
<1>3. SpawnInv => SpawnAgrees
  BY SpawnInvSuffices
<1> QED BY <1>1, <1>2, <1>3, PTL DEF SpawnsSpec

-----------------------------------------------------------------------------
(* The run *)

\* A step of the run is one of each of them, or leaves it alone.
LEMMA ThreadsSteps ==
  ASSUME [ThreadsNext]_<<part, vars, dbVars, schVars, spn, raid, wk>>
  PROVE  [SpawnsNext]_spn /\ [RaidsNext]_raid /\ [WalkingNext]_wk
  BY DEF ThreadsNext

\* Spawns and raids, in the run that checks them.
THEOREM RunSpawnsAndRaids == ThreadsSpec => []SpawnsAndRaids
<1>1. ThreadsInit => SpawnInv /\ RaidInv
  BY SpawnsInitInv, RaidsInitInv DEF ThreadsInit
<1>2. SpawnInv /\ RaidInv /\ [ThreadsNext]_<<part, vars, dbVars, schVars, spn, raid, wk>>
        => (SpawnInv /\ RaidInv)'
  BY ThreadsSteps, SpawnInductive, RaidInductive
<1>3. SpawnInv /\ RaidInv => SpawnsAndRaids
  BY SpawnInvSuffices, RaidInvSuffices DEF SpawnsAndRaids
<1> QED BY <1>1, <1>2, <1>3, PTL DEF ThreadsSpec

\* Walks, in the run that checks them.
THEOREM RunWalks == ThreadsSpec => []WalkInOrder
<1>1. ThreadsInit => WalkInv
  BY WalkingInitially DEF ThreadsInit
<1>2. WalkInv /\ [ThreadsNext]_<<part, vars, dbVars, schVars, spn, raid, wk>> => WalkInv'
  BY ThreadsSteps, WalkingStep
<1>3. WalkInv => WalkInOrder
  BY WalkInvSuffices
<1> QED BY <1>1, <1>2, <1>3, PTL DEF ThreadsSpec
=============================================================================
