----------------------------- MODULE Creatures -----------------------------
(***************************************************************************)
(* The lives of creatures: placing, moving, fighting, dying and removing   *)
(* them (src/engine/src/game.cpp:507-606 and 3506-3575, creature.cpp), the *)
(* lists by which monsters notice whom they see (monster.cpp), masters and *)
(* summons, and the reference counters that decide when a creature is      *)
(* deleted.                                                                *)
(*                                                                         *)
(* A creature is held, and counted, by the map, by the list of creatures   *)
(* to check, by the friend and target lists of monsters, by the summons of *)
(* its master and by ToReleaseCreatures, which Game::cleanup empties.      *)
(* attackedCreature, followCreature and master are raw pointers that count *)
(* for nothing.  (The protocol's share of a player is in Session, and the  *)
(* spawn's share of a monster in Spawns.)                                  *)
(*                                                                         *)
(* Everything runs on the dispatcher thread, one handler at a time; the    *)
(* functions are operators from a state to a state.  Creatures at the same *)
(* spot see each other, and nobody else does.  Lists are sets: where the   *)
(* code takes one by chance or by distance, any may come.  No creature is  *)
(* invisible or ignored by monsters, and players are in no party.  Deletion*)
(* happens at the end of the handler whose decrement caused it.  A death   *)
(* posted for a creature that has left finds nobody by its id, and is      *)
(* forgotten at once here.  The                                            *)
(* reference that Tile::postAddNotification holds until the next cleanup   *)
(* is left out.                                                            *)
(***************************************************************************)
EXTENDS Naturals, FiniteSets, FiniteSetsExt

CONSTANTS Man,     \* players
          Beast,   \* monsters
          Tame,    \* monsters that may be summoned and convinced
          Place,   \* spots out of sight of each other
          Chase,   \* chase modes of players
          NoOne    \* nullptr

Being == Man \cup Beast

ASSUME CreaturesAssumption == /\ Man \cap Beast = {}
                              /\ Tame \subseteq Beast
                              /\ Chase \subseteq BOOLEAN
                              /\ NoOne \notin Being
                              /\ IsFiniteSet(Being)

VARIABLE cre

\* at: Creature::position, which outlives the stay on the map; listed:
\* inCheckCreaturesVector; check: creatureCheck; deaths: executeDeath is
\* posted; releases: how often it is in ToReleaseCreatures.
CreState ==
  [stage    : [Being -> {"none", "placed", "removed", "freed"}],
   refs     : [Being -> Nat],
   at       : [Being -> Place \cup {NoOne}],
   listed   : SUBSET Being,
   check    : SUBSET Being,
   alive    : SUBSET Being,
   deaths   : SUBSET Being,
   releases : [Being -> Nat],
   master   : [Being -> Being \cup {NoOne}],
   summons  : [Being -> SUBSET Being],
   attacked : [Being -> Being \cup {NoOne}],
   follow   : [Being -> Being \cup {NoOne}],
   targets  : [Being -> SUBSET Being],
   friends  : [Being -> SUBSET Being]]

CreInit ==
  cre = [stage |-> [c \in Being |-> "none"], refs |-> [c \in Being |-> 0],
         at |-> [c \in Being |-> NoOne], listed |-> {}, check |-> {},
         alive |-> Being, deaths |-> {}, releases |-> [c \in Being |-> 0],
         master |-> [c \in Being |-> NoOne], summons |-> [c \in Being |-> {}],
         attacked |-> [c \in Being |-> NoOne], follow |-> [c \in Being |-> NoOne],
         targets |-> [c \in Being |-> {}], friends |-> [c \in Being |-> {}]]

-----------------------------------------------------------------------------
(* Who sees, befriends and opposes whom *)

Placed(s) == {c \in Being : s.stage[c] = "placed"}

CanSee(s, c, d) == s.at[c] = s.at[d]

Spectators(s, spot) == {c \in Placed(s) : s.at[c] = spot}

\* Monster::isFriend and isOpponent
IsFriend(s, m, c) ==
  IF s.master[m] \in Man THEN s.master[m] \in {c, s.master[c]}
  ELSE c \in Beast /\ s.master[c] = NoOne

IsOpponent(s, m, c) ==
  IF s.master[m] \in Man THEN c # s.master[m]
  ELSE c \in Man \/ s.master[c] \in Man

-----------------------------------------------------------------------------
(* Lists and counters *)

Hold(s, held) == [s EXCEPT !.refs = [c \in Being |-> @[c] + IF c \in held THEN 1 ELSE 0]]

LetGo(s, held) ==
  IF held = {} THEN s
  ELSE [s EXCEPT !.refs = [c \in Being |-> @[c] - IF c \in held THEN 1 ELSE 0]]

AddFriend(s, m, c) ==
  IF c \in s.friends[m] THEN s ELSE Hold([s EXCEPT !.friends[m] = @ \cup {c}], {c})

AddTarget(s, m, c) ==
  IF c \in s.targets[m] THEN s ELSE Hold([s EXCEPT !.targets[m] = @ \cup {c}], {c})

RemoveFriends(s, m, out) ==
  LetGo([s EXCEPT !.friends[m] = @ \ out], out \cap s.friends[m])

RemoveTargets(s, m, out) ==
  LetGo([s EXCEPT !.targets[m] = @ \ out], out \cap s.targets[m])

ClearLists(s, m) == RemoveFriends(RemoveTargets(s, m, Being), m, Being)

\* Game::addCreatureCheck
AddCreatureCheck(s, c) ==
  LET t == [s EXCEPT !.check = @ \cup {c}]
  IN  IF c \in s.listed THEN t ELSE Hold([t EXCEPT !.listed = @ \cup {c}], {c})

\* Game::removeCreatureCheck
RemoveCreatureCheck(s, c) == [s EXCEPT !.check = @ \ {c}]

\* Monster::setIdle, nothing for the dead and the removed.
SetIdle(s, m, idle) ==
  IF m \notin Placed(s) \cap s.alive THEN s
  ELSE IF idle THEN RemoveCreatureCheck(ClearLists(s, m), m)
  ELSE AddCreatureCheck(s, m)

\* Monster::updateIdleStatus, without aggressive conditions.
UpdateIdleStatus(s, m) == SetIdle(s, m, s.master[m] = NoOne /\ s.targets[m] = {})

\* Monster::onCreatureFound
Befriend(s, m, c) == IF IsFriend(s, m, c) THEN AddFriend(s, m, c) ELSE s

Oppose(s, m, c) == IF IsOpponent(s, m, c) THEN AddTarget(s, m, c) ELSE s

OnCreatureFound(s, m, c) ==
  IF ~CanSee(s, m, c) THEN s
  ELSE UpdateIdleStatus(Oppose(Befriend(s, m, c), m, c), m)

\* Monster::onCreatureLeave
OnCreatureLeave(s, m, c) ==
  LET t == IF IsFriend(s, m, c) THEN RemoveFriends(s, m, {c}) ELSE s
  IN  IF IsOpponent(s, m, c) THEN UpdateIdleStatus(RemoveTargets(t, m, {c}), m) ELSE t

\* Mutant: only those out of sight are taken off, and nobody is looked for.
ForgetTargetList(s, m) ==
  LET out == {c \in Being : c \notin s.alive \/ ~CanSee(s, m, c)}
  IN  RemoveTargets(RemoveFriends(s, m, out), m, out)

\* Monster::updateTargetList
UpdateTargetList(s, m) ==
  LET out == {c \in Being : c \notin s.alive \/ ~CanSee(s, m, c)}
      t == RemoveTargets(RemoveFriends(s, m, out), m, out)
  IN  FoldSet(LAMBDA c, u : OnCreatureFound(u, m, c), t, Spectators(s, s.at[m]) \ {m})

\* Objects without a reference are deleted; ~Monster clears its lists and
\* ~Creature releases its summons, which may be the last reference to others.
\* Nothing is left of them.
Dead(s) == {c \in Being : s.stage[c] = "removed" /\ s.refs[c] = 0}

Delete(s) ==
  LET Freed(c, u) == [LetGo(ClearLists(u, c), u.summons[c]) EXCEPT
                        !.stage[c] = "freed", !.summons[c] = {}, !.at[c] = NoOne,
                        !.attacked[c] = NoOne, !.follow[c] = NoOne, !.alive = @ \ {c},
                        !.check = @ \ {c},
                        !.master = [d \in Being |-> IF d \in u.summons[c] \cup {c} THEN NoOne ELSE @[d]]]
  IN  FoldSet(Freed, s, Dead(s))

Deleted(s) == LET f[n \in 0 .. Cardinality(Being)] == IF n = 0 THEN s ELSE Delete(f[n - 1])
              IN  IF Dead(s) = {} THEN s ELSE f[Cardinality(Being)]

\* Game::cleanup
Cleanup(s) ==
  Deleted([s EXCEPT !.refs = [c \in Being |-> @[c] - s.releases[c]],
                    !.releases = [c \in Being |-> 0]])

-----------------------------------------------------------------------------
(* Targets, masters *)

\* Creature::setAttackedCreature; the summons follow suit.
SetAttackedCreature(s, c, t) ==
  LET Of(d) == IF t = NoOne \/ ~CanSee(s, d, t) THEN NoOne ELSE t
      band == {c} \cup IF t = NoOne \/ CanSee(s, c, t) THEN s.summons[c] ELSE {}
  IN  [s EXCEPT !.attacked = [d \in Being |-> IF d \in band THEN Of(d) ELSE @[d]]]

\* Creature::setFollowCreature
SetFollowCreature(s, c, t) ==
  [s EXCEPT !.follow[c] = IF t # NoOne /\ CanSee(s, c, t) THEN t ELSE NoOne]

\* Creature::onCreatureDisappear
StopAttacking(s, m, c) == IF s.attacked[m] = c THEN SetAttackedCreature(s, m, NoOne) ELSE s

StopFollowing(s, m, c) == IF s.follow[m] = c THEN SetFollowCreature(s, m, NoOne) ELSE s

OnCreatureDisappear(s, m, c) == StopFollowing(StopAttacking(s, m, c), m, c)

\* Monster::selectTarget
SelectTarget(s, m, t) ==
  IF t \in Placed(s) \cap s.targets[m] /\ CanSee(s, m, t)
  THEN SetFollowCreature(SetAttackedCreature(s, m, t), m, t) ELSE s

\* Mutant: the old master keeps its reference.
SetMasterUncounted(s, c, boss) ==
  LET t == IF boss = NoOne THEN s ELSE Hold([s EXCEPT !.summons[boss] = @ \cup {c}], {c})
      old == s.master[c]
      u == [t EXCEPT !.master[c] = boss]
  IN  IF old = NoOne THEN u ELSE [u EXCEPT !.summons[old] = @ \ {c}]

\* Creature::setMaster
SetMaster(s, c, boss) ==
  LET t == IF boss = NoOne THEN s ELSE Hold([s EXCEPT !.summons[boss] = @ \cup {c}], {c})
      old == s.master[c]
      u == [t EXCEPT !.master[c] = boss]
  IN  IF old = NoOne THEN u ELSE LetGo([u EXCEPT !.summons[old] = @ \ {c}], {c})

-----------------------------------------------------------------------------
(* Removing, placing, moving *)

Released(s, c) == IF s.master[c] \in Placed(s) THEN SetMaster(s, c, NoOne) ELSE s

Removed(s, m, c) ==
  IF m \notin Beast THEN IF m = c THEN Released(s, c) ELSE s
  ELSE IF m = c THEN SetIdle(Released(s, c), c, TRUE) ELSE OnCreatureLeave(s, m, c)

\* onRemoveCreature, of Creature and Monster, for spectator m
OnRemoveCreature(s, m, c) == Removed(OnCreatureDisappear(s, m, c), m, c)

RemoveOne(s, c) ==
  IF c \notin Placed(s) THEN s
  ELSE LET t == FoldSet(LAMBDA m, u : OnRemoveCreature(u, m, c), s, Spectators(s, s.at[c]))
           u == [t EXCEPT !.stage[c] = "removed", !.releases[c] = @ + 1, !.deaths = @ \ {c}]
       IN  RemoveCreatureCheck(u, c)

\* Game::removeCreature, and then its summons, which have none.
RemoveSummons(s, c) == FoldSet(LAMBDA d, u : RemoveOne(u, d), s, s.summons[c])

RemoveCreature(s, c) == IF c \in Placed(s) THEN RemoveSummons(RemoveOne(s, c), c) ELSE s

\* onCreatureAppear, for spectator m
OnCreatureAppear(s, m, c) ==
  IF m \notin Beast THEN s
  ELSE IF m = c THEN UpdateIdleStatus(UpdateTargetList(s, m), m)
  ELSE OnCreatureFound(s, m, c)

\* Game::placeCreature
PlaceCreature(s, c, spot) ==
  LET t == Hold([s EXCEPT !.stage[c] = "placed", !.at[c] = spot], {c})
      u == FoldSet(LAMBDA m, v : OnCreatureAppear(v, m, c), t, Spectators(t, spot))
  IN  AddCreatureCheck(u, c)

\* What creature m loses sight of when c moves.
Lost(s, m, c, d) == d # NoOne /\ c \in {m, d} /\ ~CanSee(s, m, d)

LosePrey(s, m, c) ==
  IF Lost(s, m, c, s.follow[m]) THEN OnCreatureDisappear(s, m, s.follow[m]) ELSE s

LoseFoe(s, m, c) ==
  IF Lost(s, m, c, s.attacked[m]) THEN OnCreatureDisappear(s, m, s.attacked[m]) ELSE s

LoseSight(s, m, c) == LoseFoe(LosePrey(s, m, c), m, c)

\* What monster m makes of a move of its own or of another's from its sight.
Noticed(s, m, c, left) ==
  IF m = c THEN UpdateTargetList(s, m)
  ELSE IF CanSee(s, m, c) THEN OnCreatureFound(s, m, c)
  ELSE IF s.at[m] = left THEN OnCreatureLeave(s, m, c)
  ELSE s

\* A wild monster that follows nobody goes for an opponent that moves.
Hunt(s, m, c) ==
  IF m # c /\ s.master[m] = NoOne /\ s.follow[m] = NoOne /\ IsOpponent(s, m, c)
  THEN SelectTarget(s, m, c) ELSE s

\* onCreatureMove, for spectator m; left is c's old spot, and its summons
\* in far are out of range now.
DropSummons(s, far) == FoldSet(LAMBDA d, u : RemoveCreature(u, d), s, far)

Moved(s, m, c, left) ==
  IF m \in Beast THEN Hunt(UpdateIdleStatus(Noticed(s, m, c, left), m), m, c) ELSE s

OnCreatureMove(s, m, c, left, far) ==
  Moved(LoseSight(IF m = c THEN DropSummons(s, far) ELSE s, m, c), m, c, left)

\* Map::moveCreature
MoveCreature(s, c, spot, far) ==
  LET left == s.at[c]
      t == [s EXCEPT !.at[c] = spot]
  IN  FoldSet(LAMBDA m, u : OnCreatureMove(u, m, c, left, far), t,
              Spectators(s, left) \cup Spectators(t, spot))

\* Summons that may be out of range when c goes to spot.
OutOfRange(s, c, spot) == {d \in s.summons[c] : s.stage[d] = "placed" /\ s.at[d] # spot}

-----------------------------------------------------------------------------
(* Handlers *)

\* A login, a spawn or a script places a creature.
Enter(c, spot) == /\ cre.stage[c] = "none"
                  /\ cre' = Deleted(PlaceCreature(cre, c, spot))

\* Creature:addSummon of creature.lua, for a summoned or convinced monster
\* without summons of its own; those near note it (notifySummonAppear).
AddSummon(p, m) ==
  /\ p \in Placed(cre) /\ m \in Placed(cre)
  /\ cre.summons[m] = {} /\ cre.master[m] # p
  /\ LET s == SetMaster(SetFollowCreature(SetAttackedCreature(cre, m, NoOne), m, NoOne), m, p)
     IN  cre' = Deleted(FoldSet(LAMBDA d, u : AddTarget(u, d, m), s,
                                (Spectators(s, s.at[m]) \cap Beast) \ {m}))

\* Monster::onThinkDefense: a monster with a target places a summon.
MonsterSummons(m, d) ==
  /\ m \in Placed(cre) \cap cre.check \cap cre.alive
  /\ cre.master[m] = NoOne /\ cre.follow[m] # NoOne
  /\ cre.stage[d] = "none"
  /\ cre' = Deleted(SetMaster(PlaceCreature(cre, d, cre.at[m]), d, m))

\* A step, a teleport or a push, not of those who are dying.
Walk(c, spot) ==
  /\ c \in Placed(cre) \cap cre.alive
  /\ spot # cre.at[c]
  /\ \E far \in SUBSET OutOfRange(cre, c, spot) : cre' = Cleanup(MoveCreature(cre, c, spot, far))

\* playerSetAttackedCreature, playerFollowCreature, with and without chase.
Order(p, t, chase) ==
  /\ p \in Placed(cre)
  /\ t = NoOne \/ (t \in Placed(cre) \ {p} /\ CanSee(cre, p, t))
  /\ cre' = SetFollowCreature(SetAttackedCreature(cre, p, t), p, IF chase THEN t ELSE NoOne)

\* drainHealth down to 0 posts executeDeath.
Drain(c) == /\ c \in Placed(cre) \cap cre.alive
            /\ cre' = [cre EXCEPT !.alive = @ \ {c}, !.deaths = @ \cup {c}]

\* Monster::death: the summons die with it, later, and lose their master.
Perish(s, m) ==
  LET t == SetAttackedCreature(s, m, NoOne)
      u == LetGo([t EXCEPT !.alive = @ \ t.summons[m], !.deaths = @ \cup t.summons[m],
                           !.master = [d \in Being |-> IF d \in t.summons[m] THEN NoOne ELSE @[d]],
                           !.summons[m] = {}], t.summons[m])
  IN  ClearLists(u, m)

\* Game::executeDeath and Creature::onDeath
ExecuteDeath(c) ==
  /\ c \in cre.deaths
  /\ LET s == [cre EXCEPT !.deaths = @ \ {c}]
         t == IF c \in Beast THEN Perish(s, c) ELSE s
     IN  cre' = Deleted(IF c \in Placed(s) THEN RemoveCreature(SetMaster(t, c, NoOne), c) ELSE s)

\* A player killed in a PvP zone stays in the game, at its temple.
Revive(p, spot) ==
  /\ p \in cre.deaths \cap Placed(cre)
  /\ LET s == [cre EXCEPT !.deaths = @ \ {p}, !.alive = @ \cup {p}]
     IN  cre' = Deleted(IF spot = s.at[p] THEN s
                        ELSE MoveCreature(s, p, spot, OutOfRange(s, p, spot)))

\* A logout, a kick, a despawn, a script.
Leave(c) == c \in Placed(cre) /\ cre' = Deleted(RemoveCreature(cre, c))

\* Monster::onThink and Creature::onThink for a monster in its range; path:
\* is there a way to whom it follows.
MonsterThinks(s, m, path) ==
  LET t == IF s.follow[m] # NoOne /\ s.master[m] # NoOne /\ ~path
           THEN RemoveTargets(s, m, {s.follow[m]}) ELSE s
      u == UpdateIdleStatus(t, m)
      boss == u.master[m]
  IN  IF m \notin u.check THEN {u}
      ELSE IF boss # NoOne
      THEN {IF u.attacked[m] # NoOne THEN SetFollowCreature(u, m, u.attacked[m])
            ELSE IF u.attacked[boss] # NoOne THEN SelectTarget(u, m, u.attacked[boss])
            ELSE SetFollowCreature(u, m, boss)}
      ELSE IF u.follow[m] = NoOne THEN {u} \cup {SelectTarget(u, m, t2) : t2 \in u.targets[m]}
      ELSE {u}

\* checkCreatures takes those off the list that are not to be checked.
Unlist(s) ==
  LET out == s.listed \ s.check
  IN  [s EXCEPT !.listed = @ \ out,
                !.releases = [c \in Being |-> @[c] + IF c \in out THEN 1 ELSE 0]]

\* Game::checkCreatures: a monster of the list thinks; its first step, taken
\* at once, runs a cleanup of its own (checkCreatureWalk).
CheckCreatures(m, path, steps) ==
  /\ m \in Beast \cap cre.listed \cap cre.check \cap cre.alive
  /\ \E s \in MonsterThinks(cre, m, path) :
       cre' = Cleanup(Unlist(IF steps THEN Cleanup(s) ELSE s))

SweepCreatures == cre.listed \ cre.check # {} /\ cre' = Cleanup(Unlist(cre))

CreNext ==
  \/ \E c \in Being : \/ Drain(c) \/ ExecuteDeath(c) \/ Leave(c)
                      \/ \E spot \in Place : Enter(c, spot) \/ Walk(c, spot)
  \/ \E p \in Man : \/ \E m \in Tame : AddSummon(p, m)
                    \/ \E t \in Being \cup {NoOne}, chase \in Chase : Order(p, t, chase)
                    \/ \E spot \in Place : Revive(p, spot)
  \/ \E m \in Beast : \/ \E d \in Tame : MonsterSummons(m, d)
                      \/ \E path, steps \in BOOLEAN : CheckCreatures(m, path, steps)
  \/ SweepCreatures

CreSpec == CreInit /\ [][CreNext]_cre

-----------------------------------------------------------------------------
(* Properties *)

\* Who holds creature c, each once.
Holders(c) ==
  Cardinality({m \in Being : c \in cre.targets[m]})
    + Cardinality({m \in Being : c \in cre.friends[m]})
    + Cardinality({m \in Being : c \in cre.summons[m]})
    + Cardinality({c} \cap Placed(cre)) + Cardinality({c} \cap cre.listed) + cre.releases[c]

\* The counter of a creature is the number of those who hold it, on every
\* path by which it comes and goes: a creature is never deleted under a list
\* that holds it, and is deleted once nobody does.
CountersAgree ==
  \A c \in Being : /\ cre.refs[c] = Holders(c)
                   /\ cre.stage[c] \in {"none", "freed"} <=> cre.refs[c] = 0

\* The pointers that do not count: whom a creature on the map attacks or
\* follows is on the map, in its sight; a master is an object that still has
\* the summon in its list, so that its destructor resets the pointer.
NothingDangles ==
  \A c \in Placed(cre) :
    /\ {cre.attacked[c], cre.follow[c]} \ {NoOne} \subseteq Spectators(cre, cre.at[c])
    /\ cre.master[c] # NoOne => c \in cre.summons[cre.master[c]]

\* A wild monster notices: every player at its spot is on its target list and
\* it is checked, however it came that they see each other, so that it never
\* stands idle beside a player.
MonstersNotice ==
  \A m \in Placed(cre) \cap cre.alive \cap Beast : \A p \in Placed(cre) \cap Man :
    cre.master[m] = NoOne /\ CanSee(cre, m, p) => p \in cre.targets[m] /\ m \in cre.check

\* Reference counters, masters, attacks and pursuits agree with who is there, in
\* whatever order creatures come, see, summon, kill and leave one another
\* (creature.cpp:441-646, 1157-1179, game.cpp:507-606).
CreaturesAgree == CountersAgree /\ NothingDangles
=============================================================================
