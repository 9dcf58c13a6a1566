----------------------------- MODULE Conditions -----------------------------
(***************************************************************************)
(* The conditions of a creature (src/engine/src/condition.cpp and the list *)
(* of creature.cpp:1181-1330), and what they do to it while they last: its *)
(* speed, its skills, whether it can be seen.                              *)
(*                                                                         *)
(* left is a condition's endTime, as the ticks till then: 0 when it is over*)
(* but still in the list, where only the creature's own turn takes it out, *)
(* and -1 for one without an end.  What is refused while the creature walks*)
(* comes back from an event on the scheduler, perhaps after a logout and a *)
(* login.  The handlers are operators from a state to a state.             *)
(***************************************************************************)
EXTENDS Integers, FiniteSets, FiniteSetsExt

CONSTANTS Spell, \* what may be given to it: [type, id, delta, left]
          MaxLater \* bound: events under way

ASSUME ConditionsAssumption ==
  Spell \subseteq [type : {"haste", "paralyze", "attributes", "invisible"}, id : Nat, delta : Int,
                    left : Nat \cup {-1}]

VARIABLE cnd

Speeds == {"haste", "paralyze"}

\* session: logins so far, in whose place a creature's id stands; stored: the
\* persistent conditions while the player is not in the game.
CndInit == cnd = [inGame |-> TRUE, session |-> 0, conds |-> {}, speed |-> 0, bonus |-> 0,
                  hidden |-> FALSE, later |-> {}, stored |-> {}]

OfType(s, type) == {c \in s.conds : c.type = type}
HasCondition(s, type) == \E c \in OfType(s, type) : c.left # 0

-----------------------------------------------------------------------------

ChangeSpeed(s, delta) == [s EXCEPT !.speed = @ + delta]
SetVarSkills(s, delta) == [s EXCEPT !.bonus = @ + delta]

\* ConditionSpeed, ConditionAttributes and ConditionInvisible::startCondition
StartCondition(s, c) ==
  CASE c.type \in Speeds      -> ChangeSpeed(s, c.delta)
    [] c.type = "attributes"  -> SetVarSkills(s, c.delta)
    [] c.type = "invisible"   -> [s EXCEPT !.hidden = TRUE]

\* Mutant: whoever else hides the creature, it is seen.
EndConditionSeen(s, c) ==
  CASE c.type \in Speeds      -> ChangeSpeed(s, -c.delta)
    [] c.type = "attributes"  -> SetVarSkills(s, -c.delta)
    [] c.type = "invisible"   -> [s EXCEPT !.hidden = FALSE]

\* endCondition, of a condition that has left the list
EndCondition(s, c) ==
  CASE c.type \in Speeds      -> ChangeSpeed(s, -c.delta)
    [] c.type = "attributes"  -> SetVarSkills(s, -c.delta)
    [] c.type = "invisible"   -> [s EXCEPT !.hidden = OfType(s, "invisible") # {}]

AnyOf(X) == CHOOSE x \in X : TRUE

EndConditions(s, ended) ==
  MapThenFoldSet(LAMBDA c, t : EndCondition([t EXCEPT !.conds = @ \ {c}], c),
                 s, LAMBDA c : c, AnyOf, ended)

\* Condition::updateCondition
UpdateCondition(old, c) == IF c.left = -1 THEN TRUE ELSE old.left # -1 /\ old.left <= c.left

\* addCondition of the condition that is there already.  A speed gives way to
\* any but a passing one to one that lasts.
Renewed(s, old, c) ==
  LET t == [s EXCEPT !.conds = (@ \ {old}) \cup {c}]
      renews == IF c.type \in Speeds THEN ~(old.left = -1 /\ c.left > 0) ELSE UpdateCondition(old, c)
  IN  IF ~renews THEN s
      ELSE CASE c.type \in Speeds      -> ChangeSpeed(t, c.delta - old.delta)
             [] c.type = "attributes"  -> SetVarSkills(t, c.delta - old.delta)
             [] c.type = "invisible"   -> t

\* Creature::addCondition, from the search for one of its kind on
AddNow(s, c) ==
  LET prev == {old \in OfType(s, c.type) : old.id = c.id}
  IN  IF prev = {} THEN StartCondition([s EXCEPT !.conds = @ \cup {c}], c)
      ELSE Renewed(s, AnyOf(prev), c)

\* ... and what comes before it: haste waits for a paralysed creature's step.
AddCondition(s, c, walking) ==
  IF walking /\ c.type = "haste" /\ HasCondition(s, "paralyze")
  THEN [s EXCEPT !.later = @ \cup {[session |-> s.session, gives |-> {c}]}]
  ELSE AddNow(s, c)

\* Creature::removeCondition(type)
RemoveCondition(s, type, walking) ==
  IF walking /\ type = "paralyze" /\ OfType(s, type) # {}
  THEN [s EXCEPT !.later = @ \cup {[session |-> s.session, gives |-> {}]}]
  ELSE EndConditions(s, OfType(s, type))

\* Condition::isPersistent; other ids are those of inventory slots.
Persistent(c) == c.left # -1 /\ c.id = 0

-----------------------------------------------------------------------------

Cast == /\ cnd.inGame
        /\ Cardinality(cnd.later) < MaxLater                             \* bound
        /\ \E c \in Spell, walking \in BOOLEAN : cnd' = AddCondition(cnd, c, walking)

\* A spell cures, an item is taken off or wears off.
Cure == /\ cnd.inGame
        /\ Cardinality(cnd.later) < MaxLater                             \* bound
        /\ \/ \E c \in Spell, walking \in BOOLEAN : cnd' = RemoveCondition(cnd, c.type, walking)
           \/ \E c \in cnd.conds : c.id > 0 /\ cnd' = EndConditions(cnd, {c})

\* Game::forceAddCondition and forceRemoveCondition: nothing, if the creature
\* has gone, even if the player is back.
Forced ==
  \E e \in cnd.later :
    LET s == [cnd EXCEPT !.later = @ \ {e}]
    IN  cnd' = IF ~s.inGame \/ e.session # s.session THEN s
               ELSE IF e.gives = {} THEN RemoveCondition(s, "paralyze", FALSE)
               ELSE AddNow(s, AnyOf(e.gives))

Elapse == cnd.inGame /\ cnd' = [cnd EXCEPT !.conds = {[c EXCEPT !.left = IF @ > 0 THEN @ - 1 ELSE @] : c \in @}]

\* Creature::executeConditions
ExecuteConditions == cnd.inGame /\ cnd' = EndConditions(cnd, {c \in cnd.conds : c.left = 0})

\* Player::death, or a kick or a logout: savePlayer, and the object goes.
Leaves ==
  /\ cnd.inGame
  /\ \E dies \in BOOLEAN :
       cnd' = [cnd EXCEPT !.inGame = FALSE, !.conds = {}, !.speed = 0, !.bonus = 0, !.hidden = FALSE,
                          !.stored = IF dies THEN {} ELSE {c \in cnd.conds : Persistent(c)}]

\* Player::onCreatureAppear: storedConditionList
Returns ==
  /\ ~cnd.inGame
  /\ cnd' = MapThenFoldSet(LAMBDA c, t : AddNow(t, c),
              [cnd EXCEPT !.inGame = TRUE, !.session = 1 - @, !.stored = {},
                          !.later = {e \in @ : e.session = cnd.session}],
              LAMBDA c : c, AnyOf, cnd.stored)

CndNext == Cast \/ Cure \/ Forced \/ Elapse \/ ExecuteConditions \/ Leaves \/ Returns

CndSpec == CndInit /\ [][CndNext]_cnd

-----------------------------------------------------------------------------

Total(types) == MapThenSumSet(LAMBDA c : c.delta, {c \in cnd.conds : c.type \in types})

\* A creature has one condition of a kind, and its speed, skills and visibility
\* are those that its conditions make up together, in whatever order they were
\* renewed, delayed by a step, ended, stored and loaded: nothing is undone twice
\* or left behind (creature.cpp:1181-1330, condition.cpp:386-410, 1588-1645).
EffectsAgree ==
  /\ \A c, d \in cnd.conds : c.type = d.type /\ c.id = d.id => c = d
  /\ cnd.speed = Total(Speeds) /\ cnd.bonus = Total({"attributes"})
  /\ cnd.hidden <=> OfType(cnd, "invisible") # {}
  /\ ~cnd.inGame => cnd.conds = {}
=============================================================================
