------------------------------- MODULE Casting -------------------------------
(***************************************************************************)
(* Blows and spells between players, and what they cost: health, mana and  *)
(* exhaustion (game.cpp, combat.cpp, spells.cpp, weapons.cpp).             *)
(*                                                                         *)
(* A blow is handed down as a record by reference: blocked, absorbed by    *)
(* the mana shield, shown to the scripts that watch the creature (which    *)
(* may change it, whereupon everything starts again without them), capped, *)
(* and drained.  Health that reaches zero posts a death, which runs in a   *)
(* task of its own.  A spell is checked before its script runs and paid    *)
(* for after it.                                                           *)
(*                                                                         *)
(* The players have no flags, and no skulls (Fight has those).  What       *)
(* armour, formulas and luck leave of a blow is any amount; a Script is    *)
(* what the scripts do this time.  Handlers are operators from a state to  *)
(* a state.  The health and mana that a level gives are constants.         *)
(***************************************************************************)
EXTENDS Integers, FiniteSets

CONSTANTS Duellist,
          Caster,      \* those of them who cast spells
          Spell,       \* [group, effect, cost, cooldown, param]
          MaxExhaust,  \* the longest cooldown
          Script,      \* [mana, health, heals, spares]: see Watch
          MaxHealth, MaxMana,
          Strength,    \* bound: what a blow does at most
          MaxDeaths,   \* bound: deaths posted for a player when a handler starts
          MaxRunes,    \* bound: charges of the rune
          Weary        \* [mana, health]: what a use of the weapon costs

Group == {"combat", "heal"}

\* Scripts that change nothing: mana and health are the amounts they return
\* from onManaChange and onHealthChange, or Same; heals tells whether the
\* latter makes it healing; spares, whether onPrepareDeath vetoes.
Same == -1
Watch == [mana |-> Same, health |-> Same, heals |-> FALSE, spares |-> FALSE]

ASSUME CastingAssumption ==
  /\ Caster \subseteq Duellist /\ IsFiniteSet(Duellist)
  /\ {MaxHealth, MaxMana} \subseteq Nat \ {0} /\ {Strength, MaxDeaths, MaxRunes, MaxExhaust} \subseteq Nat
  /\ Spell \subseteq [group : Group, effect : {"strike", "heal", "shield"}, cost : Nat,
                    cooldown : 0..MaxExhaust, param : BOOLEAN]
  /\ Watch \in Script
  /\ Script \subseteq [mana : Nat \cup {Same}, health : Nat \cup {Same}, heals : BOOLEAN, spares : BOOLEAN]
  /\ Weary \in [mana : Nat, health : Nat]

VARIABLE cst

\* deaths: how often executeDeath is posted; owed (history): the cooldown
\* that the spells cast so far still ask for.
CastingTypeOK ==
  /\ cst.hp \in [Duellist -> 0..MaxHealth] /\ cst.mana \in [Duellist -> 0..MaxMana]
  /\ {cst.exhaust, cst.owed} \subseteq [Duellist -> [Group -> 0..MaxExhaust]]
  /\ cst.deaths \in [Duellist -> 0..MaxDeaths + 3]
  /\ cst.shielded \subseteq Duellist /\ cst.left \subseteq Duellist /\ cst.runes \in 0..MaxRunes
  /\ cst.watched \subseteq {"health", "mana"}

Rested == [g \in Group |-> 0]

\* watched: the events that scripts have registered for the players.
CastingInit ==
  \E watched \in {{}, {"health", "mana"}} :
    cst = [hp |-> [p \in Duellist |-> MaxHealth], mana |-> [p \in Duellist |-> MaxMana],
           exhaust |-> [p \in Duellist |-> Rested], owed |-> [p \in Duellist |-> Rested],
           deaths |-> [p \in Duellist |-> 0], shielded |-> {}, left |-> {}, runes |-> MaxRunes, watched |-> watched]

Least(a, b) == IF a < b THEN a ELSE b
Most(a, b) == IF a > b THEN a ELSE b
Present(s) == Duellist \ s.left

-----------------------------------------------------------------------------
(* Health and mana *)

\* Creature::changeHealth: a creature that has none left dies in a task.
ChangeHealth(s, p, n) ==
  LET h == Least(MaxHealth, Most(0, s.hp[p] + n))
  IN  [s EXCEPT !.hp[p] = h, !.deaths[p] = IF h = 0 THEN @ + 1 ELSE @]

ChangeMana(s, p, n) == [s EXCEPT !.mana[p] = Least(MaxMana, Most(0, @ + n))]

\* A blow: its two damages, and whether scripts may see it (its origin).
Blow(first, second, seen) == [first |-> first, second |-> second, seen |-> seen]
Total(b) == b.first + b.second

\* Mutant: what the shield takes beyond the first damage is not taken off
\* the second.
RestUnshared(b, n) == [b EXCEPT !.first = Most(0, @ - n)]

\* What is left of a blow of which the mana shield takes n.
Rest(b, n) == [b EXCEPT !.first = Most(0, @ - n),
                        !.second = IF b.first < n THEN Most(0, @ + b.first - n) ELSE @]

OnManaChange(s, b, c) ==
  IF b.seen /\ "mana" \in s.watched /\ c.mana # Same THEN [b EXCEPT !.first = c.mana, !.second = 0] ELSE b

\* The mana shield: what is left of the blow, and the state after it.
Absorbed(s, t, b) == LET n == Least(s.mana[t], Total(b))
                     IN  [state |-> ChangeMana(s, t, -n), blow |-> Rest(b, n)]
Absorbs(s, t, b, c) ==
  IF t \in s.shielded /\ s.mana[t] > 0 /\ Total(b) > 0
  THEN Absorbed(s, t, OnManaChange(s, b, c)) ELSE [state |-> s, blow |-> b]

\* The rest is capped by the health there is; a death may be vetoed.
Drains(s, t, b, c) ==
  LET first == Least(b.first, s.hp[t])
      second == Least(b.second, s.hp[t] - first)
      n == first + second
  IN  IF n = 0 \/ (n >= s.hp[t] /\ c.spares) THEN s ELSE ChangeHealth(s, t, -n)

Heals(s, t, n) == IF s.hp[t] <= 0 THEN s ELSE ChangeHealth(s, t, n)

\* The second time round: no script is asked again.
HurtsUnseen(s, t, b, c) == LET r == Absorbs(s, t, [b EXCEPT !.seen = FALSE], c)
                           IN  Drains(r.state, t, r.blow, c)
OnHealthChange(s, t, b, c) ==
  IF c.health = Same THEN HurtsUnseen(s, t, b, c)
  ELSE IF c.heals /\ c.health > 0 THEN Heals(s, t, c.health)
  ELSE HurtsUnseen(s, t, Blow(c.health, 0, FALSE), c)

\* Game::combatChangeHealth of a blow
Hurts(s, t, b, c) ==
  LET r == Absorbs(s, t, b, c)
  IN  IF Total(r.blow) > 0 /\ b.seen /\ "health" \in s.watched
      THEN OnHealthChange(r.state, t, r.blow, c)
      ELSE Drains(r.state, t, r.blow, c)

\* Game::combatChangeHealth of healing by a spell
HealsSeen(s, t, n, c) ==
  IF s.hp[t] > 0 /\ "health" \in s.watched /\ c.health # Same
  THEN IF c.heals /\ c.health > 0 THEN Heals(s, t, c.health) ELSE HurtsUnseen(s, t, Blow(c.health, 0, FALSE), c)
  ELSE Heals(s, t, n)

\* Game::combatChangeMana: what is drained is capped, blocked, then watched.
DrainsMana(s, t, n, c) ==
  LET m == IF "mana" \in s.watched /\ c.mana # Same THEN c.mana ELSE n
  IN  ChangeMana(s, t, -Least(s.mana[t], m))

-----------------------------------------------------------------------------
(* Combat *)

\* Formulas and luck.
CombatDamage == {Blow(i, Strength - i, TRUE) : i \in 0..Strength}

\* What immunity, defence, armour and absorbing items leave of a damage
BlockHit(n) == 0..n

\* ... and of a blow.  One of which nothing is left ends here.
CombatBlockHit(b) == {Blow(i, j, b.seen) : i \in BlockHit(b.first), j \in BlockHit(b.second)}

\* Life and mana are leeched from the health that the target lost.
Leeches(s, before, a, t) ==
  LET n == before.hp[t] - s.hp[t]
  IN  {s} \cup {ChangeMana(Heals(s, a, i), a, j) : i, j \in 1..n}

DoTargetCombat(s, a, t, c) ==
  UNION {Leeches(Hurts(s, t, d, c), s, a, t) : d \in UNION {CombatBlockHit(b) : b \in CombatDamage}}

\* An aggressive spell strikes all in its area but the caster, one by one.
DoAreaCombat(s, a, c) ==
  LET strike[others \in SUBSET (Present(s) \ {a})] ==
        IF others = {} THEN {s}
        ELSE LET t == CHOOSE p \in others : TRUE
             IN  UNION {DoTargetCombat(r, a, t, c) : r \in strike[others \ {t}]}
  IN  strike[Present(s) \ {a}]

\* What the script of a spell may do, in the end by way of Combat:execute.
Effects(s, p, x, c) ==
  CASE x.effect = "strike" -> DoAreaCombat(s, p, c)
    [] x.effect = "heal" -> {HealsSeen(s, t, n, c) : t \in Present(s), n \in 1..Strength}
                              \cup {ChangeMana(s, p, n) : n \in 1..Strength}
    [] x.effect = "shield" -> {[s EXCEPT !.shielded = @ \cup {p}]}

-----------------------------------------------------------------------------
(* Spells *)

\* Condition::updateCondition: of two exhaustions the longer one counts.
AddExhaust(s, p, g, ticks) == [s EXCEPT !.exhaust[p][g] = Most(@, ticks)]

\* Spell::playerSpellCheck; the rest that it asks for (level, vocation, zone,
\* learnt) may or may not be there.
PlayerSpellCheck(s, p, x) == s.exhaust[p][x.group] = 0 /\ s.mana[p] >= x.cost

\* A rune is there to be used on somebody or somewhere.
PlayerRuneSpellCheck(s, p, x) == s.runes > 0 /\ x.effect # "shield" /\ PlayerSpellCheck(s, p, x)

PostCastSpell(s, p, x) ==
  ChangeMana([AddExhaust(s, p, x.group, x.cooldown) EXCEPT !.owed[p][x.group] = x.cooldown], p, -x.cost)

\* A spell for a player who is not there exhausts, though as healing does.
MisnamesTarget(p, x) ==
  x.param /\ PlayerSpellCheck(cst, p, x) /\ cst' = AddExhaust(cst, p, "heal", x.cooldown)

\* InstantSpell::playerCastInstant, by Spells::playerSaySpell
CastInstant(p, x, c) ==
  /\ PlayerSpellCheck(cst, p, x)
  /\ \E s \in Effects(cst, p, x, c) : cst' = PostCastSpell(s, p, x)

\* RuneSpell::executeUse
UseRune(p, x, c) ==
  /\ PlayerRuneSpellCheck(cst, p, x)
  /\ \E s \in Effects(cst, p, x, c) : cst' = [PostCastSpell(s, p, x) EXCEPT !.runes = @ - 1]

-----------------------------------------------------------------------------
(* Weapons *)

Attacking(p, t) == cst.hp[p] > 0 /\ p # t

PlayerWeaponCheck(s, p) == s.mana[p] >= Weary.mana /\ s.hp[p] >= Weary.health

\* The costs are paid after the blow,
OnUsedWeapon(s, p) ==
  LET t == ChangeMana(s, p, -Weary.mana)
  IN  IF Weary.health = 0 THEN t ELSE ChangeHealth(t, p, -Weary.health)

UseWeapon(p, t, c) ==
  /\ Attacking(p, t) /\ PlayerWeaponCheck(cst, p)
  /\ \E s \in DoTargetCombat(cst, p, t, c) : cst' = OnUsedWeapon(s, p)

\* ... also when the shot has missed.
MissesTarget(p, t) == Attacking(p, t) /\ PlayerWeaponCheck(cst, p) /\ cst' = OnUsedWeapon(cst, p)

UseFist(p, t, c) == Attacking(p, t) /\ cst' \in DoTargetCombat(cst, p, t, c)

\* A weapon or a monster that drains mana.
DrainMana(t, c) == \E n \in 1..Strength : cst' = DrainsMana(cst, t, n, c)

-----------------------------------------------------------------------------
(* Time, conditions and death *)

\* Conditions are executed for those who have health; one may harm and the
\* next one regenerate, in the same turn.
ExecuteConditions(p, c) ==
  /\ cst.hp[p] > 0
  /\ \E n \in 0..Strength : \E d \in BlockHit(n), gain \in 0..1 :
       LET s == Hurts(cst, p, Blow(d, 0, TRUE), c)
       IN  cst' = IF gain = 0 THEN s ELSE ChangeMana(ChangeHealth(s, p, gain), p, gain)

EndShield(p) == p \in cst.shielded /\ cst' = [cst EXCEPT !.shielded = @ \ {p}]

Elapse == cst' = [cst EXCEPT !.exhaust = [p \in Duellist |-> [g \in Group |-> Most(0, @[p][g] - 1)]],
                             !.owed = [p \in Duellist |-> [g \in Group |-> Most(0, @[p][g] - 1)]]]

\* Player::death: the conditions go, and health is as it should be.
Death(s, p) == [s EXCEPT !.hp[p] = MaxHealth, !.exhaust[p] = Rested, !.owed[p] = Rested,
                         !.shielded = @ \ {p}]

\* Game::executeDeath.  In an arena (ZONE_PVP) the loser stays in the game;
\* otherwise deaths posted twice find nobody.
ExecuteDeath(p) ==
  /\ cst.deaths[p] > 0 /\ p \notin cst.left
  /\ \/ cst' = [Death(cst, p) EXCEPT !.deaths[p] = @ - 1]
     \/ cst' = [Death(cst, p) EXCEPT !.deaths[p] = 0, !.mana[p] = MaxMana, !.left = @ \cup {p}]

LogIn(p) == p \in cst.left /\ cst' = [cst EXCEPT !.left = @ \ {p}]

Crowded == \E p \in Duellist : cst.deaths[p] > MaxDeaths

CastingNext ==
  \/ /\ ~Crowded
     /\ \/ \E p \in Present(cst) \cap Caster, x \in Spell : 
             MisnamesTarget(p, x) \/ \E c \in Script : CastInstant(p, x, c) \/ UseRune(p, x, c)
        \/ \E p, t \in Present(cst) : MissesTarget(p, t) \/ \E c \in Script : UseWeapon(p, t, c) \/ UseFist(p, t, c)
        \/ \E p \in Present(cst), c \in Script : DrainMana(p, c) \/ ExecuteConditions(p, c)
  \/ \E p \in Present(cst) : EndShield(p) \/ ExecuteDeath(p)
  \/ Elapse \/ \E p \in Duellist : LogIn(p)

CastingSpec == CastingInit /\ [][CastingNext]_cst

-----------------------------------------------------------------------------
\* A blow takes its two damages, first of the mana if there is a shield and
\* then of the health, and no more than there is, whatever path it takes
\* through Game::combatChangeHealth: scripts that only watch make no
\* difference, although what they have seen starts all over again.
BlowsAddUp ==
  \A t \in Duellist, first, second \in 0..Strength, seen \in BOOLEAN :
    LET r == Hurts(cst, t, Blow(first, second, seen), Watch)
        mana == IF t \in cst.shielded THEN Least(first + second, cst.mana[t]) ELSE 0
    IN  /\ r.mana[t] = cst.mana[t] - mana
        /\ r.hp[t] = Most(0, cst.hp[t] - (first + second - mana))

\* A player without health has a death to come: checkCreatures passes by
\* creatures with none, so one that had none posted would stand there for ever.
DeadAreDoomed == \A p \in Present(cst) : cst.hp[p] = 0 => cst.deaths[p] > 0

\* No spell is cast before the cooldown of the last one of its group is over,
\* whatever else exhausts the player meanwhile.
CooldownsHold == \A p \in Duellist, g \in Group : cst.owed[p][g] <= cst.exhaust[p][g]

CastingSound == CastingTypeOK /\ BlowsAddUp /\ DeadAreDoomed /\ CooldownsHold
=============================================================================
