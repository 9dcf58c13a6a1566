-------------------------------- MODULE Fight -------------------------------
(***************************************************************************)
(* Fights between players (src/engine/src/player.cpp): what the server     *)
(* keeps of them next to the condition CONDITION_INFIGHT, the lock of      *)
(* protection zones, the set of those attacked, the skull and the count of *)
(* unjustified kills, and what becomes of it by blows, kills, time, logout *)
(* and protection zones.                                                   *)
(*                                                                         *)
(* On an open world, between strangers: no party, guild, war or PvP zone.  *)
(* The handlers are operators from a state to a state, in the order of the *)
(* code.                                                                   *)
(***************************************************************************)
EXTENDS Integers, FiniteSets

CONSTANTS Fighter,
          PzLockTicks,         \* ConfigManager::PZ_LOCKED
          WhiteSkullTicks,     \* WHITE_SKULL_TIME
          PzLockSkullAttacker, \* PZLOCK_SKULL_ATTACKER
          KillsToRed, KillsToBlack

ASSUME FightAssumption == /\ {PzLockTicks, WhiteSkullTicks} \subseteq Nat \ {0}
                          /\ PzLockSkullAttacker \in BOOLEAN
                          /\ {KillsToRed, KillsToBlack} \subseteq Nat

VARIABLE fgt

NoFight == -1

\* inFight: the ticks till the condition's endTime: 0 when it is over but still
\* in the list, where only the player's own turn takes it out; that of a player
\* who is not in the game is in the database.  hits: who is in a player's
\* damageMap.  frags: skullTicks in units of FRAG_TIME.
FightInit ==
  fgt = [inGame |-> {}, inPz |-> {}, inFight |-> [p \in Fighter |-> NoFight],
         pzLocked |-> {}, attacked |-> [p \in Fighter |-> {}], hits |-> [p \in Fighter |-> {}],
         skull |-> [p \in Fighter |-> "none"], frags |-> [p \in Fighter |-> 0]]

-----------------------------------------------------------------------------

\* Mutant: the newer one counts.
SetInFight(s, p, ticks) == [s EXCEPT !.inFight[p] = ticks]

\* Creature::addCondition(CONDITION_INFIGHT): Condition::updateCondition
AddInFight(s, p, ticks) == [s EXCEPT !.inFight[p] = IF @ > ticks THEN @ ELSE ticks]

AddInFightTicks(s, p) == AddInFight(s, p, PzLockTicks)

\* Mutant: the skull of a fight outlasts it.
OnEndInFightSkulled(s, p) ==
  [s EXCEPT !.inFight[p] = NoFight, !.pzLocked = @ \ {p}, !.attacked[p] = {}]

\* The condition leaves the list: Player::onEndCondition
OnEndInFight(s, p) ==
  [s EXCEPT !.inFight[p] = NoFight, !.pzLocked = @ \ {p}, !.attacked[p] = {},
            !.skull[p] = IF @ \in {"red", "black"} THEN @ ELSE "none"]

HasAttacked(s, p, q) == q \in s.attacked[p]
AddAttacked(s, p, q) == [s EXCEPT !.attacked[p] = @ \cup {q}]

\* Player::onAttackedCreature(q) of p.  Those who have attacked p show it a
\* yellow skull, and p may strike back.
OnAttackedCreature(s, p, q) ==
  LET t == AddInFightTicks(s, q)
      yellow == t.skull[q] = "none" /\ HasAttacked(t, q, p)
      u == IF t.skull[p] = "none" /\ yellow THEN AddAttacked(t, p, q)
           ELSE IF HasAttacked(t, q, p) /\ PzLockSkullAttacker THEN t
           ELSE [AddAttacked(t, p, q) EXCEPT
                   !.pzLocked = @ \cup {p},
                   !.skull[p] = IF @ = "none" /\ t.skull[q] = "none" THEN "white" ELSE @]
  IN  AddInFightTicks(u, p)

\* Player::addUnjustifiedDead
AddUnjustifiedDead(s, p) ==
  LET n == s.frags[p] + 1
  IN  [s EXCEPT !.frags[p] = n,
                !.skull[p] = IF @ = "black" \/ (KillsToBlack > 0 /\ n > KillsToBlack - 1) THEN "black"
                             ELSE IF KillsToRed > 0 /\ n > KillsToRed - 1 THEN "red"
                             ELSE @]

\* Player::onKilledCreature
OnKilledCreature(s, p, q, lastHit) ==
  IF ~HasAttacked(s, p, q) \/ HasAttacked(s, q, p) THEN s
  ELSE LET t == IF s.skull[q] = "none" THEN AddUnjustifiedDead(s, p) ELSE s
       IN  IF lastHit /\ t.inFight[p] > 0
           THEN AddInFight([t EXCEPT !.pzLocked = @ \cup {p}], p, WhiteSkullTicks)
           ELSE t

\* savePlayer, and the Player object is deleted
LeaveFight(s, p) ==
  [s EXCEPT !.inGame = @ \ {p}, !.inPz = @ \ {p}, !.pzLocked = @ \ {p}, !.attacked[p] = {},
            !.hits = [q \in Fighter |-> IF q = p THEN {} ELSE @[q] \ {p}],
            !.skull[p] = IF @ = "white" THEN "none" ELSE @]

-----------------------------------------------------------------------------

\* loadPlayer and onCreatureAppear; skulltime may be over by now.
LogIn ==
  \E p \in Fighter \ fgt.inGame : \E n \in {fgt.frags[p], 0} :
    fgt' = [fgt EXCEPT !.inGame = @ \cup {p}, !.frags[p] = n,
                       !.skull[p] = IF n = 0 THEN "none" ELSE @]

\* A logout, which a fight forbids outside protection zones
\* (protocolgame.cpp:302), or a kick, which it does not.
LogOut == \E p \in fgt.inGame : fgt' = LeaveFight(fgt, p)

\* A player targets another, setAttackedCreature, or strikes it, blockHit.
Attack ==
  \E p, q \in fgt.inGame \ fgt.inPz :
    /\ p # q
    /\ \E s \in {AddInFightTicks(OnAttackedCreature(fgt, p, q), q)} :
         \/ fgt' = s
         \/ fgt' = [s EXCEPT !.hits[q] = @ \cup {p}]

\* Creature::onDeath and Player::death.  Who did most of the damage is told only
\* after removeAttacked, and so nothing comes of it unless it struck last.
Die ==
  \E q \in fgt.inGame : \E p, m \in fgt.hits[q] :
    /\ fgt.frags[p] <= KillsToBlack                                     \* bound
    /\ LET s == OnKilledCreature(fgt, p, q, TRUE)
           t == [s EXCEPT !.attacked = [x \in Fighter |-> IF x \in s.hits[q] THEN @[x] \ {q} ELSE @[x]]]
           u == IF m = p THEN t ELSE OnKilledCreature(t, m, q, FALSE)
       IN  fgt' = LeaveFight(OnEndInFight(u, q), q)

\* Player::onChangeZone; tile.cpp:559 keeps out those that are locked.
EnterPz == \E p \in fgt.inGame \ (fgt.inPz \cup fgt.pzLocked) :
             LET s == [fgt EXCEPT !.inPz = @ \cup {p}]
             IN  fgt' = IF s.inFight[p] = NoFight THEN s ELSE OnEndInFight(s, p)

LeavePz == \E p \in fgt.inPz : fgt' = [fgt EXCEPT !.inPz = @ \ {p}]

\* Time passes for those in the game.
Elapses ==
  fgt' = [fgt EXCEPT !.inFight = [p \in Fighter |-> IF p \in fgt.inGame /\ @[p] > 0 THEN @[p] - 1 ELSE @[p]]]

\* Player::checkSkullTicks
CheckSkullTicks(s, p, n) ==
  [s EXCEPT !.frags[p] = n,
            !.skull[p] = IF @ \in {"red", "black"} /\ n = 0 /\ s.inFight[p] <= 0 THEN "none" ELSE @]

\* Game::checkCreatures: onThink, then executeConditions.
Think ==
  \E p \in fgt.inGame : \E n \in {fgt.frags[p], 0} :
    LET s == CheckSkullTicks(fgt, p, n)
    IN  fgt' = IF s.inFight[p] = 0 THEN OnEndInFight(s, p) ELSE s

FightNext == LogIn \/ LogOut \/ Attack \/ Die \/ EnterPz \/ LeavePz \/ Elapses \/ Think

FightSpec == FightInit /\ [][FightNext]_fgt

-----------------------------------------------------------------------------

\* What marks a player as fighting, the lock, those it has attacked or a white
\* skull, is there only with the condition that takes it away again: nobody is
\* left locked out, or marked, for good.  Red and black skulls are paid for with
\* kills, or wait for a fight to end or the next turn (player.cpp:3327-3431).
MarksEnd ==
  \A p \in Fighter :
    /\ p \in fgt.pzLocked \/ fgt.attacked[p] # {} \/ fgt.skull[p] = "white"
         => p \in fgt.inGame /\ fgt.inFight[p] # NoFight
    /\ fgt.hits[p] \subseteq fgt.inGame
    /\ fgt.frags[p] > 0 /\ KillsToRed = 1 => fgt.skull[p] \in {"red", "black"}

\* A fight does not end sooner because the players fight on: no blow and no kill
\* brings the end of CONDITION_INFIGHT closer, not even a blow after a kill that
\* is paid for with WHITE_SKULL_TIME; only time, death and a protection zone do
\* (condition.cpp:320-337, 354-359, player.cpp:3513-3521).
FightGoesOn ==
  ~Elapses => \A p \in fgt.inGame \cap fgt'.inGame :
    fgt'.inFight[p] >= fgt.inFight[p] \/ fgt.inFight[p] = 0 \/ p \in fgt'.inPz
=============================================================================
