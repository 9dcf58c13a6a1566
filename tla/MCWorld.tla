------------------------------ MODULE MCWorld ------------------------------
(***************************************************************************)
(* The game world for TLC: what a player carries and how it is stored;     *)
(* creatures that see and hunt one another, the conditions of one of them, *)
(* the fights of two players, and items that decay.                        *)
(* They share no state here, so each behaviour has one of them at work:    *)
(* the variables of the others are out of it (Off), and what a component   *)
(* promises is asked where it is at work.                                  *)
(***************************************************************************)
EXTENDS Items, Persistence, Creatures, Conditions, Fight, Decay

VARIABLE part

\* Two slots, the first for bags only.
MCWear == (Bag \X {1}) \cup (Thing \X {2})

Given(type, id, delta, left) == [type |-> type, id |-> id, delta |-> delta, left |-> left]
MCSpell == {Given("haste", 0, 2, 2), Given("haste", 0, 1, 1), Given("haste", 7, 1, -1),
            Given("paralyze", 0, -1, 1), Given("attributes", 0, 1, 2),
            Given("attributes", 0, 3, 1), Given("invisible", 7, 0, -1),
            Given("invisible", 0, 0, 1)}

MCTime == [torch |-> 16, stub |-> 8, ash |-> 0, on |-> 8, off |-> 0]
MCInto == [torch |-> "stub", stub |-> "ash", ash |-> "never", on |-> "gone", off |-> "never"]
MCClass == [torch |-> 1, stub |-> 1, ash |-> 2, on |-> 3, off |-> 3]
MCTurns == {<<"stub", "torch">>, <<"on", "off">>, <<"off", "on">>}

\* An item that is replaced leaves at most one other free, and stacks that are
\* not in use are alike, so that no choice tells the items or the stacks apart.
MCSame == Permutations(Item) \cup Permutations(Stack)

Off == <<>>

WorldInit ==
  /\ IF part = "items" THEN InvInit ELSE inv = Off
  /\ IF part = "saving" THEN SavInit ELSE sav = Off
  /\ IF part = "creatures" THEN CreInit ELSE cre = Off
  /\ IF part = "conditions" THEN CndInit ELSE cnd = Off
  /\ IF part = "fights" THEN FightInit ELSE fgt = Off
  /\ IF part = "decay" THEN DcyInit ELSE dcy = Off

WorldStart ==
  /\ part \in {"items", "saving", "creatures", "conditions", "fights", "decay"}
  /\ WorldInit

WorldNext ==
  /\ UNCHANGED part
  /\ \/ part = "items" /\ InvNext /\ UNCHANGED <<sav, cre, cnd, fgt, dcy>>
     \/ part = "saving" /\ SavNext /\ UNCHANGED <<inv, cre, cnd, fgt, dcy>>
     \/ part = "creatures" /\ CreNext /\ UNCHANGED <<inv, sav, cnd, fgt, dcy>>
     \/ part = "conditions" /\ CndNext /\ UNCHANGED <<inv, sav, cre, fgt, dcy>>
     \/ part = "fights" /\ FightNext /\ UNCHANGED <<inv, sav, cre, cnd, dcy>>
     \/ part = "decay" /\ DcyNext /\ UNCHANGED <<inv, sav, cre, cnd, fgt>>

WorldSpec == WorldStart /\ [][WorldNext]_<<part, inv, sav, cre, cnd, fgt, dcy>>

\* No request creates or destroys a coin, and parents, slots, lists and
\* weights tell of one cargo (Items!WorthConserved, Items!CargoAgrees).
Cargo == part = "items" => WorthConserved /\ CargoAgrees

\* Only what is exchanged can make a bag hold more than it may
\* (Items!OverfilledByExchange).
Overfilling == [][part = "items" => OverfilledByExchange]_inv

\* A save is there as a whole or not at all (Persistence!SavesAreWhole), and
\* an item that decays is freed once, and in time (Decay!DecayAgrees).
Records == /\ part = "saving" => SavesAreWhole
           /\ part = "decay" => DecayAgrees

\* Reference counters, masters, attacks and pursuits agree with who is there,
\* and no wild monster stands idle beside a player (Creatures!CreaturesAgree,
\* Creatures!MonstersNotice).
Beings == part = "creatures" => CreaturesAgree /\ MonstersNotice

\* Speed, skills and visibility are those of the conditions there are
\* (Conditions!EffectsAgree).
Effects == part = "conditions" => EffectsAgree

\* Nobody is left locked out, or marked, for good, and no blow and no kill
\* ends a fight sooner (Fight!MarksEnd, Fight!FightGoesOn).
Fights == [](part = "fights" => MarksEnd) /\ [][part = "fights" => FightGoesOn]_fgt
=============================================================================
