---------------------------- MODULE Persistence ----------------------------
(***************************************************************************)
(* Saving and loading a player (src/engine/src/iologindata.cpp), with the  *)
(* transactions of database.cpp and those who save: logout, the global     *)
(* save, a script, and a mailbox with post for a player who is offline.    *)
(*                                                                         *)
(* The dispatcher thread writes a save one statement at a time; a step is  *)
(* one statement.  In between the process may crash, the connection may be *)
(* lost (executeQuery tries again for as long as it takes, and the client  *)
(* library has been told to reconnect), and any statement may fail.        *)
(*                                                                         *)
(* Abstracted: what a player has is a set of coins, each in one of the     *)
(* parts a save writes one after the other: the row of the player (the     *)
(* bank balance), the items carried (spells and storage are written in the *)
(* same way), the depot (lockers and chests, written alike).  The column   *)
(* `save` is 1, its default; an INSERT too long for a packet is not split. *)
(***************************************************************************)
EXTENDS Integers, Sequences, FiniteSets

CONSTANTS Coin,      \* what the player owns from the start
          Letter,    \* what others may send
          MaxTries,  \* how often onRemoveCreature tries to save
          MaxLosses  \* bound: losses of the connection

ASSUME SavAssumption == {MaxTries, MaxLosses} \subseteq Nat /\ Coin \cap Letter = {}

VARIABLE sav

Store == {"row", "items", "depot"}

Nothing == [x \in Store |-> {}]

Owned(store) == UNION {store[x] : x \in Store}

\* player holds what is in memory while somebody has it loaded, touched is
\* the save flag of the locker; plan is what is left to do of a save, for
\* whom; stored is what the database has committed, working what the open
\* transaction sees.
SavInit ==
  \E at \in [Coin -> Store] :
    sav = [user |-> "nobody", player |-> Nothing, touched |-> FALSE,
           plan |-> << >>, why |-> "none", tries |-> 0,
           stored |-> [x \in Store |-> {c \in Coin : at[c] = x}],
           working |-> Nothing, open |-> FALSE, lost |-> FALSE,
           \* history: the player as last committed; whether the connection
           \* was lost in the transaction under way, and whether in one
           \* whose traces are still there
           last |-> [x \in Store |-> {c \in Coin : at[c] = x}],
           cut |-> FALSE, torn |-> FALSE,
           losses |-> 0]

Quiet(s) == s.plan = << >>

Plan(touched) ==
  <<"begin", "row", "clear items", "items">> \o
  (IF touched THEN <<"clear depot", "depot">> ELSE << >>) \o <<"commit">>

StartSave(s, why) ==
  [s EXCEPT !.plan = Plan(s.touched), !.why = why, !.cut = FALSE]

Unload(s) == [s EXCEPT !.user = "nobody", !.player = Nothing, !.touched = FALSE]

-----------------------------------------------------------------------------
(* Those who save *)

LoadPlayer(s, user) == [s EXCEPT !.user = user, !.player = s.stored]

LogsIn == /\ Quiet(sav) /\ sav.user = "nobody"
          /\ sav' = LoadPlayer(sav, "session")

\* Things move between the parts; DepotLocker's notifications set save.
Change(s, from, to, c) ==
  [s EXCEPT !.player[from] = @ \ {c}, !.player[to] = @ \cup {c},
            !.touched = @ \/ "depot" \in {from, to}]

Plays == /\ Quiet(sav) /\ sav.user = "session"
         /\ \E from, to \in Store :
              /\ from # to
              /\ \E c \in sav.player[from] : sav' = Change(sav, from, to, c)

\* saveGameState, and the Lua method player:save
SavedByServer == /\ Quiet(sav) /\ sav.user = "session"
                 /\ sav' = StartSave(sav, "stays")

\* onRemoveCreature
LogsOut == /\ Quiet(sav) /\ sav.user = "session"
           /\ sav' = [StartSave(sav, "leaves") EXCEPT !.tries = 1]

\* Mailbox::sendItem, for a player who is offline (and House::transfer's way
\* to a depot): a Player object for as long as the handler takes.
Mailed == /\ Quiet(sav) /\ sav.user = "nobody"
          /\ \E l \in Letter \ Owned(sav.stored) :
               LET s == LoadPlayer(sav, "mailbox")
               IN  sav' = StartSave([s EXCEPT !.player["depot"] = @ \cup {l},
                                              !.touched = TRUE], "mail")

-----------------------------------------------------------------------------
(* savePlayer, one statement at a time *)

\* What a statement of the save does to the tables it is given.
Effect(s, tables, statement) ==
  CASE statement = "row"         -> [tables EXCEPT !["row"] = s.player["row"]]
    [] statement = "clear items" -> [tables EXCEPT !["items"] = {}]
    [] statement = "items"       -> [tables EXCEPT !["items"] = @ \cup s.player["items"]]
    [] statement = "clear depot" -> [tables EXCEPT !["depot"] = {}]
    [] statement = "depot"       -> [tables EXCEPT !["depot"] = @ \cup s.player["depot"]]

\* A statement outside a transaction is committed at once.
Execute(s, statement) ==
  LET t == [s EXCEPT !.plan = Tail(@), !.lost = FALSE]
  IN  IF s.open THEN [t EXCEPT !.working = Effect(s, s.working, statement)]
      ELSE [t EXCEPT !.stored = Effect(s, s.stored, statement)]

\* BEGIN commits what another one has left open.
Begin(s) ==
  [s EXCEPT !.plan = Tail(@), !.lost = FALSE, !.open = TRUE,
            !.stored = IF s.open THEN s.working ELSE @,
            !.working = IF s.open THEN @ ELSE s.stored]

\* What the callers do with savePlayer's result.
Succeeded(s) ==
  LET t == [s EXCEPT !.plan = << >>, !.why = "none", !.tries = 0,
                     !.last = s.player, !.torn = s.cut]
  IN  IF s.why = "stays" THEN t ELSE Unload(t)

GivenUp(s) ==
  LET t == [s EXCEPT !.plan = << >>, !.why = "none", !.tries = 0]
  IN  CASE s.why = "stays" -> t
        [] s.why = "leaves" /\ s.tries < MaxTries ->
             [StartSave(s, "leaves") EXCEPT !.tries = @ + 1]
        [] OTHER -> Unload(t)

\* Mutant: ~DBTransaction does not roll back.
AbandonTransaction(s) == s

RollBack(s) == [s EXCEPT !.open = FALSE, !.working = Nothing]

\* executeQuery; a lost connection is made again, without the transaction.
Statement ==
  /\ ~Quiet(sav) /\ Head(sav.plan) # "commit"
  /\ sav' = IF Head(sav.plan) = "begin" THEN Begin(sav)
            ELSE Execute(sav, Head(sav.plan))

\* ... an error of any other kind: savePlayer returns.
StatementFails == /\ ~Quiet(sav) /\ Head(sav.plan) # "commit"
                  /\ sav' = GivenUp(RollBack(sav))

\* Database::commit.  On a connection made again there is nothing to commit,
\* which is no error.
CommitSave ==
  /\ ~Quiet(sav) /\ Head(sav.plan) = "commit" /\ ~sav.lost
  /\ sav' = Succeeded([sav EXCEPT !.stored = IF sav.open THEN sav.working ELSE @,
                                  !.open = FALSE, !.working = Nothing])

\* mysql_commit fails: it is refused, or the answer never comes.
CommitFails ==
  /\ ~Quiet(sav) /\ Head(sav.plan) = "commit"
  /\ \/ sav' = GivenUp(RollBack(sav))
     \/ sav.open /\ ~sav.lost
        /\ sav' = GivenUp(RollBack([sav EXCEPT !.stored = sav.working,
                                               !.last = sav.player,
                                               !.torn = sav.cut]))

-----------------------------------------------------------------------------
(* What goes wrong around it *)

\* The connection is lost: the server rolls back what was not committed.
ConnectionLost ==
  /\ ~sav.lost /\ sav.losses < MaxLosses
  /\ sav' = [RollBack(sav) EXCEPT !.lost = TRUE, !.losses = @ + 1,
                                  !.cut = @ \/ sav.open,
                                  !.torn = @ \/ sav.open]

\* The process ends, anywhere, and is started again.
Crash == sav' = [Unload(RollBack(sav)) EXCEPT !.plan = << >>, !.why = "none",
                   !.tries = 0, !.lost = FALSE, !.cut = FALSE]

SavNext == \/ LogsIn \/ Plays \/ SavedByServer \/ LogsOut \/ Mailed
           \/ Statement \/ StatementFails \/ CommitSave \/ CommitFails
           \/ ConnectionLost \/ Crash

SavSpec == SavInit /\ [][SavNext]_sav

-----------------------------------------------------------------------------
(* Properties *)

\* A save is atomic: whatever fails and wherever the process ends, the
\* database holds the player as it was when the last save was committed, all
\* of it, unless a connection was lost inside a transaction (iologindata.cpp:
\* 680, database.cpp:109).  So nothing is there twice, in the bank and in the
\* backpack, and nothing is gone.
SavesAreWhole == ~sav.torn => sav.stored = sav.last

\* What commit() returns (database.h:120-126: true on success): a save that is
\* reported as done has stored what it was given.  The code's need not.
DoneMeansStored == [][CommitSave => sav'.stored = sav.player]_sav
=============================================================================
