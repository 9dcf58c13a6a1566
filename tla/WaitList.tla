------------------------------ MODULE WaitList ------------------------------
(***************************************************************************)
(* The waiting list for a full server (src/engine/src/protocolgame.cpp:    *)
(* 42-138).  A client that logs in while the server is full is told its    *)
(* place and when to try again, and is kept in one of two lists, that of   *)
(* premium accounts first, until its entry times out.  clientLogin runs on *)
(* the dispatcher thread, inside ProtocolGame::login.                      *)
(*                                                                         *)
(* Time passes in steps of five seconds; an entry holds how much is left.  *)
(* Retrying, an entry has its second field, the client, overwritten by the *)
(* new timeout, a number that is no client: Stamp.                         *)
(***************************************************************************)
EXTENDS Integers, FiniteSets, Sequences, SequencesExt

CONSTANTS Client,
          PremiumClient, \* clients with a premium account
          AlwaysLogin,   \* clients let in whatever the limit
          MaxPlayers,    \* the configured limit; 0 for none
          Stamp,         \* what is left of an entry that was renewed
          MaxEntries     \* bound on the length of each list

ASSUME WaitListAssumption == /\ PremiumClient \cup AlwaysLogin \subseteq Client
                             /\ {MaxPlayers, MaxEntries} \subseteq Nat
                             /\ Stamp \notin Client

VARIABLES inGame,            \* players in the game
          priorityWaitList,
          waitList,
          answer            \* what clientLogin last returned: 0, or a place

waitVars == <<inGame, priorityWaitList, waitList, answer>>

\* Seconds until a client at this place is to try again.
getWaitTime(slot) == CASE slot < 5 -> 5
                       [] slot \in 5 .. 9 -> 10
                       [] slot \in 10 .. 19 -> 20
                       [] slot \in 20 .. 49 -> 60
                       [] OTHER -> 120

\* Steps until the entry of a client at this place times out.
getTimeout(slot) == (getWaitTime(slot) + 15) \div 5

Entry(p, slot) == [left |-> getTimeout(slot), who |-> p]

\* Entry by entry, what has timed out is left out.
cleanupList(list) ==
  LET kept[n \in 0..Len(list)] ==
        IF n = 0 THEN <<>>
        ELSE IF list[n].left > 0 THEN Append(kept[n - 1], list[n]) ELSE kept[n - 1]
  IN  kept[Len(list)]

Positions(list, p) == {k \in DOMAIN list : list[k].who = p}

First(list, p) == CHOOSE k \in Positions(list, p) : \A j \in Positions(list, p) : k <= j

\* findClient: the list and the place in it, and the slot: the distance to
\* the end of the list, plus one.
findClient(pri, wait, p) ==
  IF Positions(pri, p) # {}
  THEN [in |-> "priority", at |-> First(pri, p), slot |-> Len(pri) - First(pri, p) + 2]
  ELSE IF Positions(wait, p) # {}
  THEN [in |-> "wait", at |-> First(wait, p),
        slot |-> Len(pri) + Len(wait) - First(wait, p) + 2]
  ELSE [in |-> "none", at |-> 0, slot |-> Len(pri) + Len(wait)]

-----------------------------------------------------------------------------
WaitInit == /\ inGame = {}
            /\ priorityWaitList = <<>>
            /\ waitList = <<>>
            /\ answer = 0

\* Let in: the rest of login places the player, or fails.
Admit(p) == /\ inGame' \in {inGame, inGame \cup {p}}
            /\ answer' = 0

TurnAway(slot) == answer' = slot /\ UNCHANGED inGame

\* Mutant: the slot is not counted.
FitsWithoutSlot(slot) == Cardinality(inGame) <= MaxPlayers

Fits(slot) == Cardinality(inGame) + slot <= MaxPlayers

\* A client that is in a list: let in if it fits, told its slot otherwise.
AskAgain(p, pri, wait) ==
  LET found == findClient(pri, wait, p)
      fits == Fits(found.slot)
      Left(list) == IF fits THEN RemoveAt(list, found.at)
                    ELSE [list EXCEPT ![found.at].who = Stamp]
  IN  /\ found.in # "none"
      /\ priorityWaitList' = IF found.in = "priority" THEN Left(pri) ELSE pri
      /\ waitList' = IF found.in = "wait" THEN Left(wait) ELSE wait
      /\ IF fits THEN Admit(p) ELSE TurnAway(found.slot)

\* A client that is in none goes to the end of the list of its kind.
Queue(p, pri, wait) ==
  /\ findClient(pri, wait, p).in = "none"
  /\ IF p \in PremiumClient
     THEN /\ Len(pri) < MaxEntries
          /\ priorityWaitList' = Append(pri, Entry(p, Len(pri) + 1))
          /\ waitList' = wait
          /\ TurnAway(Len(pri) + 1)
     ELSE /\ Len(wait) < MaxEntries
          /\ waitList' = Append(wait, Entry(p, Len(pri) + Len(wait) + 1))
          /\ priorityWaitList' = pri
          /\ TurnAway(Len(pri) + Len(wait) + 1)

\* clientLogin, and what login does with its answer
ClientLogin(p) ==
  /\ p \notin inGame
  /\ IF p \in AlwaysLogin
     THEN Admit(p) /\ UNCHANGED <<priorityWaitList, waitList>>
     ELSE LET pri == cleanupList(priorityWaitList)
              wait == cleanupList(waitList)
          IN  IF \/ MaxPlayers = 0
                 \/ pri = <<>> /\ wait = <<>> /\ Cardinality(inGame) < MaxPlayers
              THEN Admit(p) /\ priorityWaitList' = pri /\ waitList' = wait
              ELSE AskAgain(p, pri, wait) \/ Queue(p, pri, wait)

ClientLogout(p) == /\ p \in inGame
                   /\ inGame' = inGame \ {p}
                   /\ UNCHANGED <<priorityWaitList, waitList, answer>>

\* Five seconds pass.
Tick == LET Older(list) == [k \in DOMAIN list |-> [list[k] EXCEPT !.left = IF @ > 0 THEN @ - 1 ELSE 0]]
        IN  /\ priorityWaitList' = Older(priorityWaitList)
            /\ waitList' = Older(waitList)
            /\ UNCHANGED <<inGame, answer>>

WaitNext == \/ \E p \in Client : ClientLogin(p) \/ ClientLogout(p)
            \/ Tick

WaitSpec == WaitInit /\ [][WaitNext]_waitVars

-----------------------------------------------------------------------------
(* Properties *)

Waits(p) == Positions(priorityWaitList, p) \cup Positions(waitList, p) # {}

\* The values every variable takes; a client waits in one place only.
WaitTypeOK ==
  /\ inGame \subseteq Client
  /\ answer \in Nat
  /\ \A list \in {priorityWaitList, waitList} :
       /\ \A k \in DOMAIN list : list[k].left \in Nat /\ list[k].who \in Client \cup {Stamp}
       /\ Len(list) <= MaxEntries
  /\ \A p \in Client :
       /\ Positions(priorityWaitList, p) = {} \/ Positions(waitList, p) = {}
       /\ \A list \in {priorityWaitList, waitList} : \A j, k \in Positions(list, p) : j = k

\* The limit holds for everybody it is meant for, whether let in at once or
\* out of a list with a slot above 0, and however entries time out meanwhile.
LimitKept == \A p \in Client \ AlwaysLogin :
  p \in inGame' \ inGame => MaxPlayers = 0 \/ Cardinality(inGame') <= MaxPlayers

\* No client waits in two places or beyond the bounds, and the limit holds, in
\* whatever order clients come, ask again, leave and time out
\* (protocolgame.cpp:42-137).
WaitListHolds == []WaitTypeOK /\ [][LimitKept]_waitVars

\* "let them wait a bit longer" (protocolgame.cpp:123): a client that was
\* told to wait still waits, under a new timeout, when it has asked again.
RetryKeepsPlace ==
  [][\A p \in Client : ClientLogin(p) /\ answer' # 0 => Waits(p)']_waitVars
=============================================================================
