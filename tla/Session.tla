------------------------------ MODULE Session ------------------------------
(***************************************************************************)
(* Logging in and out (src/engine/src/protocolgame.cpp:140-323), with what *)
(* it shares with the rest: the Connection object of a protocol, the queue *)
(* of the dispatcher, the kick of an older login and the event that        *)
(* connects a second later, the Player object and its reference counter,   *)
(* the list of protocols that are autosent.                                *)
(*                                                                         *)
(* One character, an ordinary one on tiles where it may log out.  Each     *)
(* protocol logs in at most once and may create a Player object, named     *)
(* after it.  The main thread accepts, closes and destroys connections at  *)
(* any time; everything else is a task on the dispatcher thread.  The      *)
(* handlers are operators from a state (the record of the variables) to a  *)
(* state, applied in the order of the code.                                *)
(***************************************************************************)
EXTENDS Naturals, Sequences, FiniteSets, SequencesExt

CONSTANTS Proto,      \* protocols, and the Player objects they create, in order of arrival
          None,
          ReplaceKick \* ConfigManager::REPLACE_KICK_ON_LOGIN

ASSUME SessionAssumption == /\ Proto \subseteq Nat /\ IsFiniteSet(Proto) /\ None \notin Proto
                            /\ ReplaceKick \in BOOLEAN

VARIABLE ses

\* conn: the Connection object exists and is open, is closed but still held by
\* a handler, or is gone.  target: the player the scheduled connect is for, if
\* eventConnect # 0.  timers: its event has not expired.  chains: how many
\* events for sendAll are scheduled.  checked: the object is in
\* checkCreatureLists.  releases: how often it is in ToReleaseCreatures.
SesState ==
  [conn       : [Proto -> {"new", "open", "closed", "gone"}],
   tasks      : Seq({"login", "connect", "release", "logout"} \X Proto),
   playerOf   : [Proto -> Proto \cup {None}],   \* ProtocolGame::player
   target     : [Proto -> Proto \cup {None}],
   timers     : SUBSET Proto,
   autosend   : SUBSET Proto,
   chains     : 0 .. Cardinality(Proto),
   stage      : [Proto -> {"none", "made", "inGame", "removed", "freed"}],
   client     : [Proto -> Proto \cup {None}],   \* Player::client
   waits      : SUBSET Proto,                   \* Player::isConnecting
   checked    : SUBSET Proto,
   releases   : [Proto -> 0 .. 2],
   refs       : [Proto -> Nat]]

SesInit ==
  ses = [conn |-> [p \in Proto |-> "new"], tasks |-> <<>>,
            playerOf |-> [p \in Proto |-> None], target |-> [p \in Proto |-> None], timers |-> {},
            autosend |-> {}, chains |-> 0, stage |-> [p \in Proto |-> "none"],
            client |-> [p \in Proto |-> None], waits |-> {}, checked |-> {},
            releases |-> [p \in Proto |-> 0], refs |-> [p \in Proto |-> 0]]

-----------------------------------------------------------------------------
(* Operations *)

\* getPlayerByName: the object of the character that is in the game.
InGame(s) == {o \in Proto : s.stage[o] = "inGame"}

\* Connection::close: posts the release, once.
SesClose(s, p) == IF s.conn[p] = "open"
                  THEN [s EXCEPT !.conn[p] = "closed", !.tasks = Append(@, <<"release", p>>)]
                  ELSE s

\* Protocol::disconnect: nothing if the Connection object is gone.
SesDisconnect(s, p) == SesClose(s, p)

Increment(s, o) == [s EXCEPT !.refs[o] = @ + 1]

\* n references less; the last one deletes the object.
Decrement(s, o, n) == [s EXCEPT !.refs[o] = @ - n,
                                !.stage[o] = IF s.refs[o] = n THEN "freed" ELSE @]

\* Mutant: a removed creature is forgotten by the map without a release.
RemoveCreatureUnreleased(s, o) ==
  IF s.stage[o] = "inGame" THEN [s EXCEPT !.stage[o] = "removed"] ELSE s

\* Game::removeCreature
RemoveCreature(s, o) ==
  IF s.stage[o] = "inGame"
  THEN [s EXCEPT !.stage[o] = "removed", !.releases[o] = @ + 1]
  ELSE s

\* Game::cleanup
Cleanup(s) ==
  LET Freed(o) == s.releases[o] > 0 /\ s.refs[o] = s.releases[o]
  IN  [s EXCEPT !.refs = [o \in Proto |-> s.refs[o] - s.releases[o]],
                !.stage = [o \in Proto |-> IF Freed(o) THEN "freed" ELSE @[o]],
                !.releases = [o \in Proto |-> 0]]

\* ProtocolGame::logout once it is allowed, or forced
LogOut(s, p) ==
  IF s.playerOf[p] = None THEN s ELSE RemoveCreature(SesDisconnect(s, p), s.playerOf[p])

\* Player::kickPlayer
KickPlayer(s, o) == IF s.client[o] # None THEN LogOut(s, s.client[o]) ELSE RemoveCreature(s, o)

\* OutputMessagePool::addProtocolToAutosend
AddToAutosend(s, p) == [s EXCEPT !.chains = IF s.autosend = {} THEN @ + 1 ELSE @,
                                 !.autosend = @ \cup {p}]

\* ProtocolGame::release
Release(s, p) ==
  LET o == s.playerOf[p]
      t == IF o # None /\ s.client[o] = p
           THEN Decrement([s EXCEPT !.client[o] = None, !.playerOf[p] = None], o, 1)
           ELSE s
  IN  [t EXCEPT !.autosend = @ \ {p}]

\* Mutant: connect takes over a player that has a client.
ConnectOverOther(s, p, o) ==
  LET t == [s EXCEPT !.target[p] = None]
  IN  IF s.stage[o] # "inGame" THEN SesDisconnect(t, p)
      ELSE IF s.conn[p] = "gone" THEN t
      ELSE Increment([t EXCEPT !.playerOf[p] = o, !.client[o] = p, !.waits = @ \ {o}], o)

\* ProtocolGame::connect
Connect(s, p, o) ==
  LET t == [s EXCEPT !.target[p] = None]
  IN  IF s.stage[o] # "inGame" \/ s.client[o] # None THEN SesDisconnect(t, p)
      ELSE IF s.conn[p] = "gone" THEN t
      ELSE Increment([t EXCEPT !.playerOf[p] = o, !.client[o] = p, !.waits = @ \ {o}], o)

\* ProtocolGame::login of a character that is not in the game: the new
\* object is refused (bans, the state of the game, the waiting list, a file
\* that does not load, no place) or placed and checked from now on.
LoginNew(s, p) ==
  LET made == [s EXCEPT !.stage[p] = "made", !.client[p] = p, !.playerOf[p] = p, !.refs[p] = 1]
      placed == [made EXCEPT !.stage[p] = "inGame", !.checked = @ \cup {p}, !.refs[p] = 3]
  IN  {SesDisconnect(made, p), AddToAutosend(placed, p)}

\* ... and of one that is: its client is kicked and the event scheduled, or
\* there is none and the protocol connects at once.
LoginAgain(s, p, o) ==
  IF s.target[p] # None \/ ~ReplaceKick THEN SesDisconnect(s, p)
  ELSE AddToAutosend(IF s.client[o] # None
                     THEN [SesDisconnect(s, s.client[o]) EXCEPT
                             !.waits = @ \cup {o}, !.target[p] = o, !.timers = @ \cup {p}]
                     ELSE Connect(s, p, o), p)

-----------------------------------------------------------------------------
(* The main thread *)

\* A connection whose first message passes: onRecvFirstMessage posts the login.
FirstMessage(p) == /\ ses.conn[p] = "new" /\ \A q \in Proto : q < p => ses.conn[q] # "new"
                   /\ ses' = [ses EXCEPT !.conn[p] = "open", !.tasks = Append(@, <<"login", p>>)]

\* The peer closes, a read fails, a timer expires.
PeerCloses(p) == ses.conn[p] = "open" /\ ses' = SesClose(ses, p)

\* The last handler that holds the Connection ends.
DropConnection(p) == /\ ses.conn[p] = "closed"
                     /\ ses' = [ses EXCEPT !.conn[p] = "gone"]

\* parsePacket of a request to log out
RequestLogout(p) ==
  /\ ses.conn[p] = "open" /\ ses.playerOf[p] # None /\ ~Contains(ses.tasks, <<"logout", p>>)
  /\ ses' = [ses EXCEPT !.tasks = Append(@, <<"logout", p>>)]

\* The scheduler hands over the event of a delayed connect.
TimerExpires(p) == /\ p \in ses.timers
                   /\ ses' = [ses EXCEPT !.timers = @ \ {p}, !.tasks = Append(@, <<"connect", p>>)]

-----------------------------------------------------------------------------
(* The dispatcher thread *)

\* Takes the first task; Do is what it does.
Run(kind, p, Do(_)) == /\ ses.tasks # <<>> /\ Head(ses.tasks) = <<kind, p>>
                       /\ Do([ses EXCEPT !.tasks = Tail(@)])

RunLogin(p) ==
  Run("login", p, LAMBDA s :
    /\ IF InGame(s) = {} THEN ses' \in LoginNew(s, p)
       ELSE \E o \in InGame(s) : ses' = LoginAgain(s, p, o))

\* The event holds the id of the object that was in the game at the login.
RunConnect(p) ==
  Run("connect", p, LAMBDA s : ses' = Connect(s, p, s.target[p]))

RunRelease(p) == Run("release", p, LAMBDA s : ses' = Release(s, p))

\* A fight, the place or a script may forbid it, unless the player is removed.
RunLogout(p) == Run("logout", p, LAMBDA s : /\ \/ ses' = LogOut(s, p)
                                               \/ /\ \E o \in InGame(s) : s.playerOf[p] = o
                                                  /\ ses' = s)

\* Mutant: only unanswered pings count.
OverduePings(s, o) == IF o \in s.waits THEN {} ELSE {"ping"}

\* Why a player is kicked when it thinks: pings unanswered for too long
\* (Player::sendPing), but not while a login is replacing its client; or idle
\* for KICK_AFTER_MINUTES (Player::onThink).
Overdue(s, o) == {"idle"} \cup IF o \in s.waits THEN {} ELSE {"ping"}

\* Game::checkCreatures: a player in the game thinks, and may be overdue; those
\* removed before are taken off the list; then cleanup.
CheckCreatures(why) ==
  LET gone == {o \in ses.checked : ses.stage[o] # "inGame"}
      After(s) == Cleanup([s EXCEPT !.checked = @ \ gone,
                             !.releases = [o \in Proto |-> @[o] + IF o \in gone THEN 1 ELSE 0]])
  IN  \/ why = "none" /\ ses' = After(ses)
      \/ \E o \in InGame(ses) : why \in Overdue(ses, o) /\ ses' = After(KickPlayer(ses, o))

\* The player is killed.
Die(o) == o \in InGame(ses) /\ ses' = RemoveCreature(ses, o)

\* setGameState(GAME_STATE_CLOSED), or shutting down: everyone is kicked.
KickAll == /\ InGame(ses) # {}
           /\ \E o \in InGame(ses) : ses' = KickPlayer(ses, o)

\* sendAll: the chain goes on unless the list is empty.
SendAll == /\ ses.chains > 0
           /\ ses' = [ses EXCEPT !.chains = IF ses.autosend = {} THEN @ - 1 ELSE @]

SesNext ==
  \/ \E p \in Proto :
       \/ FirstMessage(p) \/ PeerCloses(p) \/ DropConnection(p) \/ RequestLogout(p)
       \/ TimerExpires(p) \/ RunLogin(p) \/ RunConnect(p) \/ RunRelease(p) \/ RunLogout(p)
       \/ Die(p)
  \/ \E why \in {"none", "ping", "idle"} : CheckCreatures(why)
  \/ KickAll \/ SendAll

\* The threads run and delays pass; a player without a client answers no ping
\* and does nothing.
SesFairness ==
  /\ WF_ses(\E p \in Proto : TimerExpires(p))
  /\ WF_ses(\E p \in Proto : RunLogin(p) \/ RunConnect(p) \/ RunRelease(p) \/ RunLogout(p))
  /\ WF_ses(CheckCreatures("none"))
  /\ \A why \in {"ping", "idle"} :
       WF_ses(CheckCreatures(why) /\ \E o \in InGame(ses) : ses.client[o] = None)
  /\ WF_ses(SendAll)

SesSpec == SesInit /\ [][SesNext]_ses /\ SesFairness

-----------------------------------------------------------------------------
(* Properties *)

\* The values the state takes; one object of the character is in the game.
SesTypeOK == /\ ses \in SesState
             /\ Cardinality(InGame(ses)) <= 1

Held(o) == {p \in Proto : ses.playerOf[p] = o}

\* A protocol and a player refer to each other or not at all, so that a kick
\* always reaches the player (the loop of game.cpp:123-128 relies on it); the
\* reference counter of a player is the number of those who hold it, and
\* nobody holds one that has been deleted.
SessionsAgree ==
  \A o \in Proto :
    /\ Held(o) = {p \in Proto : ses.client[o] = p}
    /\ ses.refs[o] = Cardinality(Held(o)) + Cardinality({o} \cap (InGame(ses)))
                       + Cardinality({o} \cap ses.checked) + ses.releases[o]
    /\ ses.stage[o] \in {"none", "freed"} <=> ses.refs[o] = 0

Released(p) == /\ ses.conn[p] \in {"closed", "gone"}
               /\ ~Contains(ses.tasks, <<"login", p>>) /\ ~Contains(ses.tasks, <<"release", p>>)

\* A protocol whose delayed connect went through although it was released.
Late(p) == Released(p) /\ ses.playerOf[p] # None

\* What a player's protocol buffers is sent: the protocol is in the list, and
\* sendAll is scheduled whenever the list is not empty.  Nothing stays in it
\* after its release.  Save for a protocol that connected after its release.
BuffersAreSent ==
  /\ \A p \in Proto :
       /\ p \in ses.autosend \/ Late(p) \/ ses.playerOf[p] = None
                             \/ ses.stage[ses.playerOf[p]] = "made"
       /\ Released(p) => p \notin ses.autosend
  /\ ses.autosend # {} => ses.chains > 0

\* Protocols, players, reference counters, the creature check and the list of
\* buffers agree between any two tasks (protocolgame.cpp:140-285,
\* game.cpp:507-596, outputmessage.cpp:33-80).
SessionsSound == SesTypeOK /\ SessionsAgree /\ BuffersAreSent

\* "so we return to prevent leakage of the Player" (protocolgame.cpp:266-268):
\* players that have left the game and whose client is gone are deleted in the end.
Leaking == {o \in Proto : ses.stage[o] = "removed"
                            /\ (ses.client[o] # None => ses.conn[ses.client[o]] # "open")}

NoPlayerLeaks == []<>(Leaking = {})

\* ... and are, unless their client connected after its own release.
RemovedIsFreed == []<>(\A o \in Leaking : ses.client[o] # None /\ Late(ses.client[o]))

\* A character without a client does not stay in the game: it gets a client,
\* or is logged out, even if a login that was to replace its client never
\* came and isConnecting is still set.
OrphansLeave == []<>(\A o \in InGame(ses) : ses.client[o] # None)
=============================================================================
