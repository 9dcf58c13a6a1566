------------------------------ MODULE Services ------------------------------
(***************************************************************************)
(* How the server goes on line and off again: main waits for mainLoader    *)
(* (src/engine/src/otserv.cpp), and ServiceManager and ServicePort         *)
(* (server.cpp, server.h) listen on the ports.                             *)
(*                                                                         *)
(* Two threads share the ports: the dispatcher runs mainLoader, the retry  *)
(* of a port that could not be opened, and Game::shutdown; main runs the   *)
(* handlers of the io_service.  A port is opened in steps, between which   *)
(* main goes on.  The notification has no predicate, so that main may wake *)
(* before it (early), and one given before main waits is lost.             *)
(*                                                                         *)
(* The network and the operating system are external: when a connection    *)
(* comes, whether a port can be bound, and whether accepting one fails.    *)
(* Several services on one port are one here.  What becomes of a           *)
(* connection is in module Connection.                                     *)
(***************************************************************************)
EXTENDS Naturals, FiniteSets, SequencesExt

CONSTANTS Port, NoPort

ASSUME PortAssumption == NoPort \notin Port /\ IsFiniteSet(Port)

VARIABLE svc

\* main, loader: where the two threads are; woken: the notification has come;
\* opening: the port the dispatcher is opening, and where it is in that;
\* listed: ServiceManager::acceptors; acceptor, pendingStart, served (services
\* is not empty): of each ServicePort; accepting: with an outstanding
\* async_accept; queue: handlers that wait for main; retries: calls of
\* openAcceptor that are scheduled or posted; death: death_timer waits.
\* early and asked are history.
SvcInit ==
  svc = [main |-> "begin", woken |-> FALSE, loader |-> "loading",
         opening |-> NoPort, step |-> "none", listed |-> {}, running |-> FALSE,
         acceptor |-> [p \in Port |-> "none"], pendingStart |-> {}, served |-> {},
         accepting |-> {}, queue |-> <<>>, retries |-> [p \in Port |-> 0],
         scheduling |-> TRUE, death |-> FALSE, early |-> FALSE, asked |-> FALSE]

Handler(what, p) == <<what, p>>

Queued(s, p) == Cardinality({n \in DOMAIN s.queue : s.queue[n][2] = p /\ s.queue[n][1] # "stop"})

\* Somebody holds a shared_ptr of the port.
PortAlive(s, p) == \/ p \in s.listed \cup s.accepting \/ s.opening = p
               \/ \E n \in DOMAIN s.queue : s.queue[n][2] = p

-----------------------------------------------------------------------------
(* ServicePort *)

\* close: what was outstanding is aborted.
ClosePort(s, p) ==
  IF s.acceptor[p] # "open" THEN s
  ELSE [s EXCEPT !.acceptor[p] = "closed", !.accepting = @ \ {p},
                 !.queue = IF p \in s.accepting THEN Append(@, Handler("aborted", p)) ELSE @]

\* accept: an acceptor that is closed completes at once, with an error.
AcceptNext(s, p) ==
  CASE s.acceptor[p] = "none" -> s
    [] s.acceptor[p] = "open" -> [s EXCEPT !.accepting = @ \cup {p}]
    [] OTHER                  -> [s EXCEPT !.queue = Append(@, Handler("error", p))]

\* The 15 seconds until openAcceptor is called again.
RetryLater(s, p) == [s EXCEPT !.pendingStart = @ \cup {p},
                              !.retries[p] = IF s.scheduling THEN @ + 1 ELSE @]

\* Mutant of OnAccept: refusing a banned address, it accepts nobody after that.
OnAcceptUnlessBanned(s, what, p) ==
  CASE what = "connection" /\ p \in s.served -> AcceptNext(s, p)
    [] what = "error" /\ p \notin s.pendingStart -> RetryLater(ClosePort(s, p), p)
    [] OTHER -> s

\* onAccept: a connection, one from a banned address, an error, or the end.
OnAccept(s, what, p) ==
  CASE what \in {"connection", "banned"} /\ p \in s.served -> AcceptNext(s, p)
    [] what = "error" /\ p \notin s.pendingStart -> RetryLater(ClosePort(s, p), p)
    [] OTHER -> s

\* open: first close, then a new acceptor, which may fail before or after it is
\* bound, then accept.
OpenClose == /\ svc.step = "close"
             /\ svc' = [ClosePort(svc, svc.opening) EXCEPT
                          !.pendingStart = @ \ {svc.opening}, !.step = "bind"]

Opened(s) == [s EXCEPT !.opening = NoPort, !.step = "none",
                       !.listed = IF s.loader = "adding" THEN @ \cup {s.opening} ELSE @]

OpenBind ==
  /\ svc.step = "bind"
  /\ \/ svc' = [svc EXCEPT !.acceptor[svc.opening] = "open", !.step = "accept"]
     \/ \E a \in {"open", svc.acceptor[svc.opening]} :
          svc' = Opened(RetryLater([svc EXCEPT !.acceptor[svc.opening] = a], svc.opening))

OpenAccept == svc.step = "accept" /\ svc' = Opened(AcceptNext(svc, svc.opening))

-----------------------------------------------------------------------------
(* The dispatcher: mainLoader first, and then the other tasks *)

Notified(s) == [s EXCEPT !.woken = s.main = "waiting"]

\* startupErrorMessage
LoaderFails == /\ svc.loader = "loading"
               /\ svc' = Notified([svc EXCEPT !.loader = "failed"])

\* ServiceManager::add: the port is opened, listed, and then given its service.
\* A service with port 0 is left out.
Add(p) == /\ svc.loader \in {"loading", "adding"} /\ svc.opening = NoPort
          /\ p \notin svc.listed /\ svc.listed \subseteq svc.served
          /\ svc' = [svc EXCEPT !.loader = "adding", !.opening = p, !.step = "close"]

AddService(p) == /\ p \in svc.listed \ svc.served
                 /\ svc' = [svc EXCEPT !.served = @ \cup {p}]

LoaderDone == /\ svc.loader \in {"loading", "adding"} /\ svc.opening = NoPort
              /\ svc.listed \subseteq svc.served
              /\ svc' = Notified([svc EXCEPT !.loader = "done"])

Idle == svc.loader \in {"done", "failed"} /\ svc.opening = NoPort

\* openAcceptor: the port is held weakly.
OpenAcceptor(p) ==
  /\ Idle /\ svc.retries[p] > 0
  /\ svc' = IF PortAlive(svc, p)
            THEN [svc EXCEPT !.retries[p] = @ - 1, !.opening = p, !.step = "close"]
            ELSE [svc EXCEPT !.retries[p] = @ - 1]

\* Scheduler::shutdown drops the calls that are not posted yet.
Unscheduled(s, posted) ==
  [s EXCEPT !.scheduling = FALSE, !.retries = [p \in Port |-> IF p \in posted THEN s.retries[p] ELSE 0]]

\* ServiceManager::stop
Stop(s) ==
  IF ~s.running THEN s
  ELSE [s EXCEPT !.running = FALSE, !.listed = {}, !.death = TRUE,
                 !.queue = @ \o SetToSeq({Handler("stop", p) : p \in s.listed})]

\* Game::shutdown; a script may call for it before main serves.
Shutdown ==
  /\ Idle /\ ~svc.asked
  /\ \E posted \in SUBSET Port : svc' = Stop(Unscheduled([svc EXCEPT !.asked = TRUE], posted))

-----------------------------------------------------------------------------
(* main *)

Wait == svc.main = "begin" /\ svc' = [svc EXCEPT !.main = "waiting"]

\* The wait ends, called for or not, and main looks for listed ports.
Wake ==
  /\ svc.main = "waiting"
  /\ LET s == [svc EXCEPT !.early = ~svc.woken]
     IN  svc' = IF svc.listed # {} THEN [s EXCEPT !.main = "online"]
                ELSE [Unscheduled(s, {}) EXCEPT !.main = "offline"]

\* ServiceManager::run
Serve == svc.main = "online" /\ svc' = [svc EXCEPT !.main = "serving", !.running = TRUE]

\* The next handler: onStopServer, die or onAccept.
Handle ==
  /\ svc.main = "serving" /\ svc.queue # <<>>
  /\ LET h == Head(svc.queue)
         s == [svc EXCEPT !.queue = Tail(@)]
     IN  svc' = CASE h[1] = "stop" -> ClosePort(s, h[2])
                  [] h[1] = "die"  -> [s EXCEPT !.main = "left"]
                  [] OTHER         -> OnAccept(s, h[1], h[2])

-----------------------------------------------------------------------------
(* The outside *)

\* A connection comes, or accepting it fails.
Completes(p) ==
  /\ svc.main = "serving" /\ p \in svc.accepting
  /\ \E what \in {"connection", "banned", "error"} :
       svc' = [svc EXCEPT !.accepting = @ \ {p}, !.queue = Append(@, Handler(what, p))]

\* Three seconds after stop.
DeathTimer == /\ svc.main = "serving" /\ svc.death
              /\ svc' = [svc EXCEPT !.death = FALSE, !.queue = Append(@, Handler("die", NoPort))]

Dispatching == \/ LoaderFails \/ LoaderDone \/ Shutdown
               \/ OpenClose \/ OpenBind \/ OpenAccept
               \/ \E p \in Port : Add(p) \/ AddService(p) \/ OpenAcceptor(p)

SvcNext == \/ Dispatching \/ Wait \/ Wake \/ Serve \/ Handle \/ DeathTimer
           \/ \E p \in Port : Completes(p)

SvcSpec == SvcInit /\ [][SvcNext]_svc

-----------------------------------------------------------------------------
(* Properties *)

\* What will make a port accept its next connection.
Hopes(p) == (IF p \in svc.accepting THEN 1 ELSE 0) + Queued(svc, p) + svc.retries[p]
            + (IF svc.opening = p THEN 1 ELSE 0)

\* Until it is shut down, the server listens on every port it has listed, deals
\* with a connection there or will open the port again, and does so once: the two
\* threads never have the acceptor at the same time (server.cpp:98-193).  And
\* unless main wakes early it says that the server is on line when the loader is
\* done, and that it is not when there is nothing to run (otserv.cpp:89-100).
PortsServed ==
  ~svc.asked =>
    /\ \A p \in Port : Hopes(p) <= 1
    /\ ~svc.early => /\ \A p \in svc.listed : Hopes(p) = 1
                     /\ svc.main \in {"online", "serving"} => svc.loader = "done"
                     /\ svc.main = "offline" => svc.listed = {}
=============================================================================
