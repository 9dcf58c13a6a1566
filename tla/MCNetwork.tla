----------------------------- MODULE MCNetwork -----------------------------
(***************************************************************************)
(* The network for TLC: two ports that the server opens and serves; one    *)
(* connection with three messages to its peer and two packets from it; the *)
(* sessions of one character, three protocols of which may log in; and     *)
(* four characters that wait for two places.  A component sees of another  *)
(* only what its own module says of it (a session, say, whether its        *)
(* connection is open, closed or gone), so that they share no state here,  *)
(* and each behaviour has one of them at work, the others as they start.   *)
(***************************************************************************)
EXTENDS Connection, Session, WaitList, Services

VARIABLE part

NetworkInit == /\ part \in {"services", "connection", "session", "waiting"}
               /\ SvcInit /\ Init /\ SesInit /\ WaitInit

NetworkNext ==
  /\ UNCHANGED part
  /\ \/ part = "services" /\ SvcNext /\ UNCHANGED <<vars, ses, waitVars>>
     \/ part = "connection" /\ Next /\ UNCHANGED <<svc, ses, waitVars>>
     \/ part = "session" /\ SesNext /\ UNCHANGED <<svc, vars, waitVars>>
     \/ part = "waiting" /\ WaitNext /\ UNCHANGED <<svc, vars, ses>>

\* The fairness of each component, when it is the one at work.
NetworkFairness ==
  /\ WF_vars(part = "connection" /\ MainStep)
  /\ WF_vars(part = "connection" /\ OnWriteOperation)
  /\ \A t \in Timer : /\ WF_vars(part = "connection" /\ Expire(t))
                      /\ WF_vars(part = "connection" /\ HandleTimeout(t))
  /\ WF_ses(part = "session" /\ \E p \in Proto : TimerExpires(p))
  /\ WF_ses(part = "session" /\ \E p \in Proto :
              RunLogin(p) \/ RunConnect(p) \/ RunRelease(p) \/ RunLogout(p))
  /\ WF_ses(part = "session" /\ CheckCreatures("none"))
  /\ \A why \in {"ping", "idle"} :
       WF_ses(/\ part = "session"
              /\ CheckCreatures(why) /\ \E o \in InGame(ses) : ses.client[o] = None)
  /\ WF_ses(part = "session" /\ SendAll)

NetworkSpec ==
  NetworkInit /\ [][NetworkNext]_<<part, svc, vars, ses, waitVars>> /\ NetworkFairness

\* Every port is listened on by one thread at a time (Services!PortsServed).
Ports == part = "services" => PortsServed

\* A removed player is freed, and a player without a client leaves
\* (Session!RemovedIsFreed, Session!OrphansLeave).
PlayersEnd == RemovedIsFreed /\ OrphansLeave
=============================================================================
