--------------------------- MODULE NetworkProofs ---------------------------
(***************************************************************************)
(* What is proved of the network, for any number of ports, messages,       *)
(* packets and protocols.                                                  *)
(*                                                                         *)
(* Services: every port is listened on by one thread at a time             *)
(* (PortsServed).  SvcSound says where each of the three queues (main's    *)
(* handlers, the retries, the port being opened) holds a port, and what    *)
(* its acceptor is then; it holds until a shutdown is asked for.           *)
(*                                                                         *)
(* Connection: a connection agrees with itself between two handlers        *)
(* (ConnectionAgrees) and flushes what was sent before a graceful close    *)
(* (FlushedBeforeClose).  ConnSound says what every method of the class    *)
(* keeps, whatever handler calls it; ConnInv adds what holds when a        *)
(* handler has returned.                                                   *)
(*                                                                         *)
(* Session: protocols, players, reference counters and the list of buffers *)
(* agree between any two tasks (SessionsSound), which is not inductive:    *)
(* that a protocol logs in once, and before its release, is in the order   *)
(* of the tasks (InOrder).                                                 *)
(*                                                                         *)
(* Waiting list: nobody waits in two places and the limit is kept          *)
(* (WaitListHolds).  WaitInv says of each list that no client is in it     *)
(* twice (Lined) and of both that no client is in each (Apart).            *)
(*                                                                         *)
(* At the end each is stated of the composition, NetworkSpec.              *)
(***************************************************************************)
EXTENDS MCNetwork, SequenceTheorems, FiniteSetTheorems, WellFoundedInduction, TLAPS

-----------------------------------------------------------------------------
(* Network services *)

SvcState ==
  [main : {"begin", "waiting", "online", "offline", "serving", "left"}, woken : BOOLEAN,
   loader : {"loading", "adding", "done", "failed"},
   opening : Port \cup {NoPort}, step : {"none", "close", "bind", "accept"},
   listed : SUBSET Port, running : BOOLEAN,
   acceptor : [Port -> {"none", "open", "closed"}], pendingStart : SUBSET Port,
   served : SUBSET Port, accepting : SUBSET Port,
   queue : Seq({"connection", "banned", "error"} \X Port), retries : [Port -> Nat],
   scheduling : BOOLEAN, death : BOOLEAN, early : BOOLEAN, asked : BOOLEAN]

\* A handler of port p is queued.
Awaits(q, p) == \E n \in DOMAIN q : q[n][2] = p

\* No port has two.
OncePerPort(q) == \A m, n \in DOMAIN q : q[m][2] = q[n][2] => m = n

\* At most one of the ways in which p comes to accept again is open, ...
OneHope(s, p) ==
  /\ Awaits(s.queue, p) => p \notin s.accepting /\ s.retries[p] = 0 /\ s.opening # p
  /\ p \in s.accepting => s.retries[p] = 0 /\ s.opening # p
  /\ s.retries[p] > 0 => s.retries[p] = 1 /\ s.opening # p

\* ... and here at least one.
SomeHope(s, p) ==
  Awaits(s.queue, p) \/ p \in s.accepting \/ s.retries[p] > 0 \/ s.opening = p

\* What the acceptor is in the meantime; nobody but who holds the way closes it.
AcceptorFits(s, p) ==
  /\ Awaits(s.queue, p) \/ p \in s.accepting => s.acceptor[p] = "open"
  /\ s.opening = p /\ s.step = "accept" => s.acceptor[p] = "open"
  /\ s.scheduling /\ p \in s.pendingStart =>
       s.retries[p] > 0 \/ (s.opening = p /\ s.step = "close")
  /\ Awaits(s.queue, p) \/ p \in s.accepting \/ s.retries[p] > 0 => p \in s.listed

\* Which ports mainLoader has listed, and how far main has come.
LoaderFits(s) ==
  /\ s.step = "none" <=> s.opening = NoPort
  /\ s.loader \in {"loading", "failed"} => s.listed = {} /\ s.opening = NoPort
  /\ s.loader = "adding" => s.opening \notin s.listed
  /\ s.loader = "done" => s.listed \subseteq s.served /\ s.opening \in s.listed \cup {NoPort}
MainFits(s) ==
  /\ s.scheduling \/ s.main = "offline"
  /\ s.woken => s.loader \in {"done", "failed"}
  /\ s.main \in {"begin", "waiting"} => ~s.early
  /\ ~s.early => /\ s.main \in {"online", "serving"} => s.loader = "done"
                 /\ s.main = "offline" => s.listed = {} /\ s.loader \in {"done", "failed"}
  /\ s.main # "left" /\ ~s.death

SvcSound(s) ==
  /\ s \in SvcState
  /\ OncePerPort(s.queue)
  /\ \A p \in Port : OneHope(s, p) /\ AcceptorFits(s, p)
  /\ LoaderFits(s) /\ MainFits(s)
  /\ ~s.early => \A p \in s.listed : SomeHope(s, p)

\* Once a shutdown is asked for, which stays so, nothing is promised any more.
Asked(s) == "asked" \in DOMAIN s /\ s.asked = TRUE

SvcInv == Asked(svc) \/ (SvcSound(svc) /\ svc.asked = FALSE)

LEMMA WaitsAppend ==
  ASSUME NEW S, NEW q \in Seq(S \X Port), OncePerPort(q), NEW h \in S \X Port, ~Awaits(q, h[2])
  PROVE  /\ Append(q, h) \in Seq(S \X Port) /\ OncePerPort(Append(q, h))
         /\ \A p : Awaits(Append(q, h), p) <=> Awaits(q, p) \/ p = h[2]
<1> DEFINE r == Append(q, h)
<1>1. /\ r \in Seq(S \X Port) /\ Len(r) = Len(q) + 1 /\ Len(q) \in Nat
      /\ DOMAIN r = 1..Len(q) + 1 /\ DOMAIN q = 1..Len(q)
      /\ \A n \in 1..Len(q) : r[n] = q[n]
      /\ r[Len(q) + 1] = h
  OBVIOUS
<1> HIDE DEF r
<1>2. \A n \in DOMAIN r : n \in DOMAIN q \/ n = Len(q) + 1
  BY <1>1
<1>3. DOMAIN q \subseteq DOMAIN r /\ Len(q) + 1 \in DOMAIN r
  BY <1>1
<1>4. ASSUME NEW p PROVE Awaits(r, p) <=> Awaits(q, p) \/ p = h[2]
  BY <1>1, <1>2, <1>3 DEF Awaits
<1>5. OncePerPort(r)
  BY <1>1, <1>2, <1>3 DEF OncePerPort, Awaits
<1> QED BY <1>1, <1>4, <1>5 DEF r

LEMMA WaitsTail ==
  ASSUME NEW S, NEW q \in Seq(S \X Port), OncePerPort(q), q # <<>>
  PROVE  /\ Tail(q) \in Seq(S \X Port) /\ OncePerPort(Tail(q)) /\ Head(q) \in S \X Port
         /\ \A p : Awaits(Tail(q), p) <=> Awaits(q, p) /\ p # Head(q)[2]
         /\ Awaits(q, Head(q)[2])
<1> DEFINE r == Tail(q)
<1>1. /\ r \in Seq(S \X Port) /\ Len(r) = Len(q) - 1 /\ Len(q) \in Nat /\ Len(q) > 0
      /\ DOMAIN r = 1..Len(q) - 1 /\ DOMAIN q = 1..Len(q)
      /\ \A n \in 1..Len(q) - 1 : r[n] = q[n + 1]
      /\ q[1] = Head(q) /\ Head(q) \in S \X Port
  OBVIOUS
<1> HIDE DEF r
<1>2. ASSUME NEW p PROVE Awaits(r, p) <=> Awaits(q, p) /\ p # Head(q)[2]
  <2>1. ASSUME Awaits(r, p) PROVE Awaits(q, p) /\ p # Head(q)[2]
    <3>1. PICK n \in 1..Len(q) - 1 : r[n][2] = p
      BY <1>1, <2>1 DEF Awaits
    <3>2. n + 1 \in DOMAIN q /\ q[n + 1][2] = p /\ n + 1 # 1 /\ 1 \in DOMAIN q
      BY <1>1, <3>1
    <3> QED BY <1>1, <3>2 DEF Awaits, OncePerPort
  <2>2. ASSUME Awaits(q, p), p # Head(q)[2] PROVE Awaits(r, p)
    <3>1. PICK n \in 1..Len(q) : q[n][2] = p
      BY <1>1, <2>2 DEF Awaits
    <3>2. n # 1
      BY <1>1, <2>2, <3>1
    <3>3. n - 1 \in 1..Len(q) - 1 /\ r[n - 1] = q[n]
      BY <1>1, <3>1, <3>2
    <3> QED BY <1>1, <3>1, <3>3 DEF Awaits
  <2> QED BY <2>1, <2>2
<1>3. OncePerPort(r)
  <2> SUFFICES ASSUME NEW m \in 1..Len(q) - 1, NEW n \in 1..Len(q) - 1, r[m][2] = r[n][2]
               PROVE  m = n
    BY <1>1 DEF OncePerPort
  <2>1. m + 1 \in DOMAIN q /\ n + 1 \in DOMAIN q /\ q[m + 1][2] = q[n + 1][2]
    BY <1>1
  <2>2. m + 1 = n + 1
    BY <2>1 DEF OncePerPort
  <2> QED BY <2>2
<1>4. Awaits(q, Head(q)[2])
  BY <1>1 DEF Awaits
<1> QED BY <1>1, <1>2, <1>3, <1>4 DEF r

-----------------------------------------------------------------------------

\* t is s but for what is said of one port.
Elsewhere(s, t, p) == \A q \in Port \ {p} :
  /\ Awaits(t.queue, q) <=> Awaits(s.queue, q)
  /\ q \in t.accepting <=> q \in s.accepting
  /\ t.retries[q] = s.retries[q] /\ t.acceptor[q] = s.acceptor[q]
  /\ q \in t.pendingStart <=> q \in s.pendingStart
  /\ t.opening = q <=> s.opening = q
  /\ q \in s.listed <=> q \in t.listed

\* Of a port that nothing happens to what is promised goes on to hold.
LEMMA ElsewhereKeeps ==
  ASSUME NEW s, NEW t, NEW p, Elsewhere(s, t, p), NEW q \in Port \ {p},
         t.scheduling => s.scheduling, t.step = s.step \/ s.opening # q
  PROVE  /\ OneHope(s, q) => OneHope(t, q)
         /\ SomeHope(s, q) => SomeHope(t, q)
         /\ AcceptorFits(s, q) => AcceptorFits(t, q)
<1>1. /\ Awaits(t.queue, q) <=> Awaits(s.queue, q)
      /\ q \in t.accepting <=> q \in s.accepting
      /\ t.retries[q] = s.retries[q] /\ t.acceptor[q] = s.acceptor[q]
      /\ q \in t.pendingStart <=> q \in s.pendingStart
      /\ t.opening = q <=> s.opening = q
      /\ q \in s.listed <=> q \in t.listed
  BY DEF Elsewhere
<1>2. OneHope(s, q) => OneHope(t, q)
  BY <1>1 DEF OneHope
<1>3. SomeHope(s, q) => SomeHope(t, q)
  BY <1>1 DEF SomeHope
<1>4. AcceptorFits(s, q) => AcceptorFits(t, q)
  BY <1>1 DEF AcceptorFits
<1> QED BY <1>2, <1>3, <1>4

\* It remains to look at the port, and at main and the loader.
LEMMA PortKeeps ==
  ASSUME NEW s, SvcSound(s), NEW t, NEW p \in Port, Elsewhere(s, t, p),
         t \in SvcState, OncePerPort(t.queue), OneHope(t, p), AcceptorFits(t, p),
         LoaderFits(t), MainFits(t), ~t.early => p \notin t.listed \/ SomeHope(t, p),
         t.scheduling => s.scheduling, s.early => t.early,
         \A q \in Port \ {p} : t.step = s.step \/ s.opening # q
  PROVE  SvcSound(t)
<1>1. \A q \in Port \ {p} : /\ OneHope(t, q) /\ AcceptorFits(t, q)
                            /\ ~t.early /\ q \in t.listed => SomeHope(t, q)
  <2> TAKE q \in Port \ {p}
  <2>1. OneHope(s, q) /\ AcceptorFits(s, q) /\ (~s.early /\ q \in s.listed => SomeHope(s, q))
    BY DEF SvcSound
  <2>2. q \in s.listed <=> q \in t.listed
    BY DEF Elsewhere
  <2> QED BY <2>1, <2>2, ElsewhereKeeps
<1>2. \A q \in Port : OneHope(t, q) /\ AcceptorFits(t, q)
  BY <1>1
<1>3. ~t.early => \A q \in t.listed : SomeHope(t, q)
  BY <1>1 DEF SvcState
<1> QED BY <1>2, <1>3 DEF SvcSound

LEMMA NoPortIs == NoPort \notin Port
  BY PortAssumption

LEMMA OpenCloseKeeps ==
  ASSUME SvcSound(svc), OpenClose
  PROVE  SvcSound(svc')
<1> DEFINE p == svc.opening
           a == IF svc.acceptor[p] = "open" THEN "closed" ELSE svc.acceptor[p]
           t == svc'
<1>1. svc \in SvcState /\ svc.step = "close" /\ p \in Port
  BY DEF SvcSound, OpenClose, LoaderFits, SvcState
<1>2. /\ p \notin svc.accepting /\ ~Awaits(svc.queue, p) /\ svc.retries[p] = 0
      /\ AcceptorFits(svc, p)
  BY <1>1 DEF SvcSound, OneHope, SvcState
<1>3. t = [svc EXCEPT !.acceptor[p] = a, !.pendingStart = @ \ {p}, !.step = "bind"]
  <2>1. CASE svc.acceptor[p] = "open"
    <3>1. ClosePort(svc, p) = [svc EXCEPT !.acceptor[p] = "closed", !.accepting = @ \ {p}]
      BY <1>1, <1>2, <2>1 DEF ClosePort, SvcState
    <3>2. svc.accepting \ {p} = svc.accepting
      BY <1>2
    <3> QED BY <1>1, <2>1, <3>1, <3>2 DEF OpenClose, SvcState
  <2>2. CASE svc.acceptor[p] # "open"
    <3>1. ClosePort(svc, p) = svc
      BY <2>2 DEF ClosePort
    <3> QED BY <1>1, <2>2, <3>1 DEF OpenClose, SvcState
  <2> QED BY <2>1, <2>2
<1>4. a \in {"none", "open", "closed"}
  BY <1>1 DEF SvcState
<1> HIDE DEF a, p
<1>5. t \in SvcState
  BY <1>1, <1>3, <1>4 DEF SvcState
<1>6. /\ t.main = svc.main /\ t.woken = svc.woken /\ t.loader = svc.loader
      /\ t.opening = svc.opening /\ t.step = "bind" /\ t.listed = svc.listed
      /\ t.pendingStart = svc.pendingStart \ {p} /\ t.served = svc.served
      /\ t.accepting = svc.accepting /\ t.queue = svc.queue /\ t.retries = svc.retries
      /\ t.scheduling = svc.scheduling /\ t.death = svc.death /\ t.early = svc.early
      /\ t.acceptor[p] = a /\ \A q \in Port \ {p} : t.acceptor[q] = svc.acceptor[q]
  BY <1>1, <1>3 DEF SvcState
<1> HIDE DEF t
<1>7. Elsewhere(svc, t, p)
  BY <1>6 DEF Elsewhere
<1>8. OneHope(t, p) /\ SomeHope(t, p)
  BY <1>1, <1>2, <1>6 DEF OneHope, SomeHope, p
<1>9. AcceptorFits(t, p)
  BY <1>2, <1>6 DEF AcceptorFits
<1>10. LoaderFits(t) /\ MainFits(t)
  BY <1>1, <1>6 DEF SvcSound, LoaderFits, MainFits
<1>11. OncePerPort(t.queue)
  BY <1>6 DEF SvcSound
<1>12. \A q \in Port \ {p} : svc.opening # q
  BY DEF p
<1>13. SvcSound(t)
  BY <1>1, <1>5, <1>6, <1>7, <1>8, <1>9, <1>10, <1>11, <1>12, PortKeeps
<1> QED BY <1>13 DEF t

\* The port that is being opened, and that nothing else holds.
LEMMA OpeningPort ==
  ASSUME SvcSound(svc), svc.step # "none", NEW p, p = svc.opening
  PROVE  /\ p \in Port /\ svc \in SvcState
         /\ p \notin svc.accepting /\ ~Awaits(svc.queue, p) /\ svc.retries[p] = 0
         /\ AcceptorFits(svc, p) /\ \A q \in Port \ {p} : svc.opening # q
<1>1. p \in Port /\ svc \in SvcState
  BY DEF SvcSound, LoaderFits, SvcState
<1> QED BY <1>1 DEF SvcSound, OneHope, SvcState

\* The opening is over; the loader lists the port it has added.
LEMMA OpenedLists ==
  ASSUME SvcSound(svc), svc.step # "none", NEW p, p = svc.opening,
         NEW s \in SvcState, s.opening = p, s.loader = svc.loader, s.listed = svc.listed,
         NEW t, t = Opened(s)
  PROVE  /\ t \in SvcState /\ t.opening = NoPort /\ t.step = "none"
         /\ t.listed = svc.listed \cup {p}
         /\ t.main = s.main /\ t.woken = s.woken /\ t.loader = s.loader
         /\ t.pendingStart = s.pendingStart /\ t.served = s.served /\ t.asked = s.asked
         /\ t.accepting = s.accepting /\ t.queue = s.queue /\ t.retries = s.retries
         /\ t.scheduling = s.scheduling /\ t.death = s.death /\ t.early = s.early
         /\ t.acceptor = s.acceptor
<1> DEFINE l == IF s.loader = "adding" THEN s.listed \cup {p} ELSE s.listed
<1>1. p \in Port
  BY OpeningPort
<1>2. t = [s EXCEPT !.opening = NoPort, !.step = "none", !.listed = l]
  BY DEF Opened
<1>3. l = svc.listed \cup {p} /\ l \in SUBSET Port
  <2>1. svc.loader # "adding" => p \in svc.listed
    BY <1>1, NoPortIs DEF SvcSound, LoaderFits, SvcState
  <2> QED BY <1>1, <2>1 DEF SvcState
<1> HIDE DEF l
<1> QED BY <1>2, <1>3 DEF SvcState

\* A retry of the port is under way, unless the scheduler takes no more events.
Retried(u, s, p) ==
  /\ s \in SvcState
  /\ s.main = u.main /\ s.woken = u.woken /\ s.loader = u.loader /\ s.asked = u.asked
  /\ s.opening = u.opening /\ s.step = u.step /\ s.listed = u.listed
  /\ s.pendingStart = u.pendingStart \cup {p} /\ s.served = u.served
  /\ s.accepting = u.accepting /\ s.queue = u.queue /\ s.acceptor = u.acceptor
  /\ s.scheduling = u.scheduling /\ s.death = u.death /\ s.early = u.early
  /\ s.retries[p] = IF u.scheduling THEN 1 ELSE 0
  /\ \A q \in Port \ {p} : s.retries[q] = u.retries[q]

LEMMA RetryLaterDoes ==
  ASSUME NEW u \in SvcState, NEW p \in Port, u.retries[p] = 0, NEW s, s = RetryLater(u, p)
  PROVE  Retried(u, s, p)
<1> DEFINE n == IF u.scheduling THEN 1 ELSE 0
           r == [u.retries EXCEPT ![p] = n]
<1>1. u.retries \in [Port -> Nat] /\ u.scheduling \in BOOLEAN
  BY DEF SvcState
<1>2. r = [u.retries EXCEPT ![p] = IF u.scheduling THEN @ + 1 ELSE @]
  BY <1>1
<1>3. s = [u EXCEPT !.pendingStart = @ \cup {p}, !.retries = r]
  BY <1>2 DEF RetryLater
<1>4. r \in [Port -> Nat] /\ r[p] = n /\ \A q \in Port \ {p} : r[q] = u.retries[q]
  BY <1>1
<1> HIDE DEF r, n
<1>5. u.pendingStart \cup {p} \in SUBSET Port
  BY DEF SvcState
<1>6. s \in SvcState /\ s.retries = r
  BY <1>3, <1>4, <1>5 DEF SvcState
<1>7. /\ s.main = u.main /\ s.woken = u.woken /\ s.loader = u.loader /\ s.asked = u.asked
      /\ s.opening = u.opening /\ s.step = u.step /\ s.listed = u.listed
      /\ s.pendingStart = u.pendingStart \cup {p} /\ s.served = u.served
      /\ s.accepting = u.accepting /\ s.queue = u.queue /\ s.acceptor = u.acceptor
      /\ s.scheduling = u.scheduling /\ s.death = u.death /\ s.early = u.early
  BY <1>3 DEF SvcState
<1> QED BY <1>4, <1>6, <1>7 DEF n, Retried

LEMMA OpenBindKeeps ==
  ASSUME SvcSound(svc), OpenBind
  PROVE  SvcSound(svc')
<1> DEFINE p == svc.opening
           t == svc'
<1>1. svc.step = "bind"
  BY DEF OpenBind
<1>2. /\ p \in Port /\ svc \in SvcState
      /\ p \notin svc.accepting /\ ~Awaits(svc.queue, p) /\ svc.retries[p] = 0
      /\ AcceptorFits(svc, p) /\ \A q \in Port \ {p} : svc.opening # q
  <2>1. svc.step # "none"
    BY <1>1
  <2> HIDE DEF p
  <2>2. p = svc.opening
    BY DEF p
  <2> QED BY <2>1, <2>2, OpeningPort
<1>3. CASE t = [svc EXCEPT !.acceptor[p] = "open", !.step = "accept"]
  <2> HIDE DEF p
  <2>1. /\ t \in SvcState
        /\ t.main = svc.main /\ t.woken = svc.woken /\ t.loader = svc.loader
        /\ t.opening = svc.opening /\ t.step = "accept" /\ t.listed = svc.listed
        /\ t.pendingStart = svc.pendingStart /\ t.served = svc.served
        /\ t.accepting = svc.accepting /\ t.queue = svc.queue /\ t.retries = svc.retries
        /\ t.scheduling = svc.scheduling /\ t.death = svc.death /\ t.early = svc.early
        /\ t.acceptor[p] = "open" /\ \A q \in Port \ {p} : t.acceptor[q] = svc.acceptor[q]
    BY <1>2, <1>3 DEF SvcState
  <2> HIDE DEF t
  <2>2. Elsewhere(svc, t, p)
    BY <2>1 DEF Elsewhere
  <2>3. OneHope(t, p) /\ SomeHope(t, p) /\ AcceptorFits(t, p)
    BY <1>1, <1>2, <2>1 DEF OneHope, SomeHope, AcceptorFits, p
  <2>4. LoaderFits(t) /\ MainFits(t)
    BY <1>1, <2>1 DEF SvcSound, LoaderFits, MainFits
  <2>5. OncePerPort(t.queue)
    BY <2>1 DEF SvcSound
  <2>6. SvcSound(t)
    BY <1>2, <2>1, <2>2, <2>3, <2>4, <2>5, PortKeeps
  <2> QED BY <2>6 DEF t
<1>4. CASE \E a \in {"open", svc.acceptor[p]} : t = Opened(RetryLater([svc EXCEPT !.acceptor[p] = a], p))
  <2>1. PICK a \in {"open", svc.acceptor[p]} : t = Opened(RetryLater([svc EXCEPT !.acceptor[p] = a], p))
    BY <1>4
  <2> DEFINE u == [svc EXCEPT !.acceptor[p] = a]
             s == RetryLater(u, p)
             n == IF svc.scheduling THEN 1 ELSE 0
  <2>2. a \in {"none", "open", "closed"} /\ t = Opened(s)
    BY <1>2, <2>1 DEF SvcState
  <2> HIDE DEF p
  <2>3. u \in SvcState /\ u = [svc EXCEPT !.acceptor[p] = a] /\ u.retries[p] = 0
        /\ u.scheduling = svc.scheduling
    BY <1>2, <2>2 DEF SvcState
  <2>5. n \in Nat /\ n <= 1 /\ s = RetryLater(u, p)
    OBVIOUS
  <2> HIDE DEF s, n
  <2>6. /\ s \in SvcState
        /\ s.main = svc.main /\ s.woken = svc.woken /\ s.loader = svc.loader /\ s.asked = svc.asked
        /\ s.opening = svc.opening /\ s.listed = svc.listed
        /\ s.pendingStart = svc.pendingStart \cup {p} /\ s.served = svc.served
        /\ s.accepting = svc.accepting /\ s.queue = svc.queue
        /\ s.scheduling = svc.scheduling /\ s.death = svc.death /\ s.early = svc.early
        /\ s.retries[p] = n
        /\ \A q \in Port \ {p} : s.acceptor[q] = svc.acceptor[q] /\ s.retries[q] = svc.retries[q]
    <3>1. /\ u.retries = svc.retries /\ \A q \in Port \ {p} : u.acceptor[q] = svc.acceptor[q]
      BY <1>2 DEF SvcState
    <3>2. /\ u.main = svc.main /\ u.woken = svc.woken /\ u.loader = svc.loader /\ u.asked = svc.asked
          /\ u.opening = svc.opening /\ u.listed = svc.listed
          /\ u.pendingStart = svc.pendingStart /\ u.served = svc.served
          /\ u.accepting = svc.accepting /\ u.queue = svc.queue
          /\ u.scheduling = svc.scheduling /\ u.death = svc.death /\ u.early = svc.early
      BY <1>2 DEF SvcState
    <3> HIDE DEF u
    <3>3. Retried(u, s, p)
      BY <1>2, <2>3, <2>5, RetryLaterDoes
    <3> QED BY <3>1, <3>2, <3>3 DEF Retried, n
  <2> HIDE DEF u
  <2>7. /\ t \in SvcState /\ t.opening = NoPort /\ t.step = "none"
        /\ t.listed = svc.listed \cup {p}
        /\ t.main = s.main /\ t.woken = s.woken /\ t.loader = s.loader
        /\ t.pendingStart = s.pendingStart /\ t.served = s.served
        /\ t.accepting = s.accepting /\ t.queue = s.queue /\ t.retries = s.retries
        /\ t.scheduling = s.scheduling /\ t.death = s.death /\ t.early = s.early
        /\ t.acceptor = s.acceptor
    <3>1. p = svc.opening /\ s.opening = p /\ svc.step # "none"
      BY <1>1, <2>6 DEF p
    <3> HIDE DEF t
    <3> QED BY <2>2, <2>6, <3>1, OpenedLists
  <2> HIDE DEF t
  <2>8. Elsewhere(svc, t, p)
    BY <1>2, <2>6, <2>7, NoPortIs DEF Elsewhere
  <2>9. OneHope(t, p) /\ AcceptorFits(t, p)
    BY <1>2, <2>5, <2>6, <2>7, NoPortIs DEF OneHope, AcceptorFits, n
  <2>10. LoaderFits(t) /\ MainFits(t)
    <3>1. svc.loader \in {"adding", "done"}
      BY <1>2, NoPortIs DEF SvcSound, LoaderFits, SvcState, p
    <3>2. svc.loader = "done" => p \in svc.listed
      BY <1>2, NoPortIs DEF SvcSound, LoaderFits, p
    <3>3. svc.loader = "done" => t.listed = svc.listed
      BY <2>7, <3>2
    <3>4. svc.main = "offline" => svc.early
      BY <3>1, <3>2 DEF SvcSound, MainFits, LoaderFits, SvcState
    <3>5. LoaderFits(t)
      BY <2>6, <2>7, <3>1, <3>3, NoPortIs DEF SvcSound, LoaderFits, SvcState
    <3>6. MainFits(t)
      BY <2>6, <2>7, <3>4 DEF SvcSound, MainFits
    <3> QED BY <3>5, <3>6
  <2>11. OncePerPort(t.queue)
    BY <2>6, <2>7 DEF SvcSound
  <2>12. ~t.early => SomeHope(t, p)
    <3>1. ~t.early => svc.scheduling
      BY <1>2, <2>6, <2>7, NoPortIs DEF SvcSound, MainFits, LoaderFits, p
    <3> QED BY <2>6, <2>7, <3>1 DEF SomeHope, n
  <2>13. SvcSound(t)
    BY <1>2, <2>6, <2>7, <2>8, <2>9, <2>10, <2>11, <2>12, PortKeeps
  <2> QED BY <2>13 DEF t
<1> QED BY <1>3, <1>4 DEF OpenBind

LEMMA OpenAcceptKeeps ==
  ASSUME SvcSound(svc), OpenAccept
  PROVE  SvcSound(svc')
<1> DEFINE p == svc.opening
           t == svc'
           s == AcceptNext(svc, p)
<1>1. svc.step = "accept" /\ t = Opened(s)
  BY DEF OpenAccept
<1>2. /\ p \in Port /\ svc \in SvcState
      /\ p \notin svc.accepting /\ ~Awaits(svc.queue, p) /\ svc.retries[p] = 0
      /\ AcceptorFits(svc, p) /\ \A q \in Port \ {p} : svc.opening # q
  <2>1. svc.step # "none"
    BY <1>1
  <2> HIDE DEF p
  <2>2. p = svc.opening
    BY DEF p
  <2> QED BY <2>1, <2>2, OpeningPort
<1>3. s = [svc EXCEPT !.accepting = @ \cup {p}] /\ svc.acceptor[p] = "open"
  BY <1>1, <1>2 DEF AcceptNext, AcceptorFits
<1> HIDE DEF s, p
<1>4. /\ s \in SvcState
      /\ s.main = svc.main /\ s.woken = svc.woken /\ s.loader = svc.loader /\ s.asked = svc.asked
      /\ s.opening = svc.opening /\ s.listed = svc.listed
      /\ s.pendingStart = svc.pendingStart /\ s.served = svc.served
      /\ s.accepting = svc.accepting \cup {p} /\ s.queue = svc.queue
      /\ s.scheduling = svc.scheduling /\ s.death = svc.death /\ s.early = svc.early
      /\ s.acceptor = svc.acceptor /\ s.retries = svc.retries
  BY <1>2, <1>3 DEF SvcState
<1>5. /\ t \in SvcState /\ t.opening = NoPort /\ t.step = "none"
      /\ t.listed = svc.listed \cup {p}
      /\ t.main = s.main /\ t.woken = s.woken /\ t.loader = s.loader
      /\ t.pendingStart = s.pendingStart /\ t.served = s.served
      /\ t.accepting = s.accepting /\ t.queue = s.queue /\ t.retries = s.retries
      /\ t.scheduling = s.scheduling /\ t.death = s.death /\ t.early = s.early
      /\ t.acceptor = s.acceptor
  <2>1. p = svc.opening /\ s.opening = p /\ svc.step # "none"
    BY <1>1, <1>4 DEF p
  <2> HIDE DEF t
  <2> QED BY <1>1, <1>4, <2>1, OpenedLists
<1> HIDE DEF t
<1>6. Elsewhere(svc, t, p)
  BY <1>2, <1>4, <1>5, NoPortIs DEF Elsewhere
<1>7. OneHope(t, p) /\ AcceptorFits(t, p) /\ SomeHope(t, p)
  <2>1. svc.scheduling => p \notin svc.pendingStart
    BY <1>1, <1>2 DEF AcceptorFits
  <2> QED BY <1>2, <1>3, <1>4, <1>5, <2>1, NoPortIs DEF OneHope, AcceptorFits, SomeHope
<1>8. LoaderFits(t) /\ MainFits(t)
  <2>1. svc.loader \in {"adding", "done"}
    BY <1>2, NoPortIs DEF SvcSound, LoaderFits, SvcState, p
  <2>2. svc.loader = "done" => p \in svc.listed
    BY <1>2, NoPortIs DEF SvcSound, LoaderFits, p
  <2>3. svc.loader = "done" => t.listed = svc.listed
    BY <1>5, <2>2
  <2>4. svc.main = "offline" => svc.early
    BY <2>1, <2>2 DEF SvcSound, MainFits, LoaderFits, SvcState
  <2>5. LoaderFits(t)
    BY <1>4, <1>5, <2>1, <2>3, NoPortIs DEF SvcSound, LoaderFits, SvcState
  <2>6. MainFits(t)
    BY <1>4, <1>5, <2>4 DEF SvcSound, MainFits
  <2> QED BY <2>5, <2>6
<1>9. OncePerPort(t.queue)
  BY <1>4, <1>5 DEF SvcSound
<1>10. SvcSound(t)
  BY <1>2, <1>4, <1>5, <1>6, <1>7, <1>8, <1>9, PortKeeps
<1> QED BY <1>10 DEF t

-----------------------------------------------------------------------------
(* What concerns no port *)

\* Ports, listing and queue are as they were.
LEMMA PortsKeep ==
  ASSUME NEW s, SvcSound(s), NEW t \in SvcState,
         t.queue = s.queue, t.accepting = s.accepting, t.retries = s.retries,
         t.opening = s.opening, t.step = s.step, t.acceptor = s.acceptor,
         t.pendingStart = s.pendingStart, t.listed = s.listed,
         t.scheduling = s.scheduling, LoaderFits(t), MainFits(t), s.early => t.early
  PROVE  SvcSound(t)
<1>1. OncePerPort(t.queue)
  BY DEF SvcSound
<1>2. \A p \in Port : OneHope(t, p) /\ AcceptorFits(t, p)
  BY DEF SvcSound, OneHope, AcceptorFits
<1>3. ~t.early => \A p \in t.listed : SomeHope(t, p)
  BY DEF SvcSound, SomeHope
<1> QED BY <1>1, <1>2, <1>3 DEF SvcSound

LEMMA LoaderFailsKeeps ==
  ASSUME SvcSound(svc), LoaderFails
  PROVE  SvcSound(svc')
<1> DEFINE t == svc'
           w == svc.main = "waiting"
<1>1. svc \in SvcState /\ w \in BOOLEAN /\ svc.loader = "loading"
  BY DEF SvcSound, LoaderFails
<1>2. t = [svc EXCEPT !.loader = "failed", !.woken = w]
  BY <1>1 DEF LoaderFails, Notified, SvcState
<1> HIDE DEF w
<1>3. /\ t \in SvcState
      /\ t.queue = svc.queue /\ t.accepting = svc.accepting /\ t.retries = svc.retries
      /\ t.opening = svc.opening /\ t.step = svc.step /\ t.acceptor = svc.acceptor
      /\ t.pendingStart = svc.pendingStart /\ t.listed = svc.listed
      /\ t.scheduling = svc.scheduling /\ t.early = svc.early /\ t.main = svc.main
      /\ t.death = svc.death /\ t.loader = "failed"
  BY <1>1, <1>2 DEF SvcState
<1> HIDE DEF t
<1>4. LoaderFits(t) /\ MainFits(t)
  BY <1>1, <1>3 DEF SvcSound, LoaderFits, MainFits
<1>5. SvcSound(t)
  BY <1>3, <1>4, PortsKeep
<1> QED BY <1>5 DEF t

LEMMA LoaderDoneKeeps ==
  ASSUME SvcSound(svc), LoaderDone
  PROVE  SvcSound(svc')
<1> DEFINE t == svc'
           w == svc.main = "waiting"
<1>1. /\ svc \in SvcState /\ w \in BOOLEAN /\ svc.loader \in {"loading", "adding"}
      /\ svc.opening = NoPort /\ svc.listed \subseteq svc.served
  BY DEF SvcSound, LoaderDone
<1>2. t = [svc EXCEPT !.loader = "done", !.woken = w]
  BY <1>1 DEF LoaderDone, Notified, SvcState
<1> HIDE DEF w
<1>3. /\ t \in SvcState
      /\ t.queue = svc.queue /\ t.accepting = svc.accepting /\ t.retries = svc.retries
      /\ t.opening = svc.opening /\ t.step = svc.step /\ t.acceptor = svc.acceptor
      /\ t.pendingStart = svc.pendingStart /\ t.listed = svc.listed
      /\ t.scheduling = svc.scheduling /\ t.early = svc.early /\ t.main = svc.main
      /\ t.death = svc.death /\ t.loader = "done" /\ t.served = svc.served
  BY <1>1, <1>2 DEF SvcState
<1> HIDE DEF t
<1>4. LoaderFits(t) /\ MainFits(t)
  BY <1>1, <1>3 DEF SvcSound, LoaderFits, MainFits
<1>5. SvcSound(t)
  BY <1>3, <1>4, PortsKeep
<1> QED BY <1>5 DEF t

LEMMA AddServiceKeeps ==
  ASSUME SvcSound(svc), NEW p \in Port, AddService(p)
  PROVE  SvcSound(svc')
<1> DEFINE t == svc'
<1>1. svc \in SvcState /\ t = [svc EXCEPT !.served = @ \cup {p}]
  BY DEF SvcSound, AddService
<1>3. /\ t \in SvcState
      /\ t.queue = svc.queue /\ t.accepting = svc.accepting /\ t.retries = svc.retries
      /\ t.opening = svc.opening /\ t.step = svc.step /\ t.acceptor = svc.acceptor
      /\ t.pendingStart = svc.pendingStart /\ t.listed = svc.listed
      /\ t.scheduling = svc.scheduling /\ t.early = svc.early /\ t.main = svc.main
      /\ t.death = svc.death /\ t.loader = svc.loader /\ t.served = svc.served \cup {p}
      /\ t.woken = svc.woken
  BY <1>1 DEF SvcState
<1> HIDE DEF t
<1>4. LoaderFits(t) /\ MainFits(t)
  BY <1>3 DEF SvcSound, LoaderFits, MainFits
<1>5. SvcSound(t)
  BY <1>3, <1>4, PortsKeep
<1> QED BY <1>5 DEF t

\* main waits, and serves.
LEMMA WaitServeKeep ==
  ASSUME SvcSound(svc), Wait \/ Serve
  PROVE  SvcSound(svc')
<1> DEFINE t == svc'
<1>1. svc \in SvcState
  BY DEF SvcSound
<1>2. /\ t \in SvcState
      /\ t.queue = svc.queue /\ t.accepting = svc.accepting /\ t.retries = svc.retries
      /\ t.opening = svc.opening /\ t.step = svc.step /\ t.acceptor = svc.acceptor
      /\ t.pendingStart = svc.pendingStart /\ t.listed = svc.listed
      /\ t.scheduling = svc.scheduling /\ t.early = svc.early
      /\ t.death = svc.death /\ t.loader = svc.loader /\ t.served = svc.served
      /\ t.woken = svc.woken
      /\ \/ svc.main = "begin" /\ t.main = "waiting"
         \/ svc.main = "online" /\ t.main = "serving"
  BY <1>1 DEF SvcState, Wait, Serve
<1> HIDE DEF t
<1>3. LoaderFits(t) /\ MainFits(t)
  BY <1>2 DEF SvcSound, LoaderFits, MainFits
<1>4. SvcSound(t)
  BY <1>2, <1>3, PortsKeep
<1> QED BY <1>4 DEF t

\* main goes on, and when nothing is listed stops the scheduler.
LEMMA WakeKeeps ==
  ASSUME SvcSound(svc), Wake
  PROVE  SvcSound(svc')
<1> DEFINE t == svc'
           e == ~svc.woken
           s == [svc EXCEPT !.early = e]
           none == [p \in Port |-> 0]
<1>1. svc \in SvcState /\ e \in BOOLEAN /\ svc.main = "waiting" /\ ~svc.early
      /\ svc.scheduling
  BY DEF SvcSound, SvcState, Wake, MainFits
<1>2. CASE svc.listed # {}
  <2>1. t = [svc EXCEPT !.early = e, !.main = "online"]
    BY <1>1, <1>2 DEF Wake, SvcState
  <2>2. /\ t \in SvcState
        /\ t.queue = svc.queue /\ t.accepting = svc.accepting /\ t.retries = svc.retries
        /\ t.opening = svc.opening /\ t.step = svc.step /\ t.acceptor = svc.acceptor
        /\ t.pendingStart = svc.pendingStart /\ t.listed = svc.listed
        /\ t.scheduling = svc.scheduling /\ t.early = ~svc.woken /\ t.main = "online"
        /\ t.death = svc.death /\ t.loader = svc.loader /\ t.served = svc.served
        /\ t.woken = svc.woken
    BY <1>1, <2>1 DEF SvcState
  <2> HIDE DEF t, e, s, none
  <2>3. LoaderFits(t) /\ MainFits(t)
    BY <1>1, <1>2, <2>2 DEF SvcSound, LoaderFits, MainFits
  <2>4. SvcSound(t)
    BY <1>1, <2>2, <2>3, PortsKeep
  <2> QED BY <2>4 DEF t
<1>3. CASE svc.listed = {}
  <2>1. t = [svc EXCEPT !.early = e, !.scheduling = FALSE, !.retries = none, !.main = "offline"]
    BY <1>1, <1>3 DEF Wake, Unscheduled, SvcState
  <2>2. none \in [Port -> Nat] /\ \A p \in Port : none[p] = 0
    OBVIOUS
  <2> HIDE DEF none
  <2>3. /\ t \in SvcState
        /\ t.queue = svc.queue /\ t.accepting = svc.accepting /\ t.retries = none
        /\ t.opening = svc.opening /\ t.step = svc.step /\ t.acceptor = svc.acceptor
        /\ t.pendingStart = svc.pendingStart /\ t.listed = {}
        /\ t.scheduling = FALSE /\ t.early = ~svc.woken /\ t.main = "offline"
        /\ t.death = svc.death /\ t.loader = svc.loader /\ t.served = svc.served
        /\ t.woken = svc.woken
    BY <1>1, <1>3, <2>1, <2>2 DEF SvcState
  <2> HIDE DEF t, e, s
  <2>4. LoaderFits(t) /\ MainFits(t)
    BY <1>1, <1>3, <2>3 DEF SvcSound, LoaderFits, MainFits
  <2>5. OncePerPort(t.queue)
    BY <2>3 DEF SvcSound
  <2>6. \A p \in Port : OneHope(t, p) /\ AcceptorFits(t, p)
    BY <1>3, <2>2, <2>3 DEF SvcSound, OneHope, AcceptorFits
  <2>7. SvcSound(t)
    BY <2>3, <2>4, <2>5, <2>6 DEF SvcSound
  <2> QED BY <2>7 DEF t
<1> QED BY <1>2, <1>3

-----------------------------------------------------------------------------
(* What concerns one port *)

LEMMA AddKeeps ==
  ASSUME SvcSound(svc), NEW p \in Port, Add(p)
  PROVE  SvcSound(svc')
<1> DEFINE t == svc'
<1>1. /\ svc \in SvcState /\ svc.loader \in {"loading", "adding"} /\ svc.opening = NoPort
      /\ p \notin svc.listed /\ svc.step = "none"
      /\ t = [svc EXCEPT !.loader = "adding", !.opening = p, !.step = "close"]
  BY DEF SvcSound, Add, LoaderFits
<1>2. /\ t \in SvcState
      /\ t.main = svc.main /\ t.woken = svc.woken /\ t.loader = "adding"
      /\ t.opening = p /\ t.step = "close" /\ t.listed = svc.listed
      /\ t.pendingStart = svc.pendingStart /\ t.served = svc.served
      /\ t.accepting = svc.accepting /\ t.queue = svc.queue /\ t.retries = svc.retries
      /\ t.scheduling = svc.scheduling /\ t.death = svc.death /\ t.early = svc.early
      /\ t.acceptor = svc.acceptor
  BY <1>1 DEF SvcState
<1> HIDE DEF t
<1>3. Elsewhere(svc, t, p)
  BY <1>1, <1>2, NoPortIs DEF Elsewhere
<1>4. OneHope(svc, p) /\ AcceptorFits(svc, p)
  BY DEF SvcSound
<1>5. OneHope(t, p) /\ AcceptorFits(t, p)
  BY <1>1, <1>2, <1>4 DEF OneHope, AcceptorFits, SvcState
<1>6. LoaderFits(t) /\ MainFits(t)
  BY <1>1, <1>2, NoPortIs DEF SvcSound, LoaderFits, MainFits
<1>7. OncePerPort(t.queue)
  BY <1>2 DEF SvcSound
<1>8. SvcSound(t)
  BY <1>1, <1>2, <1>3, <1>5, <1>6, <1>7, PortKeeps, NoPortIs
<1> QED BY <1>8 DEF t

LEMMA OpenAcceptorKeeps ==
  ASSUME SvcSound(svc), NEW p \in Port, OpenAcceptor(p)
  PROVE  SvcSound(svc')
<1> DEFINE t == svc'
           n == svc.retries[p] - 1
           r == [svc.retries EXCEPT ![p] = n]
<1>1. /\ svc \in SvcState /\ OneHope(svc, p) /\ AcceptorFits(svc, p)
      /\ svc.loader \in {"done", "failed"} /\ svc.opening = NoPort /\ svc.retries[p] > 0
  BY DEF SvcSound, OpenAcceptor, Idle
<1>2. p \in svc.listed /\ svc.retries[p] = 1
  BY <1>1 DEF OneHope, AcceptorFits
<1>3. t = [svc EXCEPT !.retries = r, !.opening = p, !.step = "close"]
  BY <1>2 DEF OpenAcceptor, PortAlive
<1>4. r \in [Port -> Nat] /\ r[p] = 0 /\ \A q \in Port \ {p} : r[q] = svc.retries[q]
  BY <1>1, <1>2 DEF SvcState
<1> HIDE DEF r
<1>5. /\ t \in SvcState
      /\ t.main = svc.main /\ t.woken = svc.woken /\ t.loader = svc.loader
      /\ t.opening = p /\ t.step = "close" /\ t.listed = svc.listed
      /\ t.pendingStart = svc.pendingStart /\ t.served = svc.served
      /\ t.accepting = svc.accepting /\ t.queue = svc.queue /\ t.retries = r
      /\ t.scheduling = svc.scheduling /\ t.death = svc.death /\ t.early = svc.early
      /\ t.acceptor = svc.acceptor
  BY <1>1, <1>3, <1>4 DEF SvcState
<1> HIDE DEF t
<1>6. Elsewhere(svc, t, p)
  BY <1>1, <1>4, <1>5, NoPortIs DEF Elsewhere
<1>7. OneHope(t, p) /\ AcceptorFits(t, p) /\ SomeHope(t, p)
  BY <1>1, <1>2, <1>4, <1>5 DEF OneHope, AcceptorFits, SomeHope, SvcState
<1>8. LoaderFits(t) /\ MainFits(t)
  BY <1>1, <1>2, <1>5, NoPortIs DEF SvcSound, LoaderFits, MainFits
<1>9. OncePerPort(t.queue)
  BY <1>5 DEF SvcSound
<1>10. SvcSound(t)
  BY <1>1, <1>5, <1>6, <1>7, <1>8, <1>9, PortKeeps, NoPortIs
<1> QED BY <1>10 DEF t

LEMMA CompletesKeeps ==
  ASSUME SvcSound(svc), NEW p \in Port, Completes(p)
  PROVE  SvcSound(svc')
<1> DEFINE t == svc'
<1>1. PICK what \in {"connection", "banned", "error"} :
        svc' = [svc EXCEPT !.accepting = @ \ {p}, !.queue = Append(@, Handler(what, p))]
  BY DEF Completes
<1> DEFINE h == Handler(what, p)
           q == Append(svc.queue, h)
<1>2. /\ svc \in SvcState /\ OneHope(svc, p) /\ AcceptorFits(svc, p) /\ p \in svc.accepting
      /\ OncePerPort(svc.queue)
  BY DEF SvcSound, Completes
<1>3. t = [svc EXCEPT !.accepting = @ \ {p}, !.queue = q]
  BY <1>1
<1>4. h \in {"connection", "banned", "error"} \X Port /\ h[2] = p /\ ~Awaits(svc.queue, p)
  BY <1>2 DEF Handler, OneHope
<1>5. svc.queue \in Seq({"connection", "banned", "error"} \X Port)
  BY <1>2 DEF SvcState
<1>6. /\ q \in Seq({"connection", "banned", "error"} \X Port) /\ OncePerPort(q)
      /\ \A r : Awaits(q, r) <=> Awaits(svc.queue, r) \/ r = p
  <2> DEFINE S == {"connection", "banned", "error"}
             w == svc.queue
  <2>1. w \in Seq(S \X Port) /\ OncePerPort(w) /\ h \in S \X Port /\ ~Awaits(w, h[2])
    BY <1>2, <1>4, <1>5
  <2> HIDE DEF h, S, w
  <2>2. /\ Append(w, h) \in Seq(S \X Port) /\ OncePerPort(Append(w, h))
        /\ \A r : Awaits(Append(w, h), r) <=> Awaits(w, r) \/ r = h[2]
    BY <2>1, WaitsAppend
  <2> QED BY <1>4, <2>2 DEF S, w
<1> HIDE DEF q, h
<1>7. /\ t \in SvcState
      /\ t.main = svc.main /\ t.woken = svc.woken /\ t.loader = svc.loader
      /\ t.opening = svc.opening /\ t.step = svc.step /\ t.listed = svc.listed
      /\ t.pendingStart = svc.pendingStart /\ t.served = svc.served
      /\ t.accepting = svc.accepting \ {p} /\ t.queue = q /\ t.retries = svc.retries
      /\ t.scheduling = svc.scheduling /\ t.death = svc.death /\ t.early = svc.early
      /\ t.acceptor = svc.acceptor
  BY <1>2, <1>3, <1>6 DEF SvcState
<1> HIDE DEF t
<1>8. Elsewhere(svc, t, p)
  BY <1>6, <1>7 DEF Elsewhere
<1>9. OneHope(t, p) /\ AcceptorFits(t, p) /\ SomeHope(t, p)
  BY <1>2, <1>6, <1>7 DEF OneHope, AcceptorFits, SomeHope, SvcState
<1>10. LoaderFits(t) /\ MainFits(t)
  BY <1>7 DEF SvcSound, LoaderFits, MainFits
<1>11. SvcSound(t)
  BY <1>6, <1>7, <1>8, <1>9, <1>10, PortKeeps
<1> QED BY <1>11 DEF t

\* onAccept: while main serves and nothing is asked for, the port accepts
\* again, or is closed and will be opened, unless it has no service yet.
LEMMA HandleKeeps ==
  ASSUME SvcSound(svc), Handle
  PROVE  SvcSound(svc')
<1> DEFINE h == Head(svc.queue)
           what == h[1]
           p == h[2]
           r == Tail(svc.queue)
           s == [svc EXCEPT !.queue = r]
           t == svc'
<1>1. svc \in SvcState /\ OncePerPort(svc.queue) /\ svc.main = "serving" /\ svc.queue # <<>>
  BY DEF SvcSound, Handle
<1>2. /\ r \in Seq({"connection", "banned", "error"} \X Port) /\ OncePerPort(r)
      /\ h \in {"connection", "banned", "error"} \X Port
      /\ \A q : Awaits(r, q) <=> Awaits(svc.queue, q) /\ q # p
      /\ Awaits(svc.queue, p)
  <2>1. svc.queue \in Seq({"connection", "banned", "error"} \X Port)
    BY <1>1 DEF SvcState
  <2> QED BY <1>1, <2>1, WaitsTail
<1>3. p \in Port /\ what \in {"connection", "banned", "error"}
  BY <1>2
<1>4. t = OnAccept(s, what, p)
  BY <1>3 DEF Handle
<1> HIDE DEF r, p, what
<1>5. /\ s \in SvcState
      /\ s.main = svc.main /\ s.woken = svc.woken /\ s.loader = svc.loader
      /\ s.opening = svc.opening /\ s.step = svc.step /\ s.listed = svc.listed
      /\ s.pendingStart = svc.pendingStart /\ s.served = svc.served
      /\ s.accepting = svc.accepting /\ s.queue = r /\ s.retries = svc.retries
      /\ s.scheduling = svc.scheduling /\ s.death = svc.death /\ s.early = svc.early
      /\ s.acceptor = svc.acceptor
  BY <1>1, <1>2 DEF SvcState
<1>6. /\ p \notin svc.accepting /\ svc.retries[p] = 0 /\ svc.opening # p
      /\ svc.acceptor[p] = "open" /\ p \in svc.listed /\ svc.scheduling
      /\ p \notin svc.pendingStart /\ ~Awaits(r, p)
  <2>1. OneHope(svc, p) /\ AcceptorFits(svc, p) /\ MainFits(svc)
    BY <1>3 DEF SvcSound
  <2>2. p \notin svc.accepting /\ svc.retries[p] = 0 /\ svc.opening # p
    BY <1>2, <2>1 DEF OneHope
  <2>3. svc.acceptor[p] = "open" /\ p \in svc.listed /\ svc.scheduling
    BY <1>1, <1>2, <2>1 DEF AcceptorFits, MainFits
  <2>4. p \notin svc.pendingStart
    BY <2>1, <2>2, <2>3 DEF AcceptorFits
  <2> QED BY <1>2, <2>2, <2>3, <2>4
<1> HIDE DEF s
<1>7. CASE what \in {"connection", "banned"} /\ p \in svc.served
  <2>1. t = [s EXCEPT !.accepting = @ \cup {p}]
    BY <1>4, <1>5, <1>6, <1>7 DEF OnAccept, AcceptNext
  <2>2. /\ t \in SvcState
        /\ t.main = svc.main /\ t.woken = svc.woken /\ t.loader = svc.loader
        /\ t.opening = svc.opening /\ t.step = svc.step /\ t.listed = svc.listed
        /\ t.pendingStart = svc.pendingStart /\ t.served = svc.served
        /\ t.accepting = svc.accepting \cup {p} /\ t.queue = r /\ t.retries = svc.retries
        /\ t.scheduling = svc.scheduling /\ t.death = svc.death /\ t.early = svc.early
        /\ t.acceptor = svc.acceptor
    BY <1>3, <1>5, <2>1 DEF SvcState
  <2> HIDE DEF t
  <2>3. Elsewhere(svc, t, p)
    BY <1>2, <2>2 DEF Elsewhere
  <2>4. OneHope(t, p) /\ AcceptorFits(t, p) /\ SomeHope(t, p)
    BY <1>6, <2>2 DEF OneHope, AcceptorFits, SomeHope
  <2>5. LoaderFits(t) /\ MainFits(t)
    BY <2>2 DEF SvcSound, LoaderFits, MainFits
  <2>6. SvcSound(t)
    BY <1>2, <1>3, <2>2, <2>3, <2>4, <2>5, PortKeeps
  <2> QED BY <2>6 DEF t
<1>8. CASE what = "error"
  <2> DEFINE u == [s EXCEPT !.acceptor[p] = "closed", !.accepting = @ \ {p}]
  <2>1. t = RetryLater(u, p)
    <3>1. ClosePort(s, p) = u
      BY <1>3, <1>5, <1>6 DEF ClosePort, SvcState
    <3> QED BY <1>4, <1>5, <1>6, <1>8, <3>1 DEF OnAccept
  <2>2. /\ u \in SvcState
        /\ u.main = svc.main /\ u.woken = svc.woken /\ u.loader = svc.loader
        /\ u.opening = svc.opening /\ u.step = svc.step /\ u.listed = svc.listed
        /\ u.pendingStart = svc.pendingStart /\ u.served = svc.served
        /\ u.accepting = svc.accepting \ {p} /\ u.queue = r /\ u.retries = svc.retries
        /\ u.scheduling = svc.scheduling /\ u.death = svc.death /\ u.early = svc.early
        /\ \A q \in Port \ {p} : u.acceptor[q] = svc.acceptor[q]
    BY <1>3, <1>5 DEF SvcState
  <2> HIDE DEF u, t
  <2>3. Retried(u, t, p)
    BY <1>3, <1>6, <2>1, <2>2, RetryLaterDoes
  <2>4. /\ t \in SvcState
        /\ t.main = svc.main /\ t.woken = svc.woken /\ t.loader = svc.loader
        /\ t.opening = svc.opening /\ t.step = svc.step /\ t.listed = svc.listed
        /\ t.pendingStart = svc.pendingStart \cup {p} /\ t.served = svc.served
        /\ t.accepting = svc.accepting \ {p} /\ t.queue = r
        /\ t.scheduling = svc.scheduling /\ t.death = svc.death /\ t.early = svc.early
        /\ t.retries[p] = 1
        /\ \A q \in Port \ {p} : t.acceptor[q] = svc.acceptor[q] /\ t.retries[q] = svc.retries[q]
    BY <1>6, <2>2, <2>3 DEF Retried
  <2>5. Elsewhere(svc, t, p)
    BY <1>2, <2>4 DEF Elsewhere
  <2>6. OneHope(t, p) /\ AcceptorFits(t, p) /\ SomeHope(t, p)
    BY <1>6, <2>4 DEF OneHope, AcceptorFits, SomeHope
  <2>7. LoaderFits(t) /\ MainFits(t)
    BY <2>4 DEF SvcSound, LoaderFits, MainFits
  <2>8. SvcSound(t)
    BY <1>2, <1>3, <2>4, <2>5, <2>6, <2>7, PortKeeps
  <2> QED BY <2>8 DEF t
<1>9. CASE what \in {"connection", "banned"} /\ p \notin svc.served
  <2>1. t = s
    BY <1>4, <1>5, <1>9 DEF OnAccept
  <2> HIDE DEF t
  <2>2. Elsewhere(svc, t, p)
    BY <1>2, <1>5, <2>1 DEF Elsewhere
  <2>3. OneHope(t, p) /\ AcceptorFits(t, p)
    BY <1>5, <1>6, <2>1 DEF OneHope, AcceptorFits
  <2>4. LoaderFits(t) /\ MainFits(t)
    BY <1>5, <2>1 DEF SvcSound, LoaderFits, MainFits
  <2>5. t.early
    BY <1>1, <1>5, <1>6, <1>9, <2>1 DEF SvcSound, LoaderFits, MainFits, SvcState
  <2>6. SvcSound(t)
    BY <1>2, <1>3, <1>5, <2>1, <2>2, <2>3, <2>4, <2>5, PortKeeps
  <2> QED BY <2>6 DEF t
<1> QED BY <1>3, <1>7, <1>8, <1>9

-----------------------------------------------------------------------------
(* The shutdown *)

LEMMA PortOperationsAskNothing ==
  ASSUME NEW s, Asked(s), NEW p
  PROVE  /\ Asked(ClosePort(s, p)) /\ Asked(AcceptNext(s, p)) /\ Asked(RetryLater(s, p))
         /\ Asked(Opened(s)) /\ Asked(Notified(s)) /\ Asked(Stop(s))
         /\ \A q : Asked(Unscheduled(s, q)) /\ Asked([s EXCEPT !.queue = q])
         /\ \A what : Asked(OnAccept(s, what, p))
<1>1. ASSUME NEW u, Asked(u)
      PROVE  Asked(ClosePort(u, p)) /\ Asked(AcceptNext(u, p)) /\ Asked(RetryLater(u, p))
  <2>1. Asked(ClosePort(u, p))
    BY <1>1 DEF Asked, ClosePort
  <2>2. Asked(AcceptNext(u, p))
    BY <1>1 DEF Asked, AcceptNext
  <2>3. Asked(RetryLater(u, p))
    BY <1>1 DEF Asked, RetryLater
  <2> QED BY <2>1, <2>2, <2>3
<1>2. Asked(Opened(s)) /\ Asked(Notified(s)) /\ Asked(Stop(s))
  BY DEF Asked, Opened, Notified, Stop
<1>3. \A q : Asked(Unscheduled(s, q)) /\ Asked([s EXCEPT !.queue = q])
  BY DEF Asked, Unscheduled
<1>4. \A what : Asked(OnAccept(s, what, p))
  BY <1>1 DEF OnAccept
<1> QED BY <1>1, <1>2, <1>3, <1>4

LEMMA AskedStays ==
  ASSUME Asked(svc), SvcNext
  PROVE  Asked(svc')
<1>1. CASE LoaderFails \/ LoaderDone
  <2>1. ASSUME NEW l PROVE Asked(Notified([svc EXCEPT !.loader = l]))
    <3>1. Asked([svc EXCEPT !.loader = l])
      BY DEF Asked
    <3> QED BY <3>1, PortOperationsAskNothing
  <2> QED BY <1>1, <2>1 DEF LoaderFails, LoaderDone
<1>2. CASE Shutdown
  BY <1>2 DEF Shutdown, Asked
<1>3. CASE OpenClose
  <2> DEFINE s == ClosePort(svc, svc.opening)
  <2>1. Asked(s)
    BY PortOperationsAskNothing
  <2>2. svc' = [s EXCEPT !.pendingStart = @ \ {svc.opening}, !.step = "bind"]
    BY <1>3 DEF OpenClose
  <2> HIDE DEF s
  <2> QED BY <2>1, <2>2 DEF Asked
<1>4. CASE OpenBind
  <2>1. ASSUME NEW a PROVE Asked(Opened(RetryLater([svc EXCEPT !.acceptor[svc.opening] = a], svc.opening)))
    <3>1. Asked([svc EXCEPT !.acceptor[svc.opening] = a])
      BY DEF Asked
    <3> QED BY <3>1, PortOperationsAskNothing
  <2>2. CASE svc' = [svc EXCEPT !.acceptor[svc.opening] = "open", !.step = "accept"]
    BY <2>2 DEF Asked
  <2> QED BY <1>4, <2>1, <2>2 DEF OpenBind
<1>5. CASE OpenAccept
  BY <1>5, PortOperationsAskNothing DEF OpenAccept
<1>6. ASSUME NEW p \in Port, Add(p) \/ AddService(p) \/ OpenAcceptor(p) \/ Completes(p)
      PROVE  Asked(svc')
  BY <1>6 DEF Asked, Add, AddService, OpenAcceptor, Completes
<1>7. CASE Wait \/ Serve \/ DeathTimer
  BY <1>7 DEF Asked, Wait, Serve, DeathTimer
<1>8. CASE Wake
  <2> DEFINE s == [svc EXCEPT !.early = ~svc.woken]
             u == Unscheduled(s, {})
  <2>1. Asked(s)
    BY DEF Asked
  <2>2. svc' = [s EXCEPT !.main = "online"] \/ svc' = [u EXCEPT !.main = "offline"]
    BY <1>8 DEF Wake
  <2> HIDE DEF s
  <2>3. Asked(u)
    BY <2>1, PortOperationsAskNothing
  <2> HIDE DEF u
  <2> QED BY <2>1, <2>2, <2>3 DEF Asked
<1>9. CASE Handle
  <2> DEFINE h == Head(svc.queue)
             s == [svc EXCEPT !.queue = Tail(svc.queue)]
  <2>1. Asked(s)
    BY PortOperationsAskNothing
  <2>2. \/ svc' = ClosePort(s, h[2]) \/ svc' = [s EXCEPT !.main = "left"]
        \/ svc' = OnAccept(s, h[1], h[2])
    BY <1>9 DEF Handle
  <2> HIDE DEF s, h
  <2>3. Asked([s EXCEPT !.main = "left"])
    BY <2>1 DEF Asked
  <2> QED BY <2>1, <2>2, <2>3, PortOperationsAskNothing
<1> QED BY <1>1, <1>2, <1>3, <1>4, <1>5, <1>6, <1>7, <1>8, <1>9 DEF SvcNext, Dispatching

-----------------------------------------------------------------------------
(* The invariant *)

LEMMA SvcInitially == SvcInit => SvcInv
<1> SUFFICES ASSUME SvcInit PROVE SvcSound(svc) /\ svc.asked = FALSE
  BY DEF SvcInv
<1> DEFINE zeroes == [p \in Port |-> 0]
           nones == [p \in Port |-> "none"]
<1>1. /\ svc.main = "begin" /\ svc.woken = FALSE /\ svc.loader = "loading"
      /\ svc.opening = NoPort /\ svc.step = "none" /\ svc.listed = {} /\ svc.running = FALSE
      /\ svc.acceptor = nones /\ svc.pendingStart = {} /\ svc.served = {}
      /\ svc.accepting = {} /\ svc.queue = <<>> /\ svc.retries = zeroes
      /\ svc.scheduling = TRUE /\ svc.death = FALSE /\ svc.early = FALSE /\ svc.asked = FALSE
  BY DEF SvcInit
<1>2. /\ nones \in [Port -> {"none", "open", "closed"}] /\ zeroes \in [Port -> Nat]
      /\ \A p \in Port : zeroes[p] = 0
  OBVIOUS
<1> HIDE DEF zeroes, nones
<1>3. svc \in SvcState
  BY <1>2 DEF SvcInit, SvcState, zeroes, nones
<1>4. OncePerPort(svc.queue) /\ \A p : ~Awaits(svc.queue, p)
  BY <1>1 DEF OncePerPort, Awaits
<1>5. \A p \in Port : OneHope(svc, p) /\ AcceptorFits(svc, p)
  BY <1>1, <1>2, <1>4, NoPortIs DEF OneHope, AcceptorFits
<1>6. LoaderFits(svc) /\ MainFits(svc)
  BY <1>1, NoPortIs DEF LoaderFits, MainFits
<1> QED BY <1>1, <1>3, <1>4, <1>5, <1>6 DEF SvcSound

\* While nothing is asked for the death timer does not run.
LEMMA SoundStays ==
  ASSUME SvcSound(svc), svc.asked = FALSE, SvcNext
  PROVE  Asked(svc') \/ (SvcSound(svc') /\ svc'.asked = FALSE)
<1>1. CASE Shutdown
  <2>1. PICK posted : svc' = Stop(Unscheduled([svc EXCEPT !.asked = TRUE], posted))
    BY <1>1 DEF Shutdown
  <2>2. Asked([svc EXCEPT !.asked = TRUE])
    BY DEF Asked, SvcSound, SvcState
  <2> QED BY <2>1, <2>2, PortOperationsAskNothing
<1>2. ~DeathTimer
  BY DEF SvcSound, MainFits, DeathTimer
<1>3. ASSUME ~Shutdown PROVE SvcSound(svc')
  BY <1>2, <1>3, LoaderFailsKeeps, LoaderDoneKeeps, OpenCloseKeeps, OpenBindKeeps, OpenAcceptKeeps,
     AddKeeps, AddServiceKeeps, OpenAcceptorKeeps, WaitServeKeep, WakeKeeps, HandleKeeps,
     CompletesKeeps DEF SvcNext, Dispatching
<1>4. ASSUME ~Shutdown PROVE Asked(svc') \/ (SvcSound(svc') /\ svc'.asked = FALSE)
  <2> DEFINE t == svc'
  <2>1. SvcSound(t)
    BY <1>3, <1>4
  <2> HIDE DEF t
  <2>2. t \in SvcState
    BY <2>1 DEF SvcSound
  <2>3. "asked" \in DOMAIN t /\ t.asked \in BOOLEAN
    BY <2>2 DEF SvcState
  <2>4. Asked(t) \/ (SvcSound(t) /\ t.asked = FALSE)
    BY <2>1, <2>3 DEF Asked
  <2> QED BY <2>4 DEF t
<1> QED BY <1>1, <1>4

LEMMA SvcInductive == SvcInv /\ [SvcNext]_svc => SvcInv'
<1> SUFFICES ASSUME SvcInv, [SvcNext]_svc PROVE SvcInv'
  OBVIOUS
<1>1. CASE UNCHANGED svc
  BY <1>1 DEF SvcInv
<1>2. CASE SvcNext
  BY <1>2, AskedStays, SoundStays DEF SvcInv
<1> QED BY <1>1, <1>2

\* How many handlers of a port are queued.
LEMMA QueuedIs ==
  ASSUME NEW s \in SvcState, OncePerPort(s.queue), NEW p
  PROVE  Queued(s, p) = IF Awaits(s.queue, p) THEN 1 ELSE 0
<1> DEFINE N == {n \in DOMAIN s.queue : s.queue[n][2] = p /\ s.queue[n][1] # "stop"}
<1>1. N = {n \in DOMAIN s.queue : s.queue[n][2] = p}
  <2>1. s.queue \in Seq({"connection", "banned", "error"} \X Port)
    BY DEF SvcState
  <2>2. \A n \in DOMAIN s.queue : s.queue[n] \in {"connection", "banned", "error"} \X Port
    BY <2>1
  <2>3. \A n \in DOMAIN s.queue : s.queue[n][1] # "stop"
    BY <2>2
  <2> QED BY <2>3
<1>2. CASE Awaits(s.queue, p)
  <2>1. PICK m \in DOMAIN s.queue : s.queue[m][2] = p
    BY <1>2 DEF Awaits
  <2>2. N = {m}
    BY <1>1, <2>1 DEF OncePerPort
  <2>3. Cardinality({m}) = 1
    BY FS_Singleton
  <2> HIDE DEF N
  <2>4. Cardinality(N) = 1
    BY <2>2, <2>3
  <2> QED BY <1>2, <2>4 DEF N, Queued
<1>3. CASE ~Awaits(s.queue, p)
  <2>1. N = {}
    BY <1>1, <1>3 DEF Awaits
  <2> HIDE DEF N
  <2>2. Cardinality(N) = 0
    BY <2>1, FS_EmptySet
  <2> QED BY <1>3, <2>2 DEF N, Queued
<1> QED BY <1>2, <1>3

LEMMA SvcInvServes == SvcInv => PortsServed
<1> SUFFICES ASSUME SvcSound(svc)
             PROVE  /\ \A p \in Port : Hopes(p) <= 1
                    /\ ~svc.early => /\ \A p \in svc.listed : Hopes(p) = 1
                                     /\ svc.main \in {"online", "serving"} => svc.loader = "done"
                                     /\ svc.main = "offline" => svc.listed = {}
  BY DEF SvcInv, PortsServed, Asked
<1>1. svc \in SvcState /\ OncePerPort(svc.queue) /\ svc.listed \subseteq Port
  BY DEF SvcSound, SvcState
<1>2. ASSUME NEW p \in Port
      PROVE  Hopes(p) <= 1 /\ (SomeHope(svc, p) => Hopes(p) = 1)
  <2>1. OneHope(svc, p) /\ svc.retries[p] \in Nat
    BY <1>1 DEF SvcSound, SvcState
  <2>2. Queued(svc, p) = IF Awaits(svc.queue, p) THEN 1 ELSE 0
    BY <1>1, QueuedIs
  <2>3. \/ Awaits(svc.queue, p) /\ p \notin svc.accepting /\ svc.retries[p] = 0 /\ svc.opening # p
        \/ ~Awaits(svc.queue, p) /\ p \in svc.accepting /\ svc.retries[p] = 0 /\ svc.opening # p
        \/ ~Awaits(svc.queue, p) /\ p \notin svc.accepting /\ svc.retries[p] = 1 /\ svc.opening # p
        \/ ~Awaits(svc.queue, p) /\ p \notin svc.accepting /\ svc.retries[p] = 0
    BY <2>1 DEF OneHope
  <2> QED BY <2>1, <2>2, <2>3 DEF Hopes, SomeHope
<1>3. ~svc.early => \A p \in svc.listed : Hopes(p) = 1
  BY <1>1, <1>2 DEF SvcSound
<1> QED BY <1>2, <1>3 DEF SvcSound, MainFits

\* Until it is shut down the server listens, answers or will open again, once, on
\* every port it has listed (server.cpp:98-193).
THEOREM ServicesServe == SvcSpec => []PortsServed
<1>1. SvcInit => SvcInv
  BY SvcInitially
<1>2. SvcInv /\ [SvcNext]_svc => SvcInv'
  BY SvcInductive
<1>3. SvcInv => PortsServed
  BY SvcInvServes
<1> QED BY <1>1, <1>2, <1>3, PTL DEF SvcSpec

-----------------------------------------------------------------------------
(* Connections *)

\* The messages 1, 2, ... n
UpTo(n) == [k \in 1 .. n |-> k]

Unwritten(c) == IF c.write = "done" THEN Tail(c.queue) ELSE c.queue

\* The peer, which has received d, is owed what is queued.
Written(c, d) ==
  /\ c.queue = <<>> <=> c.write = "none"
  /\ \/ d \o Unwritten(c) = UpTo(c.accepted)
     \/ c.closed /\ c.queue = <<>>

Timed(c) ==
  ~c.closed => /\ (c.read \in {"header", "body"} => "read" \in c.running \cup c.due)
               /\ (c.write = "pending" => "write" \in c.running \cup c.due)

ReleasedLast(c) ==
  /\ \A k \in DOMAIN c.tasks : c.tasks[k] = "release" <=> c.closed /\ k = Len(c.tasks)
  /\ c.tasks # <<>> => c.protocol

\* Until it is accepted nobody but the manager knows of it.
Fresh(c) ==
  c.accepting = "new" => /\ ~c.closed /\ c.tasks = <<>> /\ c.read = "none"
                         /\ c.running = {} /\ c.due = {} /\ c.write = "none"

\* To be closed the connection need not be timed any more.
Kept(c, d) ==
  /\ c \in Conn /\ Written(c, d) /\ ReleasedLast(c) /\ Fresh(c)
  /\ c.closed => ~c.managed
  /\ c.write = "failed" => c.socket # "open"

ConnSound(c, d) == Kept(c, d) /\ Timed(c)

\* The destructor has run, if it had to.
Ended(c) == ~Alive(c) => c.socket = "closed" /\ c.running = {}

ConnInv ==
  /\ ConnSound(conn, delivered) /\ Ended(conn)
  /\ delivered \in Seq(1 .. MaxSend) /\ delivered = UpTo(Len(delivered))
  /\ packets \in 0 .. MaxPackets
  /\ ~conn.closed /\ conn.accepting = "done" => conn.read # "none"
-----------------------------------------------------------------------------
(* The methods *)

LEMMA ShutSocketKeeps ==
  ASSUME NEW c, NEW d, ConnSound(c, d)
  PROVE  LET e == ShutSocket(c)
         IN  /\ ConnSound(e, d) /\ e.socket = "closed" /\ e.closed = c.closed
             /\ e.accepting = c.accepting /\ (e.read = "none" <=> c.read = "none")
             /\ e.queue = c.queue /\ e.read \notin {"header", "body"} /\ e.write # "pending"
<1> DEFINE e == ShutSocket(c)
<1>1. c \in Conn
  BY DEF ConnSound, Kept
<1>2. /\ e \in Conn /\ e.socket = "closed"
      /\ e.read = IF c.read \in {"header", "body"} THEN "failed" ELSE c.read
      /\ e.write = IF c.write = "pending" THEN "failed" ELSE c.write
      /\ e.accepting = c.accepting /\ e.managed = c.managed /\ e.protocol = c.protocol
      /\ e.closed = c.closed /\ e.queue = c.queue /\ e.accepted = c.accepted
      /\ e.running = c.running /\ e.due = c.due /\ e.tasks = c.tasks
  BY <1>1 DEF ShutSocket, Conn
<1> HIDE DEF e
<1>3. Written(e, d)
  BY <1>1, <1>2 DEF ConnSound, Kept, Written, Unwritten
<1>4. Timed(e) /\ ReleasedLast(e) /\ Fresh(e)
  BY <1>1, <1>2 DEF ConnSound, Kept, Timed, ReleasedLast, Fresh
<1>5. ConnSound(e, d)
  BY <1>2, <1>3, <1>4 DEF ConnSound, Kept
<1>6. /\ e.read = "none" <=> c.read = "none"
      /\ e.read \notin {"header", "body"} /\ e.write # "pending"
  BY <1>2
<1> QED BY <1>2, <1>5, <1>6 DEF e

LEMMA CloseSocketKeeps ==
  ASSUME NEW c, NEW d, ConnSound(c, d)
  PROVE  LET e == CloseSocket(c)
         IN  /\ ConnSound(e, d) /\ e.socket = "closed" /\ e.closed = c.closed
             /\ e.accepting = c.accepting /\ (e.read = "none" <=> c.read = "none")
             /\ e.queue = c.queue
<1>1. CASE c.socket = "closed"
  BY <1>1 DEF CloseSocket
<1>2. CASE c.socket # "closed"
  <2> DEFINE s == ShutSocket(c)
             e == [s EXCEPT !.running = {}]
  <2>1. /\ ConnSound(s, d) /\ s.socket = "closed" /\ s.closed = c.closed
        /\ s.accepting = c.accepting /\ (s.read = "none" <=> c.read = "none")
        /\ s.queue = c.queue /\ s.read \notin {"header", "body"} /\ s.write # "pending"
    BY ShutSocketKeeps
  <2>2. CloseSocket(c) = e
    BY <1>2 DEF CloseSocket
  <2> HIDE DEF s
  <2>3. /\ e \in Conn /\ e.running = {}
        /\ e.socket = s.socket /\ e.read = s.read /\ e.write = s.write
        /\ e.accepting = s.accepting /\ e.managed = s.managed /\ e.protocol = s.protocol
        /\ e.closed = s.closed /\ e.queue = s.queue /\ e.accepted = s.accepted
        /\ e.due = s.due /\ e.tasks = s.tasks
    BY <2>1 DEF ConnSound, Kept, Conn
  <2> HIDE DEF e
  <2>4. Written(e, d)
    BY <2>1, <2>3 DEF ConnSound, Kept, Written, Unwritten
  <2>5. Timed(e) /\ ReleasedLast(e) /\ Fresh(e)
    BY <2>1, <2>3 DEF ConnSound, Kept, Timed, ReleasedLast, Fresh
  <2>6. ConnSound(e, d)
    BY <2>1, <2>3, <2>4, <2>5 DEF ConnSound, Kept
  <2> QED BY <2>1, <2>2, <2>3, <2>6
<1> QED BY <1>1, <1>2

LEMMA CloseKeeps ==
  ASSUME NEW c, NEW d, NEW force, Kept(c, d), c.accepting # "new"
  PROVE  LET e == Close(c, force)
         IN  /\ ConnSound(e, d) /\ e.closed
             /\ e.accepting = c.accepting /\ (e.read = "none" <=> c.read = "none")
             /\ e.queue = c.queue
<1>1. c \in Conn
  BY DEF ConnSound, Kept
<1>2. CASE c.closed
  <2> DEFINE e == [c EXCEPT !.managed = FALSE]
  <2>1. /\ e \in Conn /\ ~e.managed
        /\ e.socket = c.socket /\ e.read = c.read /\ e.write = c.write
        /\ e.accepting = c.accepting /\ e.protocol = c.protocol
        /\ e.closed = c.closed /\ e.queue = c.queue /\ e.accepted = c.accepted
        /\ e.running = c.running /\ e.due = c.due /\ e.tasks = c.tasks
    BY <1>1 DEF Conn
  <2>2. Close(c, force) = e
    BY <1>2 DEF Close
  <2> HIDE DEF e
  <2>3. Written(e, d) /\ Timed(e) /\ ReleasedLast(e) /\ Fresh(e)
    BY SMTT(30), <1>2, <2>1 DEF Kept, Written, Unwritten, Timed, ReleasedLast, Fresh
  <2>4. ConnSound(e, d)
    BY <2>1, <2>3 DEF ConnSound, Kept
  <2> QED BY <1>2, <2>1, <2>2, <2>4
<1>3. CASE ~c.closed
  <2> DEFINE t == IF c.protocol THEN Append(c.tasks, "release") ELSE c.tasks
             e == [c EXCEPT !.managed = FALSE, !.closed = TRUE, !.tasks = t]
  <2>0. t \in Seq({"onConnect", "packet", "release"})
    BY <1>1 DEF Conn
  <2>2. Close(c, force) = e \/ Close(c, force) = CloseSocket(e)
    BY <1>3 DEF Close
  <2> HIDE DEF t
  <2>1. /\ e \in Conn /\ ~e.managed /\ e.closed /\ e.tasks = t
        /\ e.socket = c.socket /\ e.read = c.read /\ e.write = c.write
        /\ e.accepting = c.accepting /\ e.protocol = c.protocol
        /\ e.queue = c.queue /\ e.accepted = c.accepted
        /\ e.running = c.running /\ e.due = c.due
    BY <1>1, <2>0 DEF Conn
  <2> HIDE DEF e
  <2>3. Written(e, d) /\ Timed(e) /\ Fresh(e)
    BY <1>3, <2>1 DEF ConnSound, Kept, Written, Unwritten, Timed, Fresh
  <2>4. ReleasedLast(e)
    <3>1. CASE c.protocol
      <4>1. c.tasks \in Seq({"onConnect", "packet", "release"})
        BY <1>1 DEF Conn
      <4>2. \A k \in DOMAIN c.tasks : c.tasks[k] # "release"
        BY <1>3 DEF ConnSound, Kept, ReleasedLast
      <4>3. /\ Len(c.tasks) \in Nat /\ DOMAIN c.tasks = 1 .. Len(c.tasks)
            /\ Len(e.tasks) = Len(c.tasks) + 1 /\ DOMAIN e.tasks = 1 .. Len(c.tasks) + 1
            /\ \A k \in 1 .. Len(c.tasks) : e.tasks[k] = c.tasks[k]
            /\ e.tasks[Len(c.tasks) + 1] = "release"
        BY <2>1, <3>1, <4>1, AppendProperties, LenProperties DEF t
      <4> QED BY <2>1, <3>1, <4>2, <4>3 DEF ReleasedLast
    <3>2. CASE ~c.protocol
      BY <2>1, <3>2 DEF ConnSound, Kept, ReleasedLast, t
    <3> QED BY <3>1, <3>2
  <2>5. ConnSound(e, d)
    BY <2>1, <2>3, <2>4 DEF ConnSound, Kept
  <2>6. LET s == CloseSocket(e)
        IN  /\ ConnSound(s, d) /\ s.closed = e.closed
            /\ s.accepting = e.accepting /\ (s.read = "none" <=> e.read = "none")
            /\ s.queue = e.queue
    BY <2>5, CloseSocketKeeps
  <2> QED BY <2>1, <2>2, <2>5, <2>6
<1> QED BY <1>2, <1>3

LEMMA StartReadKeeps ==
  ASSUME NEW c, NEW d, NEW what \in {"header", "body"}, ConnSound(c, d), c.accepting # "new"
  PROVE  LET e == StartRead(c, what)
         IN  ConnSound(e, d) /\ e.closed = c.closed /\ e.accepting = c.accepting /\ e.read # "none"
<1> DEFINE e == StartRead(c, what)
<1>1. c \in Conn
  BY DEF ConnSound, Kept
<1>2. /\ e \in Conn /\ e.running = c.running \cup {"read"}
      /\ e.read = IF c.socket = "open" THEN what ELSE "failed"
      /\ e.socket = c.socket /\ e.write = c.write /\ e.managed = c.managed
      /\ e.accepting = c.accepting /\ e.protocol = c.protocol
      /\ e.closed = c.closed /\ e.queue = c.queue /\ e.accepted = c.accepted
      /\ e.due = c.due /\ e.tasks = c.tasks
  BY <1>1 DEF StartRead, Conn, Timer
<1> HIDE DEF e
<1>3. /\ Written(e, d)
      /\ Timed(e)
      /\ ReleasedLast(e)
      /\ Fresh(e)
  <2>1. Written(e, d)
    BY <1>2 DEF ConnSound, Kept, Written, Unwritten
  <2>2. Timed(e)
    BY <1>2 DEF ConnSound, Kept, Timed
  <2>3. ReleasedLast(e)
    BY <1>2 DEF ConnSound, Kept, ReleasedLast
  <2>4. Fresh(e)
    BY <1>2 DEF Fresh
  <2> QED BY <2>1, <2>2, <2>3, <2>4
<1>4. ConnSound(e, d)
  BY <1>2, <1>3 DEF ConnSound, Kept
<1>5. e.read # "none"
  BY <1>2
<1> QED BY <1>2, <1>4, <1>5 DEF e

\* What is sent is queued behind what the peer is owed.
LEMMA OwesOneMore ==
  ASSUME NEW d \in Seq(Nat), NEW q \in Seq(Nat), NEW n \in Nat, d \o q = UpTo(n)
  PROVE  d \o Append(q, n + 1) = UpTo(n + 1)
<1>1. Append(q, n + 1) = q \o <<n + 1>> /\ <<n + 1>> \in Seq(Nat)
  BY SMTT(30), AppendIsConcat
<1>2. d \o Append(q, n + 1) = (d \o q) \o <<n + 1>>
  BY SMTT(30), <1>1, ConcatAssociative
<1>3. UpTo(n) \in Seq(Nat)
  BY DEF UpTo
<1>4. (d \o q) \o <<n + 1>> = Append(UpTo(n), n + 1)
  BY <1>3, AppendIsConcat
<1>5. Append(UpTo(n), n + 1) = UpTo(n + 1)
  BY DEF UpTo
<1> QED BY <1>2, <1>4, <1>5

LEMMA Associative ==
  ASSUME NEW a \in Seq(Nat), NEW b \in Seq(Nat), NEW c \in Seq(Nat)
  PROVE  (a \o b) \o c = a \o (b \o c)
BY ConcatAssociative

\* The front of a queue, moved behind what came before it.
LEMMA FrontMoves ==
  ASSUME NEW d \in Seq(Nat), NEW q \in Seq(Nat), q # <<>>
  PROVE  Append(d, Head(q)) \o Tail(q) = d \o q
<1>1. Head(q) \in Nat /\ Tail(q) \in Seq(Nat) /\ <<Head(q)>> \in Seq(Nat)
  BY HeadTailProperties
<1>2. q = <<Head(q)>> \o Tail(q)
  <2> DEFINE one == <<Head(q)>>
             t == Tail(q)
  <2>1. /\ Len(t) = Len(q) - 1 /\ t \in Seq(Nat) /\ Len(q) \in Nat /\ Len(q) # 0
        /\ \A i \in 1 .. Len(t) : t[i] = q[i + 1]
    BY HeadTailProperties, LenProperties, EmptySeq
  <2>2. one \in Seq(Nat) /\ Len(one) = 1 /\ one[1] = q[1]
    BY <1>1
  <2> HIDE DEF one, t
  <2>3. /\ one \o t \in Seq(Nat) /\ Len(one \o t) = Len(one) + Len(t)
        /\ \A i \in 1 .. Len(one) + Len(t) : (one \o t)[i] = IF i <= Len(one) THEN one[i] ELSE t[i - Len(one)]
    <3>1. one \in Seq(Nat) /\ t \in Seq(Nat)
      BY <2>1, <2>2
    <3> QED BY <3>1, ConcatProperties
  <2>4. Len(one \o t) = Len(q)
    BY <2>1, <2>2, <2>3
  <2>5. ASSUME NEW i \in 1 .. Len(one \o t)
        PROVE  (one \o t)[i] = q[i]
    <3>1. i \in 1 .. Len(one) + Len(t)
      BY <2>3
    <3>2. CASE i = 1
      BY <2>2, <2>3, <3>1, <3>2
    <3>3. CASE i # 1
      <4>1. i \in Nat /\ i > 1 /\ i - 1 \in 1 .. Len(t) /\ (i - 1) + 1 = i
        BY <2>1, <2>2, <3>1, <3>3
      <4>2. (one \o t)[i] = t[i - Len(one)]
        BY <2>2, <2>3, <3>1, <4>1
      <4>3. t[i - 1] = q[(i - 1) + 1]
        BY <2>1, <4>1
      <4> QED BY <2>2, <4>1, <4>2, <4>3
    <3> QED BY <3>2, <3>3
  <2>6. one \o t = q
    BY <2>3, <2>4, <2>5, SeqEqual
  <2> QED BY <2>6 DEF one, t
<1> DEFINE one == <<Head(q)>>
           t == Tail(q)
<1>3. one \in Seq(Nat) /\ t \in Seq(Nat)
  BY <1>1
<1>4. Append(d, Head(q)) = d \o one
  BY <1>1, AppendIsConcat
<1> HIDE DEF one, t
<1>5. (d \o one) \o t = d \o (one \o t)
  BY <1>3, Associative
<1> QED BY <1>2, <1>4, <1>5 DEF one, t

\* What the peer receives next is the message after those it has.
LEMMA OwesOneLess ==
  ASSUME NEW d \in Seq(Nat), NEW q \in Seq(Nat), NEW n \in Nat, q # <<>>,
         d \o q = UpTo(n), d = UpTo(Len(d))
  PROVE  /\ Append(d, Head(q)) \o Tail(q) = UpTo(n)
         /\ Head(q) = Len(d) + 1
         /\ Append(d, Head(q)) = UpTo(Len(d) + 1)
<1>3. Append(d, Head(q)) \o Tail(q) = UpTo(n)
  BY FrontMoves
<1>4. Head(q) = Len(d) + 1
  <2>1. /\ Len(d \o q) = Len(d) + Len(q) /\ Len(d) \in Nat /\ Len(q) \in Nat /\ Len(q) # 0
        /\ \A i \in 1 .. Len(d) + Len(q) : (d \o q)[i] = IF i <= Len(d) THEN d[i] ELSE q[i - Len(d)]
    <3>1. Len(d) \in Nat /\ Len(q) \in Nat
      BY LenProperties
    <3>2. Len(q) # 0
      BY EmptySeq
    <3> QED BY <3>1, <3>2, ConcatProperties
  <2>2. Len(d) + 1 \in 1 .. Len(d) + Len(q)
    BY <2>1
  <2>3. (d \o q)[Len(d) + 1] = q[1]
    BY <2>1, <2>2
  <2>4. Len(UpTo(n)) = n
    BY DEF UpTo
  <2>5. UpTo(n)[Len(d) + 1] = Len(d) + 1
    BY <2>1, <2>2, <2>4 DEF UpTo
  <2> QED BY <2>3, <2>5
<1>5. Append(d, Head(q)) = UpTo(Len(d) + 1)
  <2>1. Len(d) \in Nat
    BY LenProperties
  <2>2. Append(UpTo(Len(d)), Len(d) + 1) = UpTo(Len(d) + 1)
    BY <2>1 DEF UpTo
  <2> QED BY <1>4, <2>2
<1> QED BY <1>3, <1>4, <1>5

LEMMA TailOfAppended ==
  ASSUME NEW q \in Seq(Nat), NEW x \in Nat, q # <<>>
  PROVE  Tail(Append(q, x)) = Append(Tail(q), x)
OBVIOUS

LEMMA SendKeeps ==
  ASSUME NEW c, NEW d \in Seq(Nat), ConnSound(c, d), c.accepting # "new", c.accepted < MaxSend
  PROVE  LET e == Send(c)
         IN  /\ ConnSound(e, d) /\ e.closed = c.closed
             /\ e.accepting = c.accepting /\ e.read = c.read
<1>1. CASE c.closed
  BY <1>1 DEF Send
<1>2. CASE ~c.closed
  <2> DEFINE q == Append(c.queue, c.accepted + 1)
             w == IF c.queue = <<>> THEN IF c.socket = "open" THEN "pending" ELSE "failed" ELSE c.write
             r == IF c.queue = <<>> THEN c.running \cup {"write"} ELSE c.running
             e == Send(c)
  <2>1. /\ c \in Conn /\ c.accepted \in Nat /\ c.queue \in Seq(Nat)
        /\ c.accepted + 1 \in 1 .. MaxSend /\ c.queue \in Seq(1 .. MaxSend)
    BY ConnectionAssumption DEF ConnSound, Kept, Conn
  <2>2. q \in Seq(1 .. MaxSend) /\ q # <<>>
    BY <2>1
  <2>3. w \in {"none", "pending", "done", "failed"} /\ r \in SUBSET Timer
    BY <2>1 DEF Conn, Timer
  <2>4. e = IF c.queue = <<>>
            THEN [[c EXCEPT !.accepted = @ + 1, !.queue = q] EXCEPT !.running = r, !.write = w]
            ELSE [c EXCEPT !.accepted = @ + 1, !.queue = q]
    BY <1>2, <2>1 DEF Send, InternalSend, Conn
  <2> HIDE DEF e, q
  <2> DEFINE n == c.accepted + 1
             f == [c EXCEPT !.accepted = n, !.queue = q]
  <2>5. n \in 0 .. MaxSend
    BY <2>1
  <2> HIDE DEF w, r, n
  <2>6. /\ f \in Conn /\ f.queue = q /\ f.accepted = n /\ f.write = c.write /\ f.running = c.running
         /\ f.socket = c.socket /\ f.read = c.read /\ f.managed = c.managed
         /\ f.accepting = c.accepting /\ f.protocol = c.protocol
         /\ f.closed = c.closed /\ f.due = c.due /\ f.tasks = c.tasks
    BY <2>1, <2>2, <2>5 DEF Conn
  <2> DEFINE g == [f EXCEPT !.running = r, !.write = w]
  <2> HIDE DEF f
  <2>7. /\ g \in Conn /\ g.queue = f.queue /\ g.accepted = f.accepted /\ g.write = w /\ g.running = r
         /\ g.socket = f.socket /\ g.read = f.read /\ g.managed = f.managed
         /\ g.accepting = f.accepting /\ g.protocol = f.protocol
         /\ g.closed = f.closed /\ g.due = f.due /\ g.tasks = f.tasks
    BY <2>3, <2>6 DEF Conn
  <2> HIDE DEF g
  <2>8. /\ e \in Conn /\ e.queue = q /\ e.accepted = c.accepted + 1 /\ e.write = w /\ e.running = r
        /\ e.socket = c.socket /\ e.read = c.read /\ e.managed = c.managed
        /\ e.accepting = c.accepting /\ e.protocol = c.protocol
        /\ e.closed = c.closed /\ e.due = c.due /\ e.tasks = c.tasks
    <3>1. e = IF c.queue = <<>> THEN g ELSE f
      BY <2>4 DEF f, g, n
    <3>2. c.queue # <<>> => w = c.write /\ r = c.running
      BY DEF w, r
    <3> QED BY <2>6, <2>7, <3>1, <3>2 DEF n
  <2> USE DEF w, r
  <2>9. d \o Unwritten(c) = UpTo(c.accepted) /\ (c.queue = <<>> <=> c.write = "none")
    BY <1>2 DEF ConnSound, Kept, Written
  <2>10. w # "none" /\ (w = "failed" => c.socket # "open")
    BY <2>9 DEF ConnSound, Kept
  <2>11. Unwritten(c) \in Seq(Nat) /\ Unwritten(e) = Append(Unwritten(c), c.accepted + 1)
    <3>1. CASE c.write = "done"
      <4>1. c.queue # <<>> /\ w = "done"
        BY <2>9, <3>1
      <4>2. Tail(q) = Append(Tail(c.queue), c.accepted + 1)
        BY SMTT(30), <2>1, <4>1, TailOfAppended DEF q
      <4>3. Tail(c.queue) \in Seq(Nat)
        BY <2>1, <4>1
      <4> QED BY <2>8, <3>1, <4>1, <4>2, <4>3 DEF Unwritten
    <3>2. CASE c.write # "done"
      <4>1. w # "done"
        BY <3>2
      <4> QED BY <2>1, <2>8, <3>2, <4>1 DEF Unwritten, q
    <3> QED BY <3>1, <3>2
  <2>12. d \o Unwritten(e) = UpTo(e.accepted)
    BY <2>1, <2>8, <2>9, <2>11, OwesOneMore
  <2>13. Written(e, d)
    BY <2>2, <2>8, <2>10, <2>12 DEF Written
  <2>14. Timed(e)
    BY <2>8 DEF ConnSound, Kept, Timed
  <2>15. ReleasedLast(e)
    BY <2>8 DEF ConnSound, Kept, ReleasedLast
  <2>16. Fresh(e)
    BY <2>8 DEF Fresh
  <2>17. ConnSound(e, d)
    BY <2>8, <2>10, <2>13, <2>14, <2>15, <2>16 DEF ConnSound, Kept
  <2> QED BY <2>8, <2>17 DEF e
<1> QED BY <1>1, <1>2

LEMMA SettleKeeps ==
  ASSUME NEW c, NEW d, ConnSound(c, d)
  PROVE  LET e == Settle(c)
         IN  /\ ConnSound(e, d) /\ Ended(e) /\ e.closed = c.closed
             /\ e.accepting = c.accepting /\ (e.read = "none" <=> c.read = "none")
<1>1. CASE Alive(c)
  BY <1>1 DEF Settle, Ended
<1>2. CASE ~Alive(c)
  <2> DEFINE s == CloseSocket(c)
             e == [s EXCEPT !.running = {}]
  <2>1. /\ ConnSound(s, d) /\ s.socket = "closed" /\ s.closed = c.closed
        /\ s.accepting = c.accepting /\ (s.read = "none" <=> c.read = "none")
    BY CloseSocketKeeps
  <2>2. Settle(c) = e
    BY <1>2 DEF Settle
  <2>3. c.write = "none" /\ c.read = "none"
    BY <1>2 DEF Alive
  <2>4. s.write = "none"
    BY <2>3 DEF ConnSound, Kept, Conn, CloseSocket, ShutSocket
  <2> HIDE DEF s
  <2>5. /\ e \in Conn /\ e.running = {}
        /\ e.socket = s.socket /\ e.read = s.read /\ e.write = s.write
        /\ e.accepting = s.accepting /\ e.managed = s.managed /\ e.protocol = s.protocol
        /\ e.closed = s.closed /\ e.queue = s.queue /\ e.accepted = s.accepted
        /\ e.due = s.due /\ e.tasks = s.tasks
    BY <2>1 DEF ConnSound, Kept, Conn
  <2> HIDE DEF e
  <2>6. Written(e, d)
    BY <2>1, <2>5 DEF ConnSound, Kept, Written, Unwritten
  <2>7. Timed(e)
    BY <2>1, <2>3, <2>4, <2>5 DEF Timed
  <2>8. ReleasedLast(e) /\ Fresh(e)
    BY <2>1, <2>5 DEF ConnSound, Kept, ReleasedLast, Fresh
  <2>9. ConnSound(e, d)
    BY <2>1, <2>5, <2>6, <2>7, <2>8 DEF ConnSound, Kept
  <2> QED BY <2>1, <2>2, <2>5, <2>9 DEF Ended
<1> QED BY <1>1, <1>2
-----------------------------------------------------------------------------
(* The handlers *)

\* A handler has brought the connection to c, and returns.
LEMMA HandlerReturns ==
  ASSUME ConnInv, UNCHANGED <<delivered, packets>>, NEW c, ConnSound(c, delivered),
         conn' = Settle(c) \/ (conn' = c /\ Ended(c)),
         c.closed \/ c.accepting # "done" \/ c.read # "none"
  PROVE  ConnInv'
<1> DEFINE e == Settle(c)
<1>1. /\ ConnSound(e, delivered) /\ Ended(e) /\ e.closed = c.closed
      /\ e.accepting = c.accepting /\ (e.read = "none" <=> c.read = "none")
  BY SettleKeeps
<1> HIDE DEF e
<1>2. /\ ConnSound(conn', delivered) /\ Ended(conn')
      /\ ~conn'.closed /\ conn'.accepting = "done" => conn'.read # "none"
  <2>1. CASE conn' = e
    BY <1>1, <2>1
  <2>2. CASE conn' = c /\ Ended(c)
    BY <2>2
  <2> QED BY <2>1, <2>2 DEF e
<1>3. ConnSound(conn, delivered)' /\ Ended(conn)'
  BY <1>2
<1> QED BY <1>2, <1>3 DEF ConnInv

LEMMA AcceptProtocolKeeps == ASSUME ConnInv, AcceptProtocol PROVE ConnInv'
<1> DEFINE c == [conn EXCEPT !.accepting = "greeted", !.protocol = TRUE, !.tasks = <<"onConnect">>]
<1>1. /\ conn \in Conn /\ conn.accepting = "new" /\ conn' = c /\ UNCHANGED <<delivered, packets>>
      /\ ConnSound(conn, delivered)
  BY DEF AcceptProtocol, ConnInv, ConnSound, Kept
<1>2. <<"onConnect">> \in Seq({"onConnect", "packet", "release"})
  OBVIOUS
<1>3. /\ c \in Conn /\ c.accepting = "greeted" /\ c.protocol /\ c.tasks = <<"onConnect">>
      /\ c.queue = conn.queue /\ c.accepted = conn.accepted /\ c.write = conn.write
      /\ c.running = conn.running /\ c.socket = conn.socket /\ c.read = conn.read
      /\ c.managed = conn.managed /\ c.closed = conn.closed /\ c.due = conn.due
  BY <1>1, <1>2 DEF Conn
<1> HIDE DEF c
<1>4. Written(c, delivered) /\ Timed(c)
  BY <1>1, <1>3 DEF ConnSound, Kept, Written, Unwritten, Timed
<1>5. ReleasedLast(c) /\ Fresh(c)
  BY <1>1, <1>3 DEF ConnSound, Kept, Fresh, ReleasedLast
<1>6. ConnSound(c, delivered)
  BY <1>1, <1>3, <1>4, <1>5 DEF ConnSound, Kept
<1>7. Ended(c)
  BY <1>3 DEF Ended, Alive
<1> QED BY <1>1, <1>3, <1>6, <1>7, HandlerReturns

\* The second half of accept finds the connection in place.
LEMMA Accepted ==
  ASSUME NEW c, NEW d, ConnSound(c, d)
  PROVE  LET e == [c EXCEPT !.accepting = "done"]
         IN  ConnSound(e, d) /\ e.accepting = "done" /\ e.closed = c.closed
<1> DEFINE e == [c EXCEPT !.accepting = "done"]
<1>1. /\ e \in Conn /\ e.accepting = "done" /\ e.protocol = c.protocol /\ e.tasks = c.tasks
      /\ e.queue = c.queue /\ e.accepted = c.accepted /\ e.write = c.write
      /\ e.running = c.running /\ e.socket = c.socket /\ e.read = c.read
      /\ e.managed = c.managed /\ e.closed = c.closed /\ e.due = c.due
  BY DEF ConnSound, Kept, Conn
<1> HIDE DEF e
<1>2. Written(e, d) /\ Timed(e)
  BY <1>1 DEF ConnSound, Kept, Written, Unwritten, Timed
<1>3. ReleasedLast(e) /\ Fresh(e)
  BY <1>1 DEF ConnSound, Kept, ReleasedLast, Fresh
<1>4. ConnSound(e, d)
  BY <1>1, <1>2, <1>3 DEF ConnSound, Kept
<1> QED BY <1>1, <1>4 DEF e

LEMMA AcceptKeeps == ASSUME ConnInv, Accept PROVE ConnInv'
<1> DEFINE c == [conn EXCEPT !.accepting = "done"]
           e == StartRead(c, "header")
<1>1. ConnSound(c, delivered) /\ c.accepting = "done"
  BY Accepted DEF ConnInv
<1>2. conn' = e /\ UNCHANGED <<delivered, packets>>
  BY DEF Accept
<1> HIDE DEF c
<1>3. ConnSound(e, delivered) /\ e.accepting = "done" /\ e.read # "none"
  BY <1>1, StartReadKeeps
<1>4. Ended(e)
  BY <1>3 DEF Ended, Alive
<1> HIDE DEF e
<1> QED BY <1>2, <1>3, <1>4, HandlerReturns

LEMMA RefuseKeeps == ASSUME ConnInv, Refuse PROVE ConnInv'
<1> DEFINE c == [conn EXCEPT !.accepting = "done"]
           e == Close(c, TRUE)
<1>1. ConnSound(c, delivered) /\ c.accepting = "done"
  BY Accepted DEF ConnInv
<1>2. conn' = Settle(e) /\ UNCHANGED <<delivered, packets>>
  BY DEF Refuse
<1> HIDE DEF c
<1>3. ConnSound(e, delivered) /\ e.closed
  BY <1>1, CloseKeeps DEF ConnSound
<1> HIDE DEF e
<1> QED BY <1>2, <1>3, HandlerReturns

\* The handler of a read that has completed finds the connection in place.
LEMMA AfterReadSound ==
  ASSUME ConnSound(conn, delivered), conn.read # "none"
  PROVE  /\ ConnSound(AfterRead, delivered) /\ AfterRead.read = "none"
         /\ AfterRead.closed = conn.closed /\ AfterRead.accepting = conn.accepting
         /\ AfterRead.accepting # "new" /\ AfterRead.protocol = conn.protocol
<1> DEFINE e == AfterRead
<1>1. /\ e \in Conn /\ e.read = "none" /\ e.running = conn.running \ {"read"}
      /\ e.accepting = conn.accepting /\ e.protocol = conn.protocol /\ e.tasks = conn.tasks
      /\ e.queue = conn.queue /\ e.accepted = conn.accepted /\ e.write = conn.write
      /\ e.socket = conn.socket
      /\ e.managed = conn.managed /\ e.closed = conn.closed /\ e.due = conn.due
  BY DEF ConnSound, Kept, Conn, AfterRead
<1> HIDE DEF e
<1>2. Written(e, delivered)
  BY <1>1 DEF ConnSound, Kept, Written, Unwritten
<1>3. Timed(e)
  BY <1>1 DEF ConnSound, Kept, Timed
<1>4. ReleasedLast(e)
  BY <1>1 DEF ConnSound, Kept, ReleasedLast
<1>5. conn.accepting # "new"
  BY DEF ConnSound, Kept, Fresh
<1>6. ConnSound(e, delivered)
  BY <1>1, <1>2, <1>3, <1>4, <1>5 DEF ConnSound, Kept, Fresh
<1> QED BY <1>1, <1>5, <1>6 DEF e

LEMMA ReadFailedKeeps == ASSUME ConnInv, ReadFailed PROVE ConnInv'
<1> DEFINE e == Close(AfterRead, TRUE)
<1>1. conn.read # "none" /\ conn' = Settle(e) /\ UNCHANGED <<delivered, packets>>
  BY DEF ReadFailed
<1>2. ConnSound(AfterRead, delivered) /\ AfterRead.accepting # "new"
  BY <1>1, AfterReadSound DEF ConnInv
<1>3. ConnSound(e, delivered) /\ e.closed
  BY <1>2, CloseKeeps DEF ConnSound
<1> HIDE DEF e
<1> QED BY <1>1, <1>3, HandlerReturns

\* Whatever read has completed, a handler that finds the connection closed, or
\* closes it, ends well.
LEMMA ReadEnds ==
  ASSUME ConnInv, conn.read # "none", UNCHANGED <<delivered, packets>>,
         \/ conn.closed /\ conn' = Settle(AfterRead)
         \/ \E force \in BOOLEAN : conn' = Settle(Close(AfterRead, force))
  PROVE  ConnInv'
<1>1. ConnSound(AfterRead, delivered) /\ AfterRead.accepting # "new" /\ AfterRead.closed = conn.closed
  BY AfterReadSound DEF ConnInv
<1>2. CASE conn.closed /\ conn' = Settle(AfterRead)
  BY <1>1, <1>2, HandlerReturns
<1>3. ASSUME NEW force \in BOOLEAN, conn' = Settle(Close(AfterRead, force))
      PROVE  ConnInv'
  <2> DEFINE e == Close(AfterRead, force)
  <2>1. ConnSound(e, delivered) /\ e.closed /\ conn' = Settle(e)
    BY <1>1, <1>3, CloseKeeps DEF ConnSound
  <2> HIDE DEF e
  <2> QED BY <2>1, HandlerReturns
<1> QED BY <1>2, <1>3

LEMMA ParseHeaderKeeps == ASSUME ConnInv, ParseHeader PROVE ConnInv'
<1>1. conn.read # "none" /\ UNCHANGED <<delivered, packets>>
  BY DEF ParseHeader
<1>2. CASE \/ conn.closed /\ conn' = Settle(AfterRead)
           \/ \E force \in BOOLEAN : conn' = Settle(Close(AfterRead, force))
  BY <1>1, <1>2, ReadEnds
<1>3. CASE conn' = StartRead(AfterRead, "body")
  <2> DEFINE e == StartRead(AfterRead, "body")
  <2>1. ConnSound(AfterRead, delivered) /\ AfterRead.accepting # "new"
    BY <1>1, AfterReadSound DEF ConnInv
  <2>2. ConnSound(e, delivered) /\ e.read # "none"
    BY <2>1, StartReadKeeps
  <2>3. Ended(e)
    BY <2>2 DEF Ended, Alive
  <2>4. conn' = e
    BY <1>3
  <2> HIDE DEF e
  <2> QED BY <1>1, <2>2, <2>3, <2>4, HandlerReturns
<1> QED BY <1>2, <1>3 DEF ParseHeader

\* A packet makes the protocol post a task, close, or say why and close.
LEMMA HandledSound ==
  ASSUME NEW a, NEW d \in Seq(Nat), ConnSound(a, d), a.accepting # "new", ~a.closed, a.protocol,
         NEW c \in Handled(a)
  PROVE  ConnSound(c, d) /\ c.accepting # "new"
<1>1. CASE c = a
  BY <1>1
<1>2. CASE c = [a EXCEPT !.tasks = Append(@, "packet")]
  <2>1. a \in Conn /\ a.tasks \in Seq({"onConnect", "packet", "release"})
    BY DEF ConnSound, Kept, Conn
  <2> DEFINE t == Append(a.tasks, "packet")
  <2>2. t \in Seq({"onConnect", "packet", "release"})
    BY <2>1
  <2>3. \A k \in DOMAIN t : t[k] # "release"
    <3>1. \A k \in DOMAIN a.tasks : a.tasks[k] # "release"
      BY DEF ConnSound, Kept, ReleasedLast
    <3> QED BY <2>1, <3>1
  <2> HIDE DEF t
  <2>4. /\ c \in Conn /\ c.tasks = t
        /\ c.accepting = a.accepting /\ c.protocol = a.protocol /\ c.read = a.read
        /\ c.queue = a.queue /\ c.accepted = a.accepted /\ c.write = a.write
        /\ c.socket = a.socket /\ c.running = a.running
        /\ c.managed = a.managed /\ c.closed = a.closed /\ c.due = a.due
    BY <1>2, <2>1, <2>2 DEF Conn, t
  <2>5. Written(c, d) /\ Timed(c) /\ Fresh(c)
    BY <2>4 DEF ConnSound, Kept, Written, Unwritten, Timed, Fresh
  <2>6. ReleasedLast(c)
    BY <2>3, <2>4 DEF ReleasedLast
  <2> QED BY <2>4, <2>5, <2>6 DEF ConnSound, Kept
<1>3. CASE c = Close(a, FALSE)
  BY <1>3, CloseKeeps DEF ConnSound
<1>4. CASE a.accepted < MaxSend /\ c = Close(Send(a), FALSE)
  <2> DEFINE s == Send(a)
  <2>1. ConnSound(s, d) /\ s.accepting # "new"
    BY <1>4, SendKeeps
  <2> HIDE DEF s
  <2>2. ConnSound(Close(s, FALSE), d) /\ Close(s, FALSE).accepting # "new"
    BY <2>1, CloseKeeps DEF ConnSound
  <2> QED BY <1>4, <2>2 DEF s
<1> QED BY <1>1, <1>2, <1>3, <1>4 DEF Handled

LEMMA Numbered == ConnInv => delivered \in Seq(Nat)
BY ConnectionAssumption DEF ConnInv

LEMMA ParsePacketKeeps == ASSUME ConnInv, ParsePacket PROVE ConnInv'
<1>1. conn.read # "none" /\ UNCHANGED <<delivered, packets>>
  BY DEF ParsePacket
<1>2. CASE \/ conn.closed /\ conn' = Settle(AfterRead)
           \/ conn' = Settle(Close(AfterRead, TRUE))
  BY <1>1, <1>2, ReadEnds
<1>3. ASSUME ~conn.closed, NEW c \in Handled([AfterRead EXCEPT !.protocol = TRUE]),
             conn' = StartRead(c, "header")
      PROVE  ConnInv'
  <2> DEFINE a == [AfterRead EXCEPT !.protocol = TRUE]
             b == AfterRead
             e == StartRead(c, "header")
  <2>1. ConnSound(b, delivered) /\ b.accepting # "new" /\ ~b.closed
    BY <1>1, <1>3, AfterReadSound DEF ConnInv
  <2> HIDE DEF b
  <2>2. /\ a \in Conn /\ a.protocol
        /\ a.accepting = b.accepting /\ a.tasks = b.tasks /\ a.read = b.read
        /\ a.queue = b.queue /\ a.accepted = b.accepted /\ a.write = b.write
        /\ a.socket = b.socket /\ a.running = b.running
        /\ a.managed = b.managed /\ a.closed = b.closed /\ a.due = b.due
    BY <2>1 DEF ConnSound, Kept, Conn, b
  <2>3. c \in Handled(a)
    BY <1>3
  <2> HIDE DEF a
  <2>4. Written(a, delivered) /\ Timed(a) /\ Fresh(a)
    BY <2>1, <2>2 DEF ConnSound, Kept, Written, Unwritten, Timed, Fresh
  <2>5. ReleasedLast(a)
    BY <2>1, <2>2 DEF ConnSound, Kept, ReleasedLast
  <2>6. ConnSound(a, delivered)
    BY <2>1, <2>2, <2>4, <2>5 DEF ConnSound, Kept
  <2>7. ConnSound(c, delivered) /\ c.accepting # "new"
    BY <2>1, <2>2, <2>3, <2>6, HandledSound, Numbered
  <2>8. ConnSound(e, delivered) /\ e.read # "none"
    BY <2>7, StartReadKeeps
  <2>9. Ended(e)
    BY <2>8 DEF Ended, Alive
  <2> HIDE DEF e
  <2> QED BY <1>1, <1>3, <2>8, <2>9, HandlerReturns DEF e
<1> QED BY <1>2, <1>3 DEF ParsePacket

\* What the peer received does not matter to a connection that was closed and
\* has nothing queued.
LEMMA NothingOwed ==
  ASSUME NEW c, NEW d, NEW e, ConnSound(c, d), c.closed, c.queue = <<>>
  PROVE  ConnSound(c, e)
BY DEF ConnSound, Kept, Written

AfterWrite == [conn EXCEPT !.write = "none", !.running = @ \ {"write"}, !.queue = Tail(@)]

LEMMA AfterWriteFields ==
  ASSUME conn \in Conn, conn.queue # <<>>
  PROVE  LET e == AfterWrite
         IN  /\ e \in Conn /\ e.write = "none" /\ e.running = conn.running \ {"write"}
             /\ e.queue = Tail(conn.queue)
             /\ e.accepting = conn.accepting /\ e.protocol = conn.protocol /\ e.tasks = conn.tasks
             /\ e.read = conn.read /\ e.accepted = conn.accepted /\ e.socket = conn.socket
             /\ e.managed = conn.managed /\ e.closed = conn.closed /\ e.due = conn.due
<1>1. Tail(conn.queue) \in Seq(1 .. MaxSend)
  BY DEF Conn
<1>2. conn.running \ {"write"} \in SUBSET Timer
  BY DEF Conn
<1> QED BY <1>1, <1>2 DEF AfterWrite, Conn

LEMMA OnWriteOperationKeeps == ASSUME ConnInv, OnWriteOperation PROVE ConnInv'
<1> DEFINE b == AfterWrite
<1>1. /\ conn.write \in {"done", "failed"} /\ UNCHANGED <<delivered, packets>>
      /\ conn \in Conn /\ ConnSound(conn, delivered)
      /\ ~conn.closed /\ conn.accepting = "done" => conn.read # "none"
  BY DEF OnWriteOperation, ConnInv, ConnSound, Kept
<1>2. conn.queue # <<>> /\ conn.accepting # "new"
  BY <1>1 DEF ConnSound, Kept, Written, Fresh
<1>3. conn' = Settle(CASE conn.write = "failed" -> Close([b EXCEPT !.queue = <<>>], TRUE)
                       [] conn.write = "done" /\ b.queue # <<>> -> InternalSend(b)
                       [] conn.write = "done" /\ b.queue = <<>> /\ b.closed -> CloseSocket(b)
                       [] OTHER -> b)
  BY DEF OnWriteOperation, AfterWrite
<1>4. /\ b \in Conn /\ b.write = "none" /\ b.running = conn.running \ {"write"}
      /\ b.queue = Tail(conn.queue)
      /\ b.accepting = conn.accepting /\ b.protocol = conn.protocol /\ b.tasks = conn.tasks
      /\ b.read = conn.read /\ b.accepted = conn.accepted /\ b.socket = conn.socket
      /\ b.managed = conn.managed /\ b.closed = conn.closed /\ b.due = conn.due
  BY <1>1, <1>2, AfterWriteFields
<1> HIDE DEF b
<1>5. CASE conn.write = "failed"
  <2> DEFINE f == [b EXCEPT !.queue = <<>>]
             e == Close(f, TRUE)
  <2>1. conn' = Settle(e)
    BY <1>3, <1>5
  <2>2. /\ f \in Conn /\ f.write = "none" /\ f.running = b.running
        /\ f.queue = <<>>
        /\ f.accepting = b.accepting /\ f.protocol = b.protocol /\ f.tasks = b.tasks
        /\ f.read = b.read /\ f.accepted = b.accepted /\ f.socket = b.socket
        /\ f.managed = b.managed /\ f.closed = b.closed /\ f.due = b.due
    <3>1. <<>> \in Seq(1 .. MaxSend)
      OBVIOUS
    <3> QED BY <1>4, <3>1 DEF Conn
  <2> HIDE DEF f
  <2>3. Written(f, UpTo(f.accepted))
    <3>1. f.accepted \in Nat
      BY <2>2, ConnectionAssumption DEF Conn
    <3>2. UpTo(f.accepted) \in Seq(Nat)
      BY <3>1 DEF UpTo
    <3>3. UpTo(f.accepted) \o <<>> = UpTo(f.accepted)
      BY <3>2, ConcatEmptySeq
    <3> QED BY <2>2, <3>3 DEF Written, Unwritten
  <2>4. Timed(f) /\ ReleasedLast(f) /\ Fresh(f)
    BY <1>1, <1>2, <1>4, <2>2 DEF ConnSound, Kept, Timed, ReleasedLast, Fresh
  <2>5. ConnSound(f, UpTo(f.accepted))
    <3>1. (f.closed => ~f.managed) /\ (f.write = "failed" => f.socket # "open")
      BY <1>1, <1>4, <2>2 DEF ConnSound, Kept
    <3> QED BY <2>2, <2>3, <2>4, <3>1 DEF ConnSound, Kept
  <2>6. ConnSound(e, UpTo(f.accepted)) /\ e.closed /\ e.queue = <<>>
    <3> DEFINE o == UpTo(f.accepted)
    <3>1. Kept(f, o) /\ f.accepting # "new"
      BY <1>2, <1>4, <2>2, <2>5 DEF ConnSound
    <3> HIDE DEF o
    <3>2. ConnSound(e, o) /\ e.closed /\ e.queue = f.queue
      BY <3>1, CloseKeeps
    <3> QED BY <2>2, <3>2 DEF o
  <2> HIDE DEF e
  <2>7. ConnSound(e, delivered)
    BY <2>6, NothingOwed
  <2> QED BY <1>1, <2>1, <2>6, <2>7, HandlerReturns
<1>6. CASE conn.write = "done" /\ b.queue # <<>>
  <2> DEFINE e == InternalSend(b)
             w == IF b.socket = "open" THEN "pending" ELSE "failed"
  <2>1. conn' = Settle(e)
    BY <1>3, <1>6
  <2>2. /\ e \in Conn /\ e.write = w /\ e.running = b.running \cup {"write"}
        /\ e.queue = b.queue
        /\ e.accepting = b.accepting /\ e.protocol = b.protocol /\ e.tasks = b.tasks
        /\ e.read = b.read /\ e.accepted = b.accepted /\ e.socket = b.socket
        /\ e.managed = b.managed /\ e.closed = b.closed /\ e.due = b.due
    BY <1>4 DEF Conn, InternalSend, Timer
  <2> HIDE DEF e
  <2>3. Unwritten(e) = Unwritten(conn)
    BY <1>4, <1>6, <2>2 DEF Unwritten
  <2>4. Written(e, delivered)
    BY <1>1, <1>2, <1>4, <1>6, <2>2, <2>3 DEF ConnSound, Kept, Written
  <2>5. Timed(e)
    BY <1>1, <1>4, <2>2 DEF ConnSound, Kept, Timed
  <2>6. ReleasedLast(e) /\ Fresh(e)
    BY <1>1, <1>2, <1>4, <2>2 DEF ConnSound, Kept, ReleasedLast, Fresh
  <2>7. ConnSound(e, delivered)
    BY <1>1, <1>4, <2>2, <2>4, <2>5, <2>6 DEF ConnSound, Kept
  <2>8. e.closed \/ e.accepting # "done" \/ e.read # "none"
    BY <1>1, <1>4, <2>2
  <2> QED BY <1>1, <2>1, <2>7, <2>8, HandlerReturns
<1>7. CASE conn.write = "done" /\ b.queue = <<>>
  <2>1. Written(b, delivered)
    BY <1>1, <1>2, <1>4, <1>7 DEF ConnSound, Kept, Written, Unwritten
  <2>2. Timed(b) /\ ReleasedLast(b) /\ Fresh(b)
    BY <1>1, <1>2, <1>4 DEF ConnSound, Kept, Timed, ReleasedLast, Fresh
  <2>3. ConnSound(b, delivered)
    BY <1>1, <1>4, <2>1, <2>2 DEF ConnSound, Kept
  <2>4. CASE b.closed
    <3> DEFINE e == CloseSocket(b)
    <3>1. conn' = Settle(e)
      BY <1>3, <1>7, <2>4
    <3>2. ConnSound(e, delivered) /\ e.closed
      BY <2>3, <2>4, CloseSocketKeeps
    <3> HIDE DEF e
    <3> QED BY <1>1, <3>1, <3>2, HandlerReturns
  <2>5. CASE ~b.closed
    <3>1. conn' = Settle(b)
      BY <1>3, <1>7, <2>5
    <3>2. b.accepting # "done" \/ b.read # "none"
      BY <1>1, <1>4, <2>5
    <3> QED BY <1>1, <2>3, <3>1, <3>2, HandlerReturns
  <2> QED BY <2>4, <2>5
<1> QED BY <1>1, <1>5, <1>6, <1>7

LEMMA ExpireKeeps == ASSUME ConnInv, NEW t \in Timer, Expire(t) PROVE ConnInv'
<1> DEFINE e == [conn EXCEPT !.running = @ \ {t}, !.due = @ \cup {t}]
<1>1. /\ t \in conn.running /\ conn' = e /\ UNCHANGED <<delivered, packets>>
      /\ conn \in Conn /\ ConnSound(conn, delivered) /\ Ended(conn)
      /\ ~conn.closed /\ conn.accepting = "done" => conn.read # "none"
  BY DEF Expire, ConnInv, ConnSound, Kept
<1>2. /\ e \in Conn /\ e.running = conn.running \ {t} /\ e.due = conn.due \cup {t}
      /\ e.queue = conn.queue
      /\ e.accepting = conn.accepting /\ e.protocol = conn.protocol /\ e.tasks = conn.tasks
      /\ e.read = conn.read /\ e.accepted = conn.accepted /\ e.socket = conn.socket
      /\ e.managed = conn.managed /\ e.closed = conn.closed /\ e.write = conn.write
  BY <1>1 DEF Conn
<1> HIDE DEF e
<1>3. Written(e, delivered) /\ Timed(e) /\ ReleasedLast(e)
  BY ZenonT(30), <1>1, <1>2 DEF ConnSound, Kept, Written, Unwritten, Timed, ReleasedLast
<1>4. Fresh(e)
  BY <1>1, <1>2 DEF ConnSound, Kept, Fresh
<1>5. ConnSound(e, delivered)
  BY <1>1, <1>2, <1>3, <1>4 DEF ConnSound, Kept
<1>6. Ended(e)
  BY <1>1, <1>2 DEF Ended, Alive
<1> QED BY <1>1, <1>2, <1>5, <1>6, HandlerReturns

LEMMA HandleTimeoutKeeps == ASSUME ConnInv, NEW t \in Timer, HandleTimeout(t) PROVE ConnInv'
<1> DEFINE b == [conn EXCEPT !.due = @ \ {t}]
           e == Close(b, TRUE)
<1>1. /\ t \in conn.due /\ UNCHANGED <<delivered, packets>>
      /\ conn' = IF Alive(b) THEN Settle(e) ELSE b
      /\ conn \in Conn /\ ConnSound(conn, delivered) /\ Ended(conn)
      /\ ~conn.closed /\ conn.accepting = "done" => conn.read # "none"
  BY DEF HandleTimeout, ConnInv, ConnSound, Kept
<1>2. /\ b \in Conn /\ b.running = conn.running /\ b.due = conn.due \ {t}
      /\ b.queue = conn.queue
      /\ b.accepting = conn.accepting /\ b.protocol = conn.protocol /\ b.tasks = conn.tasks
      /\ b.read = conn.read /\ b.accepted = conn.accepted /\ b.socket = conn.socket
      /\ b.managed = conn.managed /\ b.closed = conn.closed /\ b.write = conn.write
  BY <1>1 DEF Conn
<1> HIDE DEF b
<1>3. Written(b, delivered) /\ ReleasedLast(b)
  BY ZenonT(30), <1>1, <1>2 DEF ConnSound, Kept, Written, Unwritten, ReleasedLast
<1>4. b.accepting # "new"
  BY <1>1, <1>2 DEF ConnSound, Kept, Fresh
<1>5. Kept(b, delivered)
  BY <1>1, <1>2, <1>3, <1>4 DEF ConnSound, Kept, Fresh
<1>6. CASE Alive(b)
  <2>1. ConnSound(e, delivered) /\ e.closed
    BY <1>4, <1>5, CloseKeeps DEF ConnSound
  <2>2. conn' = Settle(e)
    BY <1>1, <1>6
  <2> HIDE DEF e
  <2> QED BY <1>1, <2>1, <2>2, HandlerReturns
<1>7. CASE ~Alive(b)
  <2>1. ~Alive(conn)
    BY <1>2, <1>7 DEF Alive
  <2>2. b.closed
    BY <1>1, <1>2, <2>1 DEF Alive, Conn
  <2>3. ConnSound(b, delivered) /\ Ended(b)
    BY <1>1, <1>2, <1>5, <2>1, <2>2 DEF ConnSound, Timed, Ended
  <2>4. conn' = b
    BY <1>1, <1>7
  <2> QED BY <1>1, <2>2, <2>3, <2>4, HandlerReturns
<1> QED BY <1>6, <1>7

\* Somebody is there for whom the dispatcher acts.
LEMMA Sending ==
  ASSUME ConnInv, conn.tasks # <<>>
  PROVE  conn.accepting # "new" /\ conn \in Conn /\ ConnSound(conn, delivered)
BY DEF ConnInv, ConnSound, Kept, Fresh

LEMMA ProtocolSendsKeeps == ASSUME ConnInv, ProtocolSends PROVE ConnInv'
<1> DEFINE e == Send(conn)
<1>1. /\ conn.tasks # <<>> /\ Alive(conn) /\ conn.accepted < MaxSend
      /\ conn' = e /\ UNCHANGED <<delivered, packets>>
  BY DEF ProtocolSends
<1>2. conn.accepting # "new" /\ ConnSound(conn, delivered)
  BY <1>1, Sending
<1>3. /\ ConnSound(e, delivered) /\ e.closed = conn.closed
      /\ e.accepting = conn.accepting /\ e.read = conn.read
  BY <1>1, <1>2, SendKeeps, Numbered
<1>4. e.write # "none" \/ e = conn
  <2>1. conn.queue # <<>> <=> conn.write # "none"
    BY <1>2 DEF ConnSound, Kept, Written
  <2>2. CASE conn.closed
    BY <2>2 DEF Send
  <2>3. CASE ~conn.closed
    <3>1. e.queue # <<>>
      BY <1>2, <2>3, ConnectionAssumption DEF Send, InternalSend, ConnSound, Kept, Conn
    <3> QED BY <1>3, <3>1 DEF ConnSound, Kept, Written
  <2> QED BY <2>2, <2>3
<1>5. Ended(e)
  BY <1>1, <1>4 DEF Ended, Alive
<1> HIDE DEF e
<1>6. e.closed \/ e.accepting # "done" \/ e.read # "none"
  BY <1>3 DEF ConnInv
<1> QED BY <1>1, <1>3, <1>5, <1>6, HandlerReturns

LEMMA DisconnectKeeps == ASSUME ConnInv, Disconnect PROVE ConnInv'
<1> DEFINE e == Close(conn, FALSE)
<1>1. /\ conn.tasks # <<>> /\ conn' = Settle(e) /\ UNCHANGED <<delivered, packets>>
  BY DEF Disconnect
<1>2. conn.accepting # "new" /\ Kept(conn, delivered)
  BY <1>1, Sending DEF ConnSound
<1>3. ConnSound(e, delivered) /\ e.closed
  BY <1>2, CloseKeeps
<1> HIDE DEF e
<1> QED BY <1>1, <1>3, HandlerReturns

LEMMA CloseAllKeeps == ASSUME ConnInv, CloseAll PROVE ConnInv'
<1> DEFINE b == [conn EXCEPT !.managed = FALSE]
           e == ShutSocket(b)
<1>1. /\ conn' = Settle(e) /\ UNCHANGED <<delivered, packets>>
      /\ conn \in Conn /\ ConnSound(conn, delivered)
      /\ ~conn.closed /\ conn.accepting = "done" => conn.read # "none"
  BY DEF CloseAll, ConnInv, ConnSound, Kept
<1>2. /\ b \in Conn /\ b.running = conn.running /\ b.due = conn.due
      /\ b.queue = conn.queue /\ ~b.managed
      /\ b.accepting = conn.accepting /\ b.protocol = conn.protocol /\ b.tasks = conn.tasks
      /\ b.read = conn.read /\ b.accepted = conn.accepted /\ b.socket = conn.socket
      /\ b.closed = conn.closed /\ b.write = conn.write
  BY <1>1 DEF Conn
<1> HIDE DEF b
<1>3. Written(b, delivered) /\ Timed(b) /\ ReleasedLast(b) /\ Fresh(b)
  BY ZenonT(30), <1>1, <1>2 DEF ConnSound, Kept, Written, Unwritten, Timed, ReleasedLast, Fresh
<1>4. ConnSound(b, delivered)
  BY <1>1, <1>2, <1>3 DEF ConnSound, Kept
<1>5. /\ ConnSound(e, delivered) /\ e.closed = b.closed /\ e.accepting = b.accepting
      /\ (e.read = "none" <=> b.read = "none")
  BY <1>4, ShutSocketKeeps
<1> HIDE DEF e
<1>6. e.closed \/ e.accepting # "done" \/ e.read # "none"
  BY <1>1, <1>2, <1>5
<1> QED BY <1>1, <1>5, <1>6, HandlerReturns

\* The read outstanding completes, or fails.
LEMMA ReadCompletes ==
  ASSUME ConnInv, conn.read \in {"header", "body"}, UNCHANGED delivered,
         NEW r \in {"headerDone", "bodyDone", "failed"}, conn' = [conn EXCEPT !.read = r],
         packets' \in 0 .. MaxPackets
  PROVE  ConnInv'
<1> DEFINE e == [conn EXCEPT !.read = r]
<1>1. conn \in Conn /\ ConnSound(conn, delivered) /\ conn' = e
  BY DEF ConnInv, ConnSound, Kept
<1>2. /\ e \in Conn /\ e.running = conn.running /\ e.due = conn.due
      /\ e.queue = conn.queue /\ e.managed = conn.managed
      /\ e.accepting = conn.accepting /\ e.protocol = conn.protocol /\ e.tasks = conn.tasks
      /\ e.read = r /\ e.accepted = conn.accepted /\ e.socket = conn.socket
      /\ e.closed = conn.closed /\ e.write = conn.write
  BY <1>1 DEF Conn
<1> HIDE DEF e
<1>3. Written(e, delivered) /\ Timed(e) /\ ReleasedLast(e)
  <2>1. Written(e, delivered)
    BY <1>1, <1>2 DEF ConnSound, Kept, Written, Unwritten
  <2>2. Timed(e)
    BY <1>1, <1>2 DEF ConnSound, Timed
  <2>3. ReleasedLast(e)
    BY <1>1, <1>2 DEF ConnSound, Kept, ReleasedLast
  <2> QED BY <2>1, <2>2, <2>3
<1>4. Fresh(e)
  BY <1>1, <1>2 DEF ConnSound, Kept, Fresh
<1>5. ConnSound(e, delivered) /\ Ended(e)
  BY <1>1, <1>2, <1>3, <1>4 DEF ConnSound, Kept, Ended, Alive
<1>6. ConnSound(conn, delivered)' /\ Ended(conn)' /\ conn'.read # "none"
  BY <1>1, <1>2, <1>5
<1> QED BY <1>6 DEF ConnInv

LEMMA PeerSendsKeeps == ASSUME ConnInv, PeerSends PROVE ConnInv'
<1> DEFINE r == IF conn.read = "header" THEN "headerDone" ELSE "bodyDone"
<1>1. /\ conn.read \in {"header", "body"} /\ UNCHANGED delivered
      /\ conn' = [conn EXCEPT !.read = r] /\ r \in {"headerDone", "bodyDone", "failed"}
  BY DEF PeerSends
<1>2. packets' \in 0 .. MaxPackets
  BY ConnectionAssumption DEF PeerSends, ConnInv
<1> HIDE DEF r
<1> QED BY <1>1, <1>2, ReadCompletes

LEMMA PeerEndsKeeps == ASSUME ConnInv, PeerEnds PROVE ConnInv'
BY ReadCompletes DEF PeerEnds, ConnInv

LEMMA BreakKeeps == ASSUME ConnInv, Break PROVE ConnInv'
<1> DEFINE b == ShutSocket(conn)
           e == [b EXCEPT !.socket = "broken"]
<1>1. /\ conn.socket = "open" /\ conn' = e /\ UNCHANGED <<delivered, packets>>
      /\ ConnSound(conn, delivered) /\ Ended(conn)
      /\ ~conn.closed /\ conn.accepting = "done" => conn.read # "none"
  BY DEF Break, ConnInv
<1>2. /\ ConnSound(b, delivered) /\ b.closed = conn.closed /\ b.queue = conn.queue
      /\ b.accepting = conn.accepting /\ (b.read = "none" <=> conn.read = "none")
  BY <1>1, ShutSocketKeeps
<1>3. b.managed = conn.managed
  BY <1>1 DEF ShutSocket, ConnSound, Kept, Conn
<1> HIDE DEF b
<1>4. /\ e \in Conn /\ e.running = b.running /\ e.due = b.due
      /\ e.queue = b.queue /\ e.managed = b.managed /\ e.socket = "broken"
      /\ e.accepting = b.accepting /\ e.protocol = b.protocol /\ e.tasks = b.tasks
      /\ e.read = b.read /\ e.accepted = b.accepted
      /\ e.closed = b.closed /\ e.write = b.write
  BY <1>2 DEF ConnSound, Kept, Conn
<1> HIDE DEF e
<1>5. Written(e, delivered) /\ Timed(e) /\ ReleasedLast(e) /\ Fresh(e)
  BY <1>2, <1>4 DEF ConnSound, Kept, Written, Unwritten, Timed, ReleasedLast, Fresh
<1>6. ConnSound(e, delivered)
  BY <1>2, <1>4, <1>5 DEF ConnSound, Kept
<1>7. Ended(e)
  <2>1. Alive(conn)
    BY <1>1 DEF Ended
  <2>2. conn.write # "none" <=> b.write # "none"
    BY <1>1, <1>2 DEF ConnSound, Kept, Written
  <2> QED BY <1>2, <1>3, <1>4, <2>1, <2>2 DEF Ended, Alive
<1>8. e.closed \/ e.accepting # "done" \/ e.read # "none"
  BY <1>1, <1>2, <1>4
<1> QED BY <1>1, <1>6, <1>7, <1>8, HandlerReturns

LEMMA PeerReceivesKeeps == ASSUME ConnInv, PeerReceives PROVE ConnInv'
<1> DEFINE e == [conn EXCEPT !.write = "done"]
           d == Append(delivered, Head(conn.queue))
<1>1. /\ conn.write = "pending" /\ conn' = e /\ delivered' = d /\ packets' = packets
      /\ conn \in Conn /\ ConnSound(conn, delivered)
      /\ delivered \in Seq(1 .. MaxSend) /\ delivered = UpTo(Len(delivered))
      /\ ~conn.closed /\ conn.accepting = "done" => conn.read # "none"
  BY DEF PeerReceives, ConnInv, ConnSound, Kept
<1>2. /\ e \in Conn /\ e.running = conn.running /\ e.due = conn.due
      /\ e.queue = conn.queue /\ e.managed = conn.managed /\ e.socket = conn.socket
      /\ e.accepting = conn.accepting /\ e.protocol = conn.protocol /\ e.tasks = conn.tasks
      /\ e.read = conn.read /\ e.accepted = conn.accepted
      /\ e.closed = conn.closed /\ e.write = "done"
  BY <1>1 DEF Conn
<1> HIDE DEF e
<1>3. /\ conn.queue # <<>> /\ delivered \o conn.queue = UpTo(conn.accepted)
      /\ conn.queue \in Seq(1 .. MaxSend) /\ conn.queue \in Seq(Nat) /\ conn.accepted \in Nat
  BY <1>1, ConnectionAssumption DEF ConnSound, Kept, Written, Unwritten, Conn
<1>4. /\ d \o Tail(conn.queue) = UpTo(conn.accepted)
      /\ d = UpTo(Len(delivered) + 1)
  BY <1>1, <1>3, OwesOneLess, Numbered
<1>5. d \in Seq(1 .. MaxSend) /\ Len(d) = Len(delivered) + 1
  <2>1. Head(conn.queue) \in 1 .. MaxSend
    BY <1>3, HeadTailProperties
  <2> QED BY <1>1, <2>1, AppendProperties
<1> HIDE DEF d
<1>6. Written(e, d)
  BY <1>2, <1>3, <1>4 DEF Written, Unwritten
<1>7. Timed(e) /\ ReleasedLast(e)
  BY <1>1, <1>2 DEF ConnSound, Kept, Timed, ReleasedLast
<1>8. Fresh(e)
  BY <1>1, <1>2 DEF ConnSound, Kept, Fresh
<1>9. ConnSound(e, d) /\ Ended(e)
  BY <1>1, <1>2, <1>6, <1>7, <1>8 DEF ConnSound, Kept, Ended, Alive
<1>10. ConnSound(conn, delivered)' /\ Ended(conn)'
  BY <1>1, <1>9
<1> QED BY <1>1, <1>2, <1>4, <1>5, <1>10 DEF ConnInv
-----------------------------------------------------------------------------
(* The theorems *)

LEMMA ConnInvInitially == Init => ConnInv
<1> SUFFICES ASSUME Init PROVE ConnInv
  OBVIOUS
<1>1. <<>> \in Seq(1 .. MaxSend) /\ <<>> \in Seq({"onConnect", "packet", "release"})
  OBVIOUS
<1>2. conn \in Conn
  BY <1>1, ConnectionAssumption DEF Init, Conn
<1>3. UpTo(0) = <<>> /\ Len(<<>>) = 0 /\ <<>> \o <<>> = <<>>
  BY DEF UpTo
<1>4. Written(conn, delivered)
  BY <1>3 DEF Init, Written, Unwritten
<1>5. Timed(conn) /\ ReleasedLast(conn) /\ Fresh(conn) /\ Ended(conn)
  BY DEF Init, Timed, ReleasedLast, Fresh, Ended, Alive
<1>6. ConnSound(conn, delivered)
  BY <1>2, <1>4, <1>5 DEF Init, ConnSound, Kept
<1> QED BY <1>1, <1>3, <1>5, <1>6, ConnectionAssumption DEF Init, ConnInv

LEMMA ConnInvKept == ConnInv /\ [Next]_vars => ConnInv'
<1> SUFFICES ASSUME ConnInv, [Next]_vars PROVE ConnInv'
  OBVIOUS
<1>1. CASE MainStep
  BY <1>1, AcceptProtocolKeeps, AcceptKeeps, RefuseKeeps, ReadFailedKeeps, ParseHeaderKeeps,
     ParsePacketKeeps, OnWriteOperationKeeps DEF MainStep
<1>2. CASE \E t \in Timer : Expire(t) \/ HandleTimeout(t)
  BY <1>2, ExpireKeeps, HandleTimeoutKeeps
<1>3. CASE ProtocolSends \/ Disconnect \/ CloseAll
  BY <1>3, ProtocolSendsKeeps, DisconnectKeeps, CloseAllKeeps
<1>4. CASE PeerSends \/ PeerReceives \/ PeerEnds \/ Break
  BY <1>4, PeerSendsKeeps, PeerReceivesKeeps, PeerEndsKeeps, BreakKeeps
<1>5. CASE UNCHANGED vars
  BY <1>5 DEF vars, ConnInv, ConnSound, Kept, Written, Unwritten, Timed, ReleasedLast, Fresh, Ended, Alive
<1> QED BY <1>1, <1>2, <1>3, <1>4, <1>5 DEF Next

LEMMA ConnInvImplies == ConnInv => ConnectionAgrees
BY DEF ConnInv, ConnSound, Kept, Written, Unwritten, Timed, ReleasedLast, Ended, UpTo,
       ConnectionAgrees, TypeOK, WritesInOrder, EveryWaitIsTimed, ReleaseIsLast

\* Between two handlers the queue and what the peer has received, the reads,
\* writes and timers outstanding, and the tasks posted for the protocol agree
\* (connection.cpp:64-313), for any number of messages and packets.
THEOREM ConnectionsAgree == Spec => []ConnectionAgrees
<1> QED BY ConnInvInitially, ConnInvKept, ConnInvImplies, PTL DEF Spec

LEMMA AllDelivered ==
  ASSUME ConnInv, delivered \o Unwritten(conn) = UpTo(conn.accepted), Unwritten(conn) = <<>>
  PROVE  Len(delivered) = conn.accepted
<1>1. delivered = UpTo(conn.accepted) /\ conn.accepted \in Nat
  BY Numbered, ConcatEmptySeq, ConnectionAssumption DEF ConnInv, ConnSound, Kept, Conn
<1> QED BY <1>1 DEF UpTo

LEMMA Flushed ==
  ASSUME ConnInv, Disconnect \/ OnWriteOperation, conn.socket = "open", conn'.socket = "closed"
  PROVE  Len(delivered) = conn.accepted
<1>1. conn \in Conn /\ (conn.queue = <<>> <=> conn.write = "none") /\ (conn.closed => ~conn.managed)
  BY DEF ConnInv, ConnSound, Kept, Written
<1>2. CASE Disconnect
  <2> DEFINE c == Close(conn, FALSE)
  <2>1. Alive(conn) /\ conn' = Settle(c)
    BY <1>2 DEF Disconnect
  <2>2. CASE conn.closed
    <3>1. c = [conn EXCEPT !.managed = FALSE]
      BY <2>2 DEF Close
    <3>2. /\ c.accepting = conn.accepting /\ c.managed = conn.managed /\ c.read = conn.read
          /\ c.write = conn.write /\ c.socket = conn.socket
      BY <1>1, <2>2, <3>1 DEF Conn
    <3> HIDE DEF c
    <3> QED BY <2>1, <3>2 DEF Alive, Settle
  <2>3. CASE ~conn.closed /\ conn.queue # <<>>
    <3>1. c.write = conn.write /\ c.socket = conn.socket
      BY <1>1, <2>3 DEF Close, Conn
    <3> HIDE DEF c
    <3> QED BY <1>1, <2>1, <2>3, <3>1 DEF Alive, Settle
  <2>4. CASE ~conn.closed /\ conn.queue = <<>>
    <3>1. Unwritten(conn) = <<>>
      BY <1>1, <2>4 DEF Unwritten
    <3>2. delivered \o Unwritten(conn) = UpTo(conn.accepted)
      BY <2>4 DEF ConnInv, ConnSound, Kept, Written
    <3> QED BY <3>1, <3>2, AllDelivered
  <2> QED BY <2>2, <2>3, <2>4
<1>3. CASE OnWriteOperation
  <2> DEFINE b == AfterWrite
  <2>1. conn.write = "done" /\ conn.queue # <<>>
    BY <1>1, <1>3 DEF OnWriteOperation, ConnInv, ConnSound, Kept
  <2>2. CASE Tail(conn.queue) = <<>>
    <3>1. Unwritten(conn) = <<>> /\ delivered \o Unwritten(conn) = UpTo(conn.accepted)
      BY <2>1, <2>2 DEF ConnInv, ConnSound, Kept, Written, Unwritten
    <3> QED BY <3>1, AllDelivered
  <2>3. CASE Tail(conn.queue) # <<>>
    <3>1. b \in Conn /\ b.queue = Tail(conn.queue) /\ b.socket = conn.socket
      BY <1>1, <2>1, AfterWriteFields
    <3>2. conn' = Settle(InternalSend(b))
      BY <1>3, <2>1, <2>3, <3>1 DEF OnWriteOperation, AfterWrite
    <3> HIDE DEF b
    <3>3. InternalSend(b).socket = b.socket /\ InternalSend(b).write # "none"
      BY <3>1 DEF InternalSend, Conn
    <3> QED BY <3>1, <3>2, <3>3 DEF Settle, Alive
  <2> QED BY <2>2, <2>3
<1> QED BY <1>2, <1>3

\* disconnect() never cuts off what was sent before it (connection.cpp:64-97,
\* 266-313), for any number of messages and packets.
THEOREM GracefulCloseFlushes == Spec => FlushedBeforeClose
<1>1. ConnInv /\ [Next]_vars =>
        [(Disconnect \/ OnWriteOperation) /\ conn.socket = "open" /\ conn'.socket = "closed"
           => Len(delivered) = conn.accepted]_vars
  BY Flushed
<1> QED BY <1>1, ConnInvInitially, ConnInvKept, PTL DEF Spec, FlushedBeforeClose

-----------------------------------------------------------------------------
(* Sessions *)

Task == {"login", "connect", "release", "logout"} \X Proto

Has(s, k, p) == Contains(s.tasks, <<k, p>>)

Once(q, x) == \A i, j \in 1 .. Len(q) : q[i] = x /\ q[j] = x => i = j

Before(q, x, y) == \A i, j \in 1 .. Len(q) : q[i] = x /\ q[j] = y => i < j

Bit(b) == IF b THEN 1 ELSE 0

\* Released, of a state
Quiet(s, p) == /\ s.conn[p] \in {"closed", "gone"}
               /\ ~Has(s, "login", p) /\ ~Has(s, "release", p)

\* The protocols whose login has been run: each may start a chain.
Came(s) == {p \in Proto : s.conn[p] # "new" /\ ~Has(s, "login", p)}

Unborn(s, p) == /\ s.playerOf[p] = None /\ s.target[p] = None /\ s.stage[p] = "none"
                /\ p \notin s.timers /\ p \notin s.autosend /\ ~Has(s, "connect", p)

\* What is queued for a protocol, and when.
InOrder(s) ==
  \A p \in Proto :
    /\ \A k \in {"login", "connect", "release"} : Once(s.tasks, <<k, p>>)
    /\ Before(s.tasks, <<"login", p>>, <<"release", p>>)
    /\ s.conn[p] \in {"new", "open"} => ~Has(s, "release", p)
    /\ s.conn[p] = "new" => ~Has(s, "login", p)
    /\ s.conn[p] \in {"closed", "gone"} /\ Has(s, "login", p) => Has(s, "release", p)
    /\ s.conn[p] = "new" \/ Has(s, "login", p) => Unborn(s, p)
    /\ p \in s.timers => ~Has(s, "connect", p)
    /\ p \in s.timers \/ Has(s, "connect", p) => s.target[p] # None
    /\ s.target[p] # None => s.playerOf[p] = None

\* SessionsAgree, with the sets that have at most one member counted.
Counted(s) ==
  /\ \A o \in Proto :
       /\ \A p \in Proto : s.playerOf[p] = o <=> s.client[o] = p
       /\ s.refs[o] = Bit(s.client[o] # None) + Bit(s.stage[o] = "inGame")
                      + Bit(o \in s.checked) + s.releases[o]
       /\ s.stage[o] \in {"none", "freed"} <=> s.refs[o] = 0
       /\ Bit(s.stage[o] = "inGame") + Bit(o \in s.checked) + s.releases[o] <= 2
  /\ \A a, b \in Proto : s.stage[a] = "inGame" /\ s.stage[b] = "inGame" => a = b

\* BuffersAreSent, save for the protocol e that a handler is about to see to.
Sent(s, e) ==
  /\ \A p \in Proto \ {e} :
       /\ \/ p \in s.autosend \/ Quiet(s, p)
          \/ s.playerOf[p] = None /\ s.target[p] = None
          \/ s.playerOf[p] # None /\ s.stage[s.playerOf[p]] = "made"
       /\ Quiet(s, p) => p \notin s.autosend
  /\ s.autosend # {} => s.chains > 0
  /\ s.chains <= Cardinality(Came(s))

SesSound(s, e) == s \in SesState /\ InOrder(s) /\ Counted(s) /\ Sent(s, e)

SesInv == SesSound(ses, None)

-----------------------------------------------------------------------------
(* Queues *)

LEMMA AppendFacts ==
  ASSUME NEW q \in Seq(Task), NEW y \in Task
  PROVE  /\ Append(q, y) \in Seq(Task)
         /\ \A x : Contains(Append(q, y), x) <=> Contains(q, x) \/ x = y
         /\ \A x : Once(q, x) /\ (x = y => ~Contains(q, x)) => Once(Append(q, y), x)
         /\ \A x, z : Before(q, x, z) /\ x # z /\ (x = y => ~Contains(q, z))
                        => Before(Append(q, y), x, z)
<1> DEFINE r == Append(q, y)
<1>1. r \in Seq(Task) /\ Len(r) = Len(q) + 1 /\ Len(q) \in Nat
  OBVIOUS
<1>2. \A i \in 1 .. Len(r) : r[i] = IF i <= Len(q) THEN q[i] ELSE y
  OBVIOUS
<1>3. \A i \in 1 .. Len(q) : i \in 1 .. Len(r) /\ r[i] = q[i]
  BY <1>1, <1>2
<1>4. Len(r) \in 1 .. Len(r) /\ r[Len(r)] = y
  BY <1>1, <1>2
<1>5. \A i \in 1 .. Len(r) : i \in 1 .. Len(q) \/ i = Len(r)
  BY <1>1
<1> HIDE DEF r
<1>6. \A x : Contains(r, x) <=> Contains(q, x) \/ x = y
  BY <1>3, <1>4, <1>5 DEF Contains
<1>7. \A x : Once(q, x) /\ (x = y => ~Contains(q, x)) => Once(r, x)
  BY <1>3, <1>4, <1>5 DEF Contains, Once
<1>8. \A x, z : Before(q, x, z) /\ x # z /\ (x = y => ~Contains(q, z)) => Before(r, x, z)
  <2> SUFFICES ASSUME NEW x, NEW z, Before(q, x, z), x # z, x = y => ~Contains(q, z),
                      NEW i \in 1 .. Len(r), NEW j \in 1 .. Len(r), r[i] = x, r[j] = z
               PROVE  i < j
    BY DEF Before
  <2>1. CASE j = Len(r)
    <3>1. i # Len(r)
      BY <2>1
    <3> QED
      BY <3>1, <2>1, <1>1
  <2>2. CASE j \in 1 .. Len(q) /\ i \in 1 .. Len(q)
    BY <2>2, <1>3 DEF Before
  <2>3. CASE j \in 1 .. Len(q) /\ i = Len(r)
    <3>1. x = y /\ q[j] = z
      BY <2>3, <1>3, <1>4
    <3> QED
      BY <3>1, <2>3 DEF Contains
  <2> QED
    BY <2>1, <2>2, <2>3, <1>5
<1> QED
  BY <1>1, <1>6, <1>7, <1>8 DEF r

LEMMA TailFacts ==
  ASSUME NEW q \in Seq(Task), q # <<>>
  PROVE  /\ Tail(q) \in Seq(Task) /\ Contains(q, Head(q))
         /\ \A x : Contains(Tail(q), x) => Contains(q, x)
         /\ \A x : Contains(q, x) /\ x # Head(q) => Contains(Tail(q), x)
         /\ \A x : Once(q, x) => Once(Tail(q), x)
         /\ Once(q, Head(q)) => ~Contains(Tail(q), Head(q))
         /\ \A x, z : Before(q, x, z) => Before(Tail(q), x, z)
         /\ \A x : Before(q, x, Head(q)) => ~Contains(q, x)
<1> DEFINE r == Tail(q)
<1>1. r \in Seq(Task) /\ Len(r) = Len(q) - 1 /\ Len(q) \in Nat \ {0} /\ Head(q) = q[1]
  OBVIOUS
<1>2. \A i \in 1 .. Len(r) : i + 1 \in 1 .. Len(q) /\ r[i] = q[i + 1]
  OBVIOUS
<1>3. \A i \in 1 .. Len(q) : i = 1 \/ (i - 1 \in 1 .. Len(r) /\ r[i - 1] = q[i])
  OBVIOUS
<1> HIDE DEF r
<1>4. Contains(q, Head(q))
  BY <1>1 DEF Contains
<1>5. \A x : Contains(r, x) => Contains(q, x)
  BY <1>2 DEF Contains
<1>6. \A x : Contains(q, x) /\ x # Head(q) => Contains(r, x)
  BY <1>1, <1>3 DEF Contains
<1>7. \A x : Once(q, x) => Once(r, x)
  <2> SUFFICES ASSUME NEW x, Once(q, x), NEW i \in 1 .. Len(r), NEW j \in 1 .. Len(r),
                      r[i] = x, r[j] = x
               PROVE  i = j
    BY DEF Once
  <2>1. i + 1 = j + 1
    BY <1>2 DEF Once
  <2> QED
    BY <2>1, <1>1
<1>8. Once(q, Head(q)) => ~Contains(r, Head(q))
  <2> SUFFICES ASSUME Once(q, Head(q)), NEW i \in 1 .. Len(r), r[i] = Head(q)
               PROVE  FALSE
    BY DEF Contains
  <2>1. 1 \in 1 .. Len(q) /\ q[1] = Head(q)
    BY <1>1
  <2>2. i + 1 = 1
    BY <2>1, <1>2 DEF Once
  <2> QED
    BY <2>2, <1>1
<1>9. \A x, z : Before(q, x, z) => Before(r, x, z)
  <2> SUFFICES ASSUME NEW x, NEW z, Before(q, x, z), NEW i \in 1 .. Len(r), NEW j \in 1 .. Len(r),
                      r[i] = x, r[j] = z
               PROVE  i < j
    BY DEF Before
  <2>1. i + 1 < j + 1
    BY <1>2 DEF Before
  <2> QED
    BY <2>1, <1>1
<1>10. \A x : Before(q, x, Head(q)) => ~Contains(q, x)
  <2> SUFFICES ASSUME NEW x, Before(q, x, Head(q)), NEW i \in 1 .. Len(q), q[i] = x
               PROVE  FALSE
    BY DEF Contains
  <2>1. 1 \in 1 .. Len(q) /\ q[1] = Head(q)
    BY <1>1
  <2>2. i < 1
    BY <2>1 DEF Before
  <2> QED
    BY <2>2, <1>1
<1> QED
  BY <1>1, <1>4, <1>5, <1>6, <1>7, <1>8, <1>9, <1>10 DEF r

-----------------------------------------------------------------------------
(* The operations *)

\* What a step on the way to the list of buffers leaves alone.
Alike(s, t, p) == /\ Came(t) = Came(s) /\ (Quiet(t, p) <=> Quiet(s, p))
                  /\ t.autosend = s.autosend /\ t.chains = s.chains

\* Only the connection, and its release, have changed.
OnlyClosed(s, t) == /\ \A q \in Proto : /\ Alike(s, t, q)
                                        /\ Has(t, "connect", q) <=> Has(s, "connect", q)
                    /\ t.playerOf = s.playerOf

LEMMA CloseSesKeeps ==
  ASSUME NEW s, NEW e, SesSound(s, e), NEW p \in Proto, NEW t, t = SesClose(s, p)
  PROVE  SesSound(t, e) /\ OnlyClosed(s, t)
<1>1. CASE s.conn[p] # "open"
  <2>1. t = s
    BY <1>1 DEF SesClose
  <2> QED
    BY <2>1 DEF OnlyClosed, Alike
<1>2. CASE s.conn[p] = "open"
  <2> DEFINE y == <<"release", p>>
  <2>1. /\ s \in SesState /\ InOrder(s) /\ Counted(s) /\ Sent(s, e)
    BY DEF SesSound
  <2>2. t = [s EXCEPT !.conn = [s.conn EXCEPT ![p] = "closed"], !.tasks = Append(s.tasks, y)]
    BY <1>2, <2>1 DEF SesClose, SesState
  <2>3. y \in Task /\ s.tasks \in Seq(Task)
    BY <2>1 DEF SesState, Task
  <2>4. /\ t.conn = [s.conn EXCEPT ![p] = "closed"] /\ t.tasks = Append(s.tasks, y)
        /\ t.playerOf = s.playerOf /\ t.target = s.target /\ t.timers = s.timers
        /\ t.autosend = s.autosend /\ t.chains = s.chains /\ t.stage = s.stage
        /\ t.client = s.client /\ t.waits = s.waits /\ t.checked = s.checked
        /\ t.releases = s.releases /\ t.refs = s.refs
    BY <2>1, <2>2 DEF SesState
  <2>5. t \in SesState
    <3>1. t.tasks \in Seq({"login", "connect", "release", "logout"} \X Proto)
      BY <2>3, <2>4, AppendFacts DEF Task
    <3>2. t.conn \in [Proto -> {"new", "open", "closed", "gone"}]
      BY <2>1, <2>4 DEF SesState
    <3> QED
      BY <2>1, <2>2, <3>1, <3>2, <2>4 DEF SesState
  <2>6. \A k \in {"login", "connect", "release"}, q \in Proto :
          Has(t, k, q) <=> Has(s, k, q) \/ (k = "release" /\ q = p)
    BY <2>3, <2>4, AppendFacts DEF Has
  <2>7. ~Has(s, "release", p)
    BY <1>2, <2>1 DEF InOrder
  <2>8. \A q \in Proto : t.conn[q] = IF q = p THEN "closed" ELSE s.conn[q]
    BY <2>1, <2>4 DEF SesState
  <2>10. InOrder(t)
    <3> SUFFICES ASSUME NEW q \in Proto
                 PROVE  /\ \A k \in {"login", "connect", "release"} : Once(t.tasks, <<k, q>>)
                        /\ Before(t.tasks, <<"login", q>>, <<"release", q>>)
                        /\ t.conn[q] \in {"new", "open"} => ~Has(t, "release", q)
                        /\ t.conn[q] = "new" => ~Has(t, "login", q)
                        /\ t.conn[q] \in {"closed", "gone"} /\ Has(t, "login", q) => Has(t, "release", q)
                        /\ t.conn[q] = "new" \/ Has(t, "login", q) => Unborn(t, q)
                        /\ q \in t.timers => ~Has(t, "connect", q)
                        /\ q \in t.timers \/ Has(t, "connect", q) => t.target[q] # None
                        /\ t.target[q] # None => t.playerOf[q] = None
      BY DEF InOrder
    <3>1. \A k \in {"login", "connect", "release"} : Once(t.tasks, <<k, q>>)
      <4> TAKE k \in {"login", "connect", "release"}
      <4>1. Once(s.tasks, <<k, q>>)
        BY <2>1 DEF InOrder
      <4>2. <<k, q>> = y => ~Contains(s.tasks, <<k, q>>)
        BY <2>7 DEF Has
      <4> QED
        BY <4>1, <4>2, <2>3, <2>4, AppendFacts
    <3>2. Before(t.tasks, <<"login", q>>, <<"release", q>>)
      <4>1. Before(s.tasks, <<"login", q>>, <<"release", q>>)
        BY <2>1 DEF InOrder
      <4> QED
        BY <4>1, <2>3, <2>4, AppendFacts
    <3>3. /\ s.conn[q] \in {"new", "open"} => ~Has(s, "release", q)
          /\ s.conn[q] = "new" => ~Has(s, "login", q)
          /\ s.conn[q] \in {"closed", "gone"} /\ Has(s, "login", q) => Has(s, "release", q)
          /\ s.conn[q] = "new" \/ Has(s, "login", q) => Unborn(s, q)
          /\ q \in s.timers => ~Has(s, "connect", q)
          /\ q \in s.timers \/ Has(s, "connect", q) => s.target[q] # None
          /\ s.target[q] # None => s.playerOf[q] = None
      BY <2>1 DEF InOrder
    <3>4. Unborn(s, q) => Unborn(t, q)
      BY <2>4, <2>6 DEF Unborn
    <3> QED
      BY <3>1, <3>2, <3>3, <3>4, <2>4, <2>6, <2>8
  <2>11. Counted(t)
    BY <2>1, <2>4 DEF Counted
  <2>12. \A q \in Proto : Quiet(t, q) <=> Quiet(s, q)
    BY <1>2, <2>6, <2>8 DEF Quiet
  <2>13. Came(t) = Came(s)
    BY <1>2, <2>6, <2>8 DEF Came
  <2>14. Sent(t, e)
    BY <2>1, <2>4, <2>12, <2>13 DEF Sent
  <2>15. OnlyClosed(s, t)
    BY <2>4, <2>6, <2>12, <2>13 DEF OnlyClosed, Alike
  <2> QED
    BY <2>5, <2>10, <2>11, <2>14, <2>15 DEF SesSound
<1> QED
  BY <1>1, <1>2

LEMMA Typed ==
  ASSUME NEW s \in SesState, NEW p \in Proto
  PROVE  /\ s.conn[p] \in {"new", "open", "closed", "gone"} /\ p # None
         /\ s.playerOf[p] \in Proto \cup {None} /\ s.target[p] \in Proto \cup {None}
         /\ s.client[p] \in Proto \cup {None}
         /\ s.stage[p] \in {"none", "made", "inGame", "removed", "freed"}
         /\ s.releases[p] \in 0 .. 2 /\ s.refs[p] \in Nat
BY SessionAssumption DEF SesState

\* What changes only the creatures and who counts them.
LEMMA OnlyCreatures ==
  ASSUME NEW s, NEW e, SesSound(s, e), NEW t \in SesState, Counted(t),
         t.conn = s.conn, t.tasks = s.tasks, t.playerOf = s.playerOf, t.target = s.target,
         t.timers = s.timers, t.autosend = s.autosend, t.chains = s.chains,
         \A o \in Proto : s.stage[o] = "none" => t.stage[o] = "none",
         \A o \in Proto : s.stage[o] = "made" => t.stage[o] = "made" \/ s.client[o] = None
  PROVE  SesSound(t, e)
<1>1. \A k \in {"login", "connect", "release"}, q \in Proto : Has(t, k, q) <=> Has(s, k, q)
  BY DEF Has
<1>2. \A q \in Proto : Unborn(s, q) => Unborn(t, q)
  BY <1>1 DEF Unborn
<1>3. InOrder(t)
  <2>1. InOrder(s)
    BY DEF SesSound
  <2> QED
    BY <2>1, <1>1, <1>2 DEF InOrder
<1>4. \A q \in Proto : Quiet(t, q) <=> Quiet(s, q)
  BY <1>1 DEF Quiet
<1>5. Came(t) = Came(s)
  BY <1>1 DEF Came
<1>6. Sent(t, e)
  <2>1. s \in SesState /\ Counted(s) /\ Sent(s, e)
    BY DEF SesSound
  <2>2. \A p \in Proto : s.playerOf[p] # None
          => s.playerOf[p] \in Proto /\ s.client[s.playerOf[p]] = p /\ p # None
    BY <2>1, Typed DEF Counted
  <2>3. \A p \in Proto : s.playerOf[p] # None /\ s.stage[s.playerOf[p]] = "made"
                            => t.stage[s.playerOf[p]] = "made"
    BY <2>2
  <2> QED
    BY <2>1, <2>3, <1>4, <1>5 DEF Sent
<1> QED
  BY <1>3, <1>6 DEF SesSound

LEMMA RemoveKeeps ==
  ASSUME NEW s, NEW e, SesSound(s, e), NEW o \in Proto, NEW t, t = RemoveCreature(s, o)
  PROVE  SesSound(t, e)
<1>1. CASE s.stage[o] # "inGame"
  BY <1>1 DEF RemoveCreature
<1>2. CASE s.stage[o] = "inGame"
  <2>1. s \in SesState /\ Counted(s)
    BY DEF SesSound
  <2>2. t = [s EXCEPT !.stage = [s.stage EXCEPT ![o] = "removed"],
                      !.releases = [s.releases EXCEPT ![o] = s.releases[o] + 1]]
    BY <1>2, <2>1 DEF RemoveCreature, SesState
  <2>3. /\ t.stage = [s.stage EXCEPT ![o] = "removed"]
        /\ t.releases = [s.releases EXCEPT ![o] = s.releases[o] + 1]
        /\ t.conn = s.conn /\ t.tasks = s.tasks /\ t.playerOf = s.playerOf /\ t.target = s.target
        /\ t.timers = s.timers /\ t.autosend = s.autosend /\ t.chains = s.chains
        /\ t.client = s.client /\ t.waits = s.waits /\ t.checked = s.checked /\ t.refs = s.refs
    BY <2>1, <2>2 DEF SesState
  <2>4. \A q \in Proto : /\ t.stage[q] = IF q = o THEN "removed" ELSE s.stage[q]
                         /\ t.releases[q] = IF q = o THEN s.releases[o] + 1 ELSE s.releases[q]
                         /\ s.releases[q] \in 0 .. 2
    BY <2>1, <2>3 DEF SesState
  <2>5. s.releases[o] + 1 \in 0 .. 2
    BY <1>2, <2>1, <2>4 DEF Counted, Bit
  <2>6. t \in SesState
    <3>1. t.stage \in [Proto -> {"none", "made", "inGame", "removed", "freed"}]
      BY <2>1, <2>3 DEF SesState
    <3>2. t.releases \in [Proto -> 0 .. 2]
      BY <2>1, <2>3, <2>5 DEF SesState
    <3> QED
      BY <2>1, <2>2, <3>1, <3>2, <2>3 DEF SesState
  <2>7. Counted(t)
    BY <1>2, <2>1, <2>3, <2>4 DEF Counted, Bit
  <2>8. \A q \in Proto : s.stage[q] = "none" => t.stage[q] = "none"
    BY <1>2, <2>4
  <2>9. \A q \in Proto : s.stage[q] = "made" => t.stage[q] = "made" \/ s.client[q] = None
    BY <1>2, <2>4
  <2>10. /\ t.conn = s.conn /\ t.tasks = s.tasks /\ t.playerOf = s.playerOf
         /\ t.target = s.target /\ t.timers = s.timers /\ t.autosend = s.autosend
         /\ t.chains = s.chains
    BY <2>3
  <2> QED
    BY <2>6, <2>7, <2>8, <2>9, <2>10, OnlyCreatures
<1> QED
  BY <1>1, <1>2

\* checkCreatures: those that are no longer in the game are to be released.
LEMMA TakenOffKeeps ==
  ASSUME NEW s, NEW e, SesSound(s, e), NEW gone \in SUBSET s.checked,
         \A o \in gone : s.stage[o] # "inGame", NEW t,
         t = [s EXCEPT !.checked = @ \ gone,
                       !.releases = [o \in Proto |-> @[o] + IF o \in gone THEN 1 ELSE 0]]
  PROVE  SesSound(t, e)
<1>1. s \in SesState /\ Counted(s)
  BY DEF SesSound
<1>2. /\ t.checked = s.checked \ gone
      /\ t.releases = [o \in Proto |-> s.releases[o] + IF o \in gone THEN 1 ELSE 0]
      /\ t.stage = s.stage /\ t.conn = s.conn /\ t.tasks = s.tasks /\ t.playerOf = s.playerOf
      /\ t.target = s.target /\ t.timers = s.timers /\ t.autosend = s.autosend
      /\ t.chains = s.chains /\ t.client = s.client /\ t.waits = s.waits /\ t.refs = s.refs
  BY <1>1 DEF SesState
<1>3. \A o \in Proto : /\ t.releases[o] = s.releases[o] + IF o \in gone THEN 1 ELSE 0
                       /\ s.releases[o] \in 0 .. 2
                       /\ o \in gone => o \in s.checked /\ o \notin t.checked
                       /\ o \notin gone => (o \in t.checked <=> o \in s.checked)
  BY <1>1, <1>2 DEF SesState
<1>4. t.releases \in [Proto -> 0 .. 2]
  BY <1>1, <1>2, <1>3 DEF Counted, Bit
<1>5. t \in SesState
  BY <1>1, <1>2, <1>4 DEF SesState
<1>6. Counted(t)
  BY <1>1, <1>2, <1>3 DEF Counted, Bit
<1>7. \A q \in Proto : /\ s.stage[q] = "none" => t.stage[q] = "none"
                       /\ s.stage[q] = "made" => t.stage[q] = "made" \/ s.client[q] = None
  BY <1>2
<1> QED
  BY <1>2, <1>5, <1>6, <1>7, OnlyCreatures

LEMMA CleanupKeeps ==
  ASSUME NEW s, NEW e, SesSound(s, e), NEW t, t = Cleanup(s)
  PROVE  SesSound(t, e)
<1> DEFINE Freed(o) == s.releases[o] > 0 /\ s.refs[o] = s.releases[o]
<1>1. s \in SesState /\ Counted(s)
  BY DEF SesSound
<1>2. t = [s EXCEPT !.refs = [o \in Proto |-> s.refs[o] - s.releases[o]],
                    !.stage = [o \in Proto |-> IF Freed(o) THEN "freed" ELSE s.stage[o]],
                    !.releases = [o \in Proto |-> 0]]
  BY <1>1 DEF Cleanup, SesState
<1>3. /\ t.refs = [o \in Proto |-> s.refs[o] - s.releases[o]]
      /\ t.stage = [o \in Proto |-> IF Freed(o) THEN "freed" ELSE s.stage[o]]
      /\ t.releases = [o \in Proto |-> 0]
      /\ t.conn = s.conn /\ t.tasks = s.tasks /\ t.playerOf = s.playerOf /\ t.target = s.target
      /\ t.timers = s.timers /\ t.autosend = s.autosend /\ t.chains = s.chains
      /\ t.client = s.client /\ t.waits = s.waits /\ t.checked = s.checked
  BY <1>1, <1>2 DEF SesState
<1>4. \A o \in Proto : /\ t.refs[o] = s.refs[o] - s.releases[o] /\ t.releases[o] = 0
                       /\ t.stage[o] = IF Freed(o) THEN "freed" ELSE s.stage[o]
                       /\ s.releases[o] \in 0 .. 2 /\ s.refs[o] \in Nat
  BY <1>1, <1>3 DEF SesState
<1>5. \A o \in Proto : Freed(o) => s.client[o] = None /\ s.stage[o] # "inGame" /\ o \notin s.checked
                                   /\ s.stage[o] \notin {"none", "freed"}
  BY <1>1, <1>4 DEF Counted, Bit
<1>6. t \in SesState
  <2>1. t.refs \in [Proto -> Nat]
    BY <1>1, <1>3, <1>4 DEF Counted, Bit
  <2>2. t.stage \in [Proto -> {"none", "made", "inGame", "removed", "freed"}]
    BY <1>1, <1>3 DEF SesState
  <2>3. t.releases \in [Proto -> 0 .. 2]
    BY <1>3
  <2> QED
    BY <1>1, <1>2, <1>3, <2>1, <2>2, <2>3 DEF SesState
<1>7. Counted(t)
  <2>1. \A o \in Proto :
          /\ t.refs[o] = Bit(t.client[o] # None) + Bit(t.stage[o] = "inGame")
                         + Bit(o \in t.checked) + t.releases[o]
          /\ Bit(t.stage[o] = "inGame") + Bit(o \in t.checked) + t.releases[o] <= 2
    BY <1>1, <1>3, <1>4, <1>5 DEF Counted, Bit
  <2>2. \A o \in Proto : t.stage[o] \in {"none", "freed"} <=> t.refs[o] = 0
    <3> SUFFICES ASSUME NEW o \in Proto
                 PROVE  t.stage[o] \in {"none", "freed"} <=> t.refs[o] = 0
      OBVIOUS
    <3>1. CASE Freed(o)
      BY <3>1, <1>4
    <3>2. CASE ~Freed(o)
      <4>1. s.stage[o] \in {"none", "freed"} <=> s.refs[o] = 0
        BY <1>1 DEF Counted
      <4>2. s.refs[o] >= s.releases[o]
        BY <1>1, <1>4 DEF Counted, Bit
      <4> QED
        BY <3>2, <4>1, <4>2, <1>4
    <3> QED
      BY <3>1, <3>2
  <2>3. \A o \in Proto : t.stage[o] = "inGame" => s.stage[o] = "inGame"
    BY <1>4
  <2> QED
    BY <1>1, <1>3, <2>1, <2>2, <2>3 DEF Counted
<1>8. \A q \in Proto : /\ s.stage[q] = "none" => t.stage[q] = "none"
                       /\ s.stage[q] = "made" => t.stage[q] = "made" \/ s.client[q] = None
  BY <1>4, <1>5
<1> QED
  BY <1>3, <1>6, <1>7, <1>8, OnlyCreatures

LEMMA LogOutKeeps ==
  ASSUME NEW s, NEW e, SesSound(s, e), NEW p \in Proto, NEW t, t = LogOut(s, p)
  PROVE  SesSound(t, e)
<1>1. CASE s.playerOf[p] = None
  BY <1>1 DEF LogOut
<1>2. CASE s.playerOf[p] # None
  <2> DEFINE u == SesClose(s, p)
  <2>1. SesSound(u, e)
    BY CloseSesKeeps
  <2>2. s.playerOf[p] \in Proto
    BY <1>2, Typed DEF SesSound
  <2>3. t = RemoveCreature(u, s.playerOf[p])
    BY <1>2 DEF LogOut, SesDisconnect
  <2> HIDE DEF u
  <2> QED
    BY <2>1, <2>2, <2>3, RemoveKeeps
<1> QED
  BY <1>1, <1>2

LEMMA KickKeeps ==
  ASSUME NEW s, NEW e, SesSound(s, e), NEW o \in Proto, NEW t, t = KickPlayer(s, o)
  PROVE  SesSound(t, e)
<1>1. s.client[o] # None => s.client[o] \in Proto
  BY Typed DEF SesSound
<1> QED
  BY <1>1, LogOutKeeps, RemoveKeeps DEF KickPlayer

\* Everything but the buffers of e is as it should be, and now they are too.
LEMMA Settled ==
  ASSUME NEW s, NEW e \in Proto, SesSound(s, e), Quiet(s, e) => e \notin s.autosend,
         \/ e \in s.autosend \/ Quiet(s, e)
         \/ s.playerOf[e] # None /\ s.stage[s.playerOf[e]] = "made"
  PROVE  SesSound(s, None)
BY SessionAssumption DEF SesSound, Sent

LEMMA ButForOne ==
  ASSUME NEW s, NEW e \in Proto, SesSound(s, None)
  PROVE  SesSound(s, e)
BY SessionAssumption DEF SesSound, Sent

LEMMA AutosendKeeps ==
  ASSUME NEW s, NEW p \in Proto, SesSound(s, p), p \in Came(s), ~Quiet(s, p),
         s.autosend = {} => s.chains < Cardinality(Came(s)),
         NEW t, t = AddToAutosend(s, p)
  PROVE  SesSound(t, None)
<1>1. s \in SesState /\ InOrder(s) /\ Counted(s) /\ Sent(s, p)
  BY DEF SesSound
<1> DEFINE n == IF s.autosend = {} THEN s.chains + 1 ELSE s.chains
<1>2. t = [s EXCEPT !.chains = n, !.autosend = s.autosend \cup {p}]
  BY <1>1 DEF AddToAutosend, SesState
<1>3. n \in 0 .. Cardinality(Proto) /\ n <= Cardinality(Came(s)) /\ n > 0
  <2>1. /\ IsFiniteSet(Came(s)) /\ Cardinality(Came(s)) <= Cardinality(Proto)
        /\ Cardinality(Proto) \in Nat /\ Cardinality(Came(s)) \in Nat
    <3>1. Came(s) \in SUBSET Proto /\ IsFiniteSet(Proto)
      BY SessionAssumption DEF Came
    <3> QED
      BY <3>1, FS_Subset, FS_CardinalityType
  <2>2. s.chains \in 0 .. Cardinality(Proto) /\ s.chains <= Cardinality(Came(s))
    BY <1>1 DEF SesState, Sent
  <2>3. s.autosend # {} => s.chains > 0
    BY <1>1 DEF Sent
  <2> QED
    BY <2>1, <2>2, <2>3
<1>4. /\ t.chains = n /\ t.autosend = s.autosend \cup {p}
      /\ t.conn = s.conn /\ t.tasks = s.tasks /\ t.playerOf = s.playerOf /\ t.target = s.target
      /\ t.timers = s.timers /\ t.stage = s.stage /\ t.client = s.client /\ t.waits = s.waits
      /\ t.checked = s.checked /\ t.releases = s.releases /\ t.refs = s.refs
  BY <1>1, <1>2 DEF SesState
<1> HIDE DEF n
<1>5. t \in SesState
  <2>1. t.chains \in 0 .. Cardinality(Proto) /\ t.autosend \in SUBSET Proto
    BY <1>1, <1>3, <1>4 DEF SesState
  <2> QED
    BY <1>1, <1>2, <1>4, <2>1 DEF SesState
<1>6. \A k \in {"login", "connect", "release"}, q \in Proto : Has(t, k, q) <=> Has(s, k, q)
  BY <1>4 DEF Has
<1>7. InOrder(t)
  <2>1. s.conn[p] # "new" /\ ~Has(s, "login", p)
    BY DEF Came
  <2>2. \A q \in Proto : q # p /\ Unborn(s, q) => Unborn(t, q)
    BY <1>4, <1>6 DEF Unborn
  <2> QED
    BY ZenonT(30), <1>1, <1>4, <1>6, <2>1, <2>2 DEF InOrder
<1>8. Counted(t)
  BY <1>1, <1>4 DEF Counted
<1>9. \A q \in Proto : Quiet(t, q) <=> Quiet(s, q)
  BY <1>4, <1>6 DEF Quiet
<1>10. Came(t) = Came(s)
  BY <1>4, <1>6 DEF Came
<1>11. Sent(t, None)
  BY <1>1, <1>3, <1>4, <1>9, <1>10 DEF Sent
<1> QED
  BY <1>5, <1>7, <1>8, <1>11 DEF SesSound

\* connect: to a player in the game without a client, or not at all.
LEMMA ConnectKeeps ==
  ASSUME NEW s, NEW p \in Proto, NEW o \in Proto, SesSound(s, p), p \in Came(s),
         p \notin s.timers, ~Has(s, "connect", p), s.playerOf[p] = None,
         NEW t, t = Connect(s, p, o)
  PROVE  SesSound(t, p) /\ Alike(s, t, p)
<1> DEFINE u == [s EXCEPT !.target = [s.target EXCEPT ![p] = None]]
<1>1. s \in SesState /\ InOrder(s) /\ Counted(s) /\ Sent(s, p)
  BY DEF SesSound
<1>2. /\ u.target = [s.target EXCEPT ![p] = None]
      /\ u.conn = s.conn /\ u.tasks = s.tasks /\ u.playerOf = s.playerOf /\ u.timers = s.timers
      /\ u.autosend = s.autosend /\ u.chains = s.chains /\ u.stage = s.stage
      /\ u.client = s.client /\ u.waits = s.waits /\ u.checked = s.checked
      /\ u.releases = s.releases /\ u.refs = s.refs
  BY <1>1 DEF SesState
<1>3. u \in SesState
  <2>1. u.target \in [Proto -> Proto \cup {None}]
    BY <1>1, <1>2 DEF SesState
  <2> QED
    BY <1>1, <1>2, <2>1 DEF SesState
<1>4. \A q \in Proto : u.target[q] = IF q = p THEN None ELSE s.target[q]
  BY <1>1, <1>2 DEF SesState
<1>5. [s EXCEPT !.target[p] = None] = u
  BY <1>1 DEF SesState
<1> HIDE DEF u
<1>6. \A k \in {"login", "connect", "release"}, q \in Proto : Has(u, k, q) <=> Has(s, k, q)
  BY <1>2 DEF Has
<1>7. (\A q \in Proto : Quiet(u, q) <=> Quiet(s, q)) /\ Came(u) = Came(s)
  BY <1>2, <1>6 DEF Quiet, Came
<1>8. s.conn[p] # "new" /\ ~Has(s, "login", p)
  BY DEF Came
<1>9. InOrder(u)
  <2>1. \A q \in Proto : Unborn(s, q) => Unborn(u, q)
    BY <1>2, <1>4, <1>6 DEF Unborn
  <2>2. u.conn = s.conn /\ u.tasks = s.tasks /\ u.timers = s.timers /\ u.playerOf = s.playerOf
    BY <1>2
  <2>3. \A q \in Proto : /\ u.target[q] # None => u.playerOf[q] = None
                         /\ q \in u.timers \/ Has(u, "connect", q) => u.target[q] # None
    BY <1>1, <1>4, <1>6, <2>2 DEF InOrder
  <2> QED
    BY <1>1, <1>6, <2>1, <2>2, <2>3 DEF InOrder
<1>10. Counted(u)
  BY <1>1, <1>2 DEF Counted
<1>11. Sent(u, p)
  BY <1>1, <1>2, <1>4, <1>7 DEF Sent
<1>12. SesSound(u, p)
  BY <1>3, <1>9, <1>10, <1>11 DEF SesSound
<1>13. CASE s.stage[o] # "inGame" \/ s.client[o] # None
  <2>1. t = SesClose(u, p)
    BY <1>13, <1>5 DEF Connect, SesDisconnect
  <2>2. SesSound(t, p) /\ OnlyClosed(u, t)
    BY <1>12, <2>1, CloseSesKeeps
  <2> QED
    BY <1>2, <1>7, <2>2 DEF OnlyClosed, Alike
<1>14. CASE s.stage[o] = "inGame" /\ s.client[o] = None /\ s.conn[p] = "gone"
  <2>1. t = u
    BY <1>14, <1>5 DEF Connect
  <2> QED
    BY <1>2, <1>7, <1>12, <2>1 DEF Alike
<1>15. CASE s.stage[o] = "inGame" /\ s.client[o] = None /\ s.conn[p] # "gone"
  <2>1. t = [u EXCEPT !.playerOf = [u.playerOf EXCEPT ![p] = o],
                      !.client = [u.client EXCEPT ![o] = p], !.waits = u.waits \ {o},
                      !.refs = [u.refs EXCEPT ![o] = u.refs[o] + 1]]
    <3>1. t = Increment([u EXCEPT !.playerOf[p] = o, !.client[o] = p, !.waits = @ \ {o}], o)
      BY <1>15, <1>5 DEF Connect
    <3> QED
      BY <1>3, <3>1 DEF Increment, SesState
  <2>2. /\ t.playerOf = [s.playerOf EXCEPT ![p] = o] /\ t.client = [s.client EXCEPT ![o] = p]
        /\ t.waits = s.waits \ {o} /\ t.refs = [s.refs EXCEPT ![o] = s.refs[o] + 1]
        /\ t.conn = u.conn /\ t.tasks = u.tasks /\ t.target = u.target /\ t.timers = u.timers
        /\ t.autosend = u.autosend /\ t.chains = u.chains /\ t.stage = u.stage
        /\ t.checked = u.checked /\ t.releases = u.releases
    BY <1>2, <1>3, <2>1 DEF SesState
  <2>3. t \in SesState
    <3>1. /\ t.playerOf \in [Proto -> Proto \cup {None}]
          /\ t.client \in [Proto -> Proto \cup {None}] /\ t.waits \in SUBSET Proto
      BY <1>1, <2>2 DEF SesState
    <3>2. t.refs \in [Proto -> Nat]
      BY <1>1, <2>2 DEF SesState
    <3> QED
      BY <1>3, <2>1, <2>2, <3>1, <3>2 DEF SesState
  <2>4. \A q \in Proto : /\ t.playerOf[q] = IF q = p THEN o ELSE s.playerOf[q]
                         /\ t.client[q] = IF q = o THEN p ELSE s.client[q]
                         /\ t.refs[q] = IF q = o THEN s.refs[o] + 1 ELSE s.refs[q]
    BY <1>1, <2>2 DEF SesState
  <2>5. (\A k \in {"login", "connect", "release"}, q \in Proto : Has(t, k, q) <=> Has(u, k, q))
    BY <2>2 DEF Has
  <2>6. (\A q \in Proto : Quiet(t, q) <=> Quiet(u, q)) /\ Came(t) = Came(u)
    BY <2>2, <2>5 DEF Quiet, Came
  <2>7. InOrder(t)
    <3>1. \A q \in Proto : q # p /\ Unborn(u, q) => Unborn(t, q)
      BY <1>2, <2>2, <2>4, <2>5 DEF Unborn
    <3>2. \A q \in Proto \ {p} : t.playerOf[q] = u.playerOf[q]
      BY <1>2, <2>4
    <3>3. u.target[p] = None
      BY <1>4
    <3>4. t.conn[p] # "new" /\ ~Has(t, "login", p) /\ p \notin t.timers
          /\ ~Has(t, "connect", p) /\ t.target[p] = None
      BY <1>2, <1>6, <1>8, <2>2, <2>5, <3>3
    <3>5. /\ t.conn = u.conn /\ t.tasks = u.tasks /\ t.target = u.target
          /\ t.timers = u.timers
      BY <2>2
    <3>6. \A q \in Proto : t.conn[q] = "new" \/ Has(t, "login", q) => Unborn(t, q)
      BY <1>9, <2>5, <3>1, <3>4, <3>5 DEF InOrder
    <3>7. \A q \in Proto : t.target[q] # None => t.playerOf[q] = None
      BY <1>9, <3>2, <3>4, <3>5 DEF InOrder
    <3> QED
      BY <1>9, <2>5, <3>5, <3>6, <3>7 DEF InOrder
  <2>8. Counted(t)
    <3>1. \A a, q \in Proto : t.playerOf[q] = a <=> t.client[a] = q
      <4>1. \A a, q \in Proto : s.playerOf[q] = a <=> s.client[a] = q
        BY <1>1 DEF Counted
      <4> QED
        BY <1>15, <2>4, <4>1, SessionAssumption
    <3>2. \A a \in Proto :
            /\ t.refs[a] = Bit(t.client[a] # None) + Bit(t.stage[a] = "inGame")
                           + Bit(a \in t.checked) + t.releases[a]
            /\ Bit(t.stage[a] = "inGame") + Bit(a \in t.checked) + t.releases[a] <= 2
      <4> SUFFICES ASSUME NEW a \in Proto
                   PROVE  /\ t.refs[a] = Bit(t.client[a] # None) + Bit(t.stage[a] = "inGame")
                                         + Bit(a \in t.checked) + t.releases[a]
                          /\ Bit(t.stage[a] = "inGame") + Bit(a \in t.checked) + t.releases[a] <= 2
        OBVIOUS
      <4>1. /\ s.refs[a] = Bit(s.client[a] # None) + Bit(s.stage[a] = "inGame")
                            + Bit(a \in s.checked) + s.releases[a]
            /\ Bit(s.stage[a] = "inGame") + Bit(a \in s.checked) + s.releases[a] <= 2
        BY <1>1 DEF Counted
      <4>2. t.stage = s.stage /\ t.checked = s.checked /\ t.releases = s.releases
        BY <1>2, <2>2
      <4>3. s.releases[a] \in Nat /\ p # None
        BY <1>1, Typed
      <4> QED
        BY <1>15, <2>4, <4>1, <4>2, <4>3 DEF Bit
    <3>3. \A a \in Proto : t.stage[a] \in {"none", "freed"} <=> t.refs[a] = 0
      BY <1>1, <1>2, <1>15, <2>2, <2>4, Typed DEF Counted
    <3> QED
      BY <1>1, <1>2, <2>2, <3>1, <3>2, <3>3 DEF Counted
  <2>9. Sent(t, p)
    BY <1>2, <1>11, <2>2, <2>4, <2>6 DEF Sent
  <2>10. Alike(s, t, p)
    BY <1>2, <1>7, <2>2, <2>6 DEF Alike
  <2> QED
    BY <2>3, <2>7, <2>8, <2>9, <2>10 DEF SesSound
<1> QED
  BY <1>13, <1>14, <1>15

\* login of a character whose client is being kicked: connect comes later.
Delayed(s, p, o) == [s EXCEPT !.waits = @ \cup {o}, !.target[p] = o, !.timers = @ \cup {p}]

LEMMA DelayKeeps ==
  ASSUME NEW s, NEW p \in Proto, NEW o \in Proto, SesSound(s, p), p \in Came(s),
         ~Has(s, "connect", p), s.playerOf[p] = None,
         NEW t, t = Delayed(s, p, o)
  PROVE  SesSound(t, p) /\ Alike(s, t, p)
<1>1. s \in SesState /\ InOrder(s) /\ Counted(s) /\ Sent(s, p)
  BY DEF SesSound
<1>2. t = [s EXCEPT !.waits = s.waits \cup {o}, !.target = [s.target EXCEPT ![p] = o],
                    !.timers = s.timers \cup {p}]
  BY <1>1 DEF Delayed, SesState
<1>3. t.waits = s.waits \cup {o} /\ t.target = [s.target EXCEPT ![p] = o]
  BY <1>1, <1>2 DEF SesState
<1>4. /\ t.timers = s.timers \cup {p}
      /\ t.conn = s.conn /\ t.tasks = s.tasks /\ t.playerOf = s.playerOf
      /\ t.autosend = s.autosend /\ t.chains = s.chains /\ t.stage = s.stage
      /\ t.client = s.client /\ t.checked = s.checked
      /\ t.releases = s.releases /\ t.refs = s.refs
  BY <1>1, <1>2 DEF SesState
<1>5. t \in SesState
  <2>1. /\ t.target \in [Proto -> Proto \cup {None}] /\ t.waits \in SUBSET Proto
        /\ t.timers \in SUBSET Proto
    BY <1>1, <1>3, <1>4 DEF SesState
  <2> QED
    BY <1>1, <1>2, <1>4, <2>1 DEF SesState
<1>6. \A q \in Proto : t.target[q] = IF q = p THEN o ELSE s.target[q]
  BY <1>1, <1>3 DEF SesState
<1> HIDE <1>2
<1>7. \A k \in {"login", "connect", "release"}, q \in Proto : Has(t, k, q) <=> Has(s, k, q)
  BY <1>4 DEF Has
<1>8. (\A q \in Proto : Quiet(t, q) <=> Quiet(s, q)) /\ Came(t) = Came(s)
  BY <1>4, <1>7 DEF Quiet, Came
<1>9. s.conn[p] # "new" /\ ~Has(s, "login", p) /\ o # None
  BY <1>1, Typed DEF Came
<1>10. InOrder(t)
  <2>1. \A q \in Proto : q # p /\ Unborn(s, q) => Unborn(t, q)
    BY <1>4, <1>6, <1>7 DEF Unborn
  <2>2. ASSUME NEW q \in Proto
        PROVE  /\ t.target[q] # None => t.playerOf[q] = None
               /\ q \in t.timers => ~Has(t, "connect", q)
               /\ q \in t.timers \/ Has(t, "connect", q) => t.target[q] # None
    <3>1. /\ s.target[q] # None => s.playerOf[q] = None
          /\ q \in s.timers => ~Has(s, "connect", q)
          /\ q \in s.timers \/ Has(s, "connect", q) => s.target[q] # None
      BY <1>1 DEF InOrder
    <3>2. Has(t, "connect", q) <=> Has(s, "connect", q)
      BY <1>7
    <3>3. t.playerOf[q] = s.playerOf[q] /\ (q \in t.timers <=> q \in s.timers \/ q = p)
      BY <1>4
    <3> QED
      BY <1>6, <1>9, <3>1, <3>2, <3>3
  <2>3. \A q \in Proto : t.conn[q] = "new" \/ Has(t, "login", q) => Unborn(t, q)
    BY <1>1, <1>4, <1>7, <1>9, <2>1 DEF InOrder
  <2> QED
    BY <1>1, <1>4, <1>7, <2>2, <2>3 DEF InOrder
<1>11. Counted(t)
  BY <1>1, <1>4 DEF Counted
<1>12. Sent(t, p)
  BY <1>1, <1>4, <1>6, <1>8 DEF Sent
<1> QED
  BY <1>4, <1>5, <1>8, <1>10, <1>11, <1>12 DEF SesSound, Alike

\* login of a character that is not in the game: a player is made, and placed.
Placed(s, p, st) ==
  [s EXCEPT !.stage = [s.stage EXCEPT ![p] = st],
            !.client = [s.client EXCEPT ![p] = p],
            !.playerOf = [s.playerOf EXCEPT ![p] = p],
            !.checked = IF st = "inGame" THEN s.checked \cup {p} ELSE s.checked,
            !.refs = [s.refs EXCEPT ![p] = IF st = "inGame" THEN 3 ELSE 1]]

LEMMA MadeKeeps ==
  ASSUME NEW s, NEW p \in Proto, SesSound(s, p), p \in Came(s), Unborn(s, p),
         NEW st \in {"made", "inGame"}, st = "inGame" => InGame(s) = {},
         NEW t, t = Placed(s, p, st)
  PROVE  SesSound(t, p) /\ Alike(s, t, p) /\ t.playerOf[p] = p /\ t.stage[p] = st
<1>1. s \in SesState /\ InOrder(s) /\ Counted(s) /\ Sent(s, p)
  BY DEF SesSound
<1>2. /\ t.stage = [s.stage EXCEPT ![p] = st] /\ t.client = [s.client EXCEPT ![p] = p]
      /\ t.playerOf = [s.playerOf EXCEPT ![p] = p]
      /\ t.checked = IF st = "inGame" THEN s.checked \cup {p} ELSE s.checked
      /\ t.refs = [s.refs EXCEPT ![p] = IF st = "inGame" THEN 3 ELSE 1]
  BY <1>1 DEF Placed, SesState
<1>3. /\ t.conn = s.conn /\ t.tasks = s.tasks /\ t.target = s.target /\ t.timers = s.timers
      /\ t.autosend = s.autosend /\ t.chains = s.chains /\ t.waits = s.waits
      /\ t.releases = s.releases
  BY <1>1 DEF Placed, SesState
<1>4. t \in SesState
  <2>1. /\ t.stage \in [Proto -> {"none", "made", "inGame", "removed", "freed"}]
        /\ t.client \in [Proto -> Proto \cup {None}]
        /\ t.playerOf \in [Proto -> Proto \cup {None}]
    BY <1>1, <1>2 DEF SesState
  <2>2. t.checked \in SUBSET Proto /\ t.refs \in [Proto -> Nat]
    BY <1>1, <1>2 DEF SesState
  <2>3. t = [s EXCEPT !.stage = t.stage, !.client = t.client, !.playerOf = t.playerOf,
                      !.checked = t.checked, !.refs = t.refs]
    BY <1>2 DEF Placed
  <2> QED
    BY <1>1, <2>1, <2>2, <2>3 DEF SesState
<1>5. \A q \in Proto : /\ t.stage[q] = IF q = p THEN st ELSE s.stage[q]
                       /\ t.client[q] = IF q = p THEN p ELSE s.client[q]
                       /\ t.playerOf[q] = IF q = p THEN p ELSE s.playerOf[q]
                       /\ q \in t.checked <=> q \in s.checked \/ (q = p /\ st = "inGame")
                       /\ t.refs[q] = IF q = p THEN (IF st = "inGame" THEN 3 ELSE 1)
                                               ELSE s.refs[q]
  BY <1>1, <1>2 DEF SesState
<1>6. /\ s.client[p] = None /\ p \notin s.checked /\ s.releases[p] = 0
      /\ s.stage[p] = "none" /\ s.playerOf[p] = None /\ s.target[p] = None
  BY <1>1, Typed DEF Counted, Bit, Unborn
<1>7. \A k \in {"login", "connect", "release"}, q \in Proto : Has(t, k, q) <=> Has(s, k, q)
  BY <1>3 DEF Has
<1>8. (\A q \in Proto : Quiet(t, q) <=> Quiet(s, q)) /\ Came(t) = Came(s)
  BY <1>3, <1>7 DEF Quiet, Came
<1>9. s.conn[p] # "new" /\ ~Has(s, "login", p) /\ p # None
  BY <1>1, Typed DEF Came
<1>10. InOrder(t)
  <2>1. \A q \in Proto : q # p /\ Unborn(s, q) => Unborn(t, q)
    BY <1>3, <1>5, <1>7 DEF Unborn
  <2>2. \A q \in Proto : t.target[q] # None => t.playerOf[q] = None
    <3>1. \A q \in Proto : s.target[q] # None => s.playerOf[q] = None
      BY <1>1 DEF InOrder
    <3>2. t.target = s.target /\ \A q \in Proto \ {p} : t.playerOf[q] = s.playerOf[q]
      BY <1>3, <1>5
    <3> QED
      BY <1>6, <3>1, <3>2
  <2>3. \A q \in Proto : t.conn[q] = "new" \/ Has(t, "login", q) => Unborn(t, q)
    BY <1>1, <1>3, <1>7, <1>9, <2>1 DEF InOrder
  <2> QED
    BY <1>1, <1>3, <1>7, <2>2, <2>3 DEF InOrder
<1>11. Counted(t)
  <2>1. \A a, q \in Proto : t.playerOf[q] = a <=> t.client[a] = q
    <3>1. \A a, q \in Proto : s.playerOf[q] = a <=> s.client[a] = q
      BY <1>1 DEF Counted
    <3> QED
      BY <1>5, <1>6, <1>9, <3>1, SessionAssumption
  <2>2. ASSUME NEW a \in Proto
        PROVE  /\ t.refs[a] = Bit(t.client[a] # None) + Bit(t.stage[a] = "inGame")
                              + Bit(a \in t.checked) + t.releases[a]
               /\ Bit(t.stage[a] = "inGame") + Bit(a \in t.checked) + t.releases[a] <= 2
               /\ t.stage[a] \in {"none", "freed"} <=> t.refs[a] = 0
    <3>1. CASE a = p
      BY <3>1, <1>3, <1>5, <1>6, <1>9 DEF Bit
    <3>2. CASE a # p
      BY <3>2, <1>1, <1>3, <1>5 DEF Counted
    <3> QED
      BY <3>1, <3>2
  <2>3. \A a, b \in Proto : t.stage[a] = "inGame" /\ t.stage[b] = "inGame" => a = b
    BY <1>1, <1>5 DEF Counted, InGame
  <2> QED
    BY <2>1, <2>2, <2>3 DEF Counted
<1>12. Sent(t, p)
  <2>1. \A q \in Proto \ {p} : s.playerOf[q] # None
          => s.playerOf[q] \in Proto /\ s.playerOf[q] # p
    <3>1. \A q \in Proto : s.playerOf[q] = p <=> s.client[p] = q
      BY <1>1 DEF Counted
    <3> QED
      BY <1>1, <1>6, <3>1, Typed
  <2>2. \A q \in Proto \ {p} : t.playerOf[q] = s.playerOf[q]
          /\ (s.playerOf[q] # None => t.stage[s.playerOf[q]] = s.stage[s.playerOf[q]])
    BY <1>5, <2>1
  <2>3. ASSUME NEW q \in Proto \ {p}
        PROVE  /\ \/ q \in t.autosend \/ Quiet(t, q)
                  \/ t.playerOf[q] = None /\ t.target[q] = None
                  \/ t.playerOf[q] # None /\ t.stage[t.playerOf[q]] = "made"
               /\ Quiet(t, q) => q \notin t.autosend
    <3>1. /\ \/ q \in s.autosend \/ Quiet(s, q)
             \/ s.playerOf[q] = None /\ s.target[q] = None
             \/ s.playerOf[q] # None /\ s.stage[s.playerOf[q]] = "made"
          /\ Quiet(s, q) => q \notin s.autosend
      BY <1>1 DEF Sent
    <3>2. t.autosend = s.autosend /\ t.target = s.target
      BY <1>3
    <3> QED
      BY <1>8, <2>2, <3>1, <3>2
  <2>4. (t.autosend # {} => t.chains > 0) /\ t.chains <= Cardinality(Came(t))
    BY <1>1, <1>3, <1>8 DEF Sent
  <2> QED
    BY <2>3, <2>4 DEF Sent
<1> QED
  BY <1>3, <1>4, <1>5, <1>8, <1>10, <1>11, <1>12 DEF SesSound, Alike

\* release, of a protocol whose task has just been taken.
LEMMA ReleaseKeeps ==
  ASSUME NEW s, NEW p \in Proto, SesSound(s, p), Quiet(s, p), NEW t, t = Release(s, p)
  PROVE  SesSound(t, None)
<1> DEFINE u == [s EXCEPT !.autosend = s.autosend \ {p}]
<1>1. s \in SesState /\ InOrder(s) /\ Counted(s) /\ Sent(s, p)
  BY DEF SesSound
<1>2. /\ u.autosend = s.autosend \ {p}
      /\ u.conn = s.conn /\ u.tasks = s.tasks /\ u.playerOf = s.playerOf /\ u.target = s.target
      /\ u.timers = s.timers /\ u.chains = s.chains /\ u.stage = s.stage
      /\ u.client = s.client /\ u.waits = s.waits /\ u.checked = s.checked
      /\ u.releases = s.releases /\ u.refs = s.refs
  BY <1>1 DEF SesState
<1>3. u \in SesState
  <2>1. u.autosend \in SUBSET Proto
    BY <1>1, <1>2 DEF SesState
  <2> QED
    BY <1>1, <1>2, <2>1 DEF SesState
<1>4. p \notin u.autosend
  BY <1>2
<1> DEFINE o == s.playerOf[p]
<1>5. t = IF o # None /\ s.client[o] = p
          THEN [u EXCEPT !.client = [u.client EXCEPT ![o] = None],
                         !.playerOf = [u.playerOf EXCEPT ![p] = None],
                         !.refs = [u.refs EXCEPT ![o] = u.refs[o] - 1],
                         !.stage = [u.stage EXCEPT ![o] = IF u.refs[o] = 1 THEN "freed" ELSE u.stage[o]]]
          ELSE u
  BY ZenonT(30), <1>1 DEF Release, Decrement, SesState
<1> HIDE DEF u
<1>6. \A k \in {"login", "connect", "release"}, q \in Proto : Has(u, k, q) <=> Has(s, k, q)
  BY <1>2 DEF Has
<1>7. (\A q \in Proto : Quiet(u, q) <=> Quiet(s, q)) /\ Came(u) = Came(s)
  BY <1>2, <1>6 DEF Quiet, Came
<1>8. InOrder(u)
  <2>1. \A q \in Proto : Unborn(s, q) => Unborn(u, q)
    BY <1>2, <1>6 DEF Unborn
  <2> QED
    BY <1>1, <1>2, <1>6, <2>1 DEF InOrder
<1>9. Counted(u)
  BY <1>1, <1>2 DEF Counted
<1>10. Sent(u, p)
  BY <1>1, <1>2, <1>7 DEF Sent
<1>11. SesSound(u, None)
  BY <1>3, <1>4, <1>7, <1>8, <1>9, <1>10, Settled DEF SesSound
<1>12. CASE o = None
  BY <1>12, <1>5, <1>11
<1>13. CASE o # None
  <2>1. o \in Proto /\ s.client[o] = p /\ p # None
    BY <1>1, <1>13, Typed DEF Counted
  <2>2. t = [u EXCEPT !.client = [u.client EXCEPT ![o] = None],
                      !.playerOf = [u.playerOf EXCEPT ![p] = None],
                      !.refs = [u.refs EXCEPT ![o] = u.refs[o] - 1],
                      !.stage = [u.stage EXCEPT ![o] = IF u.refs[o] = 1 THEN "freed" ELSE u.stage[o]]]
    BY <1>5, <1>13, <2>1
  <2> HIDE DEF o
  <2>3. /\ t.client = [u.client EXCEPT ![o] = None] /\ t.playerOf = [u.playerOf EXCEPT ![p] = None]
        /\ t.refs = [u.refs EXCEPT ![o] = u.refs[o] - 1]
        /\ t.stage = [u.stage EXCEPT ![o] = IF u.refs[o] = 1 THEN "freed" ELSE @]
    BY <1>3, <2>2 DEF SesState
  <2>4. /\ t.conn = u.conn /\ t.tasks = u.tasks /\ t.target = u.target /\ t.timers = u.timers
        /\ t.autosend = u.autosend /\ t.chains = u.chains /\ t.waits = u.waits
        /\ t.checked = u.checked /\ t.releases = u.releases
    BY <1>3, <2>2 DEF SesState
  <2>5. \A q \in Proto : /\ t.client[q] = IF q = o THEN None ELSE u.client[q]
                         /\ t.playerOf[q] = IF q = p THEN None ELSE u.playerOf[q]
                         /\ t.refs[q] = IF q = o THEN u.refs[o] - 1 ELSE u.refs[q]
                         /\ t.stage[q] = IF q = o /\ u.refs[o] = 1 THEN "freed" ELSE u.stage[q]
    BY <1>3, <2>3 DEF SesState
  <2>6. /\ u.refs[o] = 1 + Bit(u.stage[o] = "inGame") + Bit(o \in u.checked) + u.releases[o]
        /\ u.releases[o] \in Nat /\ u.refs[o] \in Nat \ {0}
        /\ u.stage[o] \notin {"none", "freed"}
    <3>1. u.client[o] # None
      BY <1>2, <2>1
    <3>2. u.releases[o] \in Nat
      BY <1>3, <2>1, Typed
    <3>3. /\ u.refs[o] = Bit(u.client[o] # None) + Bit(u.stage[o] = "inGame")
                         + Bit(o \in u.checked) + u.releases[o]
          /\ u.stage[o] \in {"none", "freed"} <=> u.refs[o] = 0
      BY <1>9, <2>1 DEF Counted
    <3> QED
      BY <3>1, <3>2, <3>3 DEF Bit
  <2>7. t \in SesState
    <3>1. /\ t.client \in [Proto -> Proto \cup {None}]
          /\ t.playerOf \in [Proto -> Proto \cup {None}]
          /\ t.stage \in [Proto -> {"none", "made", "inGame", "removed", "freed"}]
      BY <1>3, <2>1, <2>3 DEF SesState
    <3>2. t.refs \in [Proto -> Nat]
      <4>1. u.refs \in [Proto -> Nat] /\ u.refs[o] - 1 \in Nat
        BY <1>3, <2>1, <2>6 DEF SesState
      <4> QED
        BY <2>1, <2>3, <4>1
    <3>3. t = [u EXCEPT !.client = t.client, !.playerOf = t.playerOf, !.refs = t.refs,
                        !.stage = t.stage]
      BY <2>2, <2>3
    <3> QED
      BY <1>3, <3>1, <3>2, <3>3 DEF SesState
  <2> HIDE <2>2
  <2>8. \A k \in {"login", "connect", "release"}, q \in Proto : Has(t, k, q) <=> Has(u, k, q)
    BY <2>4 DEF Has
  <2>9. (\A q \in Proto : Quiet(t, q) <=> Quiet(u, q)) /\ Came(t) = Came(u)
    BY <2>4, <2>8 DEF Quiet, Came
  <2>10. InOrder(t)
    <3>1. \A q \in Proto : Unborn(u, q) => Unborn(t, q)
      BY <2>4, <2>5, <2>6, <2>8 DEF Unborn
    <3>2. \A q \in Proto : t.target[q] # None => t.playerOf[q] = None
      <4>1. \A q \in Proto : u.target[q] # None => u.playerOf[q] = None
        BY <1>8 DEF InOrder
      <4> QED
        BY <2>4, <2>5, <4>1
    <3> QED
      BY <1>8, <2>4, <2>8, <3>1, <3>2 DEF InOrder
  <2>11. Counted(t)
    <3>1. \A a, q \in Proto : t.playerOf[q] = a <=> t.client[a] = q
      <4>1. \A a, q \in Proto : u.playerOf[q] = a <=> u.client[a] = q
        BY <1>9 DEF Counted
      <4>2. u.client[o] = p
        BY <1>2, <2>1
      <4> QED
        BY <2>1, <2>5, <4>1, <4>2, SessionAssumption
    <3>2. ASSUME NEW a \in Proto
          PROVE  /\ t.refs[a] = Bit(t.client[a] # None) + Bit(t.stage[a] = "inGame")
                                + Bit(a \in t.checked) + t.releases[a]
                 /\ Bit(t.stage[a] = "inGame") + Bit(a \in t.checked) + t.releases[a] <= 2
                 /\ t.stage[a] \in {"none", "freed"} <=> t.refs[a] = 0
      <4>1. /\ u.refs[a] = Bit(u.client[a] # None) + Bit(u.stage[a] = "inGame")
                           + Bit(a \in u.checked) + u.releases[a]
            /\ Bit(u.stage[a] = "inGame") + Bit(a \in u.checked) + u.releases[a] <= 2
            /\ u.stage[a] \in {"none", "freed"} <=> u.refs[a] = 0
        BY <1>9 DEF Counted
      <4>2. t.checked = u.checked /\ t.releases = u.releases
        BY <2>4
      <4>3. CASE a = o
        <5>1. /\ t.client[a] = None /\ t.refs[a] = u.refs[a] - 1 /\ u.client[a] # None
              /\ t.stage[a] = IF u.refs[a] = 1 THEN "freed" ELSE u.stage[a]
          BY <1>2, <2>1, <2>5, <4>3
        <5>2. /\ u.refs[a] = 1 + Bit(u.stage[a] = "inGame") + Bit(a \in u.checked) + u.releases[a]
              /\ u.releases[a] \in Nat /\ u.stage[a] \notin {"none", "freed"}
          BY <2>6, <4>3
        <5> QED
          BY <4>1, <4>2, <5>1, <5>2 DEF Bit
      <4>4. CASE a # o
        BY <4>1, <4>2, <4>4, <2>5
      <4> QED
        BY <4>3, <4>4
    <3>3. \A a, b \in Proto : t.stage[a] = "inGame" /\ t.stage[b] = "inGame" => a = b
      BY <1>9, <2>5 DEF Counted
    <3> QED
      BY <3>1, <3>2, <3>3 DEF Counted
  <2>12. Sent(t, p)
    <3>1. \A q \in Proto \ {p} : t.playerOf[q] = u.playerOf[q] /\ u.playerOf[q] # o
      <4>1. \A q \in Proto : u.playerOf[q] = o <=> u.client[o] = q
        BY <1>9, <2>1 DEF Counted
      <4>2. u.client[o] = p
        BY <1>2, <2>1
      <4> QED
        BY <2>5, <4>1, <4>2
    <3>2. \A q \in Proto \ {p} : u.playerOf[q] # None => t.stage[u.playerOf[q]] = u.stage[u.playerOf[q]]
      BY <1>3, <2>5, <3>1, Typed
    <3>3. ASSUME NEW q \in Proto \ {p}
          PROVE  /\ \/ q \in t.autosend \/ Quiet(t, q)
                    \/ t.playerOf[q] = None /\ t.target[q] = None
                    \/ t.playerOf[q] # None /\ t.stage[t.playerOf[q]] = "made"
                 /\ Quiet(t, q) => q \notin t.autosend
      <4>1. /\ \/ q \in u.autosend \/ Quiet(u, q)
               \/ u.playerOf[q] = None /\ u.target[q] = None
               \/ u.playerOf[q] # None /\ u.stage[u.playerOf[q]] = "made"
            /\ Quiet(u, q) => q \notin u.autosend
        BY <1>10 DEF Sent
      <4> QED
        BY <2>4, <2>9, <3>1, <3>2, <4>1
    <3>4. (t.autosend # {} => t.chains > 0) /\ t.chains <= Cardinality(Came(t))
      BY <1>10, <2>4, <2>9 DEF Sent
    <3> QED
      BY <3>3, <3>4 DEF Sent
  <2>13. SesSound(t, p)
    BY <2>7, <2>10, <2>11, <2>12 DEF SesSound
  <2>14. Quiet(t, p) /\ p \notin t.autosend
    BY <1>4, <1>7, <2>4, <2>9
  <2> QED
    BY <2>13, <2>14, Settled
<1> QED
  BY <1>12, <1>13

-----------------------------------------------------------------------------
(* The queue of the dispatcher *)

\* What remains of the queue when the task k of p has been taken.
Remains(s, t, k, p) ==
  \A q \in Proto :
    /\ Before(t.tasks, <<"login", q>>, <<"release", q>>)
    /\ \A j \in {"login", "connect", "release"} :
         /\ Once(t.tasks, <<j, q>>)
         /\ Has(t, j, q) <=> Has(s, j, q) /\ (j # k \/ q # p)

Taken(s) == [s EXCEPT !.tasks = Tail(s.tasks)]

\* What a handler finds when its task has been taken.
Found(t, k, p) ==
  /\ k # "release" => SesSound(t, None)
  /\ k = "release" => SesSound(t, p) /\ Quiet(t, p)
  /\ k = "connect" => /\ p \in Came(t) /\ p \notin t.timers /\ ~Has(t, "connect", p)
                      /\ t.playerOf[p] = None /\ t.target[p] \in Proto
                      /\ p \in t.autosend \/ Quiet(t, p)
  /\ k = "login" => /\ p \in Came(t) /\ Unborn(t, p) /\ ~Quiet(t, p)
                    /\ t.chains < Cardinality(Came(t))

LEMMA TakenFacts ==
  ASSUME NEW s, SesSound(s, None), s.tasks # <<>>,
         NEW k \in {"login", "connect", "release", "logout"}, NEW p \in Proto,
         Head(s.tasks) = <<k, p>>, NEW t, t = Taken(s)
  PROVE  /\ t \in SesState /\ t.tasks = Tail(s.tasks)
         /\ t.conn = s.conn /\ t.playerOf = s.playerOf /\ t.target = s.target
         /\ t.timers = s.timers /\ t.autosend = s.autosend /\ t.chains = s.chains
         /\ t.stage = s.stage /\ t.client = s.client /\ t.waits = s.waits
         /\ t.checked = s.checked /\ t.releases = s.releases /\ t.refs = s.refs
         /\ Remains(s, t, k, p)
         /\ Has(s, k, p) /\ (k = "release" => ~Has(s, "login", p))
<1>1. s \in SesState /\ InOrder(s)
  BY DEF SesSound
<1>2. s.tasks \in Seq(Task)
  BY <1>1 DEF SesState, Task
<1>3. /\ t.tasks = Tail(s.tasks)
      /\ t.conn = s.conn /\ t.playerOf = s.playerOf /\ t.target = s.target
      /\ t.timers = s.timers /\ t.autosend = s.autosend /\ t.chains = s.chains
      /\ t.stage = s.stage /\ t.client = s.client /\ t.waits = s.waits
      /\ t.checked = s.checked /\ t.releases = s.releases /\ t.refs = s.refs
  BY <1>1 DEF Taken, SesState
<1>4. t \in SesState
  <2>1. t.tasks \in Seq({"login", "connect", "release", "logout"} \X Proto)
    BY <1>2, <1>3, TailFacts DEF Task
  <2> QED
    BY <1>1, <1>3, <2>1 DEF Taken, SesState
<1>5. Has(s, k, p)
  BY <1>2, TailFacts DEF Has
<1>6. \A j \in {"login", "connect", "release"}, q \in Proto : Once(t.tasks, <<j, q>>)
  BY ZenonT(30), <1>1, <1>2, <1>3, TailFacts DEF InOrder
<1>7. ASSUME NEW j \in {"login", "connect", "release"}, NEW q \in Proto
      PROVE  Has(t, j, q) <=> Has(s, j, q) /\ (j # k \/ q # p)
  <2>1. Once(s.tasks, <<j, q>>)
    BY <1>1 DEF InOrder
  <2>2. CASE j = k /\ q = p
    <3>1. ~Contains(Tail(s.tasks), <<j, q>>)
      BY <1>2, <2>1, <2>2, TailFacts
    <3> QED
      BY <1>3, <2>2, <3>1 DEF Has
  <2>3. CASE j # k \/ q # p
    <3>1. <<j, q>> # Head(s.tasks)
      BY <2>3
    <3>2. Contains(Tail(s.tasks), <<j, q>>) <=> Contains(s.tasks, <<j, q>>)
      BY <1>2, <3>1, TailFacts
    <3> QED
      BY <1>3, <2>3, <3>2 DEF Has
  <2> QED
    BY <2>2, <2>3
<1>8. ASSUME NEW q \in Proto PROVE Before(t.tasks, <<"login", q>>, <<"release", q>>)
  <2>1. Before(s.tasks, <<"login", q>>, <<"release", q>>)
    BY <1>1 DEF InOrder
  <2>2. \A x, z : Before(s.tasks, x, z) => Before(Tail(s.tasks), x, z)
    BY <1>2, TailFacts
  <2> QED
    BY <1>3, <2>1, <2>2
<1>9. k = "release" => ~Has(s, "login", p)
  <2>1. Before(s.tasks, <<"login", p>>, <<"release", p>>)
    BY <1>1 DEF InOrder
  <2> QED
    BY <1>2, <2>1, TailFacts DEF Has
<1>10. Remains(s, t, k, p)
  BY <1>6, <1>7, <1>8 DEF Remains
<1> QED
  BY <1>3, <1>4, <1>5, <1>9, <1>10

LEMMA TakenKeeps ==
  ASSUME NEW s, SesSound(s, None), s.tasks # <<>>,
         NEW k \in {"login", "connect", "release", "logout"}, NEW p \in Proto,
         Head(s.tasks) = <<k, p>>, NEW t, t = Taken(s)
  PROVE  Found(t, k, p)
<1>1. s \in SesState /\ InOrder(s) /\ Counted(s) /\ Sent(s, None)
  BY DEF SesSound
<1>2. /\ t \in SesState
      /\ t.conn = s.conn /\ t.playerOf = s.playerOf /\ t.target = s.target
      /\ t.timers = s.timers /\ t.autosend = s.autosend /\ t.chains = s.chains
      /\ t.stage = s.stage /\ t.client = s.client
      /\ t.checked = s.checked /\ t.releases = s.releases /\ t.refs = s.refs
  BY TakenFacts
<1>3. ASSUME NEW j \in {"login", "connect", "release"}, NEW q \in Proto
      PROVE  Once(t.tasks, <<j, q>>) /\ (Has(t, j, q) <=> Has(s, j, q) /\ (j # k \/ q # p))
  <2>1. Remains(s, t, k, p)
    BY TakenFacts
  <2> QED
    BY <2>1 DEF Remains
<1>4. ASSUME NEW q \in Proto PROVE Before(t.tasks, <<"login", q>>, <<"release", q>>)
  <2>1. Remains(s, t, k, p)
    BY TakenFacts
  <2> QED
    BY <2>1 DEF Remains
<1>5. Has(s, k, p) /\ (k = "release" => ~Has(s, "login", p))
  BY TakenFacts
<1>6. \A q \in Proto : Unborn(s, q) => Unborn(t, q)
  BY <1>2, <1>3 DEF Unborn
<1>7. InOrder(t)
  <2>1. \A q \in Proto : /\ t.conn[q] \in {"new", "open"} => ~Has(t, "release", q)
                         /\ t.conn[q] = "new" => ~Has(t, "login", q)
                         /\ t.conn[q] = "new" \/ Has(t, "login", q) => Unborn(t, q)
    BY <1>1, <1>2, <1>3, <1>6 DEF InOrder
  <2>2. ASSUME NEW q \in Proto, t.conn[q] \in {"closed", "gone"}, Has(t, "login", q)
        PROVE  Has(t, "release", q)
    <3>1. Has(s, "login", q) /\ Has(s, "release", q)
      BY <1>1, <1>2, <1>3, <2>2 DEF InOrder
    <3> QED
      BY <1>3, <1>5, <3>1
  <2>3. \A q \in Proto : /\ q \in t.timers => ~Has(t, "connect", q)
                         /\ q \in t.timers \/ Has(t, "connect", q) => t.target[q] # None
                         /\ t.target[q] # None => t.playerOf[q] = None
    BY ZenonT(30), <1>1, <1>2, <1>3 DEF InOrder
  <2> QED
    BY <1>3, <1>4, <2>1, <2>2, <2>3 DEF InOrder
<1>8. Counted(t)
  BY <1>1, <1>2 DEF Counted
<1>9. \A q \in Proto : Came(s) \subseteq Came(t) /\ (q # p => (Quiet(t, q) <=> Quiet(s, q)))
  BY <1>2, <1>3 DEF Quiet, Came
<1>10. /\ IsFiniteSet(Came(t)) /\ Cardinality(Came(s)) <= Cardinality(Came(t))
       /\ Cardinality(Came(s)) \in Nat /\ Cardinality(Came(t)) \in Nat /\ s.chains \in Nat
  <2>1. Came(t) \in SUBSET Proto /\ Came(s) \in SUBSET Came(t) /\ Came(s) \in SUBSET Proto
    BY <1>9 DEF Came
  <2>2. IsFiniteSet(Came(t)) /\ IsFiniteSet(Came(s))
    BY <2>1, FS_Subset, SessionAssumption
  <2>3. s.chains \in Nat
    <3>1. Cardinality(Proto) \in Nat /\ s.chains \in 0 .. Cardinality(Proto)
      BY <1>1, FS_CardinalityType, SessionAssumption DEF SesState
    <3> QED
      BY <3>1
  <2> QED
    BY <2>1, <2>2, <2>3, FS_Subset, FS_CardinalityType
<1>11. Sent(t, p)
  <2>1. s.chains <= Cardinality(Came(s)) /\ (s.autosend # {} => s.chains > 0)
    BY <1>1 DEF Sent
  <2>2. t.chains <= Cardinality(Came(t)) /\ (t.autosend # {} => t.chains > 0)
    BY <1>2, <1>10, <2>1
  <2>3. ASSUME NEW q \in Proto \ {p}
        PROVE  /\ \/ q \in t.autosend \/ Quiet(t, q)
                  \/ t.playerOf[q] = None /\ t.target[q] = None
                  \/ t.playerOf[q] # None /\ t.stage[t.playerOf[q]] = "made"
               /\ Quiet(t, q) => q \notin t.autosend
    <3>1. q \in Proto \ {None}
      BY SessionAssumption
    <3> QED
      BY <1>1, <1>2, <1>9, <3>1 DEF Sent
  <2> QED
    BY <2>2, <2>3 DEF Sent
<1>12. SesSound(t, p)
  BY <1>2, <1>7, <1>8, <1>11 DEF SesSound
<1>13. /\ \/ p \in s.autosend \/ Quiet(s, p)
          \/ s.playerOf[p] = None /\ s.target[p] = None
          \/ s.playerOf[p] # None /\ s.stage[s.playerOf[p]] = "made"
       /\ Quiet(s, p) => p \notin s.autosend
  BY <1>1, SessionAssumption DEF Sent
<1>14. CASE k = "release"
  <2>1. s.conn[p] \in {"closed", "gone"}
    BY <1>1, <1>5, <1>14, Typed DEF InOrder
  <2> QED
    BY <1>2, <1>3, <1>5, <1>12, <1>14, <2>1 DEF Quiet, Found
<1>15. CASE k \in {"connect", "logout"}
  <2>1. Quiet(t, p) <=> Quiet(s, p)
    BY <1>2, <1>3, <1>15 DEF Quiet
  <2>2. Sent(t, None)
    BY <1>2, <1>11, <1>13, <2>1 DEF Sent
  <2>3. SesSound(t, None)
    BY <1>12, <2>2 DEF SesSound
  <2>4. k = "connect" => /\ p \in Came(t) /\ p \notin t.timers /\ ~Has(t, "connect", p)
                         /\ t.playerOf[p] = None /\ t.target[p] \in Proto
                         /\ p \in t.autosend \/ Quiet(t, p)
    <3> HAVE k = "connect"
    <3>1. /\ p \in s.timers => ~Has(s, "connect", p)
          /\ p \in s.timers \/ Has(s, "connect", p) => s.target[p] # None
          /\ s.target[p] # None => s.playerOf[p] = None
          /\ s.conn[p] = "new" \/ Has(s, "login", p) => Unborn(s, p)
      BY <1>1 DEF InOrder
    <3>2. s.target[p] # None /\ s.playerOf[p] = None /\ p \notin s.timers
      BY <1>5, <3>1
    <3>3. s.conn[p] # "new" /\ ~Has(s, "login", p)
      BY <3>1, <3>2 DEF Unborn
    <3>4. s.target[p] \in Proto
      BY <1>1, <3>2, Typed
    <3>5. p \in s.autosend \/ Quiet(s, p)
      BY <1>13, <3>2
    <3> QED
      BY <1>2, <1>3, <2>1, <3>2, <3>3, <3>4, <3>5 DEF Came
  <2> QED
    BY <1>15, <2>3, <2>4 DEF Found
<1>16. CASE k = "login"
  <2>1. /\ s.conn[p] = "new" => ~Has(s, "login", p)
        /\ s.conn[p] \in {"closed", "gone"} => Has(s, "release", p)
        /\ Unborn(s, p) /\ ~Quiet(s, p)
    BY <1>1, <1>5, <1>16 DEF InOrder, Quiet
  <2>2. p \in Came(t) /\ p \notin Came(s) /\ Unborn(t, p)
    BY <1>2, <1>3, <1>5, <1>6, <1>16, <2>1 DEF Came
  <2>3. ~Quiet(t, p)
    BY <1>2, <1>3, <1>16, <2>1 DEF Quiet
  <2>4. Sent(t, None)
    <3>1. t.playerOf[p] = None /\ t.target[p] = None
      BY <2>2 DEF Unborn
    <3> QED
      BY <1>11, <2>3, <3>1 DEF Sent
  <2>5. t.chains < Cardinality(Came(t))
    <3>1. Cardinality(Came(s)) # Cardinality(Came(t))
      BY <1>9, <1>10, <2>2, FS_Subset
    <3>2. s.chains <= Cardinality(Came(s))
      BY <1>1 DEF Sent
    <3> QED
      BY <1>2, <1>10, <3>1, <3>2
  <2> QED
    BY <1>12, <1>16, <2>2, <2>3, <2>4, <2>5 DEF SesSound, Found
<1> QED
  BY <1>14, <1>15, <1>16

-----------------------------------------------------------------------------
(* The tasks and the steps of the main thread *)

LEMMA LoginNewKeeps ==
  ASSUME NEW s, NEW p \in Proto, SesSound(s, None), p \in Came(s), Unborn(s, p), ~Quiet(s, p),
         s.chains < Cardinality(Came(s)), InGame(s) = {}, NEW t \in LoginNew(s, p)
  PROVE  SesSound(t, None)
<1> DEFINE made == Placed(s, p, "made")
<1> DEFINE placed == Placed(s, p, "inGame")
<1>1. s \in SesState /\ SesSound(s, p)
  BY ButForOne DEF SesSound
<1>2. t = SesClose(made, p) \/ t = AddToAutosend(placed, p)
  <2>1. made = [s EXCEPT !.stage[p] = "made", !.client[p] = p, !.playerOf[p] = p, !.refs[p] = 1]
    BY <1>1 DEF SesState, Placed
  <2>2. placed = [made EXCEPT !.stage[p] = "inGame", !.checked = @ \cup {p}, !.refs[p] = 3]
    <3>1. /\ made.stage = [s.stage EXCEPT ![p] = "made"] /\ made.checked = s.checked
          /\ made.refs = [s.refs EXCEPT ![p] = 1]
      BY <1>1 DEF SesState, Placed
    <3>2. /\ [made.stage EXCEPT ![p] = "inGame"] = [s.stage EXCEPT ![p] = "inGame"]
          /\ [made.refs EXCEPT ![p] = 3] = [s.refs EXCEPT ![p] = 3]
      BY <1>1, <3>1 DEF SesState
    <3>3. placed = [made EXCEPT !.stage = [s.stage EXCEPT ![p] = "inGame"],
                                !.checked = s.checked \cup {p},
                                !.refs = [s.refs EXCEPT ![p] = 3]]
      BY <1>1 DEF SesState, Placed
    <3> HIDE DEF made, placed
    <3> QED
      BY <3>1, <3>2, <3>3
  <2> HIDE DEF made, placed
  <2> QED
    BY <2>1, <2>2 DEF LoginNew, SesDisconnect
<1>3. /\ SesSound(made, p) /\ Alike(s, made, p)
      /\ made.playerOf[p] = p /\ made.stage[p] = "made"
  BY <1>1, MadeKeeps
<1>4. SesSound(placed, p) /\ Alike(s, placed, p)
  BY <1>1, MadeKeeps
<1> HIDE DEF made, placed
<1>5. CASE t = SesClose(made, p)
  <2>1. p # None
    BY SessionAssumption
  <2>2. SesSound(made, None)
    BY <1>3, <2>1, Settled DEF Alike
  <2> QED
    BY <1>5, <2>2, CloseSesKeeps
<1>6. CASE t = AddToAutosend(placed, p)
  <2>1. p \in Came(placed) /\ ~Quiet(placed, p) /\ placed.chains < Cardinality(Came(placed))
    BY <1>4 DEF Alike
  <2> QED
    BY <1>4, <1>6, <2>1, AutosendKeeps
<1> QED
  BY <1>2, <1>5, <1>6

LEMMA LoginAgainKeeps ==
  ASSUME NEW s, NEW p \in Proto, SesSound(s, None), p \in Came(s), Unborn(s, p), ~Quiet(s, p),
         s.chains < Cardinality(Came(s)), NEW o \in InGame(s), NEW t, t = LoginAgain(s, p, o)
  PROVE  SesSound(t, None)
<1>1. s \in SesState /\ SesSound(s, p) /\ o \in Proto
  BY ButForOne DEF SesSound, InGame
<1>2. s.playerOf[p] = None /\ s.target[p] = None /\ p \notin s.timers /\ ~Has(s, "connect", p)
  BY DEF Unborn
<1>3. ASSUME NEW u, SesSound(u, p), Alike(s, u, p), t = AddToAutosend(u, p)
      PROVE  SesSound(t, None)
  <2>1. p \in Came(u) /\ ~Quiet(u, p) /\ u.chains < Cardinality(Came(u))
    BY <1>3 DEF Alike
  <2> QED
    BY <1>3, <2>1, AutosendKeeps
<1>4. CASE ~ReplaceKick
  BY <1>4, CloseSesKeeps DEF LoginAgain, SesDisconnect
<1>5. CASE ReplaceKick /\ s.client[o] = None
  <2> DEFINE u == Connect(s, p, o)
  <2>1. t = AddToAutosend(u, p)
    BY <1>2, <1>5 DEF LoginAgain
  <2>2. SesSound(u, p) /\ Alike(s, u, p)
    BY <1>1, <1>2, ConnectKeeps
  <2> HIDE DEF u
  <2> QED
    BY <1>3, <2>1, <2>2
<1>6. CASE ReplaceKick /\ s.client[o] # None
  <2> DEFINE u == SesClose(s, s.client[o])
  <2> DEFINE v == Delayed(u, p, o)
  <2>1. t = AddToAutosend(v, p)
    BY <1>2, <1>6 DEF LoginAgain, SesDisconnect, Delayed
  <2>2. s.client[o] \in Proto
    BY <1>1, <1>6, Typed
  <2>3. SesSound(u, p) /\ OnlyClosed(s, u)
    BY <1>1, <2>2, CloseSesKeeps
  <2> HIDE DEF u
  <2>4. ~Has(u, "connect", p) /\ u.playerOf[p] = None /\ p \in Came(u)
    BY <1>2, <2>3 DEF OnlyClosed, Alike
  <2>5. SesSound(v, p) /\ Alike(u, v, p)
    BY <1>1, <2>3, <2>4, DelayKeeps
  <2>6. Alike(s, v, p)
    BY <2>3, <2>5 DEF OnlyClosed, Alike
  <2> HIDE DEF v
  <2> QED
    BY <1>3, <2>1, <2>5, <2>6
<1> QED
  BY <1>4, <1>5, <1>6, SessionAssumption

LEMMA RunKeeps ==
  ASSUME SesInv, NEW p \in Proto, RunLogin(p) \/ RunConnect(p) \/ RunRelease(p) \/ RunLogout(p)
  PROVE  SesInv'
<1> DEFINE s == [ses EXCEPT !.tasks = Tail(@)]
<1>1. SesSound(ses, None) /\ ses \in SesState
  BY DEF SesInv, SesSound
<1>2. s = Taken(ses)
  BY <1>1 DEF SesState, Taken
<1>3. ASSUME NEW k \in {"login", "connect", "release", "logout"}, ses.tasks # <<>>,
             Head(ses.tasks) = <<k, p>>
      PROVE  Found(s, k, p)
  BY <1>1, <1>2, <1>3, TakenKeeps
<1>4. CASE RunLogin(p)
  <2>1. /\ ses.tasks # <<>> /\ Head(ses.tasks) = <<"login", p>>
        /\ IF InGame(s) = {} THEN ses' \in LoginNew(s, p)
           ELSE \E o \in InGame(s) : ses' = LoginAgain(s, p, o)
    BY <1>4 DEF RunLogin, Run
  <2>2. /\ SesSound(s, None) /\ p \in Came(s) /\ Unborn(s, p) /\ ~Quiet(s, p)
        /\ s.chains < Cardinality(Came(s))
    BY <1>3, <2>1 DEF Found
  <2> HIDE DEF s
  <2> QED
    BY <2>1, <2>2, LoginNewKeeps, LoginAgainKeeps DEF SesInv
<1>5. CASE RunConnect(p)
  <2>1. /\ ses.tasks # <<>> /\ Head(ses.tasks) = <<"connect", p>>
        /\ ses' = Connect(s, p, s.target[p])
    BY <1>5 DEF RunConnect, Run
  <2>2. /\ SesSound(s, None) /\ p \in Came(s) /\ p \notin s.timers /\ ~Has(s, "connect", p)
        /\ s.playerOf[p] = None /\ s.target[p] \in Proto
        /\ p \in s.autosend \/ Quiet(s, p)
    BY <1>3, <2>1 DEF Found
  <2> HIDE DEF s
  <2>3. SesSound(s, p)
    BY <2>2, ButForOne
  <2>4. SesSound(ses', p) /\ Alike(s, ses', p)
    BY <2>1, <2>2, <2>3, ConnectKeeps
  <2>5. Quiet(s, p) => p \notin s.autosend
    <3>1. Sent(s, None) /\ p # None
      BY <2>2, SessionAssumption DEF SesSound
    <3> QED
      BY <3>1 DEF Sent
  <2> QED
    BY <2>2, <2>4, <2>5, Settled DEF SesInv, Alike
<1>6. CASE RunRelease(p)
  <2>1. /\ ses.tasks # <<>> /\ Head(ses.tasks) = <<"release", p>> /\ ses' = Release(s, p)
    BY <1>6 DEF RunRelease, Run
  <2>2. SesSound(s, p) /\ Quiet(s, p)
    BY <1>3, <2>1 DEF Found
  <2> HIDE DEF s
  <2> QED
    BY <2>1, <2>2, ReleaseKeeps DEF SesInv
<1>7. CASE RunLogout(p)
  <2>1. /\ ses.tasks # <<>> /\ Head(ses.tasks) = <<"logout", p>>
        /\ ses' = LogOut(s, p) \/ ses' = s
    BY <1>7 DEF RunLogout, Run
  <2>2. SesSound(s, None)
    BY <1>3, <2>1 DEF Found
  <2> HIDE DEF s
  <2> QED
    BY <2>1, <2>2, LogOutKeeps DEF SesInv
<1> QED
  BY <1>4, <1>5, <1>6, <1>7

LEMMA FirstMessageKeeps ==
  ASSUME SesInv, NEW p \in Proto, FirstMessage(p)
  PROVE  SesInv'
<1> DEFINE s == ses
<1> DEFINE t == ses'
<1> DEFINE y == <<"login", p>>
<1>1. s \in SesState /\ InOrder(s) /\ Counted(s) /\ Sent(s, None)
  BY DEF SesInv, SesSound
<1>2. s.conn[p] = "new"
  BY DEF FirstMessage
<1>3. t = [s EXCEPT !.conn = [s.conn EXCEPT ![p] = "open"], !.tasks = Append(s.tasks, y)]
  BY <1>1 DEF FirstMessage, SesState
<1>4. /\ t.conn = [s.conn EXCEPT ![p] = "open"] /\ t.tasks = Append(s.tasks, y)
      /\ t.playerOf = s.playerOf /\ t.target = s.target /\ t.timers = s.timers
      /\ t.autosend = s.autosend /\ t.chains = s.chains /\ t.stage = s.stage
      /\ t.client = s.client /\ t.waits = s.waits /\ t.checked = s.checked
      /\ t.releases = s.releases /\ t.refs = s.refs
  BY <1>1, <1>3 DEF SesState
<1>5. y \in Task /\ s.tasks \in Seq(Task)
  BY <1>1 DEF SesState, Task
<1>6. t \in SesState
  <2>1. t.tasks \in Seq({"login", "connect", "release", "logout"} \X Proto)
    BY <1>4, <1>5, AppendFacts DEF Task
  <2>2. t.conn \in [Proto -> {"new", "open", "closed", "gone"}]
    BY <1>1, <1>4 DEF SesState
  <2> QED
    BY <1>1, <1>3, <1>4, <2>1, <2>2 DEF SesState
<1>7. \A q \in Proto : t.conn[q] = IF q = p THEN "open" ELSE s.conn[q]
  BY <1>1, <1>4 DEF SesState
<1> HIDE DEF t
<1>8. \A k \in {"login", "connect", "release"}, q \in Proto :
        Has(t, k, q) <=> Has(s, k, q) \/ (k = "login" /\ q = p)
  BY <1>4, <1>5, AppendFacts DEF Has
<1>9. ~Has(s, "login", p) /\ ~Has(s, "release", p) /\ Unborn(s, p)
  BY <1>1, <1>2 DEF InOrder
<1>10. InOrder(t)
  <2>1. ASSUME NEW q \in Proto, NEW k \in {"login", "connect", "release"}
        PROVE  Once(t.tasks, <<k, q>>)
    <3>1. Once(s.tasks, <<k, q>>)
      BY <1>1 DEF InOrder
    <3>2. <<k, q>> = y => ~Contains(s.tasks, <<k, q>>)
      BY <1>9 DEF Has
    <3> QED
      BY <3>1, <3>2, <1>4, <1>5, AppendFacts
  <2>2. ASSUME NEW q \in Proto
        PROVE  Before(t.tasks, <<"login", q>>, <<"release", q>>)
    <3>1. Before(s.tasks, <<"login", q>>, <<"release", q>>)
      BY <1>1 DEF InOrder
    <3>2. <<"login", q>> = y => ~Contains(s.tasks, <<"release", q>>)
      BY <1>9 DEF Has
    <3> QED
      BY <3>1, <3>2, <1>4, <1>5, AppendFacts
  <2>3. \A q \in Proto : Unborn(s, q) => Unborn(t, q)
    BY <1>4, <1>8 DEF Unborn
  <2>4. \A q \in Proto : /\ t.conn[q] \in {"new", "open"} => ~Has(t, "release", q)
                         /\ t.conn[q] = "new" => ~Has(t, "login", q)
                         /\ t.conn[q] \in {"closed", "gone"} /\ Has(t, "login", q) => Has(t, "release", q)
                         /\ t.conn[q] = "new" \/ Has(t, "login", q) => Unborn(t, q)
    BY <1>1, <1>7, <1>8, <1>9, <2>3 DEF InOrder
  <2>5. \A q \in Proto : /\ q \in t.timers => ~Has(t, "connect", q)
                         /\ q \in t.timers \/ Has(t, "connect", q) => t.target[q] # None
                         /\ t.target[q] # None => t.playerOf[q] = None
    BY <1>1, <1>4, <1>8 DEF InOrder
  <2> QED
    BY <2>1, <2>2, <2>4, <2>5 DEF InOrder
<1>11. Counted(t)
  BY <1>1, <1>4 DEF Counted
<1>12. \A q \in Proto : q # p => (Quiet(t, q) <=> Quiet(s, q))
  BY <1>7, <1>8 DEF Quiet
<1>13. ~Quiet(t, p)
  BY <1>7 DEF Quiet
<1>14. Came(t) = Came(s)
  BY <1>2, <1>7, <1>8 DEF Came
<1>15. Sent(t, None)
  <2>1. t.playerOf[p] = None /\ t.target[p] = None
    BY <1>4, <1>9 DEF Unborn
  <2> QED
    BY <1>1, <1>4, <1>12, <1>13, <1>14, <2>1 DEF Sent
<1> QED
  BY <1>6, <1>10, <1>11, <1>15 DEF SesInv, SesSound, t

LEMMA DropKeeps ==
  ASSUME SesInv, NEW p \in Proto, DropConnection(p)
  PROVE  SesInv'
<1> DEFINE s == ses
<1> DEFINE t == ses'
<1>1. s \in SesState /\ InOrder(s) /\ Counted(s) /\ Sent(s, None)
  BY DEF SesInv, SesSound
<1>2. s.conn[p] = "closed"
  BY DEF DropConnection
<1>3. t = [s EXCEPT !.conn = [s.conn EXCEPT ![p] = "gone"]]
  BY <1>1 DEF DropConnection, SesState
<1>4. /\ t.conn = [s.conn EXCEPT ![p] = "gone"] /\ t.tasks = s.tasks
      /\ t.playerOf = s.playerOf /\ t.target = s.target /\ t.timers = s.timers
      /\ t.autosend = s.autosend /\ t.chains = s.chains /\ t.stage = s.stage
      /\ t.client = s.client /\ t.waits = s.waits /\ t.checked = s.checked
      /\ t.releases = s.releases /\ t.refs = s.refs
  BY <1>1, <1>3 DEF SesState
<1>5. t \in SesState
  <2>1. t.conn \in [Proto -> {"new", "open", "closed", "gone"}]
    BY <1>1, <1>4 DEF SesState
  <2> QED
    BY <1>1, <1>3, <1>4, <2>1 DEF SesState
<1>6. \A q \in Proto : t.conn[q] = IF q = p THEN "gone" ELSE s.conn[q]
  BY <1>1, <1>4 DEF SesState
<1> HIDE DEF t
<1>7. \A k \in {"login", "connect", "release"}, q \in Proto : Has(t, k, q) <=> Has(s, k, q)
  BY <1>4 DEF Has
<1>8. InOrder(t)
  <2>1. \A q \in Proto : Unborn(s, q) => Unborn(t, q)
    BY <1>4, <1>7 DEF Unborn
  <2>2. \A q \in Proto : /\ t.conn[q] \in {"new", "open"} => ~Has(t, "release", q)
                         /\ t.conn[q] = "new" => ~Has(t, "login", q)
                         /\ t.conn[q] \in {"closed", "gone"} /\ Has(t, "login", q) => Has(t, "release", q)
                         /\ t.conn[q] = "new" \/ Has(t, "login", q) => Unborn(t, q)
    BY <1>1, <1>2, <1>6, <1>7, <2>1 DEF InOrder
  <2> QED
    BY <1>1, <1>4, <1>7, <2>2 DEF InOrder
<1>9. Counted(t)
  BY <1>1, <1>4 DEF Counted
<1>10. (\A q \in Proto : Quiet(t, q) <=> Quiet(s, q)) /\ Came(t) = Came(s)
  BY <1>2, <1>6, <1>7 DEF Quiet, Came
<1>11. Sent(t, None)
  BY <1>1, <1>4, <1>10 DEF Sent
<1> QED
  BY <1>5, <1>8, <1>9, <1>11 DEF SesInv, SesSound, t

LEMMA RequestKeeps ==
  ASSUME SesInv, NEW p \in Proto, RequestLogout(p)
  PROVE  SesInv'
<1> DEFINE s == ses
<1> DEFINE t == ses'
<1> DEFINE y == <<"logout", p>>
<1>1. s \in SesState /\ InOrder(s) /\ Counted(s) /\ Sent(s, None)
  BY DEF SesInv, SesSound
<1>2. t = [s EXCEPT !.tasks = Append(s.tasks, y)]
  BY <1>1 DEF RequestLogout, SesState
<1>3. /\ t.tasks = Append(s.tasks, y) /\ t.conn = s.conn
      /\ t.playerOf = s.playerOf /\ t.target = s.target /\ t.timers = s.timers
      /\ t.autosend = s.autosend /\ t.chains = s.chains /\ t.stage = s.stage
      /\ t.client = s.client /\ t.waits = s.waits /\ t.checked = s.checked
      /\ t.releases = s.releases /\ t.refs = s.refs
  BY <1>1, <1>2 DEF SesState
<1>4. y \in Task /\ s.tasks \in Seq(Task)
  BY <1>1 DEF SesState, Task
<1>5. t \in SesState
  <2>1. t.tasks \in Seq({"login", "connect", "release", "logout"} \X Proto)
    BY <1>3, <1>4, AppendFacts DEF Task
  <2> QED
    BY <1>1, <1>2, <1>3, <2>1 DEF SesState
<1> HIDE DEF t
<1>6. \A k \in {"login", "connect", "release"}, q \in Proto : Has(t, k, q) <=> Has(s, k, q)
  BY <1>3, <1>4, AppendFacts DEF Has
<1>7. InOrder(t)
  <2>1. \A q \in Proto, k \in {"login", "connect", "release"} :
          <<k, q>> # y /\ Once(s.tasks, <<k, q>>)
    BY <1>1 DEF InOrder
  <2>2. ASSUME NEW q \in Proto, NEW k \in {"login", "connect", "release"}
        PROVE  Once(t.tasks, <<k, q>>)
    <3>1. <<k, q>> # y /\ Once(s.tasks, <<k, q>>)
      BY <2>1
    <3> QED
      BY <3>1, <1>3, <1>4, AppendFacts
  <2>3. ASSUME NEW q \in Proto
        PROVE  Before(t.tasks, <<"login", q>>, <<"release", q>>)
    <3>1. Before(s.tasks, <<"login", q>>, <<"release", q>>) /\ <<"login", q>> # y
      BY <1>1 DEF InOrder
    <3> QED
      BY <3>1, <1>3, <1>4, AppendFacts
  <2>4. \A q \in Proto : Unborn(s, q) => Unborn(t, q)
    BY <1>3, <1>6 DEF Unborn
  <2>5. t.conn = s.conn /\ t.timers = s.timers /\ t.target = s.target /\ t.playerOf = s.playerOf
    BY <1>3
  <2> QED
    BY <1>1, <1>6, <2>2, <2>3, <2>4, <2>5 DEF InOrder
<1>8. Counted(t)
  BY <1>1, <1>3 DEF Counted
<1>9. (\A q \in Proto : Quiet(t, q) <=> Quiet(s, q)) /\ Came(t) = Came(s)
  BY <1>3, <1>6 DEF Quiet, Came
<1>10. Sent(t, None)
  BY <1>1, <1>3, <1>9 DEF Sent
<1> QED
  BY <1>5, <1>7, <1>8, <1>10 DEF SesInv, SesSound, t

LEMMA TimerKeeps ==
  ASSUME SesInv, NEW p \in Proto, TimerExpires(p)
  PROVE  SesInv'
<1> DEFINE s == ses
<1> DEFINE t == ses'
<1> DEFINE y == <<"connect", p>>
<1>1. s \in SesState /\ InOrder(s) /\ Counted(s) /\ Sent(s, None)
  BY DEF SesInv, SesSound
<1>2. p \in s.timers
  BY DEF TimerExpires
<1>3. t = [s EXCEPT !.timers = s.timers \ {p}, !.tasks = Append(s.tasks, y)]
  BY <1>1 DEF TimerExpires, SesState
<1>4. /\ t.timers = s.timers \ {p} /\ t.tasks = Append(s.tasks, y)
      /\ t.conn = s.conn /\ t.playerOf = s.playerOf /\ t.target = s.target
      /\ t.autosend = s.autosend /\ t.chains = s.chains /\ t.stage = s.stage
      /\ t.client = s.client /\ t.waits = s.waits /\ t.checked = s.checked
      /\ t.releases = s.releases /\ t.refs = s.refs
  BY <1>1, <1>3 DEF SesState
<1>5. y \in Task /\ s.tasks \in Seq(Task)
  BY <1>1 DEF SesState, Task
<1>6. t \in SesState
  <2>1. t.tasks \in Seq({"login", "connect", "release", "logout"} \X Proto)
    BY <1>4, <1>5, AppendFacts DEF Task
  <2>2. t.timers \in SUBSET Proto
    BY <1>1, <1>4 DEF SesState
  <2> QED
    BY <1>1, <1>3, <1>4, <2>1, <2>2 DEF SesState
<1> HIDE DEF t
<1>7. \A k \in {"login", "connect", "release"}, q \in Proto :
        Has(t, k, q) <=> Has(s, k, q) \/ (k = "connect" /\ q = p)
  BY <1>4, <1>5, AppendFacts DEF Has
<1>8. ~Has(s, "connect", p) /\ s.target[p] # None /\ ~Unborn(s, p)
  BY <1>1, <1>2 DEF InOrder, Unborn
<1>9. InOrder(t)
  <2>1. ASSUME NEW q \in Proto, NEW k \in {"login", "connect", "release"}
        PROVE  Once(t.tasks, <<k, q>>)
    <3>1. Once(s.tasks, <<k, q>>)
      BY <1>1 DEF InOrder
    <3>2. <<k, q>> = y => ~Contains(s.tasks, <<k, q>>)
      BY <1>8 DEF Has
    <3> QED
      BY <3>1, <3>2, <1>4, <1>5, AppendFacts
  <2>2. ASSUME NEW q \in Proto
        PROVE  Before(t.tasks, <<"login", q>>, <<"release", q>>)
    <3>1. Before(s.tasks, <<"login", q>>, <<"release", q>>) /\ <<"login", q>> # y
      BY <1>1 DEF InOrder
    <3> QED
      BY <3>1, <1>4, <1>5, AppendFacts
  <2>3. \A q \in Proto : Unborn(s, q) => Unborn(t, q)
    BY <1>4, <1>7, <1>8 DEF Unborn
  <2>4. \A q \in Proto : /\ t.conn[q] \in {"new", "open"} => ~Has(t, "release", q)
                         /\ t.conn[q] = "new" => ~Has(t, "login", q)
                         /\ t.conn[q] \in {"closed", "gone"} /\ Has(t, "login", q) => Has(t, "release", q)
                         /\ t.conn[q] = "new" \/ Has(t, "login", q) => Unborn(t, q)
    BY <1>1, <1>4, <1>7, <2>3 DEF InOrder
  <2>5. \A q \in Proto : /\ q \in t.timers => ~Has(t, "connect", q)
                         /\ q \in t.timers \/ Has(t, "connect", q) => t.target[q] # None
                         /\ t.target[q] # None => t.playerOf[q] = None
    BY <1>1, <1>4, <1>7, <1>8 DEF InOrder
  <2> QED
    BY <2>1, <2>2, <2>4, <2>5 DEF InOrder
<1>10. Counted(t)
  BY <1>1, <1>4 DEF Counted
<1>11. (\A q \in Proto : Quiet(t, q) <=> Quiet(s, q)) /\ Came(t) = Came(s)
  BY <1>4, <1>7 DEF Quiet, Came
<1>12. Sent(t, None)
  BY <1>1, <1>4, <1>11 DEF Sent
<1> QED
  BY <1>6, <1>9, <1>10, <1>12 DEF SesInv, SesSound, t

LEMMA CheckKeeps ==
  ASSUME SesInv, NEW why, CheckCreatures(why)
  PROVE  SesInv'
<1> DEFINE gone == {o \in ses.checked : ses.stage[o] # "inGame"}
<1> DEFINE TakenOff(s) ==
             [s EXCEPT !.checked = @ \ gone,
                       !.releases = [o \in Proto |-> @[o] + IF o \in gone THEN 1 ELSE 0]]
<1>1. SesSound(ses, None) /\ ses \in SesState
  BY DEF SesInv, SesSound
<1>2. \/ ses' = Cleanup(TakenOff(ses))
      \/ \E o \in InGame(ses) : ses' = Cleanup(TakenOff(KickPlayer(ses, o)))
  BY DEF CheckCreatures
<1>3. ASSUME NEW s, SesSound(s, None), gone \subseteq s.checked, \A o \in gone : s.stage[o] # "inGame",
             ses' = Cleanup(TakenOff(s))
      PROVE  SesInv'
  <2> DEFINE u == TakenOff(s)
  <2>1. SesSound(u, None)
    <3>1. gone \in SUBSET s.checked
      BY <1>3
    <3> HIDE DEF gone
    <3> QED
      BY <1>3, <3>1, TakenOffKeeps
  <2>2. ses' = Cleanup(u)
    BY <1>3
  <2> HIDE DEF u
  <2> QED
    BY <2>1, <2>2, CleanupKeeps DEF SesInv
<1>4. ASSUME NEW o \in InGame(ses)
      PROVE  LET s == KickPlayer(ses, o)
             IN  /\ SesSound(s, None) /\ gone \subseteq s.checked
                 /\ \A a \in gone : s.stage[a] # "inGame"
  <2> DEFINE s == KickPlayer(ses, o)
  <2>1. o \in Proto
    BY DEF InGame
  <2>2. SesSound(s, None)
    BY <1>1, <2>1, KickKeeps
  <2>3. s.checked = ses.checked /\ \A a \in Proto : ses.stage[a] # "inGame" => s.stage[a] # "inGame"
    <3>1. ASSUME NEW r, SesSound(r, None), NEW a \in Proto, NEW v, v = RemoveCreature(r, a)
          PROVE  /\ v.checked = r.checked
                 /\ \A b \in Proto : r.stage[b] # "inGame" => v.stage[b] # "inGame"
      BY <3>1 DEF RemoveCreature, SesSound, SesState
    <3>2. ASSUME NEW p \in Proto, NEW v, v = LogOut(ses, p)
          PROVE  /\ v.checked = ses.checked
                 /\ \A b \in Proto : ses.stage[b] # "inGame" => v.stage[b] # "inGame"
      <4>1. CASE ses.playerOf[p] = None
        BY <3>2, <4>1 DEF LogOut
      <4>2. CASE ses.playerOf[p] # None
        <5> DEFINE r == SesClose(ses, p)
        <5>1. SesSound(r, None)
          BY <1>1, CloseSesKeeps
        <5>2. r.checked = ses.checked /\ r.stage = ses.stage
          BY <1>1 DEF SesClose, SesState
        <5>3. v = RemoveCreature(r, ses.playerOf[p]) /\ ses.playerOf[p] \in Proto
          BY <1>1, <3>2, <4>2, Typed DEF LogOut, SesDisconnect
        <5> HIDE DEF r
        <5> QED
          BY <3>1, <5>1, <5>2, <5>3
      <4> QED
        BY <4>1, <4>2
    <3>3. ses.client[o] # None => ses.client[o] \in Proto
      BY <1>1, <2>1, Typed
    <3> QED
      BY <1>1, <2>1, <3>1, <3>2, <3>3 DEF KickPlayer
  <2>4. \A a \in gone : a \in Proto /\ ses.stage[a] # "inGame"
    BY <1>1 DEF SesState
  <2> HIDE DEF s
  <2> QED
    BY <2>2, <2>3, <2>4 DEF s
<1>5. CASE ses' = Cleanup(TakenOff(ses))
  BY <1>1, <1>3, <1>5
<1>6. CASE \E o \in InGame(ses) : ses' = Cleanup(TakenOff(KickPlayer(ses, o)))
  <2>1. PICK o \in InGame(ses) : ses' = Cleanup(TakenOff(KickPlayer(ses, o)))
    BY <1>6
  <2> DEFINE s == KickPlayer(ses, o)
  <2>2. SesSound(s, None) /\ gone \subseteq s.checked /\ \A a \in gone : s.stage[a] # "inGame"
    BY <1>4
  <2>3. ses' = Cleanup(TakenOff(s))
    BY <2>1
  <2> HIDE DEF s, gone, TakenOff
  <2> QED
    BY <1>3, <2>2, <2>3
<1> QED
  BY <1>2, <1>5, <1>6

LEMMA SendAllKeeps ==
  ASSUME SesInv, SendAll
  PROVE  SesInv'
<1> DEFINE s == ses
<1> DEFINE t == ses'
<1> DEFINE n == IF s.autosend = {} THEN s.chains - 1 ELSE s.chains
<1>1. s \in SesState /\ InOrder(s) /\ Counted(s) /\ Sent(s, None)
  BY DEF SesInv, SesSound
<1>2. t = [s EXCEPT !.chains = n] /\ s.chains > 0
  BY DEF SendAll
<1>3. /\ t.chains = n /\ t.conn = s.conn /\ t.tasks = s.tasks
      /\ t.playerOf = s.playerOf /\ t.target = s.target /\ t.timers = s.timers
      /\ t.autosend = s.autosend /\ t.stage = s.stage
      /\ t.client = s.client /\ t.waits = s.waits /\ t.checked = s.checked
      /\ t.releases = s.releases /\ t.refs = s.refs
  BY <1>1, <1>2 DEF SesState
<1>4. /\ n \in 0 .. Cardinality(Proto) /\ n <= s.chains /\ (s.autosend # {} => n > 0)
      /\ s.chains \in Nat
  <2>1. Cardinality(Proto) \in Nat /\ s.chains \in 0 .. Cardinality(Proto)
    BY <1>1, FS_CardinalityType, SessionAssumption DEF SesState
  <2> QED
    BY <1>2, <2>1
<1> HIDE DEF n
<1>5. t \in SesState
  BY <1>1, <1>2, <1>3, <1>4 DEF SesState
<1> HIDE DEF t
<1>6. \A k \in {"login", "connect", "release"}, q \in Proto : Has(t, k, q) <=> Has(s, k, q)
  BY <1>3 DEF Has
<1>7. InOrder(t)
  <2>1. \A q \in Proto : Unborn(s, q) => Unborn(t, q)
    BY <1>3, <1>6 DEF Unborn
  <2> QED
    BY <1>1, <1>3, <1>6, <2>1 DEF InOrder
<1>8. Counted(t)
  BY <1>1, <1>3 DEF Counted
<1>9. (\A q \in Proto : Quiet(t, q) <=> Quiet(s, q)) /\ Came(t) = Came(s)
  BY <1>3, <1>6 DEF Quiet, Came
<1>10. t.chains <= Cardinality(Came(t))
  <2>1. Came(s) \in SUBSET Proto
    BY DEF Came
  <2>2. Cardinality(Came(s)) \in Nat
    BY <2>1, FS_Subset, FS_CardinalityType, SessionAssumption
  <2>3. s.chains <= Cardinality(Came(s)) /\ n \in Nat
    BY <1>1, <1>4 DEF Sent
  <2> QED
    BY <1>3, <1>4, <1>9, <2>2, <2>3
<1>11. Sent(t, None)
  BY <1>1, <1>3, <1>4, <1>9, <1>10 DEF Sent
<1> QED
  BY <1>5, <1>7, <1>8, <1>11 DEF SesInv, SesSound, t

LEMMA SesInitially == ASSUME SesInit PROVE SesInv
<1>1. /\ ses.conn = [p \in Proto |-> "new"] /\ ses.tasks = <<>>
      /\ ses.playerOf = [p \in Proto |-> None] /\ ses.target = [p \in Proto |-> None]
      /\ ses.timers = {} /\ ses.autosend = {} /\ ses.chains = 0
      /\ ses.stage = [p \in Proto |-> "none"] /\ ses.client = [p \in Proto |-> None]
      /\ ses.waits = {} /\ ses.checked = {} /\ ses.releases = [p \in Proto |-> 0]
      /\ ses.refs = [p \in Proto |-> 0]
  BY DEF SesInit
<1>2. \A x : ~Contains(<<>>, x) /\ Once(<<>>, x)
  BY DEF Contains, Once
<1>3. Cardinality(Proto) \in Nat
  BY FS_CardinalityType, SessionAssumption
<1>4. ses \in SesState
  BY <1>3 DEF SesInit, SesState
<1>5. InOrder(ses)
  <2>1. \A k, q : ~Has(ses, k, q)
    BY <1>1, <1>2 DEF Has
  <2>2. \A k, q : Once(ses.tasks, <<k, q>>)
    BY <1>1, <1>2
  <2>3. \A q : Before(ses.tasks, <<"login", q>>, <<"release", q>>)
    BY <1>1 DEF Before
  <2>4. \A q \in Proto : ses.conn[q] = "new" /\ Unborn(ses, q)
    BY <1>1, <2>1 DEF Unborn
  <2>5. \A q \in Proto : ses.target[q] = None /\ ses.playerOf[q] = None /\ q \notin ses.timers
    BY <1>1
  <2> QED
    BY <2>1, <2>2, <2>3, <2>4, <2>5 DEF InOrder
<1>6. Counted(ses)
  BY <1>1, SessionAssumption DEF Counted, Bit
<1>7. Came(ses) = {}
  BY <1>1 DEF Came
<1>8. Cardinality(Came(ses)) = 0
  BY <1>7, FS_EmptySet
<1>9. Sent(ses, None)
  BY <1>1, <1>8 DEF Sent, Quiet
<1> QED
  BY <1>4, <1>5, <1>6, <1>9 DEF SesInv, SesSound

LEMMA SesStep == ASSUME SesInv, [SesNext]_ses PROVE SesInv'
<1>1. SesSound(ses, None)
  BY DEF SesInv
<1>2. ASSUME NEW p \in Proto, FirstMessage(p) PROVE SesInv'
  BY <1>2, FirstMessageKeeps
<1>3. ASSUME NEW p \in Proto, PeerCloses(p) PROVE SesInv'
  BY <1>1, <1>3, CloseSesKeeps DEF PeerCloses, SesInv
<1>4. ASSUME NEW p \in Proto, DropConnection(p) PROVE SesInv'
  BY <1>4, DropKeeps
<1>5. ASSUME NEW p \in Proto, RequestLogout(p) PROVE SesInv'
  BY <1>5, RequestKeeps
<1>6. ASSUME NEW p \in Proto, TimerExpires(p) PROVE SesInv'
  BY <1>6, TimerKeeps
<1>7. ASSUME NEW p \in Proto, RunLogin(p) \/ RunConnect(p) \/ RunRelease(p) \/ RunLogout(p)
      PROVE  SesInv'
  BY <1>7, RunKeeps
<1>8. ASSUME NEW p \in Proto, Die(p) PROVE SesInv'
  BY <1>1, <1>8, RemoveKeeps DEF Die, SesInv
<1>9. ASSUME NEW why, CheckCreatures(why) PROVE SesInv'
  BY <1>9, CheckKeeps
<1>10. CASE KickAll
  <2>1. PICK o \in InGame(ses) : ses' = KickPlayer(ses, o)
    BY <1>10 DEF KickAll
  <2>2. o \in Proto
    BY DEF InGame
  <2> QED
    BY <1>1, <2>1, <2>2, KickKeeps DEF SesInv
<1>11. CASE SendAll
  BY <1>11, SendAllKeeps
<1>12. CASE UNCHANGED ses
  BY <1>12 DEF SesInv, SesSound, InOrder, Counted, Sent, Has, Quiet, Came, Unborn
<1> QED
  BY <1>2, <1>3, <1>4, <1>5, <1>6, <1>7, <1>8, <1>9, <1>10, <1>11, <1>12 DEF SesNext

\* What the invariant says of the sets that the properties count.
LEMMA SesInvSuffices == ASSUME SesInv PROVE SessionsSound
<1>1. ses \in SesState /\ InOrder(ses) /\ Counted(ses) /\ Sent(ses, None)
  BY DEF SesInv, SesSound
<1>2. \A S : (\A a, b \in S : a = b) => Cardinality(S) = Bit(S # {}) /\ Cardinality(S) \in {0, 1}
  <2> SUFFICES ASSUME NEW S, \A a, b \in S : a = b
               PROVE  Cardinality(S) = Bit(S # {}) /\ Cardinality(S) \in {0, 1}
    OBVIOUS
  <2>1. CASE S = {}
    BY <2>1, FS_EmptySet DEF Bit
  <2>2. CASE S # {}
    <3>1. PICK a : a \in S
      BY <2>2
    <3>2. S = {a}
      BY <3>1
    <3> QED
      BY <2>2, <3>2, FS_Singleton DEF Bit
  <2> QED
    BY <2>1, <2>2
<1>3. Cardinality(InGame(ses)) <= 1
  <2>1. \A a, b \in InGame(ses) : a = b
    BY <1>1 DEF Counted, InGame
  <2>2. Cardinality(InGame(ses)) \in {0, 1}
    BY <1>2, <2>1
  <2> QED
    BY <2>2
<1>4. SessionsAgree
  <2> SUFFICES ASSUME NEW o \in Proto
               PROVE  /\ Held(o) = {p \in Proto : ses.client[o] = p}
                      /\ ses.refs[o] = Cardinality(Held(o)) + Cardinality({o} \cap (InGame(ses)))
                                       + Cardinality({o} \cap ses.checked) + ses.releases[o]
                      /\ ses.stage[o] \in {"none", "freed"} <=> ses.refs[o] = 0
    BY DEF SessionsAgree
  <2>1. /\ \A p \in Proto : ses.playerOf[p] = o <=> ses.client[o] = p
        /\ ses.refs[o] = Bit(ses.client[o] # None) + Bit(ses.stage[o] = "inGame")
                         + Bit(o \in ses.checked) + ses.releases[o]
        /\ ses.stage[o] \in {"none", "freed"} <=> ses.refs[o] = 0
    BY <1>1 DEF Counted
  <2>2. Held(o) = {p \in Proto : ses.client[o] = p}
    BY <2>1 DEF Held
  <2>3. Cardinality(Held(o)) = Bit(ses.client[o] # None)
    <3>1. \A a, b \in Held(o) : a = b
      BY <2>2
    <3>2. Held(o) # {} <=> ses.client[o] # None
      BY <1>1, <2>2, Typed
    <3>3. Cardinality(Held(o)) = Bit(Held(o) # {})
      BY <1>2, <3>1
    <3> QED
      BY <3>2, <3>3 DEF Bit
  <2>4. Cardinality({o} \cap InGame(ses)) = Bit(ses.stage[o] = "inGame")
    <3>1. {o} \cap InGame(ses) # {} <=> ses.stage[o] = "inGame"
      BY DEF InGame
    <3>2. Cardinality({o} \cap InGame(ses)) = Bit({o} \cap InGame(ses) # {})
      BY <1>2
    <3> QED
      BY <3>1, <3>2 DEF Bit
  <2>5. Cardinality({o} \cap ses.checked) = Bit(o \in ses.checked)
    <3>1. {o} \cap ses.checked # {} <=> o \in ses.checked
      OBVIOUS
    <3>2. Cardinality({o} \cap ses.checked) = Bit({o} \cap ses.checked # {})
      BY <1>2
    <3> QED
      BY <3>1, <3>2 DEF Bit
  <2> QED
    BY <2>1, <2>2, <2>3, <2>4, <2>5
<1>5. BuffersAreSent
  <2>1. \A p \in Proto : Released(p) <=> Quiet(ses, p)
    BY DEF Released, Quiet, Has
  <2>2. ASSUME NEW p \in Proto
        PROVE  /\ p \in ses.autosend \/ Late(p) \/ ses.playerOf[p] = None
                                     \/ ses.stage[ses.playerOf[p]] = "made"
               /\ Released(p) => p \notin ses.autosend
    <3>1. p # None
      BY SessionAssumption
    <3> QED
      BY <1>1, <2>1, <3>1 DEF Sent, Late
  <2>3. ses.autosend # {} => ses.chains > 0
    BY <1>1 DEF Sent
  <2> QED
    BY <2>2, <2>3 DEF BuffersAreSent
<1> QED
  BY <1>1, <1>3, <1>4, <1>5 DEF SessionsSound, SesTypeOK

\* Whatever protocols come, close, are kicked, log in and out and in whatever
\* order their tasks are run, protocols and players refer to each other or not
\* at all, every reference is counted, nobody holds a player that was deleted,
\* and what is buffered will be sent (protocolgame.cpp:140-285,
\* game.cpp:507-596, outputmessage.cpp:33-80).
THEOREM SessionsStaySound == SesSpec => []SessionsSound
<1>1. SesInit => SesInv
  BY SesInitially
<1>2. SesInv /\ [SesNext]_ses => SesInv'
  BY SesStep
<1>3. SesInv => SessionsSound
  BY SesInvSuffices
<1> QED
  BY <1>1, <1>2, <1>3, PTL DEF SesSpec

-----------------------------------------------------------------------------
(* The waiting list *)

\* Of the sets in T, one has no other as a subset; of numbers, one is least.
LEMMA LeastSet ==
  ASSUME NEW X, IsFiniteSet(X), NEW T \in SUBSET (SUBSET X), T # {}
  PROVE  \E Z \in T : \A R \in T : R \subseteq Z => R = Z
<1>1. FiniteSubsetsOf(X) = SUBSET X
  BY FS_FiniteSubsetsOfFinite
<1>2. IsWellFoundedOn(StrictSubsetOrdering(X), SUBSET X)
  BY <1>1, FS_StrictSubsetOrderingWellFounded
<1>3. PICK Z \in T : \A R \in T : <<R, Z>> \notin StrictSubsetOrdering(X)
  BY <1>2, WFMin
<1> QED BY <1>3 DEF StrictSubsetOrdering

LEMMA LeastNumber ==
  ASSUME NEW K \in SUBSET Nat, NEW n \in K
  PROVE  \E m \in K : \A k \in K : m <= k
<1> DEFINE J == {j \in K : j <= n}
           T == {1..k : k \in J}
<1>1. IsFiniteSet(1..n)
  BY FS_Interval
<1>2. \A k \in J : 1..k \in SUBSET (1..n)
  OBVIOUS
<1>3. T \in SUBSET (SUBSET (1..n)) /\ T # {}
  BY <1>2
<1>4. PICK Z \in T : \A R \in T : R \subseteq Z => R = Z
  <2> HIDE DEF T
  <2> DEFINE X == 1..n
  <2>1. IsFiniteSet(X) /\ T \in SUBSET (SUBSET X) /\ T # {}
    BY <1>1, <1>3
  <2> HIDE DEF X
  <2>2. \E Z \in T : \A R \in T : R \subseteq Z => R = Z
    BY <2>1, LeastSet
  <2> QED BY <2>2
<1>5. PICK m \in J : Z = 1..m
  BY <1>4
<1>6. ASSUME NEW k \in K, k < m PROVE FALSE
  <2>1. k \in J /\ 1..k \in T /\ 1..k \subseteq 1..m
    BY <1>5, <1>6
  <2>2. 1..k = 1..m
    <3> HIDE DEF T
    <3> QED BY <1>4, <1>5, <2>1
  <2>3. m \in 1..m /\ m \notin 1..k
    BY <1>5, <1>6
  <2> QED BY <2>2, <2>3
<1>7. m \in K /\ m \in Nat
  BY <1>5
<1>8. \A k \in K : m <= k
  <2> HIDE DEF J, T
  <2> TAKE k \in K
  <2>1. k \in Nat /\ ~(k < m)
    BY <1>6
  <2> QED BY <1>7, <2>1
<1> HIDE DEF J, T
<1> QED BY <1>7, <1>8

\* S holds every number up to n.
LEMMA UpToTheEnd ==
  ASSUME NEW n \in Nat, NEW S, 0 \in S, \A k \in 1..n : k - 1 \in S => k \in S
  PROVE  n \in S
<1> DEFINE K == {k \in 0..n : k \notin S}
<1> SUFFICES ASSUME n \notin S PROVE FALSE
  OBVIOUS
<1>1. n \in K /\ K \in SUBSET Nat
  OBVIOUS
<1>2. PICK m \in K : \A k \in K : m <= k
  <2> HIDE DEF K
  <2> QED BY <1>1, LeastNumber
<1>3. m \in 1..n /\ m - 1 \notin K
  BY <1>2
<1>4. m - 1 \in S
  BY <1>3
<1> QED BY <1>2, <1>3, <1>4

WaitEntry == [left : Nat, who : Client \cup {Stamp}]

\* No client has two entries in a list, ...
OneEach(list) == \A j, k \in DOMAIN list : list[j].who = list[k].who => j = k \/ list[j].who = Stamp

\* ... nor one in each; and who is in list was in old.
Apart(pri, wait) == \A j \in DOMAIN pri, k \in DOMAIN wait : pri[j].who = wait[k].who => pri[j].who = Stamp
Within(list, old) == \A j \in DOMAIN list : list[j].who = Stamp \/ \E k \in DOMAIN old : list[j].who = old[k].who

Lined(list) == list \in Seq(WaitEntry) /\ OneEach(list)

LEMMA WithinIs ==
  ASSUME NEW l, NEW m, Apart(l, m), NEW u, NEW v, Within(u, l), Within(v, m)
  PROVE  Apart(u, v)
<1> SUFFICES ASSUME NEW j \in DOMAIN u, NEW k \in DOMAIN v, u[j].who = v[k].who, u[j].who # Stamp
             PROVE  FALSE
  BY DEF Apart
<1>1. PICK a \in DOMAIN l : u[j].who = l[a].who
  BY DEF Within
<1>2. PICK b \in DOMAIN m : v[k].who = m[b].who
  BY DEF Within
<1> QED BY <1>1, <1>2 DEF Apart

\* The n entries from base on that steps of G make exist.
LEMMA EntriesExist ==
  ASSUME NEW n \in Nat, NEW Y, NEW base \in Y, NEW G \in [1..n -> [Y -> Y]]
  PROVE  \E f : f = [k \in 0..n |-> IF k = 0 THEN base ELSE G[k][f[k - 1]]]
<1> DEFINE Upto(m, f) == f[0] = base /\ \A k \in 1..m : f[k] = G[k][f[k - 1]]
           S == {m \in 0..n : \E f \in [0..n -> Y] : Upto(m, f)}
<1>1. 0 \in S
  <2> DEFINE f == [k \in 0..n |-> base]
  <2>1. f \in [0..n -> Y] /\ f[0] = base /\ 1..0 = {} /\ 0 \in 0..n
    OBVIOUS
  <2> HIDE DEF f
  <2>2. Upto(0, f)
    BY <2>1
  <2>3. \E g \in [0..n -> Y] : Upto(0, g)
    <3> HIDE DEF Upto
    <3> QED BY <2>1, <2>2
  <2> QED BY <2>1, <2>3
<1>2. ASSUME NEW m \in 1..n, m - 1 \in S PROVE m \in S
  <2>1. PICK f \in [0..n -> Y] : Upto(m - 1, f)
    BY <1>2
  <2>2. m \in 0..n /\ m - 1 \in 0..n /\ f[m - 1] \in Y /\ G[m][f[m - 1]] \in Y
    OBVIOUS
  <2> DEFINE g == [f EXCEPT ![m] = G[m][f[m - 1]]]
  <2>3. g \in [0..n -> Y] /\ g[m] = G[m][f[m - 1]] /\ \A k \in 0..n \ {m} : g[k] = f[k]
    BY <2>2
  <2> HIDE DEF g
  <2>4. g[0] = base
    BY <2>1, <2>3
  <2>5. ASSUME NEW k \in 1..m PROVE g[k] = G[k][g[k - 1]]
    <3>1. g[k - 1] = f[k - 1]
      BY <2>3
    <3>2. k # m => k \in 1..(m - 1) /\ g[k] = f[k]
      BY <2>3
    <3>3. k # m => f[k] = G[k][f[k - 1]]
      BY <2>1, <3>2
    <3> QED BY <2>3, <3>1, <3>2, <3>3
  <2> QED BY <2>2, <2>3, <2>4, <2>5
<1>3. n \in S
  <2> HIDE DEF S
  <2> QED BY <1>1, <1>2, UpToTheEnd
<1>4. PICK f \in [0..n -> Y] : Upto(n, f)
  BY <1>3
<1>5. \A k \in 0..n : f[k] = IF k = 0 THEN base ELSE G[k][f[k - 1]]
  BY <1>4
<1>6. f = [k \in 0..n |-> IF k = 0 THEN base ELSE G[k][f[k - 1]]]
  BY <1>5
<1> QED BY <1>6

\* Timing out leaves nobody twice, and nobody new.
LEMMA CleanupIs ==
  ASSUME NEW list, Lined(list), NEW t, t = cleanupList(list)
  PROVE  Lined(t) /\ Within(t, list) /\ Len(t) <= Len(list)
<1> DEFINE n == Len(list)
           Y == Seq(WaitEntry)
           G == [k \in 1..n |-> [u \in Y |-> IF list[k].left > 0 THEN Append(u, list[k]) ELSE u]]
           IsKept(f) == f = [k \in 0..n |-> IF k = 0 THEN <<>>
                             ELSE IF list[k].left > 0 THEN Append(f[k - 1], list[k]) ELSE f[k - 1]]
           f == CHOOSE f : IsKept(f)
           J(u, k) == /\ u \in Y /\ OneEach(u) /\ Len(u) <= k
                      /\ \A i \in DOMAIN u : \E j \in 1..k : u[i] = list[j]
           S == {k \in 0..n : J(f[k], k)}
<1>1. list \in Y /\ OneEach(list) /\ n \in Nat /\ DOMAIN list = 1..n /\ \A k \in 1..n : list[k] \in WaitEntry
  BY DEF Lined
<1>2. t = f[n]
  BY DEF cleanupList
<1>3. \E g : IsKept(g)
  <2>1. <<>> \in Y /\ G \in [1..n -> [Y -> Y]]
    BY <1>1
  <2> DEFINE IsSteps(g) == g = [k \in 0..n |-> IF k = 0 THEN <<>> ELSE G[k][g[k - 1]]]
  <2>2. PICK g : IsSteps(g)
    <3> HIDE DEF n, Y, G
    <3> QED BY <1>1, <2>1, EntriesExist
  <2>3. ASSUME NEW k \in 0..n
        PROVE  /\ g[k] \in Y
               /\ g[k] = IF k = 0 THEN <<>> ELSE IF list[k].left > 0 THEN Append(g[k - 1], list[k]) ELSE g[k - 1]
    <3> DEFINE T == {m \in 0..n : g[m] \in Y}
    <3>1. 0 \in T
      BY <1>1, <2>1, <2>2
    <3>2. ASSUME NEW m \in 1..n, m - 1 \in T PROVE m \in T
      <4>1. g[m] = G[m][g[m - 1]] /\ g[m - 1] \in Y
        <5> HIDE DEF G, Y
        <5> QED BY <1>1, <2>2, <3>2
      <4>2. g[m] \in Y
        <5> HIDE DEF G, Y
        <5> QED BY <2>1, <4>1
      <4> QED BY <4>2
    <3>3. \A m \in 1..k : m - 1 \in T => m \in T
      BY <1>1, <3>2
    <3>4. k \in T /\ (k # 0 => k - 1 \in T)
      <4>1. \A m \in 0..n : m \in T
        <5> SUFFICES ASSUME NEW m \in 0..n PROVE m \in T
          OBVIOUS
        <5>1. m \in Nat /\ \A i \in 1..m : i - 1 \in T => i \in T
          BY <1>1, <3>2
        <5> HIDE DEF T
        <5> QED BY <3>1, <5>1, UpToTheEnd
      <4>2. k # 0 => k - 1 \in 0..n
        BY <1>1
      <4> QED BY <4>1, <4>2
    <3>5. k = 0 => g[k] = <<>>
      BY <2>2
    <3>6. k # 0 => k \in 1..n /\ g[k] = G[k][g[k - 1]]
      <4> HIDE DEF G
      <4> QED BY <1>1, <2>2
    <3> QED BY <3>4, <3>5, <3>6
  <2>4. IsKept(g)
    <3>1. g = [k \in 0..n |-> g[k]]
      BY <2>2
    <3> QED BY <2>3, <3>1
  <2> QED BY <2>4
<1>4. IsKept(f)
  <2> HIDE DEF IsKept
  <2> QED BY <1>3
<1> HIDE DEF f
<1>5. 0 \in S
  <2>1. f[0] = <<>>
    BY <1>1, <1>4
  <2>2. J(<<>>, 0)
    <3>1. <<>> \in Y /\ Len(<<>>) = 0 /\ DOMAIN <<>> = {}
      OBVIOUS
    <3> QED BY <3>1 DEF OneEach
  <2>3. J(f[0], 0) /\ 0 \in 0..n
    BY <1>1, <2>1, <2>2
  <2> HIDE DEF J
  <2> QED BY <2>3
<1>6. ASSUME NEW k \in 1..n, k - 1 \in S PROVE k \in S
  <2> DEFINE u == f[k - 1]
             e == list[k]
  <2>1. /\ u \in Y /\ OneEach(u) /\ Len(u) <= k - 1
        /\ \A i \in DOMAIN u : \E j \in 1..(k - 1) : u[i] = list[j]
        /\ k \in 0..n /\ k # 0 /\ e \in WaitEntry
    BY <1>1, <1>6
  <2>2. f[k] = IF e.left > 0 THEN Append(u, e) ELSE u
    BY <1>4, <2>1
  <2> HIDE DEF u, e
  <2>3. CASE e.left > 0
    <3> DEFINE v == Append(u, e)
    <3>1. /\ v \in Y /\ Len(v) = Len(u) + 1 /\ Len(u) \in Nat /\ v[Len(u) + 1] = e
          /\ DOMAIN u = 1..Len(u) /\ DOMAIN v = 1..(Len(u) + 1)
          /\ \A i \in 1..Len(u) : v[i] = u[i]
      BY <2>1
    <3> HIDE DEF v
    <3>2. ASSUME NEW i \in DOMAIN v PROVE \E j \in 1..k : v[i] = list[j]
      <4>1. CASE i = Len(u) + 1
        BY <3>1, <4>1 DEF e
      <4>2. CASE i # Len(u) + 1
        <5>1. i \in DOMAIN u /\ v[i] = u[i]
          BY <3>1, <4>2
        <5> QED BY <2>1, <5>1
      <4> QED BY <4>1, <4>2
    <3>3. ASSUME NEW i \in DOMAIN u, u[i].who = e.who PROVE e.who = Stamp
      <4>1. PICK j \in 1..(k - 1) : u[i] = list[j]
        BY <2>1
      <4>2. j \in 1..n /\ j # k /\ list[j].who = list[k].who
        BY <1>1, <3>3, <4>1 DEF e
      <4> QED BY <1>1, <4>2 DEF OneEach, e
    <3>4. OneEach(v)
      <4> SUFFICES ASSUME NEW i \in DOMAIN v, NEW j \in DOMAIN v, v[i].who = v[j].who, v[i].who # Stamp
                   PROVE  i = j
        BY DEF OneEach
      <4>1. CASE i = Len(u) + 1 \/ j = Len(u) + 1
        BY <3>1, <3>3, <4>1
      <4>2. CASE i # Len(u) + 1 /\ j # Len(u) + 1
        <5>1. i \in DOMAIN u /\ j \in DOMAIN u /\ v[i] = u[i] /\ v[j] = u[j]
          BY <3>1, <4>2
        <5> QED BY <2>1, <5>1 DEF OneEach
      <4> QED BY <4>1, <4>2
    <3>5. f[k] = v
      BY <2>2, <2>3 DEF v
    <3>6. Len(v) <= k
      BY <2>1, <3>1
    <3> QED BY <2>1, <3>1, <3>2, <3>4, <3>5, <3>6
  <2>4. CASE ~(e.left > 0)
    <3>1. f[k] = u
      BY <2>2, <2>4
    <3>2. \A i \in DOMAIN u : \E j \in 1..k : u[i] = list[j]
      BY <2>1
    <3>3. Len(u) <= k
      BY <2>1
    <3> QED BY <2>1, <3>1, <3>2, <3>3
  <2> QED BY <2>3, <2>4
<1>7. n \in S
  <2> HIDE DEF S, n
  <2> QED BY <1>1, <1>5, <1>6, UpToTheEnd
<1>8. J(t, n)
  BY <1>2, <1>7
<1> QED BY <1>1, <1>8 DEF Lined, Within

LEMMA RemoveIs ==
  ASSUME NEW list, Lined(list), NEW at \in DOMAIN list, NEW t, t = RemoveAt(list, at)
  PROVE  Lined(t) /\ Within(t, list) /\ Len(t) <= Len(list)
<1> DEFINE n == Len(list)
           from == [i \in 1..(n - 1) |-> IF i < at THEN i ELSE i + 1]
<1>1. list \in Seq(WaitEntry) /\ OneEach(list) /\ n \in Nat /\ DOMAIN list = 1..n /\ at \in 1..n
  BY DEF Lined
<1>2. t = SubSeq(list, 1, at - 1) \o SubSeq(list, at + 1, n)
  BY DEF RemoveAt
<1>3. t \in Seq(WaitEntry) /\ Len(t) = n - 1 /\ DOMAIN t = 1..(n - 1)
  <2> DEFINE u == SubSeq(list, 1, at - 1)
             v == SubSeq(list, at + 1, n)
  <2>1. u \in Seq(WaitEntry) /\ Len(u) = at - 1
    BY <1>1, SubSeqProperties
  <2>2. v \in Seq(WaitEntry) /\ Len(v) = n - at
    BY <1>1, SubSeqProperties
  <2> HIDE DEF u, v
  <2>3. u \o v \in Seq(WaitEntry) /\ Len(u \o v) = Len(u) + Len(v)
    BY <2>1, <2>2
  <2>4. t = u \o v
    BY <1>2 DEF u, v
  <2>5. Len(u \o v) = n - 1
    BY <1>1, <2>1, <2>2, <2>3
  <2>6. DOMAIN t = 1..Len(t)
    BY <2>3, <2>4
  <2> QED BY <2>3, <2>4, <2>5, <2>6
<1>4. \A i \in 1..(n - 1) : t[i] = list[from[i]]
  <2> DEFINE u == SubSeq(list, 1, at - 1)
             v == SubSeq(list, at + 1, n)
  <2>1. u \in Seq(WaitEntry) /\ Len(u) = at - 1 /\ \A i \in 1..(at - 1) : u[i] = list[i]
    BY <1>1, SubSeqProperties
  <2>2. v \in Seq(WaitEntry) /\ Len(v) = n - at /\ \A i \in 1..(n - at) : v[i] = list[at + i]
    BY <1>1, SubSeqProperties
  <2> HIDE DEF u, v
  <2>4. t = u \o v
    BY <1>2 DEF u, v
  <2> SUFFICES ASSUME NEW i \in 1..(n - 1) PROVE t[i] = list[IF i < at THEN i ELSE i + 1]
    OBVIOUS
  <2>5. CASE i < at
    <3>1. i \in 1..Len(u)
      BY <1>1, <2>1, <2>5
    <3>2. (u \o v)[i] = u[i]
      BY <2>1, <2>2, <3>1
    <3> QED BY <1>1, <2>1, <2>4, <2>5, <3>1, <3>2
  <2>6. CASE ~(i < at)
    <3>1. i - Len(u) \in 1..Len(v) /\ i = Len(u) + (i - Len(u)) /\ i - Len(u) = i - at + 1
      BY <1>1, <2>1, <2>2, <2>6
    <3>2. (u \o v)[i] = v[i - Len(u)]
      <4>1. i \in 1..(Len(u) + Len(v)) /\ ~(i <= Len(u))
        BY <1>1, <2>1, <2>2, <2>6
      <4> QED BY <2>1, <2>2, <4>1, ConcatProperties
    <3>3. i - at + 1 \in 1..(n - at) /\ at + (i - at + 1) = i + 1
      BY <1>1, <2>1, <2>2, <3>1
    <3>4. v[i - at + 1] = list[at + (i - at + 1)]
      BY <2>2, <3>3
    <3> QED BY <2>4, <2>6, <3>1, <3>2, <3>3, <3>4
  <2> QED BY <2>5, <2>6
<1>5. \A i, j \in 1..(n - 1) : from[i] \in 1..n /\ (from[i] = from[j] => i = j)
  BY <1>1
<1> HIDE DEF from
<1>6. OneEach(t)
  <2> SUFFICES ASSUME NEW i \in DOMAIN t, NEW j \in DOMAIN t, t[i].who = t[j].who, t[i].who # Stamp
               PROVE  i = j
    BY DEF OneEach
  <2>1. /\ i \in 1..(n - 1) /\ j \in 1..(n - 1) /\ t[i] = list[from[i]] /\ t[j] = list[from[j]]
        /\ from[i] \in DOMAIN list /\ from[j] \in DOMAIN list
    BY <1>1, <1>3, <1>4, <1>5
  <2>2. from[i] = from[j]
    BY <1>1, <2>1 DEF OneEach
  <2> QED BY <1>5, <2>1, <2>2
<1>7. Within(t, list)
  BY <1>1, <1>3, <1>4, <1>5 DEF Within
<1> QED BY <1>1, <1>3, <1>6, <1>7 DEF Lined

LEMMA StampIs ==
  ASSUME NEW list, Lined(list), NEW at \in DOMAIN list, NEW t, t = [list EXCEPT ![at].who = Stamp]
  PROVE  Lined(t) /\ Within(t, list) /\ Len(t) = Len(list)
<1>1. list \in Seq(WaitEntry) /\ OneEach(list) /\ Len(list) \in Nat /\ DOMAIN list = 1..Len(list)
  BY DEF Lined
<1>2. DOMAIN t = DOMAIN list /\ t[at].who = Stamp /\ \A k \in DOMAIN list \ {at} : t[k] = list[k]
  BY <1>1 DEF WaitEntry
<1>3. t[at] \in WaitEntry
  <2>1. list[at] \in WaitEntry /\ t[at] = [list[at] EXCEPT !.who = Stamp]
    BY <1>1
  <2> QED BY <2>1 DEF WaitEntry
<1>4. t \in Seq(WaitEntry) /\ Len(t) = Len(list)
  <2>1. \A k \in 1..Len(list) : t[k] \in WaitEntry
    BY <1>1, <1>2, <1>3
  <2>2. t = [k \in 1..Len(list) |-> t[k]]
    BY <1>1
  <2> QED BY <1>1, <2>1, <2>2
<1>5. OneEach(t) /\ Within(t, list)
  BY <1>1, <1>2 DEF OneEach, Within
<1> QED BY <1>4, <1>5 DEF Lined

LEMMA EnqueueIs ==
  ASSUME NEW list, Lined(list), NEW p \in Client, Positions(list, p) = {}, NEW n \in Nat,
         NEW t, t = Append(list, Entry(p, n))
  PROVE  /\ Lined(t) /\ Len(t) = Len(list) + 1
         /\ \A other : Apart(list, other) /\ Positions(other, p) = {} => Apart(t, other)
         /\ \A other : Apart(other, list) /\ Positions(other, p) = {} => Apart(other, t)
<1> DEFINE e == Entry(p, n)
<1>1. list \in Seq(WaitEntry) /\ OneEach(list) /\ Len(list) \in Nat /\ DOMAIN list = 1..Len(list)
  BY DEF Lined
<1>2. e \in WaitEntry /\ e.who = p
  <2>1. getWaitTime(n) \in {5, 10, 20, 60, 120}
    BY DEF getWaitTime
  <2>2. getTimeout(n) \in Nat
    BY <2>1 DEF getTimeout
  <2> QED BY <2>2 DEF Entry, WaitEntry
<1> HIDE DEF e
<1>3. /\ t \in Seq(WaitEntry) /\ Len(t) = Len(list) + 1 /\ t[Len(list) + 1] = e
      /\ DOMAIN t = 1..(Len(list) + 1) /\ \A k \in DOMAIN list : t[k] = list[k]
  BY <1>1, <1>2 DEF e
<1>4. \A k \in DOMAIN list : list[k].who # p
  BY DEF Positions
<1>5. ASSUME NEW k \in DOMAIN t PROVE (k = Len(list) + 1 /\ t[k].who = p) \/ (k \in DOMAIN list /\ t[k] = list[k])
  BY <1>1, <1>2, <1>3, <1>5
<1>6. OneEach(t)
  BY <1>1, <1>4, <1>5 DEF OneEach
<1>7. ASSUME NEW other, Positions(other, p) = {} PROVE \A k \in DOMAIN other : other[k].who # p
  BY <1>7 DEF Positions
<1>8. ASSUME NEW other, Apart(list, other), Positions(other, p) = {} PROVE Apart(t, other)
  BY <1>5, <1>7, <1>8 DEF Apart
<1>9. ASSUME NEW other, Apart(other, list), Positions(other, p) = {} PROVE Apart(other, t)
  BY <1>5, <1>7, <1>9 DEF Apart
<1> QED BY <1>3, <1>6, <1>8, <1>9 DEF Lined

LEMMA FirstIs ==
  ASSUME NEW list, Lined(list), NEW p, Positions(list, p) # {}
  PROVE  First(list, p) \in DOMAIN list /\ Len(list) - First(list, p) \in Nat
<1> DEFINE K == Positions(list, p)
<1>1. DOMAIN list = 1..Len(list) /\ Len(list) \in Nat
  BY DEF Lined
<1>2. K \in SUBSET Nat /\ K \subseteq DOMAIN list
  BY <1>1 DEF Positions
<1> HIDE DEF K
<1>3. \E k \in K : \A j \in K : k <= j
  <2>1. PICK k : k \in K
    BY DEF K
  <2> QED BY <1>2, <2>1, LeastNumber
<1>4. First(list, p) \in K
  BY <1>3 DEF First, K
<1> DEFINE f == First(list, p)
<1>5. f \in 1..Len(list)
  BY <1>1, <1>2, <1>4
<1> HIDE DEF f
<1>6. Len(list) - f \in Nat
  BY <1>1, <1>5
<1> QED BY <1>1, <1>5, <1>6 DEF f

LEMMA FindClientIs ==
  ASSUME NEW pri, Lined(pri), NEW wait, Lined(wait), NEW p, NEW found, found = findClient(pri, wait, p)
  PROVE  /\ found.slot \in Nat
         /\ found.in = "priority" => found.at \in DOMAIN pri /\ found.slot >= 2
         /\ found.in = "wait" => found.at \in DOMAIN wait /\ found.slot >= 2
         /\ found.in = "none" => Positions(pri, p) = {} /\ Positions(wait, p) = {}
         /\ found.in \in {"priority", "wait", "none"}
<1>1. Len(pri) \in Nat /\ Len(wait) \in Nat
  BY DEF Lined
<1>2. CASE Positions(pri, p) # {}
  <2>1. found = [in |-> "priority", at |-> First(pri, p), slot |-> Len(pri) - First(pri, p) + 2]
    BY <1>2 DEF findClient
  <2>2. First(pri, p) \in DOMAIN pri /\ Len(pri) - First(pri, p) \in Nat
    BY <1>2, FirstIs
  <2> QED BY <2>1, <2>2
<1>3. CASE Positions(pri, p) = {} /\ Positions(wait, p) # {}
  <2>1. found = [in |-> "wait", at |-> First(wait, p), slot |-> Len(pri) + Len(wait) - First(wait, p) + 2]
    BY <1>3 DEF findClient
  <2>2. First(wait, p) \in DOMAIN wait /\ Len(wait) - First(wait, p) \in Nat
    BY <1>3, FirstIs
  <2>3. DOMAIN wait = 1..Len(wait)
    BY DEF Lined
  <2> QED BY <1>1, <2>1, <2>2, <2>3
<1>4. CASE Positions(pri, p) = {} /\ Positions(wait, p) = {}
  BY <1>1, <1>4 DEF findClient
<1> QED BY <1>2, <1>3, <1>4

\* The queue is in order between two calls of clientLogin.
WaitInv ==
  /\ inGame \subseteq Client /\ IsFiniteSet(inGame) /\ answer \in Nat
  /\ Lined(priorityWaitList) /\ Lined(waitList) /\ Apart(priorityWaitList, waitList)
  /\ Len(priorityWaitList) <= MaxEntries /\ Len(waitList) <= MaxEntries

\* What clientLogin may do to the players in the game, when p asks.
LetIn(p) ==
  /\ inGame' = inGame \/ inGame' = inGame \cup {p}
  /\ inGame' # inGame => \/ p \in AlwaysLogin \/ MaxPlayers = 0
                         \/ Cardinality(inGame) < MaxPlayers

LEMMA WaitInitially == WaitInit => WaitInv
BY FS_EmptySet, WaitListAssumption DEF WaitInit, WaitInv, Lined, OneEach, Apart

LEMMA AskAgainIs ==
  ASSUME NEW p \in Client, NEW pri, Lined(pri), NEW wait, Lined(wait), Apart(pri, wait),
         Len(pri) <= MaxEntries, Len(wait) <= MaxEntries, WaitInv, AskAgain(p, pri, wait)
  PROVE  /\ Lined(priorityWaitList') /\ Lined(waitList') /\ Apart(priorityWaitList, waitList)'
         /\ Len(priorityWaitList') <= MaxEntries /\ Len(waitList') <= MaxEntries
         /\ LetIn(p) /\ answer' \in Nat
<1> DEFINE found == findClient(pri, wait, p)
           fits == Fits(found.slot)
           Left(list) == IF fits THEN RemoveAt(list, found.at) ELSE [list EXCEPT ![found.at].who = Stamp]
<1>1. /\ found.in # "none"
      /\ priorityWaitList' = IF found.in = "priority" THEN Left(pri) ELSE pri
      /\ waitList' = IF found.in = "wait" THEN Left(wait) ELSE wait
      /\ IF fits THEN Admit(p) ELSE TurnAway(found.slot)
  BY DEF AskAgain
<1>2. /\ found.slot \in Nat
      /\ found.in = "priority" => found.at \in DOMAIN pri /\ found.slot >= 2
      /\ found.in = "wait" => found.at \in DOMAIN wait /\ found.slot >= 2
      /\ found.in \in {"priority", "wait", "none"}
  <2> HIDE DEF found
  <2>1. found = findClient(pri, wait, p)
    BY DEF found
  <2> QED BY <2>1, FindClientIs
<1> HIDE DEF found
<1>3. MaxEntries \in Nat /\ MaxPlayers \in Nat /\ Len(pri) \in Nat /\ Len(wait) \in Nat
  BY WaitListAssumption DEF Lined
<1>4. ASSUME NEW list, Lined(list), found.at \in DOMAIN list, Len(list) <= MaxEntries
      PROVE  Lined(Left(list)) /\ Within(Left(list), list) /\ Len(Left(list)) <= MaxEntries
  <2> DEFINE t == Left(list)
             k == found.at
  <2>1. t = RemoveAt(list, k) \/ t = [list EXCEPT ![k].who = Stamp]
    OBVIOUS
  <2>2. k \in DOMAIN list
    BY <1>4
  <2> HIDE DEF t, k
  <2>3. Lined(t) /\ Within(t, list) /\ Len(t) <= Len(list)
    <3>1. CASE t = RemoveAt(list, k)
      BY <1>4, <2>2, <3>1, RemoveIs
    <3>2. CASE t = [list EXCEPT ![k].who = Stamp]
      <4>1. Lined(t) /\ Within(t, list) /\ Len(t) = Len(list)
        BY <1>4, <2>2, <3>2, StampIs
      <4> QED BY <4>1 DEF Lined
    <3> QED BY <2>1, <3>1, <3>2
  <2>4. Len(t) <= MaxEntries
    <3>1. Len(t) \in Nat /\ Len(list) \in Nat
      BY <1>4, <2>3 DEF Lined
    <3> QED BY <1>3, <1>4, <2>3, <3>1
  <2> QED BY <2>3, <2>4 DEF t
<1>5. Within(pri, pri) /\ Within(wait, wait)
  BY DEF Within
<1>6. /\ Lined(priorityWaitList') /\ Lined(waitList')
      /\ Len(priorityWaitList') <= MaxEntries /\ Len(waitList') <= MaxEntries
      /\ Within(priorityWaitList', pri) /\ Within(waitList', wait)
  <2> HIDE DEF Left
  <2>1. CASE found.in = "priority"
    <3>1. priorityWaitList' = Left(pri) /\ waitList' = wait
      BY <1>1, <2>1
    <3>2. Lined(Left(pri)) /\ Within(Left(pri), pri) /\ Len(Left(pri)) <= MaxEntries
      BY <1>2, <1>4, <2>1
    <3> QED BY <1>5, <3>1, <3>2
  <2>2. CASE found.in = "wait"
    <3>1. waitList' = Left(wait) /\ priorityWaitList' = pri
      BY <1>1, <2>2
    <3>2. Lined(Left(wait)) /\ Within(Left(wait), wait) /\ Len(Left(wait)) <= MaxEntries
      BY <1>2, <1>4, <2>2
    <3> QED BY <1>5, <3>1, <3>2
  <2> QED BY <1>1, <1>2, <2>1, <2>2
<1>7. Apart(priorityWaitList', waitList')
  BY <1>6, WithinIs
<1>8. LetIn(p) /\ answer' \in Nat
  <2>1. CASE fits
    <3>1. Cardinality(inGame) + found.slot <= MaxPlayers /\ found.slot >= 2
      BY <1>1, <1>2, <2>1 DEF Fits
    <3>2. Cardinality(inGame) \in Nat
      BY FS_CardinalityType DEF WaitInv
    <3>3. Cardinality(inGame) < MaxPlayers
      BY <1>2, <1>3, <3>1, <3>2
    <3> QED BY <1>1, <2>1, <3>3 DEF Admit, LetIn
  <2>2. CASE ~fits
    BY <1>1, <1>2, <2>2 DEF TurnAway, LetIn
  <2> QED BY <2>1, <2>2
<1> QED BY <1>6, <1>7, <1>8

LEMMA QueueIs ==
  ASSUME NEW p \in Client, NEW pri, Lined(pri), NEW wait, Lined(wait), Apart(pri, wait),
         Len(pri) <= MaxEntries, Len(wait) <= MaxEntries, Queue(p, pri, wait)
  PROVE  /\ Lined(priorityWaitList') /\ Lined(waitList') /\ Apart(priorityWaitList, waitList)'
         /\ Len(priorityWaitList') <= MaxEntries /\ Len(waitList') <= MaxEntries
         /\ LetIn(p) /\ answer' \in Nat
<1>1. Positions(pri, p) = {} /\ Positions(wait, p) = {}
  <2> DEFINE found == findClient(pri, wait, p)
  <2>1. found.in = "none"
    BY DEF Queue
  <2> HIDE DEF found
  <2>2. found = findClient(pri, wait, p)
    BY DEF found
  <2> QED BY <2>1, <2>2, FindClientIs
<1>2. MaxEntries \in Nat /\ Len(pri) \in Nat /\ Len(wait) \in Nat
  BY WaitListAssumption DEF Lined
<1>3. CASE p \in PremiumClient
  <2> DEFINE n == Len(pri) + 1
             t == Append(pri, Entry(p, n))
  <2>1. Len(pri) < MaxEntries /\ priorityWaitList' = t /\ waitList' = wait /\ TurnAway(n)
    BY <1>3 DEF Queue
  <2>2. n \in Nat
    BY <1>2
  <2> HIDE DEF n
  <2>3. t = Append(pri, Entry(p, n))
    OBVIOUS
  <2> HIDE DEF t
  <2>4. /\ Lined(t) /\ Len(t) = Len(pri) + 1
        /\ \A other : Apart(pri, other) /\ Positions(other, p) = {} => Apart(t, other)
    BY <1>1, <2>2, <2>3, EnqueueIs
  <2>5. Len(t) <= MaxEntries
    BY <1>2, <2>1, <2>4
  <2> QED BY <1>1, <2>1, <2>2, <2>4, <2>5 DEF TurnAway, LetIn
<1>4. CASE p \notin PremiumClient
  <2> DEFINE n == Len(pri) + Len(wait) + 1
             t == Append(wait, Entry(p, n))
  <2>1. Len(wait) < MaxEntries /\ waitList' = t /\ priorityWaitList' = pri /\ TurnAway(n)
    BY <1>4 DEF Queue
  <2>2. n \in Nat
    BY <1>2
  <2> HIDE DEF n
  <2>3. t = Append(wait, Entry(p, n))
    OBVIOUS
  <2> HIDE DEF t
  <2>4. /\ Lined(t) /\ Len(t) = Len(wait) + 1
        /\ \A other : Apart(other, wait) /\ Positions(other, p) = {} => Apart(other, t)
    BY <1>1, <2>2, <2>3, EnqueueIs
  <2>5. Len(t) <= MaxEntries
    BY <1>2, <2>1, <2>4
  <2> QED BY <1>1, <2>1, <2>2, <2>4, <2>5 DEF TurnAway, LetIn
<1> QED BY <1>3, <1>4

LEMMA LoginIs ==
  ASSUME WaitInv, NEW p \in Client, ClientLogin(p)
  PROVE  WaitInv' /\ LetIn(p) /\ p \notin inGame
<1> DEFINE pri == cleanupList(priorityWaitList)
           wait == cleanupList(waitList)
<1>1. /\ Lined(priorityWaitList) /\ Lined(waitList) /\ Apart(priorityWaitList, waitList)
      /\ Len(priorityWaitList) <= MaxEntries /\ Len(waitList) <= MaxEntries /\ MaxEntries \in Nat
      /\ inGame \subseteq Client /\ IsFiniteSet(inGame) /\ answer \in Nat
  BY WaitListAssumption DEF WaitInv
<1>2. /\ p \notin inGame
      /\ IF p \in AlwaysLogin
         THEN Admit(p) /\ UNCHANGED <<priorityWaitList, waitList>>
         ELSE IF \/ MaxPlayers = 0
                 \/ pri = <<>> /\ wait = <<>> /\ Cardinality(inGame) < MaxPlayers
              THEN Admit(p) /\ priorityWaitList' = pri /\ waitList' = wait
              ELSE AskAgain(p, pri, wait) \/ Queue(p, pri, wait)
  BY DEF ClientLogin
<1> HIDE DEF pri, wait
<1>3. Lined(pri) /\ Within(pri, priorityWaitList) /\ Len(pri) <= Len(priorityWaitList)
  BY <1>1, CleanupIs DEF pri
<1>4. Lined(wait) /\ Within(wait, waitList) /\ Len(wait) <= Len(waitList)
  BY <1>1, CleanupIs DEF wait
<1>5. Apart(pri, wait)
  BY <1>1, <1>3, <1>4, WithinIs
<1>6. Len(pri) <= MaxEntries /\ Len(wait) <= MaxEntries
  <2>1. {Len(pri), Len(wait), Len(priorityWaitList), Len(waitList)} \subseteq Nat
    BY <1>1, <1>3, <1>4 DEF Lined
  <2> QED BY <1>1, <1>3, <1>4, <2>1
<1>7. /\ Lined(priorityWaitList') /\ Lined(waitList') /\ Apart(priorityWaitList', waitList')
      /\ Len(priorityWaitList') <= MaxEntries /\ Len(waitList') <= MaxEntries
      /\ LetIn(p) /\ answer' \in Nat
  <2>1. CASE p \in AlwaysLogin
    BY <1>1, <1>2, <2>1 DEF Admit, LetIn
  <2>2. CASE /\ p \notin AlwaysLogin
             /\ MaxPlayers = 0 \/ (pri = <<>> /\ wait = <<>> /\ Cardinality(inGame) < MaxPlayers)
    BY <1>2, <1>3, <1>4, <1>5, <1>6, <2>2 DEF Admit, LetIn
  <2>3. CASE AskAgain(p, pri, wait)
    BY <1>3, <1>4, <1>5, <1>6, <2>3, AskAgainIs
  <2>4. CASE Queue(p, pri, wait)
    BY <1>3, <1>4, <1>5, <1>6, <2>4, QueueIs
  <2> QED BY <1>2, <2>1, <2>2, <2>3, <2>4
<1>8. inGame' \subseteq Client /\ IsFiniteSet(inGame')
  BY <1>1, <1>7, FS_AddElement DEF LetIn
<1> QED BY <1>2, <1>7, <1>8 DEF WaitInv

LEMMA TickIs == ASSUME WaitInv, Tick PROVE WaitInv'
<1> DEFINE Older(list) == [k \in DOMAIN list |-> [list[k] EXCEPT !.left = IF @ > 0 THEN @ - 1 ELSE 0]]
<1>1. priorityWaitList' = Older(priorityWaitList) /\ waitList' = Older(waitList) /\ UNCHANGED <<inGame, answer>>
  BY DEF Tick
<1>2. ASSUME NEW list, Lined(list)
      PROVE  Lined(Older(list)) /\ Within(Older(list), list) /\ Len(Older(list)) = Len(list)
  <2> DEFINE t == Older(list)
  <2>1. list \in Seq(WaitEntry) /\ OneEach(list) /\ Len(list) \in Nat /\ DOMAIN list = 1..Len(list)
    BY <1>2 DEF Lined
  <2>2. \A k \in 1..Len(list) : t[k] \in WaitEntry /\ t[k].who = list[k].who
    <3> TAKE k \in 1..Len(list)
    <3>1. list[k] \in WaitEntry
      BY <2>1
    <3>2. t[k] = [list[k] EXCEPT !.left = IF list[k].left > 0 THEN list[k].left - 1 ELSE 0]
      BY <2>1
    <3> QED BY <3>1, <3>2 DEF WaitEntry
  <2>3. t = [k \in 1..Len(list) |-> t[k]]
    BY <2>1
  <2> HIDE DEF t
  <2>4. t \in Seq(WaitEntry) /\ Len(t) = Len(list) /\ DOMAIN t = 1..Len(list)
    BY <2>1, <2>2, <2>3
  <2>5. OneEach(t) /\ Within(t, list)
    BY <2>1, <2>2, <2>4 DEF OneEach, Within
  <2> QED BY <2>4, <2>5 DEF Lined, t
<1> HIDE DEF Older
<1>3. Apart(Older(priorityWaitList), Older(waitList))
  BY <1>2, WithinIs DEF WaitInv
<1> QED BY <1>1, <1>2, <1>3 DEF WaitInv

LEMMA WaitKept == WaitInv /\ [WaitNext]_waitVars => WaitInv'
<1> SUFFICES ASSUME WaitInv, [WaitNext]_waitVars PROVE WaitInv'
  OBVIOUS
<1>1. ASSUME NEW p \in Client, ClientLogin(p) PROVE WaitInv'
  BY <1>1, LoginIs
<1>2. ASSUME NEW p \in Client, ClientLogout(p) PROVE WaitInv'
  <2>1. inGame' \subseteq Client /\ IsFiniteSet(inGame')
    BY <1>2, FS_RemoveElement DEF ClientLogout, WaitInv
  <2> QED BY <1>2, <2>1 DEF ClientLogout, WaitInv
<1>3. CASE Tick
  BY <1>3, TickIs
<1>4. CASE UNCHANGED waitVars
  BY <1>4 DEF waitVars, WaitInv
<1> QED BY <1>1, <1>2, <1>3, <1>4 DEF WaitNext

LEMMA WaitImplies == WaitInv => WaitTypeOK
<1> SUFFICES ASSUME WaitInv PROVE WaitTypeOK
  OBVIOUS
<1>1. ASSUME NEW list \in {priorityWaitList, waitList}
      PROVE  /\ \A k \in DOMAIN list : list[k].left \in Nat /\ list[k].who \in Client \cup {Stamp}
             /\ Len(list) <= MaxEntries
             /\ \A p \in Client : \A j, k \in Positions(list, p) : j = k
  <2>1. list \in Seq(WaitEntry) /\ OneEach(list) /\ Len(list) <= MaxEntries
    BY <1>1 DEF WaitInv, Lined
  <2>2. \A k \in DOMAIN list : list[k] \in WaitEntry
    BY <2>1
  <2>3. \A p \in Client : \A j, k \in Positions(list, p) : j = k
    BY <2>1, WaitListAssumption DEF Positions, OneEach
  <2> QED BY <2>1, <2>2, <2>3 DEF WaitEntry
<1>2. \A p \in Client : Positions(priorityWaitList, p) = {} \/ Positions(waitList, p) = {}
  BY WaitListAssumption DEF WaitInv, Apart, Positions
<1> QED BY <1>1, <1>2 DEF WaitInv, WaitTypeOK

LEMMA LimitStep == WaitInv /\ [WaitNext]_waitVars => [LimitKept]_waitVars
<1> SUFFICES ASSUME WaitInv, WaitNext PROVE LimitKept
  OBVIOUS
<1> SUFFICES ASSUME NEW q \in Client \ AlwaysLogin, q \in inGame' \ inGame, MaxPlayers # 0
             PROVE  Cardinality(inGame') <= MaxPlayers
  BY DEF LimitKept
<1>1. PICK p \in Client : ClientLogin(p)
  BY DEF WaitNext, ClientLogout, Tick
<1>2. LetIn(p) /\ p \notin inGame
  BY <1>1, LoginIs
<1>3. inGame' = inGame \cup {p} /\ p = q /\ Cardinality(inGame) < MaxPlayers
  BY <1>2 DEF LetIn
<1>4. Cardinality(inGame) \in Nat /\ MaxPlayers \in Nat /\ Cardinality(inGame \cup {p}) = Cardinality(inGame) + 1
  BY <1>2, FS_AddElement, FS_CardinalityType, WaitListAssumption DEF WaitInv
<1> QED BY <1>3, <1>4

\* Nobody waits in two places, the lists keep to their bounds, and whoever is let
\* in for a reason other than privilege finds the game below its limit, however
\* clients ask, ask again, leave and time out (protocolgame.cpp:42-137).
THEOREM WaitListStaysInOrder == WaitSpec => WaitListHolds
BY WaitInitially, WaitKept, WaitImplies, LimitStep, PTL DEF WaitSpec, WaitListHolds

-----------------------------------------------------------------------------
(* The composition *)

\* Each component makes its own steps, or none.
LEMMA NetworkSteps ==
  NetworkNext => [SvcNext]_svc /\ [Next]_vars /\ [SesNext]_ses /\ [WaitNext]_waitVars
<1> SUFFICES ASSUME NetworkNext PROVE [SvcNext]_svc /\ [Next]_vars /\ [SesNext]_ses /\ [WaitNext]_waitVars
  OBVIOUS
<1> QED BY DEF NetworkNext, vars, waitVars

\* While the services are at work every port is served as above.
THEOREM RunPorts == NetworkSpec => []Ports
<1>1. NetworkInit => SvcInv
  BY SvcInitially DEF NetworkInit
<1>2. SvcInv /\ [NetworkNext]_<<part, svc, vars, ses, waitVars>> => SvcInv'
  BY NetworkSteps, SvcInductive
<1>3. SvcInv => Ports
  BY SvcInvServes DEF Ports
<1> QED BY <1>1, <1>2, <1>3, PTL DEF NetworkSpec

\* The connection agrees with itself, and flushes, whatever the others do.
THEOREM RunConnection == NetworkSpec => []ConnectionAgrees /\ FlushedBeforeClose
<1>1. NetworkInit => ConnInv
  BY ConnInvInitially DEF NetworkInit
<1>2. ConnInv /\ [NetworkNext]_<<part, svc, vars, ses, waitVars>> => ConnInv'
  BY NetworkSteps, ConnInvKept
<1>3. ConnInv => ConnectionAgrees
  BY ConnInvImplies
<1>4. ConnInv /\ [NetworkNext]_<<part, svc, vars, ses, waitVars>> =>
        [(Disconnect \/ OnWriteOperation) /\ conn.socket = "open" /\ conn'.socket = "closed"
           => Len(delivered) = conn.accepted]_vars
  BY NetworkSteps, Flushed
<1> QED BY <1>1, <1>2, <1>3, <1>4, PTL DEF NetworkSpec, FlushedBeforeClose

\* So do the protocols and players.
THEOREM RunSessions == NetworkSpec => []SessionsSound
<1>1. NetworkInit => SesInv
  BY SesInitially DEF NetworkInit
<1>2. SesInv /\ [NetworkNext]_<<part, svc, vars, ses, waitVars>> => SesInv'
  BY NetworkSteps, SesStep
<1>3. SesInv => SessionsSound
  BY SesInvSuffices
<1> QED BY <1>1, <1>2, <1>3, PTL DEF NetworkSpec

\* And the queue for a full server stays in order.
THEOREM RunWaitList == NetworkSpec => WaitListHolds
<1>1. NetworkInit => WaitInv
  BY WaitInitially DEF NetworkInit
<1>2. WaitInv /\ [NetworkNext]_<<part, svc, vars, ses, waitVars>> => WaitInv'
  BY NetworkSteps, WaitKept
<1>3. WaitInv /\ [NetworkNext]_<<part, svc, vars, ses, waitVars>> => [LimitKept]_waitVars
  BY NetworkSteps, LimitStep
<1> QED BY <1>1, <1>2, <1>3, WaitImplies, PTL DEF NetworkSpec, WaitListHolds
=============================================================================
