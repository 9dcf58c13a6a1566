----------------------------- MODULE Connection -----------------------------
(***************************************************************************)
(* One network connection (src/engine/src/connection.cpp).                 *)
(*                                                                         *)
(* The main thread runs the handlers of the io_service (accept, parseHeader*)
(* parsePacket, onWriteOperation, handleTimeout); the dispatcher thread    *)
(* sends and disconnects.  All of them hold connectionLock, so each is one *)
(* action; accept(protocol) takes the lock only for its second half and is *)
(* two.  ConnectionManager::closeAll does not take that lock, but only     *)
(* closes the socket.                                                      *)
(*                                                                         *)
(* A handler calls others of the class: the operators on the state c of the*)
(* connection are those methods, and an action applies them in turn.  The  *)
(* destructor runs when the last handler that holds the connection ends.   *)
(* Abstracted: what packets say, and the packets-per-second limit, which   *)
(* may find a packet one too many at any time.                             *)
(***************************************************************************)
EXTENDS Naturals, Sequences, FiniteSets

CONSTANTS MaxSend,     \* bound on the messages sent
          MaxPackets   \* bound on the packets the peer sends

ASSUME ConnectionAssumption == {MaxSend, MaxPackets} \subseteq Nat

VARIABLES conn,        \* the Connection object
          delivered,   \* the messages the peer has received
          packets      \* how many packets it has sent

vars == <<conn, delivered, packets>>

Timer == {"read", "write"}

\* The accept is pending, greeted (the protocol may send already) or done.
\* An asynchronous read or write is "none" when there is none outstanding; its
\* handler can run when it is no longer pending.  tasks: what the connection
\* has posted to the dispatcher for its protocol.
Conn == [accepting : {"new", "greeted", "done"},
         managed   : BOOLEAN,                 \* in ConnectionManager::connections
         protocol  : BOOLEAN,                 \* there is one
         closed    : BOOLEAN,
         socket    : {"open", "broken", "closed"},
         read      : {"none", "header", "body", "headerDone", "bodyDone", "failed"},
         write     : {"none", "pending", "done", "failed"},
         queue     : Seq(1 .. MaxSend),       \* messageQueue
         accepted  : 0 .. MaxSend,            \* messages send() took, numbered
         running   : SUBSET Timer,            \* timers that count
         due       : SUBSET Timer,            \* expired, handler not run yet
         tasks     : Seq({"onConnect", "packet", "release"})]

-----------------------------------------------------------------------------
(* The methods *)

\* Somebody holds the connection: accept, the manager, or a pending handler.
Alive(c) == c.accepting # "done" \/ c.managed \/ c.read # "none" \/ c.write # "none"

\* socket.close: what is outstanding fails.
ShutSocket(c) ==
  [c EXCEPT !.socket = "closed",
            !.read = IF @ \in {"header", "body"} THEN "failed" ELSE @,
            !.write = IF @ = "pending" THEN "failed" ELSE @]

CloseSocket(c) == IF c.socket = "closed" THEN c
                  ELSE [ShutSocket(c) EXCEPT !.running = {}]

\* The handler returns; if it was the last to hold the connection, the
\* destructor closes the socket and ends the timers.
Settle(c) == IF Alive(c) THEN c ELSE [CloseSocket(c) EXCEPT !.running = {}]

\* Mutant: close() does not wait for what is queued.
CloseAtOnce(c, force) ==
  LET d == [c EXCEPT !.managed = FALSE, !.closed = TRUE,
                     !.tasks = IF c.protocol THEN Append(@, "release") ELSE @]
  IN  IF c.closed THEN [c EXCEPT !.managed = FALSE] ELSE CloseSocket(d)

\* close: with something queued the socket stays open until it is written.
Close(c, force) ==
  LET d == [c EXCEPT !.managed = FALSE, !.closed = TRUE,
                     !.tasks = IF c.protocol THEN Append(@, "release") ELSE @]
  IN  IF c.closed THEN [c EXCEPT !.managed = FALSE]
      ELSE IF c.queue = <<>> \/ force THEN CloseSocket(d) ELSE d

\* async_read of a header or a body, under the read timer.
StartRead(c, what) ==
  [c EXCEPT !.running = @ \cup {"read"},
            !.read = IF c.socket = "open" THEN what ELSE "failed"]

\* internalSend of the front of messageQueue
InternalSend(c) ==
  [c EXCEPT !.running = @ \cup {"write"},
            !.write = IF c.socket = "open" THEN "pending" ELSE "failed"]

\* Mutant: writes although a write is outstanding.
SendAtOnce(c) ==
  IF c.closed THEN c
  ELSE InternalSend([c EXCEPT !.accepted = @ + 1, !.queue = Append(@, c.accepted + 1)])

\* send
Send(c) ==
  LET d == [c EXCEPT !.accepted = @ + 1, !.queue = Append(@, c.accepted + 1)]
  IN  IF c.closed THEN c
      ELSE IF c.queue = <<>> THEN InternalSend(d) ELSE d

-----------------------------------------------------------------------------
(* The main thread *)

Init == /\ conn = [accepting |-> "new", managed |-> TRUE, protocol |-> FALSE,
                   closed |-> FALSE, socket |-> "open", read |-> "none",
                   write |-> "none", queue |-> <<>>, accepted |-> 0,
                   running |-> {}, due |-> {}, tasks |-> <<>>]
        /\ delivered = <<>>
        /\ packets = 0

\* accept(protocol), of the game service, up to its call of accept()
AcceptProtocol == /\ conn.accepting = "new"
                  /\ conn' = [conn EXCEPT !.accepting = "greeted", !.protocol = TRUE,
                                          !.tasks = <<"onConnect">>]
                  /\ UNCHANGED <<delivered, packets>>

\* accept(), there or alone, for the services that wait for a first packet
Accept == /\ conn.accepting \in {"new", "greeted"}
          /\ conn' = StartRead([conn EXCEPT !.accepting = "done"], "header")
          /\ UNCHANGED <<delivered, packets>>

\* ServicePort::onAccept of an address that may not connect
Refuse == /\ conn.accepting = "new"
          /\ conn' = Settle(Close([conn EXCEPT !.accepting = "done"], TRUE))
          /\ UNCHANGED <<delivered, packets>>

AfterRead == [conn EXCEPT !.read = "none", !.running = @ \ {"read"}]

\* parseHeader or parsePacket with an error
ReadFailed == /\ conn.read = "failed"
              /\ conn' = Settle(Close(AfterRead, TRUE))
              /\ UNCHANGED <<delivered, packets>>

\* parseHeader: one packet too many, a size that cannot be, or the body.
ParseHeader ==
  /\ conn.read = "headerDone"
  /\ \/ conn.closed /\ conn' = Settle(AfterRead)
     \/ ~conn.closed /\ \/ \E force \in BOOLEAN : conn' = Settle(Close(AfterRead, force))
                        \/ conn' = StartRead(AfterRead, "body")
  /\ UNCHANGED <<delivered, packets>>

\* What onRecvFirstMessage and onRecvMessage do: ignore the packet, post a
\* task, disconnect, or say why and disconnect.
Handled(c) == {c, [c EXCEPT !.tasks = Append(@, "packet")], Close(c, FALSE)}
                \cup (IF c.accepted < MaxSend THEN {Close(Send(c), FALSE)} ELSE {})

\* parsePacket; it reads on even when the protocol has disconnected.
ParsePacket ==
  /\ conn.read = "bodyDone"
  /\ \/ conn.closed /\ conn' = Settle(AfterRead)
     \/ /\ ~conn.closed /\ ~conn.protocol       \* nobody speaks this protocol
        /\ conn' = Settle(Close(AfterRead, TRUE))
     \/ /\ ~conn.closed
        /\ \E c \in Handled([AfterRead EXCEPT !.protocol = TRUE]) :
             conn' = StartRead(c, "header")
  /\ UNCHANGED <<delivered, packets>>

\* Mutant: after the last message nobody closes the socket.
OnWriteOperationStays ==
  /\ conn.write \in {"done", "failed"}
  /\ LET c == [conn EXCEPT !.write = "none", !.running = @ \ {"write"}, !.queue = Tail(@)]
     IN conn' = Settle(CASE conn.write = "failed" -> Close([c EXCEPT !.queue = <<>>], TRUE)
                         [] conn.write = "done" /\ c.queue # <<>> -> InternalSend(c)
                         [] OTHER -> c)
  /\ UNCHANGED <<delivered, packets>>

\* onWriteOperation
OnWriteOperation ==
  /\ conn.write \in {"done", "failed"}
  /\ LET c == [conn EXCEPT !.write = "none", !.running = @ \ {"write"}, !.queue = Tail(@)]
     IN conn' = Settle(CASE conn.write = "failed" -> Close([c EXCEPT !.queue = <<>>], TRUE)
                         [] conn.write = "done" /\ c.queue # <<>> -> InternalSend(c)
                         [] conn.write = "done" /\ c.queue = <<>> /\ c.closed -> CloseSocket(c)
                         [] OTHER -> c)
  /\ UNCHANGED <<delivered, packets>>

\* Thirty seconds pass.  A cancel that comes later does not take it back.
Expire(t) == /\ t \in conn.running
             /\ conn' = [conn EXCEPT !.running = @ \ {t}, !.due = @ \cup {t}]
             /\ UNCHANGED <<delivered, packets>>

\* handleTimeout, which holds the connection only weakly
HandleTimeout(t) ==
  /\ t \in conn.due
  /\ LET c == [conn EXCEPT !.due = @ \ {t}]
     IN conn' = IF Alive(c) THEN Settle(Close(c, TRUE)) ELSE c
  /\ UNCHANGED <<delivered, packets>>

-----------------------------------------------------------------------------
(* The dispatcher thread, for a protocol it has been given a task of *)

ProtocolSends == /\ conn.tasks # <<>> /\ Alive(conn)
                 /\ conn.accepted < MaxSend
                 /\ conn' = Send(conn)
                 /\ UNCHANGED <<delivered, packets>>

Disconnect == /\ \E k \in DOMAIN conn.tasks : conn.tasks[k] = "packet"
              /\ Alive(conn)
              /\ conn' = Settle(Close(conn, FALSE))
              /\ UNCHANGED <<delivered, packets>>

\* ConnectionManager::closeAll, in Game::shutdown
CloseAll == /\ conn.managed
            /\ conn' = Settle(ShutSocket([conn EXCEPT !.managed = FALSE]))
            /\ UNCHANGED <<delivered, packets>>

-----------------------------------------------------------------------------
(* The peer and the network *)

PeerSends ==
  /\ conn.read \in {"header", "body"}
  /\ packets < MaxPackets
  /\ conn' = [conn EXCEPT !.read = IF @ = "header" THEN "headerDone" ELSE "bodyDone"]
  /\ packets' = IF conn.read = "body" THEN packets + 1 ELSE packets
  /\ UNCHANGED delivered

PeerReceives == /\ conn.write = "pending"
                /\ conn' = [conn EXCEPT !.write = "done"]
                /\ delivered' = Append(delivered, Head(conn.queue))
                /\ UNCHANGED packets

\* The peer will send no more.
PeerEnds == /\ conn.read \in {"header", "body"}
            /\ conn' = [conn EXCEPT !.read = "failed"]
            /\ UNCHANGED <<delivered, packets>>

Break == /\ conn.socket = "open"
         /\ conn' = [ShutSocket(conn) EXCEPT !.socket = "broken"]
         /\ UNCHANGED <<delivered, packets>>

MainStep == \/ AcceptProtocol \/ Accept \/ Refuse
            \/ ReadFailed \/ ParseHeader \/ ParsePacket \/ OnWriteOperation

Next == \/ MainStep
        \/ \E t \in Timer : Expire(t) \/ HandleTimeout(t)
        \/ ProtocolSends \/ Disconnect \/ CloseAll
        \/ PeerSends \/ PeerReceives \/ PeerEnds \/ Break

\* Handlers that are ready run and time passes; the peer owes nothing.
Fairness == /\ WF_vars(MainStep)
            /\ WF_vars(OnWriteOperation)
            /\ \A t \in Timer : WF_vars(Expire(t)) /\ WF_vars(HandleTimeout(t))

Spec == Init /\ [][Next]_vars /\ Fairness

-----------------------------------------------------------------------------
(* Properties *)

\* The values every field takes; a connection that is no more has closed its
\* socket.
TypeOK == /\ conn \in Conn
          /\ delivered \in Seq(1 .. MaxSend)
          /\ packets \in 0 .. MaxPackets
          /\ ~Alive(conn) => conn.socket = "closed" /\ conn.running = {}

\* One write at a time, of the front of messageQueue: the peer receives what
\* was sent, in order, each message once, and what it has not received is
\* still queued unless the connection has been closed.
WritesInOrder ==
  LET n == Len(delivered)
      unwritten == IF conn.write = "done" THEN Tail(conn.queue) ELSE conn.queue
  IN  /\ conn.queue = <<>> <=> conn.write = "none"
      /\ delivered = [k \in 1 .. n |-> k]
      /\ \/ delivered \o unwritten = [k \in 1 .. conn.accepted |-> k]
         \/ conn.closed /\ conn.queue = <<>>

\* disconnect() never cuts off what was sent before it: the handler that
\* closes the socket of a healthy connection has seen the last write done.
FlushedBeforeClose ==
  [][(Disconnect \/ OnWriteOperation) /\ conn.socket = "open" /\ conn'.socket = "closed"
       => Len(delivered) = conn.accepted]_vars

\* A connection that is not closed listens, and waits for its peer only with
\* a timer running or expired: no handler forgets to read on or to set one.
EveryWaitIsTimed ==
  ~conn.closed /\ conn.accepting = "done" =>
    /\ conn.read # "none"
    /\ conn.read \in {"header", "body"} => "read" \in conn.running \cup conn.due
    /\ conn.write = "pending" => "write" \in conn.running \cup conn.due

\* The protocol is released once, when the connection is closed, and nothing
\* is posted for it afterwards: a login task never follows the release.
ReleaseIsLast ==
  \A k \in DOMAIN conn.tasks :
    conn.tasks[k] = "release" <=> conn.closed /\ k = Len(conn.tasks)

\* Between two handlers the queue and what the peer has received, the reads and
\* writes outstanding and their timers, and the tasks posted for the protocol all
\* agree with the connection (connection.cpp:64-313).
ConnectionAgrees == TypeOK /\ WritesInOrder /\ EveryWaitIsTimed /\ ReleaseIsLast

\* A closed connection gives up its socket, whatever else happens, unless
\* the peer never takes the message being written.
ClosesUnlessStalled ==
  []<>(conn.write # "pending") => []<>(conn.closed => conn.socket = "closed")

\* The comment in close(): the socket "will be closed by the destructor or
\* onWriteOperation".
ClosedSocketCloses == conn.closed ~> conn.socket = "closed"
=============================================================================
