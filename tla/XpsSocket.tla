------------------------------ MODULE XpsSocket ------------------------------
(***************************************************************************)
(* The sockets of eXpServer as the kernel and epoll present them: what the *)
(* peers do to them, what recv() and send() return, and when an edge       *)
(* triggered registration reports an event.  The kernel is not part of the *)
(* repository: it is modelled from what network/xps_connection.c and       *)
(* core/xps_loop.c ask of it.                                              *)
(*                                                                         *)
(* The connection <<"client", c>> is the one client c opens; the           *)
(* connection <<"upstream", c>> is the one the session of c opens.         *)
(***************************************************************************)
EXTENDS XpsPipe

CONSTANTS RecvMax,    \* DEFAULT_BUFFER_SIZE, what one recv() can return
          Room,       \* capacity of a socket's send buffer
          PeerSends,  \* bound: chunks each client and each upstream sends
          CanReset    \* which kinds of peer may reset a connection in this run

ASSUME SocketAssumption == /\ RecvMax \in Nat \ {0}
                           /\ Room \in Nat \ {0}
                           /\ PeerSends \in [{"client", "upstream"} -> Nat]
                           /\ CanReset \subseteq {"client", "upstream"}

Conn == {"client", "upstream"} \X Client
ClientConn(c) == <<"client", c>>
UpstreamConn(c) == <<"upstream", c>>

\* The pipe a connection's source fills and the pipe its sink empties.
SourcePipe(k) == IF k[1] = "client" THEN C2S(k[2]) ELSE U2S(k[2])
SinkPipe(k)   == IF k[1] = "client" THEN S2C(k[2]) ELSE S2U(k[2])

VARIABLES
  sock,  \* the state of each connection's socket
  sent,  \* the chunks send() has taken from the program, per connection
  fed    \* how many chunks the peer has sent, per connection

sockVars == <<sock, sent, fed>>

\* st      none; backlog (client, not accepted); pending (upstream, SYN sent);
\*         up; closed by the program
\* in      received and not read;  fin, rst: the peer has closed, has reset
\* room    free send buffer; nospace: a send found too little of it
\* reg     the socket is registered with epoll
\* edge    its registration is on epoll's ready list
Socket == [st: {"none", "backlog", "pending", "up", "closed"}, in: Seq(Nat),
           fin: BOOLEAN, rst: BOOLEAN, room: 0..Room, nospace: BOOLEAN,
           reg: BOOLEAN, edge: BOOLEAN]

NoSocket == [st |-> "none", in |-> <<>>, fin |-> FALSE, rst |-> FALSE,
             room |-> Room, nospace |-> FALSE, reg |-> FALSE, edge |-> FALSE]

SocketTypeOK ==
  /\ sock \in [Conn -> Socket]
  /\ sent \in [Conn -> Seq(Nat)]
  /\ fed \in [Conn -> Nat]

SocketInit ==
  /\ sock = [k \in Conn |-> NoSocket]
  /\ sent = [k \in Conn |-> <<>>]
  /\ fed = [k \in Conn |-> 0]

-----------------------------------------------------------------------------
\* What epoll would report of a socket now.
PollIn(k)  == sock[k].in # <<>> \/ sock[k].fin \/ sock[k].rst
PollOut(k) == (sock[k].st = "up" /\ sock[k].room > 0) \/ sock[k].rst
PollHup(k) == sock[k].rst
PollAny(k) == PollIn(k) \/ PollOut(k)

\* The peer's end of the connection exists and it has not finished sending.
PeerOpen(k) == /\ sock[k].st \in {"backlog", "up"}
               /\ ~sock[k].fin /\ ~sock[k].rst

Connect(c) ==
  /\ sock[ClientConn(c)].st = "none"
  /\ sock' = [sock EXCEPT ![ClientConn(c)].st = "backlog"]
  /\ UNCHANGED <<sent, fed>>

PeerSend(k) ==
  /\ PeerOpen(k)
  /\ fed[k] < PeerSends[k[1]]
  /\ fed' = [fed EXCEPT ![k] = @ + 1]
  /\ sock' = [sock EXCEPT ![k].in = Append(@, fed[k] + 1), ![k].edge = sock[k].reg]
  /\ UNCHANGED sent

PeerFin(k) ==
  /\ PeerOpen(k)
  /\ sock' = [sock EXCEPT ![k].fin = TRUE, ![k].edge = sock[k].reg]
  /\ UNCHANGED <<sent, fed>>

PeerReset(k) ==
  /\ k[1] \in CanReset
  /\ sock[k].st \in {"backlog", "up"}
  /\ ~sock[k].rst
  /\ sock' = [sock EXCEPT ![k].rst = TRUE, ![k].edge = sock[k].reg]
  /\ UNCHANGED <<sent, fed>>

\* The peer takes what is in the send buffer; epoll is told only if a send
\* had found the buffer too small.
PeerDrain(k) ==
  /\ sock[k].st = "up" /\ ~sock[k].rst
  /\ sock[k].room < Room
  /\ sock' = [sock EXCEPT ![k].room = Room, ![k].nospace = FALSE,
                ![k].edge = sock[k].reg /\ (sock[k].edge \/ sock[k].nospace)]
  /\ UNCHANGED <<sent, fed>>

\* The connection to an upstream is established, or refused.
Establish(c) ==
  LET k == UpstreamConn(c) IN
  /\ sock[k].st = "pending" /\ ~sock[k].rst
  /\ sock' = [sock EXCEPT ![k].st = "up", ![k].edge = sock[k].reg]
  /\ UNCHANGED <<sent, fed>>

Refuse(c) ==
  LET k == UpstreamConn(c) IN
  /\ sock[k].st = "pending" /\ ~sock[k].rst
  /\ sock' = [sock EXCEPT ![k].rst = TRUE, ![k].edge = sock[k].reg]
  /\ UNCHANGED <<sent, fed>>

Peers == \/ \E c \in Client : Connect(c) \/ Establish(c) \/ Refuse(c)
         \/ \E k \in Conn : PeerSend(k) \/ PeerFin(k) \/ PeerReset(k) \/ PeerDrain(k)

-----------------------------------------------------------------------------
\* xps_loop_attach with EPOLLIN | EPOLLOUT | EPOLLET: adding a socket that is
\* ready already puts it on epoll's ready list.
ReadyAtOnce(s) == s.in # <<>> \/ s.fin \/ s.rst \/ (s.st = "up" /\ s.room > 0)
xps_loop_attach(s) == [s EXCEPT !.reg = TRUE, !.edge = ReadyAtOnce(s)]

xps_loop_detach(s) == [s EXCEPT !.reg = FALSE, !.edge = FALSE]

\* The accepted socket, and the one xps_upstream_create has started to connect.
AcceptedSocket(k) == xps_loop_attach([sock[k] EXCEPT !.st = "up"])
ConnectingSocket == xps_loop_attach([NoSocket EXCEPT !.st = "pending"])

\* close(): what the peer has done stays on record, the rest is gone.
ClosedSocket(k) == [xps_loop_detach(sock[k]) EXCEPT !.st = "closed", !.in = <<>>]

\* Mutant: send() is taken to have sent everything.
SendLen_Whole(k, len) == len

RecvLen(k) == IF Len(sock[k].in) < RecvMax THEN Len(sock[k].in) ELSE RecvMax
SendLen(k, len) == IF len < sock[k].room THEN len ELSE sock[k].room
CanSend(k) == sock[k].st = "up" /\ ~sock[k].rst /\ sock[k].room > 0
=============================================================================
