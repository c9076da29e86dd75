--------------------------- MODULE XpsSessionProofs ---------------------------
(***************************************************************************)
(* Proofs about sessions and pipes: the readiness flags follow the two     *)
(* buffers of a session, neither they nor the pipes exceed their bounds,   *)
(* and core->pipes is consistent and keeps its order.                      *)
(***************************************************************************)
EXTENDS XpsLoopProofs

USE DEF WorldOK

-----------------------------------------------------------------------------
(***************************************************************************)
(* A socket the program has taken on never goes back to the listener.      *)
(***************************************************************************)
NotYet(k) == sock[k].st \in {"none", "backlog"}

Onward == \A k \in Conn : NotYet(k)' => NotYet(k)

LEMMA ConnectionOnward ==
  ASSUME WorldOK, NEW k \in Conn,
         \/ connection_source_handler(k) \/ connection_sink_handler(k)
         \/ connection_source_close_handler(k) \/ connection_sink_close_handler(k)
  PROVE  Onward
<1>0. sock \in [Conn -> Socket]
  BY DEF SocketTypeOK
<1>1. CASE connection_close(k)
  <2>1. ClosedSocket(k).st = "closed"
    <3>1. xps_loop_detach(sock[k]) \in Socket
      BY <1>0, SocketTypes
    <3> QED
      BY <3>1 DEF ClosedSocket, Socket
  <2> QED
    BY <1>0, <1>1, <2>1 DEF connection_close, Onward, NotYet
<1>2. CASE UNCHANGED sock
  BY <1>2 DEF Onward, NotYet
<1>3. CASE sock' = [sock EXCEPT ![k].in = SubSeq(@, RecvLen(k) + 1, Len(@))]
  BY <1>0, <1>3 DEF Socket, Onward, NotYet
<1>4. CASE sock' = [sock EXCEPT ![k].nospace = TRUE]
  BY <1>0, <1>4 DEF Socket, Onward, NotYet
<1>5. CASE \E n, b : sock' = [sock EXCEPT ![k].room = @ - n, ![k].nospace = b]
  BY <1>0, <1>5 DEF Socket, Onward, NotYet
<1> QED
  BY <1>1, <1>2, <1>3, <1>4, <1>5
  DEF connection_source_handler, connection_sink_handler,
      connection_source_close_handler, connection_sink_close_handler

LEMMA HandlerOnward ==
  ASSUME WorldOK, NEW p \in Pipe,
         \/ SourceHandler(p) \/ SinkHandler(p) \/ SourceCloseHandler(p) \/ SinkCloseHandler(p)
  PROVE  Onward
<1>0. /\ p[2] \in Client /\ ClientConn(p[2]) \in Conn /\ UpstreamConn(p[2]) \in Conn
      /\ sock \in [Conn -> Socket]
  BY PipeCases, Names DEF SocketTypeOK
<1>1. CASE UNCHANGED sock
  BY <1>1 DEF Onward, NotYet
<1>2. CASE sock' = [sock EXCEPT ![UpstreamConn(p[2])] = ConnectingSocket]
  BY <1>0, <1>2 DEF Onward, NotYet, ConnectingSocket, xps_loop_attach, NoSocket
<1>3. CASE client_sink_handler(p[2])
  <2>1. UNCHANGED sock \/ sock' = [sock EXCEPT ![UpstreamConn(p[2])] = ConnectingSocket]
    BY <1>3 DEF client_sink_handler, session_process_request, BadRequest, ReplyOnly, ServeFile,
                ReverseProxy, InvalidRoute
  <2> QED
    BY <1>1, <1>2, <2>1
<1>4. CASE SourceHandler(p)
  BY <1>0, <1>1, <1>4, ConnectionOnward
  DEF SourceHandler, client_source_handler, upstream_source_handler, file_source_handler
<1>5. CASE SinkHandler(p)
  BY <1>0, <1>1, <1>3, <1>5, ConnectionOnward
  DEF SinkHandler, upstream_sink_handler, file_sink_handler
<1>6. CASE SourceCloseHandler(p)
  BY <1>0, <1>1, <1>6, ConnectionOnward
  DEF SourceCloseHandler, client_source_close_handler, upstream_source_close_handler,
      CloseSessionEnd, file_source_close_handler
<1>7. CASE SinkCloseHandler(p)
  BY <1>0, <1>1, <1>7, ConnectionOnward
  DEF SinkCloseHandler, client_sink_close_handler, upstream_sink_close_handler,
      file_sink_close_handler, CloseSessionEnd
<1> QED
  BY <1>4, <1>5, <1>6, <1>7

LEMMA PeerOnward ==
  ASSUME WorldOK, PeerStep
  PROVE  Onward
<1>0. sock \in [Conn -> Socket]
  BY DEF SocketTypeOK
<1>1. ASSUME NEW c \in Client, Connect(c) \/ Establish(c) \/ Refuse(c), NEW k \in Conn, NotYet(k)'
      PROVE  NotYet(k)
  <2> USE Names DEF NotYet
  <2>1. CASE Connect(c)
    BY <1>0, <1>1, <2>1 DEF Connect, Socket
  <2>2. CASE Establish(c)
    BY <1>0, <1>1, <2>2 DEF Establish, Socket
  <2>3. CASE Refuse(c)
    BY <1>0, <1>1, <2>3 DEF Refuse, Socket
  <2> QED
    BY <1>1, <2>1, <2>2, <2>3
<1>2. ASSUME NEW h \in Conn, PeerSend(h) \/ PeerFin(h) \/ PeerReset(h) \/ PeerDrain(h)
      PROVE  \A k \in Conn : sock'[k].st = sock[k].st
  <2>1. CASE PeerSend(h)
    BY <1>0, <2>1 DEF PeerSend, Socket
  <2>2. CASE PeerFin(h)
    BY <1>0, <2>2 DEF PeerFin, Socket
  <2>3. CASE PeerReset(h)
    BY <1>0, <2>3 DEF PeerReset, Socket
  <2>4. CASE PeerDrain(h)
    <3>1. PICK e : sock' = [sock EXCEPT ![h].room = Room, ![h].nospace = FALSE, ![h].edge = e]
      BY <2>4 DEF PeerDrain
    <3> QED
      BY <1>0, <3>1 DEF Socket
  <2> QED
    BY <1>2, <2>1, <2>2, <2>3, <2>4
<1> QED
  BY <1>1, <1>2 DEF PeerStep, Peers, Onward, NotYet

LEMMA OnwardStep == TypeOK /\ [Next]_vars => Onward
<1> SUFFICES ASSUME TypeOK, [Next]_vars PROVE Onward
  OBVIOUS
<1>0. WorldOK /\ sock \in [Conn -> Socket] /\ batch \subseteq Event
  BY TypeParts DEF TypeOK, SocketTypeOK
<1>1. CASE UNCHANGED sock
  BY <1>1 DEF Onward, NotYet
<1>2. CASE \/ UNCHANGED vars \/ SkipNull \/ PassDone \/ ListenerEvent \/ AcceptDone
           \/ EventsDone \/ (\E p \in Pipe : DestroyDead(p)) \/ (\E k \in Conn : HandleOut(k))
  BY <1>1, <1>2 DEF vars, SkipNull, PassDone, ListenerEvent, AcceptDone, UnchangedWorld,
                    EventsDone, DestroyDead, HandleOut, sockVars
<1>3. CASE \E p \in Pipe : SourceStep(p) \/ SinkStep(p) \/ CloseStep(p)
  <2>1. CASE UnchangedWorld
    BY <1>1, <2>1 DEF UnchangedWorld, sockVars
  <2> QED
    BY <1>0, <1>3, <2>1, HandlerOnward DEF SourceStep, SinkStep, CloseStep
<1>4. CASE epoll_wait
  <2>1. PICK K \in SUBSET ReadyConns :
          sock' = [k \in Conn |-> IF k \in K \/ ~PollAny(k)
                                  THEN [sock[k] EXCEPT !.edge = FALSE] ELSE sock[k]]
    BY <1>4 DEF epoll_wait
  <2> QED
    BY <1>0, <2>1 DEF Socket, Onward, NotYet
<1>5. CASE \E e \in batch : HandleEvent(e)
  <2>1. PICK e \in batch : HandleEvent(e)
    BY <1>5
  <2>2. e.k \in Conn
    BY <1>0 DEF Event
  <2> QED
    BY <1>0, <2>1, <2>2 DEF HandleEvent, OnHangup, xps_loop_detach, Socket, Onward, NotYet
<1>6. CASE \E c \in Client : Accept(c)
  <2>1. PICK c \in Client : sock' = [sock EXCEPT ![ClientConn(c)] = AcceptedSocket(ClientConn(c))]
    BY <1>6 DEF Accept, xps_session_create
  <2>2. AcceptedSocket(ClientConn(c)).st = "up"
    BY <1>0, Names DEF AcceptedSocket, xps_loop_attach, Socket
  <2> QED
    BY <1>0, <2>1, <2>2, Names DEF Onward, NotYet
<1>7. CASE PeerStep
  BY <1>0, <1>7, PeerOnward
<1> QED
  BY <1>2, <1>3, <1>4, <1>5, <1>6, <1>7
  DEF Next, xps_loop_run, handle_pipes, handle_epoll_events, Idle

-----------------------------------------------------------------------------
(***************************************************************************)
(* Readiness.                                                              *)
(***************************************************************************)
\* ReadyFollowsBuffers for one session, of the sources S, the sinks K and the
\* record r of the session.
Follows(c, S, K, r) ==
  r.live =>
    /\ S[S2C(c)].ready <=> r.to # <<>>
    /\ K[U2S(c)].ready <=> r.to = <<>>
    /\ K[F2S(c)].ready <=> r.to = <<>>
    /\ S[S2U(c)].ready <=> r.from # <<>>
    /\ K[C2S(c)].ready <=> r.from = <<>>

\* What a new session relies on: it is made for a client that has none, and
\* finds its source towards the upstream not ready.
FlagsFor(c) ==
  /\ NotYet(ClientConn(c)) => ~ses[c].live
  /\ ~ses[c].live => ~src[S2U(c)].ready
  /\ Follows(c, src, snk, ses[c])

FlagsInv == \A c \in Client : FlagsFor(c)

\* The flags of the session of c are those of S and K.
SameFlags(c, S, K) ==
  /\ S[S2C(c)].ready = src[S2C(c)].ready
  /\ S[S2U(c)].ready = src[S2U(c)].ready
  /\ K[C2S(c)].ready = snk[C2S(c)].ready
  /\ K[U2S(c)].ready = snk[U2S(c)].ready
  /\ K[F2S(c)].ready = snk[F2S(c)].ready

LEMMA FlagsMean == FlagsInv => ReadyFollowsBuffers
BY DEF FlagsInv, FlagsFor, Follows, ReadyFollowsBuffers

LEMMA FlagsFrame ==
  ASSUME NEW c \in Client, FlagsFor(c), ses'[c] = ses[c], SameFlags(c, src', snk'),
         NotYet(ClientConn(c))' => NotYet(ClientConn(c))
  PROVE  FlagsFor(c)'
BY DEF FlagsFor, Follows, SameFlags

\* A step that touches no session and no end of one.
LEMMA AllFlagsFrame ==
  ASSUME FlagsInv, Onward, UNCHANGED ses, \A c \in Client : SameFlags(c, src', snk')
  PROVE  FlagsInv'
BY FlagsFrame, Names DEF FlagsInv, Onward

-----------------------------------------------------------------------------
(***************************************************************************)
(* Steps of a session.                                                     *)
(***************************************************************************)
LEMMA SettersSet ==
  ASSUME NEW S \in Ends, NEW c \in Client, NEW b \in BOOLEAN
  PROVE  /\ ToSources(S, c, b)[S2C(c)].ready <=> b
         /\ ToSources(S, c, b)[S2U(c)] = S[S2U(c)]
         /\ ToSinks(S, c, b)[U2S(c)].ready <=> ~b
         /\ ToSinks(S, c, b)[F2S(c)].ready <=> ~b
         /\ ToSinks(S, c, b)[C2S(c)] = S[C2S(c)]
         /\ FromSources(S, c, b)[S2U(c)].ready <=> b
         /\ FromSources(S, c, b)[S2C(c)] = S[S2C(c)]
         /\ FromSinks(S, c, b)[C2S(c)].ready <=> ~b
         /\ FromSinks(S, c, b)[U2S(c)] = S[U2S(c)]
         /\ FromSinks(S, c, b)[F2S(c)] = S[F2S(c)]
<1> USE Names, NamesDiffer DEF Ends
<1>1. /\ ToSources(S, c, b)[S2C(c)].ready <=> b
      /\ ToSources(S, c, b)[S2U(c)] = S[S2U(c)]
  BY DEF ToSources, End
<1>2. /\ ToSinks(S, c, b)[U2S(c)].ready <=> ~b
      /\ ToSinks(S, c, b)[F2S(c)].ready <=> ~b
      /\ ToSinks(S, c, b)[C2S(c)] = S[C2S(c)]
  BY DEF ToSinks, End
<1>3. /\ FromSources(S, c, b)[S2U(c)].ready <=> b
      /\ FromSources(S, c, b)[S2C(c)] = S[S2C(c)]
  BY DEF FromSources, End
<1>4. /\ FromSinks(S, c, b)[C2S(c)].ready <=> ~b
      /\ FromSinks(S, c, b)[U2S(c)] = S[U2S(c)]
      /\ FromSinks(S, c, b)[F2S(c)] = S[F2S(c)]
  BY DEF FromSinks, End
<1> QED
  BY <1>1, <1>2, <1>3, <1>4

LEMMA OtherSessionsSpared ==
  ASSUME NEW S \in Ends, NEW c \in Client, NEW b \in BOOLEAN, NEW d \in Client, d # c
  PROVE  /\ \A p \in {S2C(d), S2U(d)} : /\ ToSources(S, c, b)[p] = S[p]
                                        /\ FromSources(S, c, b)[p] = S[p]
         /\ \A p \in {C2S(d), U2S(d), F2S(d)} : /\ ToSinks(S, c, b)[p] = S[p]
                                                /\ FromSinks(S, c, b)[p] = S[p]
BY Names, NamesDiffer DEF Ends, ToSources, FromSources, ToSinks, FromSinks

LEMMA OthersSurvive ==
  ASSUME NEW S \in Ends, NEW K \in Ends, NEW c \in Client, NEW d \in Client, d # c,
         SameFlags(d, S, K)
  PROVE  SameFlags(d, SourcesWithout(S, c), SinksWithout(K, c))
BY Names, NamesDiffer DEF Ends, SourcesWithout, SinksWithout, SameFlags

LEMMA ToFollows ==
  ASSUME NEW S \in Ends, NEW K \in Ends, NEW c \in Client, NEW b \in BOOLEAN, NEW r, NEW q,
         Follows(c, S, K, r), q.live = r.live, q.from = r.from, q.to # <<>> <=> b
  PROVE  Follows(c, ToSources(S, c, b), ToSinks(K, c, b), q)
BY SettersSet DEF Follows

LEMMA FromFollows ==
  ASSUME NEW S \in Ends, NEW K \in Ends, NEW c \in Client, NEW b \in BOOLEAN, NEW r, NEW q,
         Follows(c, S, K, r), q.live = r.live, q.to = r.to, q.from # <<>> <=> b
  PROVE  Follows(c, FromSources(S, c, b), FromSinks(K, c, b), q)
BY SettersSet DEF Follows

\* The ends of the sessions other than c are in S and K as they were.
SparesOthers(c, S, K) == \A d \in Client : d # c => SameFlags(d, S, K)

\* A session becomes r, or ends.
LEMMA OneSession ==
  ASSUME WorldOK, FlagsInv, NEW c \in Client, NEW S \in Ends, NEW K \in Ends, NEW r,
         ses[c].live, r.live, Follows(c, S, K, r), SparesOthers(c, S, K),
         \A d \in Client : sock'[ClientConn(d)] = sock[ClientConn(d)],
         \/ src' = S /\ snk' = K /\ ses' = [ses EXCEPT ![c] = r]
         \/ xps_session_destroy(c, S, K)
  PROVE  FlagsInv'
<1>0. ses \in [Client -> Session]
  BY DEF SessionTypeOK
<1>1. ~NotYet(ClientConn(c))
  BY DEF FlagsInv, FlagsFor
<1>2. ASSUME NEW d \in Client, d # c PROVE FlagsFor(d)'
  <2>1. ses'[d] = ses[d]
    BY <1>0, <1>2 DEF xps_session_destroy
  <2>2. SameFlags(d, src', snk')
    <3>1. SameFlags(d, S, K)
      BY <1>2 DEF SparesOthers
    <3>2. SameFlags(d, SourcesWithout(S, c), SinksWithout(K, c))
      BY <1>2, <3>1, OthersSurvive
    <3> QED
      BY <3>1, <3>2 DEF xps_session_destroy
  <2> QED
    BY <2>1, <2>2, FlagsFrame DEF FlagsInv, NotYet
<1>3. FlagsFor(c)'
  <2>1. CASE src' = S /\ snk' = K /\ ses' = [ses EXCEPT ![c] = r]
    <3>1. ses'[c] = r
      BY <1>0, <2>1
    <3> QED
      BY <1>1, <2>1, <3>1 DEF FlagsFor, Follows, NotYet
  <2>2. CASE xps_session_destroy(c, S, K)
    <3>1. ~ses'[c].live
      BY <1>0, <2>2 DEF xps_session_destroy, NoSession
    <3>2. ~src'[S2U(c)].ready
      BY <2>2, Names, NamesDiffer DEF xps_session_destroy, SourcesWithout, FreedEnd, Ends
    <3> QED
      BY <3>1, <3>2 DEF FlagsFor, Follows
  <2> QED
    BY <2>1, <2>2
<1> QED
  BY <1>2, <1>3 DEF FlagsInv

LEMMA SettersSpareOthers ==
  ASSUME NEW S \in Ends, NEW K \in Ends, NEW c \in Client, NEW b \in BOOLEAN,
         SparesOthers(c, S, K)
  PROVE  /\ SparesOthers(c, ToSources(S, c, b), ToSinks(K, c, b))
         /\ SparesOthers(c, FromSources(S, c, b), FromSinks(K, c, b))
BY OtherSessionsSpared DEF SparesOthers, SameFlags

LEMMA NothingChanged == \A c \in Client : SparesOthers(c, src, snk)
BY DEF SparesOthers, SameFlags

LEMMA SessionFlags ==
  ASSUME WorldOK, FlagsInv, NEW c \in Client, ses[c].live,
         \/ client_source_handler(c) \/ upstream_source_handler(c)
         \/ buf[U2S(c)] # <<>> /\ upstream_sink_handler(c)
         \/ buf[F2S(c)] # <<>> /\ file_sink_handler(c)
         \/ client_source_close_handler(c) \/ client_sink_close_handler(c)
         \/ upstream_source_close_handler(c) \/ upstream_sink_close_handler(c)
         \/ file_sink_close_handler(c)
  PROVE  FlagsInv'
<1>0. /\ src \in Ends /\ snk \in Ends /\ ses \in [Client -> Session] /\ ses[c] \in Session
      /\ Follows(c, src, snk, ses[c]) /\ SparesOthers(c, src, snk)
  BY SessionFields, NothingChanged DEF SessionTypeOK, FlagsInv, FlagsFor
<1>1. UNCHANGED sock
  BY DEF client_source_handler, upstream_source_handler, upstream_sink_handler, file_sink_handler,
         client_source_close_handler, client_sink_close_handler, upstream_source_close_handler,
         upstream_sink_close_handler, file_sink_close_handler, CloseSessionEnd
<1>2. /\ ToSources(src, c, FALSE) \in Ends /\ ToSinks(snk, c, FALSE) \in Ends
      /\ FromSources(src, c, FALSE) \in Ends /\ FromSinks(snk, c, FALSE) \in Ends
      /\ ToSources(src, c, TRUE) \in Ends /\ ToSinks(snk, c, TRUE) \in Ends
  BY <1>0, FlagTypes
<1>3. CASE client_source_handler(c)
  <2> DEFINE r == [ses[c] EXCEPT !.to = <<>>]
  <2>1. r.live = ses[c].live /\ r.from = ses[c].from /\ r.to = <<>>
    BY <1>0 DEF Session
  <2>2. /\ Follows(c, ToSources(src, c, FALSE), ToSinks(snk, c, FALSE), r)
        /\ SparesOthers(c, ToSources(src, c, FALSE), ToSinks(snk, c, FALSE))
    BY <1>0, <2>1, ToFollows, SettersSpareOthers
  <2> HIDE DEF r
  <2>3. session_check_destroy(c, ToSources(src, c, FALSE), ToSinks(snk, c, FALSE), r)
    BY <1>3 DEF client_source_handler, r
  <2> QED
    BY <1>1, <1>2, <2>1, <2>2, <2>3, OneSession DEF session_check_destroy
<1>4. CASE upstream_source_handler(c)
  <2> DEFINE r == AfterUpstreamWrite(c)
  <2>1. r.live = ses[c].live /\ r.to = ses[c].to /\ r.from = <<>>
    BY <1>0 DEF AfterUpstreamWrite, Session
  <2> HIDE DEF r
  <2>2. /\ Follows(c, FromSources(src, c, FALSE), FromSinks(snk, c, FALSE), r)
        /\ SparesOthers(c, FromSources(src, c, FALSE), FromSinks(snk, c, FALSE))
    BY <1>0, <2>1, FromFollows, SettersSpareOthers
  <2>3. session_check_destroy(c, FromSources(src, c, FALSE), FromSinks(snk, c, FALSE), r)
    BY <1>4 DEF upstream_source_handler, r
  <2> QED
    BY <1>1, <1>2, <2>1, <2>2, <2>3, OneSession DEF session_check_destroy
<1>5. CASE \/ buf[U2S(c)] # <<>> /\ upstream_sink_handler(c)
           \/ buf[F2S(c)] # <<>> /\ file_sink_handler(c)
  <2>1. PICK r : /\ ses' = [ses EXCEPT ![c] = r]
                 /\ r.live = ses[c].live /\ r.from = ses[c].from /\ r.to # <<>>
    <3>1. CASE buf[U2S(c)] # <<>> /\ upstream_sink_handler(c)
      <4> WITNESS [ses[c] EXCEPT !.connected = TRUE, !.to = buf[U2S(c)]]
      <4> QED
        BY <1>0, <3>1 DEF upstream_sink_handler, Session
    <3>2. CASE buf[F2S(c)] # <<>> /\ file_sink_handler(c)
      <4> WITNESS [ses[c] EXCEPT !.to = buf[F2S(c)]]
      <4> QED
        BY <1>0, <3>2 DEF file_sink_handler, Session
    <3> QED
      BY <1>5, <3>1, <3>2
  <2>2. src' = ToSources(src, c, TRUE) /\ snk' = ToSinks(snk, c, TRUE)
    BY <1>5 DEF upstream_sink_handler, file_sink_handler
  <2>3. /\ Follows(c, ToSources(src, c, TRUE), ToSinks(snk, c, TRUE), r)
        /\ SparesOthers(c, ToSources(src, c, TRUE), ToSinks(snk, c, TRUE))
    BY <1>0, <2>1, ToFollows, SettersSpareOthers
  <2> QED
    BY <1>1, <1>2, <2>1, <2>2, <2>3, OneSession
<1>6. CASE \/ client_source_close_handler(c) \/ client_sink_close_handler(c)
           \/ upstream_source_close_handler(c) \/ upstream_sink_close_handler(c)
           \/ file_sink_close_handler(c)
  <2>1. ASSUME NEW q \in Pipe, NEW S \in Ends
        PROVE  /\ [S EXCEPT ![q].active = FALSE] \in Ends
               /\ \A p \in Pipe : [S EXCEPT ![q].active = FALSE][p].ready = S[p].ready
    <3>1. [S EXCEPT ![q].active = FALSE] \in Ends
      BY EndsUpdate
    <3>2. \A p \in Pipe : [S EXCEPT ![q].active = FALSE][p].ready = S[p].ready
      BY DEF Ends, End
    <3> QED
      BY <3>1, <3>2
  <2>2. ASSUME NEW q \in Pipe
        PROVE  /\ SourceInactive(q) \in Ends /\ SinkInactive(q) \in Ends
               /\ \A p \in Pipe : /\ SourceInactive(q)[p].ready = src[p].ready
                                  /\ SinkInactive(q)[p].ready = snk[p].ready
    BY <1>0, <2>1 DEF SourceInactive, SinkInactive
  <2>3. ASSUME NEW S \in Ends, NEW K \in Ends, NEW r \in {ses[c], MarkUpstreamError(c)},
               \A p \in Pipe : S[p].ready = src[p].ready /\ K[p].ready = snk[p].ready,
               session_check_destroy(c, S, K, r)
        PROVE  FlagsInv'
    <3>1. r.live = ses[c].live /\ r.to = ses[c].to /\ r.from = ses[c].from
      BY <1>0 DEF MarkUpstreamError, Session
    <3>2. Follows(c, S, K, r) /\ SparesOthers(c, S, K)
      BY <1>0, <2>3, <3>1, Names DEF Follows, SparesOthers, SameFlags
    <3> QED
      BY <1>1, <2>3, <3>1, <3>2, OneSession DEF session_check_destroy
  <2>4. PICK q \in Pipe, r \in {ses[c], MarkUpstreamError(c)} :
           \/ session_check_destroy(c, SourceInactive(q), snk, r)
           \/ session_check_destroy(c, src, SinkInactive(q), r)
    BY <1>6, Names
    DEF client_source_close_handler, client_sink_close_handler, upstream_source_close_handler,
        upstream_sink_close_handler, file_sink_close_handler, CloseSessionEnd
  <2> QED
    BY <1>0, <2>2, <2>3, <2>4
<1> QED
  BY <1>3, <1>4, <1>5, <1>6

LEMMA AttachedReady == \A e \in End : Attached(e).ready = e.ready
BY DEF Attached, End

LEMMA RequestFlags ==
  ASSUME WorldOK, FlagsInv, NEW c \in Client, ses[c].live,
         buf[C2S(c)] # <<>>, client_sink_handler(c)
  PROVE  FlagsInv'
<1> DEFINE P == Parsed(c)
           PS == ParsedSources(c)
           PK == ParsedSinks(c)
           F == [Parsed(c) EXCEPT !.to = Head0]
<1>0. /\ src \in Ends /\ snk \in Ends /\ ses \in [Client -> Session] /\ ses[c] \in Session
      /\ Follows(c, src, snk, ses[c]) /\ SparesOthers(c, src, snk)
  BY SessionFields, NothingChanged DEF SessionTypeOK, FlagsInv, FlagsFor
<1>1. PS \in Ends /\ PK \in Ends /\ ToSources(PS, c, TRUE) \in Ends /\ ToSinks(PK, c, TRUE) \in Ends
      /\ ToSources(src, c, TRUE) \in Ends /\ ToSinks(snk, c, TRUE) \in Ends
      /\ FromSources(src, c, TRUE) \in Ends /\ FromSinks(snk, c, TRUE) \in Ends
  BY <1>0, SessionFields, FlagTypes
<1>2. Head0 # <<>>
  BY DEF Head0
<1>3. /\ P.live = ses[c].live /\ P.from # <<>> /\ P.to = ses[c].to
      /\ F.live = ses[c].live /\ F.from = P.from /\ F.to # <<>>
  BY <1>0, <1>2 DEF Parsed, Session
<1>4. Follows(c, PS, PK, P) /\ SparesOthers(c, PS, PK)
  BY <1>0, <1>3, FromFollows, SettersSpareOthers DEF ParsedSources, ParsedSinks
<1> HIDE DEF P, PS, PK, F
<1>5. /\ Follows(c, ToSources(PS, c, TRUE), ToSinks(PK, c, TRUE), F)
      /\ SparesOthers(c, ToSources(PS, c, TRUE), ToSinks(PK, c, TRUE))
  BY <1>1, <1>3, <1>4, ToFollows, SettersSpareOthers
<1>6. CASE BadRequest(c)
  <2> DEFINE r == [ses[c] EXCEPT !.to = Head0]
  <2>1. r.live = ses[c].live /\ r.from = ses[c].from /\ r.to # <<>>
    BY <1>0, <1>2 DEF Session
  <2>2. ses' = [ses EXCEPT ![c] = r]
    BY <1>0, <1>6 DEF BadRequest
  <2> HIDE DEF r
  <2>3. /\ Follows(c, ToSources(src, c, TRUE), ToSinks(snk, c, TRUE), r)
        /\ SparesOthers(c, ToSources(src, c, TRUE), ToSinks(snk, c, TRUE))
    BY <1>0, <2>1, ToFollows, SettersSpareOthers
  <2> QED
    BY <1>1, <1>6, <2>1, <2>2, <2>3, OneSession DEF BadRequest
<1>7. CASE ReplyOnly(c)
  BY <1>1, <1>3, <1>5, <1>7, OneSession DEF ReplyOnly, PS, PK, F
<1>8. CASE ServeFile(c)
  <2> DEFINE S == [ToSources(PS, c, TRUE) EXCEPT
                     ![F2S(c)] = [Attached(FreedEnd) EXCEPT !.ready = TRUE]]
             K == [ToSinks(PK, c, TRUE) EXCEPT ![F2S(c)] = Attached(@)]
  <2>1. S \in Ends /\ K \in Ends
    BY <1>1, Names, EndTypes, FreshEnds DEF Ends
  <2>2. /\ \A d \in Client : /\ S[S2C(d)] = ToSources(PS, c, TRUE)[S2C(d)]
                             /\ S[S2U(d)] = ToSources(PS, c, TRUE)[S2U(d)]
                             /\ K[C2S(d)] = ToSinks(PK, c, TRUE)[C2S(d)]
                             /\ K[U2S(d)] = ToSinks(PK, c, TRUE)[U2S(d)]
                             /\ d # c => K[F2S(d)] = ToSinks(PK, c, TRUE)[F2S(d)]
        /\ K[F2S(c)] = Attached(ToSinks(PK, c, TRUE)[F2S(c)])
    BY <1>1, Names, NamesDiffer DEF Ends
  <2>3. src' = S /\ snk' = K /\ ses' = [ses EXCEPT ![c] = F] /\ UNCHANGED sock
    BY <1>8 DEF ServeFile, PS, PK, F
  <2> HIDE DEF S, K
  <2>4. Follows(c, S, K, F) /\ SparesOthers(c, S, K)
    <3>1. K[F2S(c)].ready = ToSinks(PK, c, TRUE)[F2S(c)].ready
      BY <1>1, <2>2, Names, AttachedReady DEF Ends
    <3>2. Follows(c, S, K, F)
      BY <1>5, <2>2, <3>1 DEF Follows
    <3>3. ASSUME NEW d \in Client, d # c PROVE SameFlags(d, S, K)
      <4>1. SameFlags(d, ToSources(PS, c, TRUE), ToSinks(PK, c, TRUE))
        BY <1>5, <3>3 DEF SparesOthers
      <4> QED
        BY <2>2, <3>3, <4>1 DEF SameFlags
    <3> QED
      BY <3>2, <3>3 DEF SparesOthers
  <2> QED
    BY <1>3, <2>1, <2>3, <2>4, OneSession
<1>9. CASE ReverseProxy(c)
  <2> DEFINE S == [PS EXCEPT ![S2U(c)] = Attached(@), ![U2S(c)] = Attached(FreedEnd)]
             K == [PK EXCEPT ![S2U(c)] = Attached(FreedEnd), ![U2S(c)] = Attached(@)]
  <2>1. S \in Ends /\ K \in Ends
    <3>1. \A e \in End : Attached(e) \in End
      BY EndTypes
    <3> QED
      BY <1>1, <3>1, Names, FreshEnds DEF Ends
  <2>2. /\ \A d \in Client : /\ S[S2C(d)] = PS[S2C(d)]
                             /\ K[C2S(d)] = PK[C2S(d)]
                             /\ K[F2S(d)] = PK[F2S(d)]
                             /\ d # c => S[S2U(d)] = PS[S2U(d)] /\ K[U2S(d)] = PK[U2S(d)]
        /\ S[S2U(c)] = Attached(PS[S2U(c)])
        /\ K[U2S(c)] = Attached(PK[U2S(c)])
    BY <1>1, Names, NamesDiffer DEF Ends
  <2>3. src' = S /\ snk' = K /\ ses' = [ses EXCEPT ![c] = P]
    BY <1>9 DEF ReverseProxy, PS, PK, P
  <2>4. \A d \in Client : sock'[ClientConn(d)] = sock[ClientConn(d)]
    BY <1>9, Names, NamesDiffer DEF ReverseProxy, SocketTypeOK
  <2> HIDE DEF S, K
  <2>5. Follows(c, S, K, P) /\ SparesOthers(c, S, K)
    <3>1. S[S2U(c)].ready = PS[S2U(c)].ready /\ K[U2S(c)].ready = PK[U2S(c)].ready
      BY <1>1, <2>2, Names, AttachedReady DEF Ends
    <3> QED
      BY <1>4, <2>2, <3>1 DEF Follows, SparesOthers, SameFlags
  <2> QED
    BY <1>3, <2>1, <2>3, <2>4, <2>5, OneSession
<1>10. CASE InvalidRoute(c)
  BY <1>0, <1>10, OneSession DEF InvalidRoute
<1>11. CASE /\ ses' = [ses EXCEPT ![c].from = buf[C2S(c)]]
            /\ src' = FromSources(src, c, TRUE)
            /\ snk' = FromSinks(snk, c, TRUE)
            /\ UNCHANGED sock
  <2> DEFINE r == [ses[c] EXCEPT !.from = buf[C2S(c)]]
  <2>1. r.live = ses[c].live /\ r.to = ses[c].to /\ r.from # <<>>
    BY <1>0 DEF Session
  <2>2. ses' = [ses EXCEPT ![c] = r]
    BY <1>0, <1>11
  <2> HIDE DEF r
  <2>3. /\ Follows(c, FromSources(src, c, TRUE), FromSinks(snk, c, TRUE), r)
        /\ SparesOthers(c, FromSources(src, c, TRUE), FromSinks(snk, c, TRUE))
    BY <1>0, <2>1, FromFollows, SettersSpareOthers
  <2> QED
    BY <1>1, <1>11, <2>1, <2>2, <2>3, OneSession
<1> QED
  BY <1>6, <1>7, <1>8, <1>9, <1>10, <1>11 DEF client_sink_handler, session_process_request

-----------------------------------------------------------------------------
(***************************************************************************)
(* Steps of connections, files, the listener and the peers.                *)
(***************************************************************************)
\* A connection's ends are none of the sessions' ends.
LEMMA OtherEnds ==
  ASSUME NEW k \in Conn, NEW e, NEW f, src \in Ends, snk \in Ends,
         UNCHANGED src \/ src' = [src EXCEPT ![SourcePipe(k)] = e],
         UNCHANGED snk \/ snk' = [snk EXCEPT ![SinkPipe(k)] = f]
  PROVE  \A c \in Client : SameFlags(c, src', snk')
BY ConnPipesDiffer, Names DEF Ends, SameFlags

LEMMA ConnectionFlags ==
  ASSUME WorldOK, FlagsInv, Onward, NEW k \in Conn,
         \/ connection_source_handler(k) \/ connection_sink_handler(k)
         \/ connection_source_close_handler(k) \/ connection_sink_close_handler(k)
  PROVE  FlagsInv'
<1>0. src \in Ends /\ snk \in Ends /\ UNCHANGED ses
  BY DEF PipeTypeOK, Ends, connection_source_handler, connection_sink_handler,
         connection_source_close_handler, connection_sink_close_handler
<1>1. UNCHANGED src \/ \E e : src' = [src EXCEPT ![SourcePipe(k)] = e]
  BY DEF connection_source_handler, connection_sink_handler, connection_close,
         connection_source_close_handler, connection_sink_close_handler
<1>2. UNCHANGED snk \/ \E e : snk' = [snk EXCEPT ![SinkPipe(k)] = e]
  BY DEF connection_source_handler, connection_sink_handler, connection_close,
         connection_source_close_handler, connection_sink_close_handler
<1>3. \A c \in Client : SameFlags(c, src', snk')
  BY <1>0, <1>1, <1>2, OtherEnds
<1> QED
  BY <1>0, <1>3, AllFlagsFrame

LEMMA FileFlags ==
  ASSUME WorldOK, FlagsInv, Onward, NEW c \in Client,
         file_source_handler(c) \/ file_source_close_handler(c)
  PROVE  FlagsInv'
<1>1. UNCHANGED <<sock, ses, snk>> /\ (UNCHANGED src \/ src' = [src EXCEPT ![F2S(c)] = FreedEnd])
  BY DEF file_source_handler, file_source_close_handler, FileDestroy
<1>2. \A d \in Client : SameFlags(d, src', snk')
  BY <1>1, Names, NamesDiffer DEF PipeTypeOK, SameFlags
<1> QED
  BY <1>1, <1>2, AllFlagsFrame

LEMMA AcceptFlags ==
  ASSUME WorldOK, FlagsInv, NEW c \in Client, Accept(c)
  PROVE  FlagsInv'
<1>0. /\ src \in Ends /\ snk \in Ends /\ sock \in [Conn -> Socket] /\ ses \in [Client -> Session]
      /\ sock[ClientConn(c)].st = "backlog" /\ xps_session_create(c)
  BY DEF PipeTypeOK, SocketTypeOK, SessionTypeOK, Ends, Accept, Backlog
<1>1. ~src[S2U(c)].ready
  BY <1>0 DEF FlagsInv, FlagsFor, NotYet
<1>2. /\ ~src'[S2C(c)].ready /\ src'[S2U(c)] = src[S2U(c)]
      /\ \A d \in Client : d # c => src'[S2C(d)] = src[S2C(d)] /\ src'[S2U(d)] = src[S2U(d)]
  BY <1>0, Names, NamesDiffer DEF xps_session_create, Ends, Attached, FreedEnd
<1>3. /\ snk'[C2S(c)].ready
      /\ snk'[U2S(c)].ready /\ snk'[F2S(c)].ready
      /\ \A d \in Client : d # c => /\ snk'[C2S(d)] = snk[C2S(d)]
                                    /\ snk'[U2S(d)] = snk[U2S(d)]
                                    /\ snk'[F2S(d)] = snk[F2S(d)]
  BY <1>0, Names, NamesDiffer DEF xps_session_create, Ends, End, Attached, FreedEnd
<1>4. /\ ses'[c].live /\ ses'[c].to = <<>> /\ ses'[c].from = <<>>
      /\ \A d \in Client : d # c => ses'[d] = ses[d]
  BY <1>0 DEF xps_session_create, NoSession
<1>5. AcceptedSocket(ClientConn(c)).st = "up"
  BY <1>0, Names DEF AcceptedSocket, xps_loop_attach, Socket
<1>6. /\ sock'[ClientConn(c)].st = "up"
      /\ \A d \in Client : d # c => sock'[ClientConn(d)] = sock[ClientConn(d)]
  BY <1>0, <1>5, Names, NamesDiffer DEF xps_session_create
<1>7. FlagsFor(c)'
  BY <1>1, <1>2, <1>3, <1>4, <1>6 DEF FlagsFor, Follows, NotYet
<1>8. ASSUME NEW d \in Client, d # c PROVE FlagsFor(d)'
  BY <1>2, <1>3, <1>4, <1>6, <1>8, FlagsFrame DEF FlagsInv, SameFlags, NotYet
<1> QED
  BY <1>7, <1>8 DEF FlagsInv

LEMMA EpollFlags ==
  ASSUME TypeOK, FlagsInv, Onward,
         \/ epoll_wait \/ (\E e \in batch : HandleEvent(e)) \/ (\E k \in Conn : HandleOut(k))
  PROVE  FlagsInv'
<1>0. src \in Ends /\ snk \in Ends /\ batch \subseteq Event
  BY DEF TypeOK, PipeTypeOK, Ends
<1>1. UNCHANGED ses
  BY DEF epoll_wait, HandleEvent, HandleOut, sessionVars
<1>2. CASE epoll_wait
  BY <1>1, <1>2, AllFlagsFrame DEF epoll_wait, pipeVars, SameFlags
<1>3. CASE \E e \in batch : HandleEvent(e)
  <2>1. PICK e \in batch : HandleEvent(e)
    BY <1>3
  <2>2. /\ e.k \in Conn /\ UNCHANGED snk
        /\ UNCHANGED src \/ \E f : src' = [src EXCEPT ![SourcePipe(e.k)] = f]
    BY <1>0, <2>1 DEF HandleEvent, OnInput, Event
  <2> QED
    BY <1>0, <1>1, <2>2, OtherEnds, AllFlagsFrame
<1>4. CASE \E k \in Conn : HandleOut(k)
  <2>1. PICK k \in Conn : HandleOut(k)
    BY <1>4
  <2>2. UNCHANGED src /\ (UNCHANGED snk \/ \E f : snk' = [snk EXCEPT ![SinkPipe(k)] = f])
    BY <2>1 DEF HandleOut
  <2> QED
    BY <1>0, <1>1, <2>2, OtherEnds, AllFlagsFrame
<1> QED
  BY <1>2, <1>3, <1>4

LEMMA HandlerFlags ==
  ASSUME WorldOK, EndsOwned, FlagsInv, Onward, NEW p \in Pipe,
         \/ src[p].on /\ SourceHandler(p)
         \/ SinkTurn(p) /\ SinkHandler(p)
         \/ src[p].on /\ SourceCloseHandler(p)
         \/ snk[p].on /\ SinkCloseHandler(p)
  PROVE  FlagsInv'
<1> DEFINE c == p[2]
<1>0. c \in Client /\ ClientConn(c) \in Conn /\ UpstreamConn(c) \in Conn /\ OwnedFor(c)
  BY PipeCases, Names, OwnedParts
<1>1. /\ p[1] = "c2s" => p = C2S(c)
      /\ p[1] = "u2s" => p = U2S(c)
      /\ p[1] = "s2c" => p = S2C(c)
      /\ p[1] = "s2u" => p = S2U(c)
      /\ p[1] = "f2s" => p = F2S(c)
  BY DEF C2S, U2S, S2C, S2U, F2S, Pipe
<1> HIDE DEF c
<1>2. /\ src[p].on /\ p[1] \in {"s2c", "s2u"} => ses[c].live
      /\ snk[p].on /\ p[1] \in {"c2s", "u2s", "f2s"} => ses[c].live
  BY <1>0, <1>1 DEF OwnedFor
<1>3. CASE src[p].on /\ SourceHandler(p)
  BY <1>0, <1>2, <1>3, ConnectionFlags, SessionFlags, FileFlags DEF SourceHandler, c
<1>4. CASE SinkTurn(p) /\ SinkHandler(p)
  BY <1>0, <1>1, <1>2, <1>4, ConnectionFlags, SessionFlags, RequestFlags
  DEF SinkHandler, SinkTurn, xps_pipe_is_readable, c
<1>5. CASE src[p].on /\ SourceCloseHandler(p)
  BY <1>0, <1>2, <1>5, ConnectionFlags, SessionFlags, FileFlags DEF SourceCloseHandler, c
<1>6. CASE snk[p].on /\ SinkCloseHandler(p)
  BY <1>0, <1>2, <1>6, ConnectionFlags, SessionFlags DEF SinkCloseHandler, c
<1> QED
  BY <1>3, <1>4, <1>5, <1>6

LEMMA FlagsInit == Init => FlagsInv
<1> SUFFICES ASSUME Init, NEW c \in Client PROVE FlagsFor(c)
  BY DEF FlagsInv
<1>1. ~ses[c].live /\ ~src[S2U(c)].ready
  BY Names DEF Init, SessionInit, NoSession, PipeInit, FreedEnd
<1> QED
  BY <1>1 DEF FlagsFor, Follows

LEMMA FlagsStep == TypeOK /\ EndsOwned /\ FlagsInv /\ [Next]_vars => FlagsInv'
<1> SUFFICES ASSUME TypeOK, EndsOwned, FlagsInv, [Next]_vars PROVE FlagsInv'
  OBVIOUS
<1>0. WorldOK /\ Onward
  BY TypeParts, OnwardStep
<1>1. CASE UNCHANGED <<ses, src, snk>>
  BY <1>0, <1>1, AllFlagsFrame DEF SameFlags
<1>2. CASE UNCHANGED vars \/ SkipNull \/ PassDone \/ ListenerEvent \/ AcceptDone
  BY <1>1, <1>2 DEF vars, SkipNull, PassDone, ListenerEvent, AcceptDone, UnchangedWorld,
                    pipeVars, sockVars, sessionVars
<1>3. CASE (\E p \in Pipe : DestroyDead(p)) \/ EventsDone
  BY <1>1, <1>3 DEF DestroyDead, xps_pipe_destroy, EventsDone, filter_null_pipes,
                    sockVars, sessionVars
<1>4. CASE \E p \in Pipe : SourceStep(p) \/ SinkStep(p) \/ CloseStep(p)
  <2>1. PICK p \in Pipe : \/ src[p].on /\ SourceHandler(p)
                          \/ SinkTurn(p) /\ SinkHandler(p)
                          \/ src[p].on /\ SourceCloseHandler(p)
                          \/ snk[p].on /\ SinkCloseHandler(p)
                          \/ UnchangedWorld
    BY <1>4 DEF SourceStep, SinkStep, CloseStep, SourceTurn, SourceOrphan, SinkOrphan
  <2>2. CASE UnchangedWorld
    BY <1>1, <2>2 DEF UnchangedWorld, pipeVars, sockVars, sessionVars
  <2> QED
    BY <1>0, <2>1, <2>2, HandlerFlags
<1>5. CASE \/ epoll_wait \/ (\E e \in batch : HandleEvent(e)) \/ (\E k \in Conn : HandleOut(k))
  BY <1>0, <1>5, EpollFlags
<1>6. CASE \E c \in Client : Accept(c)
  BY <1>0, <1>6, AcceptFlags
<1>7. CASE PeerStep
  BY <1>1, <1>7 DEF PeerStep, pipeVars, sessionVars
<1> QED
  BY <1>2, <1>3, <1>4, <1>5, <1>6, <1>7
  DEF Next, xps_loop_run, handle_pipes, handle_epoll_events, Idle

\* The flags never disagree with the buffers: whatever the order in which a
\* session's handlers run, its sources are ready exactly when they have
\* something to pass on and its sinks exactly when there is room for it, so no
\* source writes a NULL buffer and no sink overwrites a full one.
THEOREM ReadinessFollows == Spec => []ReadyFollowsBuffers
<1>1. Init => TypeOK /\ EndsOwned /\ FlagsInv
  BY TypeInit, OwnedInit, FlagsInit
<1>2. TypeOK /\ EndsOwned /\ FlagsInv /\ [Next]_vars => TypeOK' /\ EndsOwned' /\ FlagsInv'
  BY TypeStep, OwnedStep, FlagsStep
<1> QED
  BY <1>1, <1>2, FlagsMean, PTL DEF Spec

-----------------------------------------------------------------------------
(***************************************************************************)
(* Bounds.                                                                 *)
(***************************************************************************)
\* What a read can make of a pipe below its threshold, and what a source that
\* passes a whole pipe on can.
One == Thresh - 1 + RecvMax
Two == Thresh - 1 + One

Bound(p) == IF p[1] \in {"c2s", "u2s", "f2s"} THEN One ELSE Two

PipesBounded == \A p \in Pipe : Len(buf[p]) <= Bound(p)
BuffersBounded == \A c \in Client : Len(ses[c].to) <= One /\ Len(ses[c].from) <= One

BoundInv == PipesBounded /\ BuffersBounded

LEMMA Bounds ==
  ASSUME NEW c \in Client
  PROVE  /\ One \in Nat \ {0} /\ Two \in Nat /\ One <= Two
         /\ Bound(C2S(c)) = One /\ Bound(U2S(c)) = One /\ Bound(F2S(c)) = One
         /\ Bound(S2C(c)) = Two /\ Bound(S2U(c)) = Two
<1>1. One \in Nat \ {0} /\ Two \in Nat /\ One <= Two
  BY PipeAssumption, SocketAssumption DEF One, Two
<1> QED
  BY <1>1 DEF Bound, C2S, U2S, F2S, S2C, S2U

LEMMA BoundsMean == BoundInv => Backpressure
BY Bounds, Names DEF BoundInv, PipesBounded, BuffersBounded, Backpressure, One, Two

LEMMA WriteBounded ==
  ASSUME WorldOK, PipesBounded, NEW p \in Pipe, NEW b \in Seq(Nat),
         xps_pipe_is_writable(p), Thresh - 1 + Len(b) <= Bound(p), xps_pipe_source_write(p, b)
  PROVE  PipesBounded'
<1>1. buf \in [Pipe -> Seq(Nat)] /\ buf[p] \in Seq(Nat)
  BY DEF PipeTypeOK
<1>2. Len(buf[p]) \in Nat /\ Len(b) \in Nat /\ Len(buf[p] \o b) = Len(buf[p]) + Len(b)
  BY <1>1
<1>3. Bound(p) \in Nat /\ Thresh \in Nat
  BY PipeCases, Bounds, PipeAssumption
<1>4. Len(buf[p] \o b) <= Bound(p)
  BY <1>2, <1>3 DEF xps_pipe_is_writable
<1>5. buf' = [buf EXCEPT ![p] = buf[p] \o b]
  BY DEF xps_pipe_source_write
<1> QED
  BY <1>1, <1>4, <1>5 DEF PipesBounded, Bound

LEMMA ShrinkBounded ==
  ASSUME WorldOK, PipesBounded, NEW p \in Pipe, NEW n \in Nat, n <= Len(buf[p]),
         xps_pipe_sink_clear(p, n) \/ UNCHANGED buf \/ buf' = [buf EXCEPT ![p] = <<>>]
  PROVE  PipesBounded'
<1>1. buf \in [Pipe -> Seq(Nat)] /\ buf[p] \in Seq(Nat)
  BY DEF PipeTypeOK
<1>2. Len(SubSeq(buf[p], n + 1, Len(buf[p]))) <= Len(buf[p]) /\ Len(<<>>) <= Len(buf[p])
  BY <1>1
<1>3. Len(SubSeq(buf[p], n + 1, Len(buf[p]))) \in Nat /\ Len(buf[p]) \in Nat
      /\ Bound(p) \in Nat /\ Len(<<>>) \in Nat
  BY <1>1, PipeCases, Bounds
<1>4. \/ UNCHANGED buf
      \/ \E s : /\ buf' = [buf EXCEPT ![p] = s]
                /\ Len(s) \in Nat /\ Len(s) <= Len(buf[p])
  BY <1>2, <1>3 DEF xps_pipe_sink_clear
<1>5. Len(buf[p]) <= Bound(p)
  BY DEF PipesBounded
<1>6. ASSUME NEW s, buf' = [buf EXCEPT ![p] = s], Len(s) \in Nat, Len(s) <= Len(buf[p])
      PROVE  PipesBounded'
  <2>1. Len(s) <= Bound(p)
    BY <1>3, <1>5, <1>6
  <2> QED
    BY <1>1, <1>6, <2>1 DEF PipesBounded, Bound
<1> QED
  BY <1>4, <1>6 DEF PipesBounded, Bound

LEMMA BuffersFrame ==
  ASSUME WorldOK, BuffersBounded, NEW c \in Client, NEW r,
         Len(r.to) <= One /\ Len(r.from) <= One,
         ses' = [ses EXCEPT ![c] = r] \/ ses' = [ses EXCEPT ![c] = NoSession] \/ UNCHANGED ses
  PROVE  BuffersBounded'
<1>1. Len(NoSession.to) <= One /\ Len(NoSession.from) <= One
  <2>1. Len(<<>>) = 0 /\ One \in Nat
    BY Bounds
  <2> QED
    BY <2>1 DEF NoSession
<1> QED
  BY <1>1 DEF BuffersBounded, SessionTypeOK, One

LEMMA NoneCleared == <<>> \in Seq(Nat) /\ Len(<<>>) = 0 /\ Head0 \in Seq(Nat) /\ Len(Head0) = 1
BY DEF Head0

\* Only a handler changes the buffers.
LEMMA BoundFrame ==
  ASSUME BoundInv, UNCHANGED <<buf, ses>>
  PROVE  BoundInv'
BY DEF BoundInv, PipesBounded, BuffersBounded, Bound, One, Two

LEMMA ConnectionBounded ==
  ASSUME WorldOK, BoundInv, NEW k \in Conn,
         \/ xps_pipe_is_writable(SourcePipe(k)) /\ connection_source_handler(k)
         \/ connection_sink_handler(k)
         \/ connection_source_close_handler(k) \/ connection_sink_close_handler(k)
  PROVE  BoundInv'
<1>0. /\ UNCHANGED ses /\ sock[k] \in Socket /\ buf[SinkPipe(k)] \in Seq(Nat)
      /\ SourcePipe(k) \in Pipe /\ SinkPipe(k) \in Pipe
  BY ConnPipesDiffer
  DEF SocketTypeOK, PipeTypeOK, connection_source_handler, connection_sink_handler,
      connection_source_close_handler, connection_sink_close_handler
<1>1. CASE UNCHANGED buf
  BY <1>0, <1>1, BoundFrame
<1>2. CASE /\ xps_pipe_is_writable(SourcePipe(k))
           /\ xps_pipe_source_write(SourcePipe(k), SubSeq(sock[k].in, 1, RecvLen(k)))
  <2> DEFINE b == SubSeq(sock[k].in, 1, RecvLen(k))
  <2>1. RecvLen(k) \in Nat /\ RecvLen(k) <= Len(sock[k].in) /\ RecvLen(k) <= RecvMax
        /\ sock[k].in \in Seq(Nat)
    BY <1>0, SocketAssumption DEF RecvLen, Socket
  <2>2. b \in Seq(Nat) /\ Len(b) = RecvLen(k)
    BY <2>1
  <2>3. Bound(SourcePipe(k)) = One
    BY ConnCases, Bounds
  <2>4. Thresh - 1 + Len(b) <= Bound(SourcePipe(k))
    BY <2>1, <2>2, <2>3, PipeAssumption, SocketAssumption DEF One
  <2>5. PipesBounded'
    BY <1>0, <1>2, <2>2, <2>4, WriteBounded DEF BoundInv
  <2> QED
    BY <1>0, <2>5 DEF BoundInv, BuffersBounded, One
<1>3. CASE xps_pipe_sink_clear(SinkPipe(k), SendLen(k, Len(buf[SinkPipe(k)])))
  <2>1. /\ SendLen(k, Len(buf[SinkPipe(k)])) \in Nat
        /\ SendLen(k, Len(buf[SinkPipe(k)])) <= Len(buf[SinkPipe(k)])
    BY <1>0, SocketAssumption DEF SendLen, Socket
  <2>2. PipesBounded'
    BY <1>0, <1>3, <2>1, ShrinkBounded DEF BoundInv
  <2> QED
    BY <1>0, <2>2 DEF BoundInv, BuffersBounded, One
<1> QED
  BY <1>1, <1>2, <1>3
  DEF connection_source_handler, connection_sink_handler,
      connection_source_close_handler, connection_sink_close_handler

LEMMA FileBounded ==
  ASSUME WorldOK, BoundInv, NEW c \in Client,
         \/ xps_pipe_is_writable(F2S(c)) /\ file_source_handler(c)
         \/ file_source_close_handler(c)
  PROVE  BoundInv'
<1>0. UNCHANGED ses /\ file[c] \in File /\ F2S(c) \in Pipe
  BY Names DEF SessionTypeOK, file_source_handler, file_source_close_handler
<1>1. CASE UNCHANGED buf
  BY <1>0, <1>1, BoundFrame
<1> DEFINE n == SmallerOf(file[c].left, RecvMax)
           b == From(FileSize - file[c].left + 1, n)
<1>2. CASE xps_pipe_is_writable(F2S(c)) /\ xps_pipe_source_write(F2S(c), b)
  <2>1. n \in Nat /\ n <= RecvMax /\ FileSize - file[c].left + 1 \in Nat \ {0}
    BY <1>0, SocketAssumption, SessionAssumption DEF SmallerOf, File
  <2>2. b \in Seq(Nat) /\ Len(b) = n
    <3>1. b \in Seq(Nat)
      BY <2>1, FromType
    <3>2. Len(b) = n
      BY <2>1 DEF From
    <3> QED
      BY <3>1, <3>2
  <2>3. Thresh - 1 + Len(b) <= Bound(F2S(c))
    BY <2>1, <2>2, Bounds, PipeAssumption, SocketAssumption DEF One
  <2>4. PipesBounded'
    BY <1>0, <1>2, <2>2, <2>3, WriteBounded DEF BoundInv
  <2> QED
    BY <1>0, <2>4 DEF BoundInv, BuffersBounded, One
<1> QED
  BY <1>1, <1>2 DEF file_source_handler, file_source_close_handler, FileDestroy

LEMMA SessionBounded ==
  ASSUME WorldOK, BoundInv, NEW c \in Client,
         \/ xps_pipe_is_writable(S2C(c)) /\ client_source_handler(c)
         \/ xps_pipe_is_writable(S2U(c)) /\ upstream_source_handler(c)
         \/ upstream_sink_handler(c) \/ file_sink_handler(c)
         \/ client_source_close_handler(c) \/ client_sink_close_handler(c)
         \/ upstream_source_close_handler(c) \/ upstream_sink_close_handler(c)
         \/ file_sink_close_handler(c)
  PROVE  BoundInv'
<1>0. /\ ses \in [Client -> Session] /\ ses[c] \in Session
      /\ ses[c].to \in Seq(Nat) /\ ses[c].from \in Seq(Nat)
      /\ Len(ses[c].to) <= One /\ Len(ses[c].from) <= One
      /\ Len(ses[c].to) \in Nat /\ Len(ses[c].from) \in Nat
      /\ Thresh \in Nat \ {0} /\ One \in Nat \ {0} /\ Two = Thresh - 1 + One
  BY SessionFields, SequenceTypes, Bounds, PipeAssumption
  DEF SessionTypeOK, BoundInv, BuffersBounded, Two
<1>1. \A p \in {U2S(c), F2S(c)} : /\ p \in Pipe /\ buf[p] \in Seq(Nat)
                                  /\ Len(buf[p]) \in Nat /\ Len(buf[p]) <= One
  BY Names, Bounds DEF PipeTypeOK, BoundInv, PipesBounded
<1>2. CASE xps_pipe_is_writable(S2C(c)) /\ client_source_handler(c)
  <2>1. PipesBounded'
    <3>1. Thresh - 1 + Len(ses[c].to) <= Bound(S2C(c))
      BY <1>0, Bounds
    <3> QED
      BY <1>0, <1>2, <3>1, Names, WriteBounded DEF BoundInv, client_source_handler
  <2>2. BuffersBounded'
    <3> DEFINE r == [ses[c] EXCEPT !.to = <<>>]
    <3>1. Len(r.to) <= One /\ Len(r.from) <= One
      BY <1>0, NoneCleared DEF Session
    <3> HIDE DEF r
    <3>2. ses' = [ses EXCEPT ![c] = r] \/ ses' = [ses EXCEPT ![c] = NoSession]
      BY <1>2 DEF client_source_handler, session_check_destroy, xps_session_destroy, r
    <3> QED
      BY <3>1, <3>2, BuffersFrame DEF BoundInv
  <2> QED
    BY <2>1, <2>2 DEF BoundInv
<1>3. CASE xps_pipe_is_writable(S2U(c)) /\ upstream_source_handler(c)
  <2>1. PipesBounded'
    <3>1. Thresh - 1 + Len(ses[c].from) <= Bound(S2U(c))
      BY <1>0, Bounds
    <3> QED
      BY <1>0, <1>3, <3>1, Names, WriteBounded DEF BoundInv, upstream_source_handler
  <2>2. BuffersBounded'
    <3> DEFINE r == AfterUpstreamWrite(c)
    <3>1. Len(r.to) <= One /\ Len(r.from) <= One
      BY <1>0, NoneCleared DEF AfterUpstreamWrite, Session
    <3> HIDE DEF r
    <3>2. ses' = [ses EXCEPT ![c] = r] \/ ses' = [ses EXCEPT ![c] = NoSession]
      BY <1>3 DEF upstream_source_handler, session_check_destroy, xps_session_destroy, r
    <3> QED
      BY <3>1, <3>2, BuffersFrame DEF BoundInv
  <2> QED
    BY <2>1, <2>2 DEF BoundInv
<1>4. CASE upstream_sink_handler(c) \/ file_sink_handler(c)
  <2>1. PipesBounded'
    <3>1. PICK p \in {U2S(c), F2S(c)} : xps_pipe_sink_clear(p, Len(buf[p]))
      BY <1>4 DEF upstream_sink_handler, file_sink_handler
    <3>2. p \in Pipe /\ Len(buf[p]) \in Nat /\ Len(buf[p]) <= Len(buf[p])
      BY <1>1
    <3> QED
      BY <3>1, <3>2, ShrinkBounded DEF BoundInv
  <2>2. PICK r : ses' = [ses EXCEPT ![c] = r] /\ Len(r.to) <= One /\ Len(r.from) <= One
    <3>1. CASE upstream_sink_handler(c)
      <4> WITNESS [ses[c] EXCEPT !.connected = TRUE, !.to = buf[U2S(c)]]
      <4> QED
        BY <1>0, <1>1, <3>1 DEF upstream_sink_handler, Session
    <3>2. CASE file_sink_handler(c)
      <4> WITNESS [ses[c] EXCEPT !.to = buf[F2S(c)]]
      <4> QED
        BY <1>0, <1>1, <3>2 DEF file_sink_handler, Session
    <3> QED
      BY <1>4, <3>1, <3>2
  <2> QED
    BY <2>1, <2>2, BuffersFrame DEF BoundInv
<1>5. CASE \/ client_source_close_handler(c) \/ client_sink_close_handler(c)
           \/ upstream_source_close_handler(c) \/ upstream_sink_close_handler(c)
           \/ file_sink_close_handler(c)
  <2>1. UNCHANGED buf
    BY <1>5 DEF client_source_close_handler, client_sink_close_handler, upstream_source_close_handler,
                upstream_sink_close_handler, file_sink_close_handler, CloseSessionEnd
  <2>2. PICK r \in {ses[c], MarkUpstreamError(c)} :
           ses' = [ses EXCEPT ![c] = r] \/ ses' = [ses EXCEPT ![c] = NoSession]
    BY <1>5 DEF client_source_close_handler, client_sink_close_handler, upstream_source_close_handler,
                upstream_sink_close_handler, file_sink_close_handler, CloseSessionEnd,
                session_check_destroy, xps_session_destroy
  <2>3. r.to = ses[c].to /\ r.from = ses[c].from
    BY <1>0 DEF MarkUpstreamError, Session
  <2>4. BuffersBounded'
    BY <1>0, <2>2, <2>3, BuffersFrame DEF BoundInv
  <2> QED
    BY <2>1, <2>4 DEF BoundInv, PipesBounded, Bound, One, Two
<1> QED
  BY <1>2, <1>3, <1>4, <1>5

LEMMA RequestBounded ==
  ASSUME WorldOK, BoundInv, NEW c \in Client, client_sink_handler(c)
  PROVE  BoundInv'
<1>0. /\ ses \in [Client -> Session] /\ ses[c] \in Session
      /\ Len(ses[c].to) <= One /\ Len(ses[c].from) <= One /\ One \in Nat \ {0}
      /\ C2S(c) \in Pipe /\ Len(buf[C2S(c)]) \in Nat /\ Len(buf[C2S(c)]) <= One
  BY SessionFields, SequenceTypes, Bounds, Names
  DEF SessionTypeOK, PipeTypeOK, BoundInv, BuffersBounded, PipesBounded
<1>1. UNCHANGED buf \/ xps_pipe_sink_clear(C2S(c), Len(buf[C2S(c)]))
  BY DEF client_sink_handler, session_process_request, BadRequest, ReplyOnly, ServeFile,
         ReverseProxy, InvalidRoute
<1>2. PipesBounded'
  BY <1>0, <1>1, ShrinkBounded DEF BoundInv
<1>3. PICK r \in {[ses[c] EXCEPT !.to = Head0], Parsed(c), [Parsed(c) EXCEPT !.to = Head0],
                  NoSession, [ses[c] EXCEPT !.from = buf[C2S(c)]]} :
         ses' = [ses EXCEPT ![c] = r]
  BY <1>0 DEF client_sink_handler, session_process_request, BadRequest, ReplyOnly, ServeFile,
              ReverseProxy, InvalidRoute, xps_session_destroy
<1>4. Len(r.to) <= One /\ Len(r.from) <= One
  <2>1. 1 <= One /\ 0 <= One
    BY <1>0
  <2>2. CASE r = [ses[c] EXCEPT !.to = Head0]
    BY <1>0, <2>1, <2>2, NoneCleared DEF Session
  <2>3. CASE r = Parsed(c)
    BY <1>0, <2>1, <2>3, NoneCleared DEF Parsed, Session
  <2>4. CASE r = [Parsed(c) EXCEPT !.to = Head0]
    BY <1>0, <2>1, <2>4, NoneCleared DEF Parsed, Session
  <2>5. CASE r = NoSession
    BY <2>1, <2>5, NoneCleared DEF NoSession
  <2>6. CASE r = [ses[c] EXCEPT !.from = buf[C2S(c)]]
    BY <1>0, <2>6 DEF Session
  <2> QED
    BY <2>2, <2>3, <2>4, <2>5, <2>6
<1> QED
  BY <1>2, <1>3, <1>4, BuffersFrame DEF BoundInv

LEMMA HandlerBounded ==
  ASSUME WorldOK, BoundInv, NEW p \in Pipe,
         \/ SourceTurn(p) /\ SourceHandler(p)
         \/ SinkHandler(p) \/ SourceCloseHandler(p) \/ SinkCloseHandler(p)
  PROVE  BoundInv'
<1> DEFINE c == p[2]
<1>0. c \in Client /\ ClientConn(c) \in Conn /\ UpstreamConn(c) \in Conn
  BY PipeCases, Names
<1>1. /\ p[1] = "c2s" => p = SourcePipe(ClientConn(c))
      /\ p[1] = "u2s" => p = SourcePipe(UpstreamConn(c))
      /\ p[1] = "s2c" => p = S2C(c)
      /\ p[1] = "s2u" => p = S2U(c)
      /\ p[1] = "f2s" => p = F2S(c)
  BY <1>0, ConnPipes DEF C2S, U2S, S2C, S2U, F2S, Pipe
<1> HIDE DEF c
<1>2. CASE SourceTurn(p) /\ SourceHandler(p)
  BY <1>0, <1>1, <1>2, ConnectionBounded, SessionBounded, FileBounded
  DEF SourceHandler, SourceTurn, c
<1>3. CASE SinkHandler(p)
  BY <1>0, <1>3, ConnectionBounded, SessionBounded, RequestBounded DEF SinkHandler, c
<1>4. CASE SourceCloseHandler(p)
  BY <1>0, <1>4, ConnectionBounded, SessionBounded, FileBounded DEF SourceCloseHandler, c
<1>5. CASE SinkCloseHandler(p)
  BY <1>0, <1>5, ConnectionBounded, SessionBounded DEF SinkCloseHandler, c
<1> QED
  BY <1>2, <1>3, <1>4, <1>5

LEMMA BoundInit == Init => BoundInv
<1> SUFFICES ASSUME Init PROVE BoundInv
  OBVIOUS
<1>1. \A p \in Pipe : Bound(p) \in Nat
  BY PipeCases, Bounds
<1>2. PipesBounded
  BY <1>1, NoneCleared DEF Init, PipeInit, PipesBounded
<1>3. \A c \in Client : One \in Nat
  BY Bounds
<1>4. BuffersBounded
  BY <1>3, NoneCleared DEF Init, SessionInit, NoSession, BuffersBounded
<1> QED
  BY <1>2, <1>4 DEF BoundInv

LEMMA BoundStep == TypeOK /\ BoundInv /\ [Next]_vars => BoundInv'
<1> SUFFICES ASSUME TypeOK, BoundInv, [Next]_vars PROVE BoundInv'
  OBVIOUS
<1>0. WorldOK
  BY TypeParts
<1>1. CASE UNCHANGED <<buf, ses>>
  BY <1>1, BoundFrame
<1>2. CASE \/ UNCHANGED vars \/ SkipNull \/ PassDone \/ ListenerEvent \/ AcceptDone \/ PeerStep
           \/ epoll_wait \/ (\E e \in batch : HandleEvent(e)) \/ (\E k \in Conn : HandleOut(k))
           \/ EventsDone
  BY <1>1, <1>2 DEF vars, SkipNull, PassDone, ListenerEvent, AcceptDone, PeerStep, UnchangedWorld,
                    epoll_wait, HandleEvent, HandleOut, EventsDone, filter_null_pipes,
                    pipeVars, sessionVars
<1>3. CASE \E p \in Pipe : DestroyDead(p)
  <2>1. PICK p \in Pipe : DestroyDead(p)
    BY <1>3
  <2>2. buf' = [buf EXCEPT ![p] = <<>>] /\ UNCHANGED ses
    BY <2>1 DEF DestroyDead, xps_pipe_destroy, sessionVars
  <2>3. Len(buf[p]) \in Nat /\ 0 \in Nat /\ 0 <= Len(buf[p])
    BY <1>0 DEF PipeTypeOK
  <2>4. PipesBounded'
    BY <1>0, <2>2, <2>3, ShrinkBounded DEF BoundInv
  <2> QED
    BY <2>2, <2>4 DEF BoundInv, BuffersBounded, One
<1>4. CASE \E p \in Pipe : SourceStep(p) \/ SinkStep(p) \/ CloseStep(p)
  <2>1. PICK p \in Pipe : \/ SourceTurn(p) /\ SourceHandler(p)
                          \/ SinkHandler(p) \/ SourceCloseHandler(p) \/ SinkCloseHandler(p)
                          \/ UnchangedWorld
    BY <1>4 DEF SourceStep, SinkStep, CloseStep
  <2>2. CASE UnchangedWorld
    BY <1>1, <2>2 DEF UnchangedWorld, pipeVars, sessionVars
  <2> QED
    BY <1>0, <2>1, <2>2, HandlerBounded
<1>5. CASE \E c \in Client : Accept(c)
  <2>1. PICK c \in Client : Accept(c)
    BY <1>5
  <2>2. /\ UNCHANGED buf
        /\ ses' = [ses EXCEPT ![c] = [NoSession EXCEPT !.live = TRUE]]
    BY <2>1 DEF Accept, xps_session_create
  <2>3. /\ [NoSession EXCEPT !.live = TRUE].to = <<>>
        /\ [NoSession EXCEPT !.live = TRUE].from = <<>>
    BY DEF NoSession
  <2>4. One \in Nat /\ 0 <= One
    BY <2>1, Bounds
  <2>5. BuffersBounded'
    BY <1>0, <2>2, <2>3, <2>4, NoneCleared, BuffersFrame DEF BoundInv
  <2> QED
    BY <2>2, <2>5 DEF BoundInv, PipesBounded, Bound, One, Two
<1> QED
  BY <1>2, <1>3, <1>4, <1>5
  DEF Next, xps_loop_run, handle_pipes, handle_epoll_events, Idle

\* Backpressure holds for every threshold and every size of a read: a pipe
\* exceeds its threshold by less than one read, or by less than one whole pipe
\* when a session passes it on, whatever the peers send and however slowly they
\* take it.
THEOREM PipesStayBounded == Spec => []Backpressure
<1>1. Init => TypeOK /\ BoundInv
  BY TypeInit, BoundInit
<1>2. TypeOK /\ BoundInv /\ [Next]_vars => TypeOK' /\ BoundInv'
  BY TypeStep, BoundStep
<1> QED
  BY <1>1, <1>2, BoundsMean, PTL DEF Spec

-----------------------------------------------------------------------------
(***************************************************************************)
(* core->pipes: its positions are distinct and its NULLs are counted, and  *)
(* pipes never change their order in it.                                   *)
(***************************************************************************)
\* A pipe is created once: a client that has no session yet has no pipe, and a
\* session without a request has only the two to and from its client.
FreshFor(c) ==
  /\ NotYet(ClientConn(c)) =>
       ~ses[c].live /\ \A p \in {C2S(c), S2C(c), S2U(c), U2S(c), F2S(c)} : slot[p] = 0
  /\ ses[c].live /\ ~ses[c].req => \A p \in {S2U(c), U2S(c), F2S(c)} : slot[p] = 0

FreshInv == \A c \in Client : FreshFor(c)

\* PipesKeepOrder for one step.
Ordered == \A p, q \in Listed \cap Listed' : slot[p] < slot[q] => slot'[p] < slot'[q]

ListKept == PipeListConsistent' /\ Ordered

-----------------------------------------------------------------------------
(***************************************************************************)
(* The operations on the list.                                             *)
(***************************************************************************)
LEMMA ListTypes ==
  ASSUME WorldOK
  PROVE  /\ slot \in [Pipe -> Nat] /\ pipes_length \in Nat /\ n_null_pipes \in Nat
         /\ IsFiniteSet(Listed) /\ Cardinality(Listed) \in Nat /\ Listed \subseteq Pipe
BY PipeFinite DEF PipeTypeOK, Listed

LEMMA SameList ==
  ASSUME PipeListConsistent, UnchangedList
  PROVE  ListKept
BY DEF PipeListConsistent, UnchangedList, Listed, ListKept, Ordered

LEMMA OnePushed ==
  ASSUME WorldOK, PipeListConsistent, NEW p \in Pipe, slot[p] = 0, PushPipe(p)
  PROVE  ListKept
<1>0. /\ slot \in [Pipe -> Nat] /\ pipes_length \in Nat /\ n_null_pipes \in Nat
      /\ IsFiniteSet(Listed) /\ Cardinality(Listed) \in Nat /\ Listed \subseteq Pipe
  BY ListTypes
<1>1. /\ p \notin Listed /\ slot'[p] = pipes_length + 1
      /\ \A q \in Pipe : q # p => slot'[q] = slot[q]
      /\ pipes_length' = pipes_length + 1 /\ n_null_pipes' = n_null_pipes
  BY <1>0 DEF PushPipe, Listed
<1>2. Listed' = Listed \cup {p}
  BY <1>0, <1>1 DEF Listed
<1>3. Cardinality(Listed') = Cardinality(Listed) + 1
  BY <1>0, <1>1, <1>2, FS_AddElement
<1>4. /\ \A q \in Listed : slot[q] \in Nat /\ slot[q] <= pipes_length
      /\ \A q, r \in Listed : slot[q] = slot[r] => q = r
      /\ n_null_pipes = pipes_length - Cardinality(Listed)
  BY <1>0 DEF PipeListConsistent
<1>5. \A q \in Listed : slot'[q] = slot[q] /\ slot'[q] < slot'[p]
  BY <1>0, <1>1, <1>4
<1>6. \A q, r \in Listed' : slot'[q] = slot'[r] => q = r
  BY <1>0, <1>2, <1>4, <1>5
<1>7. \A q \in Listed' : slot'[q] <= pipes_length'
  BY <1>0, <1>1, <1>2, <1>4, <1>5
<1>8. n_null_pipes' = pipes_length' - Cardinality(Listed')
  BY <1>0, <1>1, <1>3, <1>4
<1>9. Ordered
  BY <1>5 DEF Ordered
<1> QED
  BY <1>6, <1>7, <1>8, <1>9 DEF PipeListConsistent, ListKept

LEMMA TwoPushed ==
  ASSUME WorldOK, PipeListConsistent, NEW p \in Pipe, NEW q \in Pipe, p # q,
         slot[p] = 0, slot[q] = 0, PushPipes(p, q)
  PROVE  ListKept
<1>0. /\ slot \in [Pipe -> Nat] /\ pipes_length \in Nat /\ n_null_pipes \in Nat
      /\ IsFiniteSet(Listed) /\ Cardinality(Listed) \in Nat /\ Listed \subseteq Pipe
  BY ListTypes
<1>1. /\ p \notin Listed /\ q \notin Listed
      /\ slot'[p] = pipes_length + 1 /\ slot'[q] = pipes_length + 2
      /\ \A r \in Pipe : r \notin {p, q} => slot'[r] = slot[r]
      /\ pipes_length' = pipes_length + 2 /\ n_null_pipes' = n_null_pipes
  BY <1>0 DEF PushPipes, Listed
<1>2. Listed' = (Listed \cup {p}) \cup {q}
  BY <1>0, <1>1 DEF Listed
<1>3. Cardinality(Listed') = Cardinality(Listed) + 2
  <2>1. IsFiniteSet(Listed \cup {p}) /\ Cardinality(Listed \cup {p}) = Cardinality(Listed) + 1
    BY <1>0, <1>1, FS_AddElement
  <2>2. q \notin Listed \cup {p}
    BY <1>1
  <2>3. Cardinality((Listed \cup {p}) \cup {q}) = Cardinality(Listed \cup {p}) + 1
    BY <2>1, <2>2, FS_AddElement
  <2> QED
    BY <1>0, <1>2, <2>1, <2>3
<1>4. /\ \A r \in Listed : slot[r] \in Nat /\ slot[r] <= pipes_length
      /\ \A r, s \in Listed : slot[r] = slot[s] => r = s
      /\ n_null_pipes = pipes_length - Cardinality(Listed)
  BY <1>0 DEF PipeListConsistent
<1>5. /\ slot'[p] < slot'[q]
      /\ \A r \in Listed : slot'[r] = slot[r] /\ slot'[r] < slot'[p] /\ slot'[r] < slot'[q]
  BY <1>0, <1>1, <1>4
<1>6. \A r, s \in Listed' : slot'[r] = slot'[s] => r = s
  BY <1>0, <1>1, <1>2, <1>4, <1>5
<1>7. \A r \in Listed' : slot'[r] <= pipes_length'
  BY <1>0, <1>1, <1>2, <1>4, <1>5
<1>8. n_null_pipes' = pipes_length' - Cardinality(Listed')
  BY <1>0, <1>1, <1>3, <1>4
<1>9. Ordered
  BY <1>5 DEF Ordered
<1> QED
  BY <1>6, <1>7, <1>8, <1>9 DEF PipeListConsistent, ListKept

LEMMA OneDestroyed ==
  ASSUME WorldOK, PipeListConsistent, NEW p \in Pipe, slot[p] # 0, xps_pipe_destroy(p)
  PROVE  ListKept
<1>0. /\ slot \in [Pipe -> Nat] /\ pipes_length \in Nat /\ n_null_pipes \in Nat
      /\ IsFiniteSet(Listed) /\ Cardinality(Listed) \in Nat /\ Listed \subseteq Pipe
  BY ListTypes
<1>1. /\ p \in Listed /\ slot'[p] = 0
      /\ \A q \in Pipe : q # p => slot'[q] = slot[q]
      /\ pipes_length' = pipes_length /\ n_null_pipes' = n_null_pipes + 1
  BY <1>0 DEF xps_pipe_destroy, Listed
<1>2. Listed' = Listed \ {p} /\ \A q \in Listed' : slot'[q] = slot[q]
  BY <1>0, <1>1 DEF Listed
<1>3. Cardinality(Listed') = Cardinality(Listed) - 1
  BY <1>0, <1>1, <1>2, FS_RemoveElement
<1>4. n_null_pipes' = pipes_length' - Cardinality(Listed')
  BY <1>0, <1>1, <1>3 DEF PipeListConsistent
<1> QED
  BY <1>1, <1>2, <1>4 DEF PipeListConsistent, ListKept, Ordered

\* Compaction: the rank of a pipe grows with its position and is at most the
\* number of pipes.
LEMMA RankGrows ==
  ASSUME WorldOK, NEW p \in Listed, NEW q \in Listed, slot[p] < slot[q]
  PROVE  Rank(p) < Rank(q)
<1> DEFINE P == {r \in Listed : slot[r] <= slot[p]}
           Q == {r \in Listed : slot[r] <= slot[q]}
<1>1. \A r \in Listed : slot[r] \in Nat
  BY ListTypes
<1>2. P \subseteq Q /\ q \in Q /\ q \notin P
  BY <1>1
<1>3. IsFiniteSet(Q) /\ Cardinality(P) \in Nat /\ Cardinality(Q) \in Nat
  BY PipeFinite DEF Listed
<1>4. Cardinality(P) <= Cardinality(Q) /\ Cardinality(P) # Cardinality(Q)
  <2> HIDE DEF P, Q
  <2> QED
    BY <1>2, <1>3, FS_Subset
<1> QED
  BY <1>3, <1>4 DEF Rank

LEMMA RankBounded ==
  ASSUME WorldOK, NEW p \in Listed
  PROVE  Rank(p) \in Nat /\ Rank(p) <= Cardinality(Listed)
<1> DEFINE P == {r \in Listed : slot[r] <= slot[p]}
<1>1. P \in SUBSET Listed /\ IsFiniteSet(Listed) /\ Cardinality(P) \in Nat
  BY ListTypes, PipeFinite DEF Listed
<1>2. Cardinality(P) <= Cardinality(Listed)
  BY <1>1, FS_Subset
<1> QED
  BY <1>1, <1>2 DEF Rank

LEMMA Filtered ==
  ASSUME WorldOK, PipeListConsistent, filter_null_pipes
  PROVE  ListKept
<1>1. CASE UnchangedList
  BY <1>1, SameList
<1>2. CASE /\ slot' = [p \in Pipe |-> IF slot[p] = 0 THEN 0 ELSE Rank(p)]
           /\ pipes_length' = Cardinality(Listed)
           /\ n_null_pipes' = 0
  <2>1. \A p \in Listed : Rank(p) # 0 /\ Rank(p) \in Nat /\ Rank(p) <= Cardinality(Listed)
    BY RankPositive, RankBounded
  <2>2. Listed' = Listed /\ \A p \in Listed : slot'[p] = Rank(p)
    BY <1>2, <2>1 DEF Listed
  <2>3. \A p, q \in Listed : slot[p] < slot[q] => slot'[p] < slot'[q]
    BY <2>2, RankGrows
  <2>4. \A p, q \in Listed : slot'[p] = slot'[q] => p = q
    <3>1. ASSUME NEW p \in Listed, NEW q \in Listed, slot'[p] = slot'[q], p # q
          PROVE  FALSE
      <4>1. slot[p] \in Nat /\ slot[q] \in Nat /\ slot[p] # slot[q]
        BY <3>1, ListTypes DEF PipeListConsistent
      <4>2. slot[p] < slot[q] \/ slot[q] < slot[p]
        BY <4>1
      <4>3. slot'[p] < slot'[q] \/ slot'[q] < slot'[p]
        BY <2>3, <4>2
      <4>4. slot'[p] \in Nat /\ slot'[q] \in Nat
        BY <2>1, <2>2
      <4> QED
        BY <3>1, <4>3, <4>4
    <3> QED
      BY <3>1
  <2>5. Cardinality(Listed) \in Nat
    BY ListTypes
  <2>6. n_null_pipes' = pipes_length' - Cardinality(Listed')
    BY <1>2, <2>2, <2>5
  <2> QED
    BY <1>2, <2>1, <2>2, <2>3, <2>4, <2>6 DEF PipeListConsistent, ListKept, Ordered
<1> QED
  BY <1>1, <1>2 DEF filter_null_pipes

-----------------------------------------------------------------------------
(***************************************************************************)
(* The steps.                                                              *)
(***************************************************************************)
\* A step that lists no new pipe.
LEMMA FreshFrame ==
  ASSUME FreshInv, Onward,
         \A p \in Pipe : slot[p] = 0 => slot'[p] = 0,
         \A c \in Client : ses'[c].live => ses[c].live /\ (ses[c].req => ses'[c].req)
  PROVE  FreshInv'
<1> SUFFICES ASSUME NEW c \in Client PROVE FreshFor(c)'
  BY DEF FreshInv
<1>1. FreshFor(c) /\ (NotYet(ClientConn(c))' => NotYet(ClientConn(c)))
  BY Names DEF FreshInv, Onward
<1> QED
  BY <1>1, Names DEF FreshFor

\* A session of which only buffers and upstream_* fields change, or that ends.
LEMMA OneSessionFresh ==
  ASSUME WorldOK, FreshInv, PipeListConsistent, Onward, UnchangedList, NEW c \in Client, NEW r,
         r.live => ses[c].live, ses[c].req => r.req,
         \/ UNCHANGED ses \/ ses' = [ses EXCEPT ![c] = r] \/ ses' = [ses EXCEPT ![c] = NoSession]
  PROVE  FreshInv' /\ ListKept
<1>1. ses \in [Client -> Session] /\ ~NoSession.live
  BY DEF SessionTypeOK, NoSession
<1>2. \A d \in Client : ses'[d].live => ses[d].live /\ (ses[d].req => ses'[d].req)
  BY <1>1
<1>3. \A p \in Pipe : slot[p] = 0 => slot'[p] = 0
  BY DEF UnchangedList
<1> QED
  BY <1>2, <1>3, FreshFrame, SameList

LEMMA SessionFresh ==
  ASSUME WorldOK, FreshInv, PipeListConsistent, Onward, NEW c \in Client,
         \/ client_source_handler(c) \/ upstream_source_handler(c)
         \/ upstream_sink_handler(c) \/ file_sink_handler(c)
         \/ client_source_close_handler(c) \/ client_sink_close_handler(c)
         \/ upstream_source_close_handler(c) \/ upstream_sink_close_handler(c)
         \/ file_sink_close_handler(c)
  PROVE  FreshInv' /\ ListKept
<1>0. ses \in [Client -> Session] /\ ses[c] \in Session /\ UnchangedList
  BY SessionFields
  DEF SessionTypeOK, client_source_handler, upstream_source_handler, upstream_sink_handler,
      file_sink_handler, client_source_close_handler, client_sink_close_handler,
      upstream_source_close_handler, upstream_sink_close_handler, file_sink_close_handler,
      CloseSessionEnd
<1>1. PICK r \in {[ses[c] EXCEPT !.to = <<>>], AfterUpstreamWrite(c),
                  [ses[c] EXCEPT !.connected = TRUE, !.to = buf[U2S(c)]],
                  [ses[c] EXCEPT !.to = buf[F2S(c)]], ses[c], MarkUpstreamError(c)} :
         ses' = [ses EXCEPT ![c] = r] \/ ses' = [ses EXCEPT ![c] = NoSession]
  BY <1>0
  DEF client_source_handler, upstream_source_handler, upstream_sink_handler,
      file_sink_handler, client_source_close_handler, client_sink_close_handler,
      upstream_source_close_handler, upstream_sink_close_handler, file_sink_close_handler,
      CloseSessionEnd, session_check_destroy, xps_session_destroy
<1>2. r.live = ses[c].live /\ r.req = ses[c].req
  BY <1>0 DEF AfterUpstreamWrite, MarkUpstreamError, Session
<1> QED
  BY <1>0, <1>1, <1>2, OneSessionFresh

\* New pipes of a session that has its request now.
LEMMA RequestPushed ==
  ASSUME WorldOK, FreshInv, PipeListConsistent, Onward, NEW c \in Client,
         ses[c].live, ~ses[c].req, NEW r, r.req, ses' = [ses EXCEPT ![c] = r],
         PushPipe(F2S(c)) \/ PushPipes(S2U(c), U2S(c))
  PROVE  FreshInv' /\ ListKept
<1>0. slot \in [Pipe -> Nat] /\ ses \in [Client -> Session]
  BY DEF PipeTypeOK, SessionTypeOK
<1>1. slot[S2U(c)] = 0 /\ slot[U2S(c)] = 0 /\ slot[F2S(c)] = 0 /\ ~NotYet(ClientConn(c))
  BY DEF FreshInv, FreshFor
<1>2. ListKept
  BY <1>1, Names, NamesDiffer, OnePushed, TwoPushed
<1>3. FreshFor(c)'
  <2>1. ses'[c] = r /\ ~NotYet(ClientConn(c))'
    BY <1>0, <1>1, Names DEF Onward
  <2> QED
    BY <2>1 DEF FreshFor
<1>4. ASSUME NEW d \in Client, d # c PROVE FreshFor(d)'
  <2>1. ses'[d] = ses[d] /\ (NotYet(ClientConn(d))' => NotYet(ClientConn(d))) /\ FreshFor(d)
    BY <1>0, <1>4, Names DEF Onward, FreshInv
  <2>2. \A p \in {C2S(d), S2C(d), S2U(d), U2S(d), F2S(d)} : slot'[p] = slot[p]
    BY <1>0, <1>4, Names, NamesDiffer DEF PushPipe, PushPipes
  <2> QED
    BY <2>1, <2>2 DEF FreshFor
<1> QED
  BY <1>2, <1>3, <1>4 DEF FreshInv

LEMMA RequestFresh ==
  ASSUME WorldOK, FreshInv, PipeListConsistent, Onward, NEW c \in Client,
         ses[c].live, client_sink_handler(c)
  PROVE  FreshInv' /\ ListKept
<1>0. /\ ses \in [Client -> Session] /\ ses[c] \in Session /\ Parsed(c) \in Session
      /\ Parsed(c).req /\ [Parsed(c) EXCEPT !.to = Head0].req
      /\ Parsed(c).live = ses[c].live
      /\ [Parsed(c) EXCEPT !.to = Head0].live = ses[c].live
  BY SessionFields DEF SessionTypeOK, Parsed, Session
<1>1. CASE ~ses[c].req /\ (ServeFile(c) \/ ReverseProxy(c))
  BY <1>0, <1>1, RequestPushed DEF ServeFile, ReverseProxy
<1>2. CASE BadRequest(c)
  <2>1. /\ [ses[c] EXCEPT !.to = Head0].live = ses[c].live
        /\ [ses[c] EXCEPT !.to = Head0].req = ses[c].req
    BY <1>0 DEF Session
  <2>2. ses' = [ses EXCEPT ![c] = [ses[c] EXCEPT !.to = Head0]] /\ UnchangedList
    BY <1>0, <1>2 DEF BadRequest
  <2> QED
    BY <2>1, <2>2, OneSessionFresh
<1>3. CASE ReplyOnly(c)
  BY <1>0, <1>3, OneSessionFresh DEF ReplyOnly
<1>4. CASE InvalidRoute(c)
  <2>1. ses' = [ses EXCEPT ![c] = NoSession] /\ UnchangedList
    BY <1>4 DEF InvalidRoute, xps_session_destroy
  <2> QED
    BY <2>1, OneSessionFresh
<1>5. CASE UnchangedList /\ ses' = [ses EXCEPT ![c].from = buf[C2S(c)]]
  <2>1. /\ [ses[c] EXCEPT !.from = buf[C2S(c)]].live = ses[c].live
        /\ [ses[c] EXCEPT !.from = buf[C2S(c)]].req = ses[c].req
    BY <1>0 DEF Session
  <2>2. ses' = [ses EXCEPT ![c] = [ses[c] EXCEPT !.from = buf[C2S(c)]]]
    BY <1>0, <1>5
  <2> QED
    BY <1>5, <2>1, <2>2, OneSessionFresh
<1> QED
  BY <1>1, <1>2, <1>3, <1>4, <1>5 DEF client_sink_handler, session_process_request

LEMMA AcceptFresh ==
  ASSUME WorldOK, FreshInv, PipeListConsistent, Onward, NEW c \in Client, Accept(c)
  PROVE  FreshInv' /\ ListKept
<1>0. /\ slot \in [Pipe -> Nat] /\ ses \in [Client -> Session] /\ sock \in [Conn -> Socket]
      /\ sock[ClientConn(c)].st = "backlog" /\ xps_session_create(c)
  BY DEF PipeTypeOK, SocketTypeOK, SessionTypeOK, Accept, Backlog
<1>1. \A p \in {C2S(c), S2C(c), S2U(c), U2S(c), F2S(c)} : slot[p] = 0
  BY <1>0 DEF FreshInv, FreshFor, NotYet
<1>2. PushPipes(C2S(c), S2C(c))
  BY <1>0 DEF xps_session_create
<1>3. ListKept
  BY <1>1, <1>2, Names, NamesDiffer, TwoPushed
<1>4. FreshFor(c)'
  <2>1. AcceptedSocket(ClientConn(c)).st = "up"
    BY <1>0, Names DEF AcceptedSocket, xps_loop_attach, Socket
  <2>2. ~NotYet(ClientConn(c))'
    BY <1>0, <2>1, Names DEF xps_session_create, NotYet
  <2>3. \A p \in {S2U(c), U2S(c), F2S(c)} : slot'[p] = 0
    BY <1>0, <1>1, <1>2, Names, NamesDiffer DEF PushPipes
  <2> QED
    BY <2>2, <2>3 DEF FreshFor
<1>5. ASSUME NEW d \in Client, d # c PROVE FreshFor(d)'
  <2>1. ses'[d] = ses[d] /\ (NotYet(ClientConn(d))' => NotYet(ClientConn(d))) /\ FreshFor(d)
    BY <1>0, <1>5, Names DEF xps_session_create, Onward, FreshInv
  <2>2. \A p \in {C2S(d), S2C(d), S2U(d), U2S(d), F2S(d)} : slot'[p] = slot[p]
    BY <1>0, <1>2, <1>5, Names, NamesDiffer DEF PushPipes
  <2> QED
    BY <2>1, <2>2 DEF FreshFor
<1> QED
  BY <1>3, <1>4, <1>5 DEF FreshInv

\* Handlers of connections and files.
LEMMA OthersFresh ==
  ASSUME WorldOK, FreshInv, PipeListConsistent, Onward, UnchangedList, UNCHANGED ses
  PROVE  FreshInv' /\ ListKept
BY FreshFrame, SameList DEF UnchangedList

LEMMA ConnectionFresh ==
  ASSUME WorldOK, FreshInv, PipeListConsistent, Onward,
         \/ \E k \in Conn : \/ connection_source_handler(k) \/ connection_sink_handler(k)
                            \/ connection_source_close_handler(k)
                            \/ connection_sink_close_handler(k)
         \/ \E c \in Client : file_source_handler(c) \/ file_source_close_handler(c)
  PROVE  FreshInv' /\ ListKept
<1>1. UnchangedList /\ UNCHANGED ses
  BY DEF connection_source_handler, connection_sink_handler, connection_source_close_handler,
         connection_sink_close_handler, file_source_handler, file_source_close_handler
<1> QED
  BY <1>1, OthersFresh

LEMMA HandlerFresh ==
  ASSUME WorldOK, EndsOwned, FreshInv, PipeListConsistent, Onward, NEW p \in Pipe,
         \/ SourceHandler(p) \/ SourceCloseHandler(p) \/ SinkCloseHandler(p)
         \/ snk[p].on /\ SinkHandler(p)
  PROVE  FreshInv' /\ ListKept
<1> DEFINE c == p[2]
<1>0. c \in Client /\ ClientConn(c) \in Conn /\ UpstreamConn(c) \in Conn /\ OwnedFor(c)
  BY PipeCases, Names, OwnedParts
<1>1. p[1] = "c2s" => p = C2S(c)
  BY DEF C2S, Pipe
<1> HIDE DEF c
<1>2. CASE SourceHandler(p)
  BY <1>0, <1>2, ConnectionFresh, SessionFresh DEF SourceHandler, c
<1>3. CASE snk[p].on /\ SinkHandler(p)
  <2>1. CASE p[1] = "c2s" /\ client_sink_handler(c)
    <3>1. ses[c].live
      BY <1>0, <1>1, <1>3, <2>1 DEF OwnedFor
    <3> QED
      BY <1>0, <2>1, <3>1, RequestFresh
  <2> QED
    BY <1>0, <1>3, <2>1, ConnectionFresh, SessionFresh DEF SinkHandler, c
<1>4. CASE SourceCloseHandler(p)
  BY <1>0, <1>4, ConnectionFresh, SessionFresh DEF SourceCloseHandler, c
<1>5. CASE SinkCloseHandler(p)
  BY <1>0, <1>5, ConnectionFresh, SessionFresh DEF SinkCloseHandler, c
<1> QED
  BY <1>2, <1>3, <1>4, <1>5

LEMMA ListInit == Init => FreshInv /\ PipeListConsistent
<1> SUFFICES ASSUME Init PROVE FreshInv /\ PipeListConsistent
  OBVIOUS
<1>1. Listed = {} /\ Cardinality(Listed) = 0
  BY FS_EmptySet DEF Init, PipeInit, Listed
<1>2. PipeListConsistent
  BY <1>1 DEF Init, PipeInit, PipeListConsistent
<1>3. ASSUME NEW c \in Client PROVE FreshFor(c)
  BY Names DEF Init, PipeInit, SessionInit, NoSession, FreshFor
<1> QED
  BY <1>2, <1>3 DEF FreshInv

LEMMA ListStep ==
  TypeOK /\ EndsOwned /\ FreshInv /\ PipeListConsistent /\ [Next]_vars => FreshInv' /\ ListKept
<1> SUFFICES ASSUME TypeOK, EndsOwned, FreshInv, PipeListConsistent, [Next]_vars
             PROVE  FreshInv' /\ ListKept
  OBVIOUS
<1>0. WorldOK /\ Onward /\ idx # 0
  BY TypeParts, OnwardStep DEF TypeOK
<1>1. CASE UnchangedList /\ UNCHANGED ses
  BY <1>0, <1>1, OthersFresh
<1>2. CASE \/ UNCHANGED vars \/ SkipNull \/ PassDone \/ ListenerEvent \/ AcceptDone \/ PeerStep
           \/ epoll_wait \/ (\E e \in batch : HandleEvent(e)) \/ (\E k \in Conn : HandleOut(k))
  BY <1>1, <1>2 DEF vars, SkipNull, PassDone, ListenerEvent, AcceptDone, PeerStep, UnchangedWorld,
                    epoll_wait, HandleEvent, HandleOut, pipeVars, sessionVars, UnchangedList
<1>3. CASE \E p \in Pipe : DestroyDead(p)
  <2>1. PICK p \in Pipe : DestroyDead(p)
    BY <1>3
  <2>2. slot[p] # 0 /\ xps_pipe_destroy(p) /\ UNCHANGED ses
    BY <1>0, <2>1 DEF DestroyDead, At, sessionVars
  <2>3. \A q \in Pipe : slot[q] = 0 => slot'[q] = 0
    BY <1>0, <2>2 DEF xps_pipe_destroy, PipeTypeOK
  <2> QED
    BY <1>0, <2>2, <2>3, OneDestroyed, FreshFrame
<1>4. CASE EventsDone
  <2>1. filter_null_pipes /\ UNCHANGED ses
    BY <1>4 DEF EventsDone, sessionVars
  <2>2. \A q \in Pipe : slot[q] = 0 => slot'[q] = 0
    BY <2>1 DEF filter_null_pipes, UnchangedList
  <2> QED
    BY <1>0, <2>1, <2>2, Filtered, FreshFrame
<1>5. CASE \E p \in Pipe : SourceStep(p) \/ SinkStep(p) \/ CloseStep(p)
  <2>1. PICK p \in Pipe : \/ SourceHandler(p) \/ SourceCloseHandler(p) \/ SinkCloseHandler(p)
                          \/ snk[p].on /\ SinkHandler(p)
                          \/ UnchangedWorld
    BY <1>5 DEF SourceStep, SinkStep, CloseStep, SinkTurn
  <2>2. CASE UnchangedWorld
    BY <1>1, <2>2 DEF UnchangedWorld, pipeVars, sessionVars, UnchangedList
  <2> QED
    BY <1>0, <2>1, <2>2, HandlerFresh
<1>6. CASE \E c \in Client : Accept(c)
  BY <1>0, <1>6, AcceptFresh
<1> QED
  BY <1>2, <1>3, <1>4, <1>5, <1>6
  DEF Next, xps_loop_run, handle_pipes, handle_epoll_events, Idle

-----------------------------------------------------------------------------
ListInv == TypeOK /\ EndsOwned /\ FreshInv /\ PipeListConsistent

LEMMA ListAlways == Spec => []ListInv
<1>1. Init => ListInv
  BY TypeInit, OwnedInit, ListInit DEF ListInv
<1>2. ListInv /\ [Next]_vars => ListInv'
  BY TypeStep, OwnedStep, ListStep DEF ListInv, ListKept
<1> QED
  BY <1>1, <1>2, PTL DEF Spec

\* The list of pipes stays sound for any number of clients and any threshold
\* of compaction: two pipes never share a position, none lies beyond the end,
\* and n_null_pipes is exactly the number of NULLs, so filter_nulls runs when
\* it should.
THEOREM PipeListIsConsistent == Spec => []PipeListConsistent
<1>1. ListInv => PipeListConsistent
  BY DEF ListInv
<1> QED
  BY <1>1, ListAlways, PTL

\* No step exchanges two pipes, compaction included: what was created first is
\* served first in every pass.
THEOREM PipeOrderIsKept == Spec => PipesKeepOrder
<1>1. ListInv /\ [Next]_vars =>
        [\A p, q \in Listed \cap Listed' : slot[p] < slot[q] => slot'[p] < slot'[q]]_vars
  BY ListStep DEF ListInv, ListKept, Ordered
<1> QED
  BY <1>1, ListAlways, PTL DEF Spec, PipesKeepOrder
=============================================================================
