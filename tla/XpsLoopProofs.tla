---------------------------- MODULE XpsLoopProofs ----------------------------
(***************************************************************************)
(* Proofs about the event loop: the types of its state, the ownership of   *)
(* the pipe ends, and the events of connections.                           *)
(***************************************************************************)
EXTENDS XpsLoopProperties, FiniteSetTheorems, TLAPS

LEMMA Names ==
  ASSUME NEW c \in Client
  PROVE  /\ C2S(c) \in Pipe /\ S2C(c) \in Pipe /\ S2U(c) \in Pipe
         /\ U2S(c) \in Pipe /\ F2S(c) \in Pipe
         /\ ClientConn(c) \in Conn /\ UpstreamConn(c) \in Conn
BY DEF C2S, S2C, S2U, U2S, F2S, Pipe, ClientConn, UpstreamConn, Conn

LEMMA NamesDiffer ==
  ASSUME NEW c \in Client, NEW d \in Client
  PROVE  /\ C2S(c) \notin {S2C(d), S2U(d), U2S(d), F2S(d)}
         /\ S2C(c) \notin {S2U(d), U2S(d), F2S(d)}
         /\ S2U(c) \notin {U2S(d), F2S(d)}
         /\ U2S(c) # F2S(d)
         /\ c # d => /\ C2S(c) # C2S(d) /\ S2C(c) # S2C(d) /\ S2U(c) # S2U(d)
                     /\ U2S(c) # U2S(d) /\ F2S(c) # F2S(d)
         /\ ClientConn(c) # UpstreamConn(d)
         /\ c # d => /\ ClientConn(c) # ClientConn(d) /\ UpstreamConn(c) # UpstreamConn(d)
BY DEF C2S, S2C, S2U, U2S, F2S, ClientConn, UpstreamConn

LEMMA ConnCases ==
  ASSUME NEW k \in Conn
  PROVE  \E c \in Client :
           \/ k = ClientConn(c) /\ SourcePipe(k) = C2S(c) /\ SinkPipe(k) = S2C(c)
           \/ k = UpstreamConn(c) /\ SourcePipe(k) = U2S(c) /\ SinkPipe(k) = S2U(c)
BY DEF Conn, ClientConn, UpstreamConn, SourcePipe, SinkPipe, C2S, S2C, U2S, S2U

LEMMA ConnPipes ==
  ASSUME NEW c \in Client
  PROVE  /\ SourcePipe(ClientConn(c)) = C2S(c) /\ SinkPipe(ClientConn(c)) = S2C(c)
         /\ SourcePipe(UpstreamConn(c)) = U2S(c) /\ SinkPipe(UpstreamConn(c)) = S2U(c)
BY DEF ClientConn, UpstreamConn, SourcePipe, SinkPipe, C2S, S2C, U2S, S2U

LEMMA ConnPipesDiffer ==
  ASSUME NEW k \in Conn
  PROVE  /\ SourcePipe(k) \in Pipe /\ SinkPipe(k) \in Pipe
         /\ \A h \in Conn : h # k => SourcePipe(h) # SourcePipe(k) /\ SinkPipe(h) # SinkPipe(k)
         /\ \A c \in Client : /\ SourcePipe(k) \notin {S2C(c), S2U(c), F2S(c)}
                              /\ SinkPipe(k) \notin {C2S(c), U2S(c), F2S(c)}
BY DEF Conn, SourcePipe, SinkPipe, C2S, S2C, S2U, U2S, F2S, Pipe

LEMMA PipeCases ==
  ASSUME NEW p \in Pipe
  PROVE  \E c \in Client : p \in {C2S(c), S2C(c), S2U(c), U2S(c), F2S(c)} /\ p[2] = c
BY DEF Pipe, C2S, S2C, S2U, U2S, F2S

-----------------------------------------------------------------------------
(***************************************************************************)
(* Types.  WorldOK is the part of TypeOK that the handlers can disturb.    *)
(***************************************************************************)
WorldOK == PipeTypeOK /\ SocketTypeOK /\ SessionTypeOK

USE DEF WorldOK

LEMMA NotBoolean == \A x : (~x) \in BOOLEAN
OBVIOUS

LEMMA EndTypes ==
  ASSUME NEW e \in End, NEW b \in BOOLEAN
  PROVE  /\ Attached(e) \in End
         /\ [e EXCEPT !.ready = b] \in End
         /\ [e EXCEPT !.active = b] \in End
BY DEF End, Attached

LEMMA FreshEnds ==
  /\ FreedEnd \in End /\ Attached(FreedEnd) \in End
  /\ [Attached(FreedEnd) EXCEPT !.ready = TRUE] \in End
<1>1. FreedEnd \in End
  BY DEF FreedEnd, End
<1> QED
  BY <1>1, EndTypes

LEMMA SequenceTypes ==
  /\ <<>> \in Seq(Nat) /\ Head0 \in Seq(Nat)
  /\ \A s, t \in Seq(Nat) : s \o t \in Seq(Nat)
  /\ \A s \in Seq(Nat) : Len(s) \in Nat
  /\ \A s \in Seq(Nat) : \A n \in Nat : n <= Len(s) =>
       SubSeq(s, 1, n) \in Seq(Nat) /\ SubSeq(s, n + 1, Len(s)) \in Seq(Nat)
BY DEF Head0

LEMMA FromType ==
  ASSUME NEW a \in Nat \ {0}, NEW n \in Nat
  PROVE  From(a, n) \in Seq(Nat)
BY DEF From

LEMMA SocketTypes ==
  /\ NoSocket \in Socket
  /\ \A s \in Socket : xps_loop_attach(s) \in Socket /\ xps_loop_detach(s) \in Socket
<1>1. NoSocket \in Socket
  BY SocketAssumption DEF NoSocket, Socket
<1>2. ASSUME NEW s \in Socket
      PROVE  xps_loop_attach(s) \in Socket /\ xps_loop_detach(s) \in Socket
  <2>1. ReadyAtOnce(s) \in BOOLEAN
    BY DEF ReadyAtOnce
  <2>2. \A r, b \in BOOLEAN : [s EXCEPT !.reg = r, !.edge = b] \in Socket
    BY DEF Socket
  <2> QED
    BY <2>1, <2>2 DEF xps_loop_attach, xps_loop_detach
<1> QED
  BY <1>1, <1>2

Ends == [Pipe -> End]

LEMMA EndsUpdate ==
  ASSUME NEW S \in Ends, NEW p \in Pipe, NEW b \in BOOLEAN
  PROVE  /\ [S EXCEPT ![p].ready = b] \in Ends
         /\ [S EXCEPT ![p].active = b] \in Ends
         /\ \A e \in End : [S EXCEPT ![p] = e] \in Ends
BY EndTypes DEF Ends

LEMMA ToSinksType ==
  ASSUME NEW K \in Ends, NEW c \in Client, NEW full
  PROVE  ToSinks(K, c, full) \in Ends
<1>1. (~full) \in BOOLEAN
  BY NotBoolean
<1>2. [K EXCEPT ![U2S(c)].ready = ~full] \in Ends
  BY <1>1, EndsUpdate, Names
<1> QED
  BY <1>1, <1>2, EndsUpdate, Names DEF ToSinks

LEMMA FlagTypes ==
  ASSUME NEW S \in Ends, NEW c \in Client, NEW b \in BOOLEAN
  PROVE  /\ ToSources(S, c, b) \in Ends /\ ToSinks(S, c, b) \in Ends
         /\ FromSources(S, c, b) \in Ends /\ FromSinks(S, c, b) \in Ends
         /\ SourcesWithout(S, c) \in Ends /\ SinksWithout(S, c) \in Ends
<1> USE Names, FreshEnds
<1>1. ToSources(S, c, b) \in Ends /\ FromSources(S, c, b) \in Ends /\ FromSinks(S, c, b) \in Ends
  BY EndsUpdate DEF ToSources, FromSources, FromSinks
<1>2. ToSinks(S, c, b) \in Ends
  BY ToSinksType
<1>3. SourcesWithout(S, c) \in Ends
  BY DEF SourcesWithout, Ends
<1>4. SinksWithout(S, c) \in Ends
  BY DEF SinksWithout, Ends
<1> QED
  BY <1>1, <1>2, <1>3, <1>4

LEMMA ClosedSocketType ==
  ASSUME WorldOK, NEW k \in Conn
  PROVE  /\ ClosedSocket(k) \in Socket
         /\ AcceptedSocket(k) \in Socket
         /\ ConnectingSocket \in Socket
<1>1. sock[k] \in Socket
  BY DEF SocketTypeOK
<1>2. ClosedSocket(k) \in Socket
  <2>1. xps_loop_detach(sock[k]) \in Socket
    BY <1>1, SocketTypes
  <2>2. ASSUME NEW s \in Socket
        PROVE  [s EXCEPT !.st = "closed", !.in = <<>>] \in Socket
    BY SequenceTypes DEF Socket
  <2> QED
    BY <2>1, <2>2 DEF ClosedSocket
<1>3. AcceptedSocket(k) \in Socket
  <2>1. [sock[k] EXCEPT !.st = "up"] \in Socket
    BY <1>1 DEF Socket
  <2> QED
    BY <2>1, SocketTypes DEF AcceptedSocket
<1>4. ConnectingSocket \in Socket
  <2>1. [NoSocket EXCEPT !.st = "pending"] \in Socket
    BY SocketTypes DEF Socket
  <2> QED
    BY <2>1, SocketTypes DEF ConnectingSocket
<1> QED
  BY <1>2, <1>3, <1>4

LEMMA ConnPipeTypes ==
  ASSUME NEW k \in Conn
  PROVE  SourcePipe(k) \in Pipe /\ SinkPipe(k) \in Pipe
BY ConnCases, Names

LEMMA CloseTypes ==
  ASSUME WorldOK, NEW k \in Conn, connection_close(k)
  PROVE  src' \in Ends /\ snk' \in Ends /\ sock' \in [Conn -> Socket]
BY ClosedSocketType, ConnPipeTypes, FreshEnds
   DEF connection_close, Ends, PipeTypeOK, SocketTypeOK

LEMMA CheckDestroyTypes ==
  ASSUME WorldOK, NEW c \in Client, NEW S \in Ends, NEW K \in Ends,
         NEW r \in Session, session_check_destroy(c, S, K, r)
  PROVE  src' \in Ends /\ snk' \in Ends /\ ses' \in [Client -> Session]
<1>1. NoSession \in Session
  BY DEF NoSession, Session
<1>2. CASE Flowing(c, S, K, r)
  BY <1>2 DEF session_check_destroy, SessionTypeOK
<1>3. CASE ~Flowing(c, S, K, r)
  <2>1. SourcesWithout(S, c) \in Ends /\ SinksWithout(K, c) \in Ends
    BY FlagTypes
  <2> QED
    BY <1>1, <1>3, <2>1 DEF session_check_destroy, xps_session_destroy, SessionTypeOK
<1> QED
  BY <1>2, <1>3

LEMMA SendRecvLen ==
  ASSUME WorldOK, NEW k \in Conn, NEW n \in Nat
  PROVE  /\ RecvLen(k) \in Nat /\ RecvLen(k) <= Len(sock[k].in)
         /\ SendLen(k, n) \in Nat /\ SendLen(k, n) <= n
         /\ SendLen(k, n) <= sock[k].room
         /\ sock[k].room \in 0..Room /\ sock[k].in \in Seq(Nat)
<1>1. sock[k] \in Socket
  BY DEF SocketTypeOK
<1>2. sock[k].room \in 0..Room /\ sock[k].in \in Seq(Nat)
  BY <1>1 DEF Socket
<1>3. Len(sock[k].in) \in Nat
  BY <1>2
<1> QED
  BY <1>2, <1>3, SocketAssumption DEF RecvLen, SendLen

LEMMA ConnectionSourceTypes ==
  ASSUME WorldOK, NEW k \in Conn, connection_source_handler(k)
  PROVE  WorldOK'
<1> DEFINE p == SourcePipe(k)
           s == sock[k].in
           n == RecvLen(k)
<1>0. p \in Pipe /\ sock[k] \in Socket /\ s \in Seq(Nat) /\ n \in Nat /\ n <= Len(s)
  BY ConnPipeTypes, SendRecvLen DEF SocketTypeOK
<1>1. CASE sock[k].in # <<>> /\ xps_pipe_source_write(p, SubSeq(s, 1, n))
           /\ sock' = [sock EXCEPT ![k].in = SubSeq(@, n + 1, Len(@))]
           /\ UNCHANGED <<src, snk>>
  <2>1. SubSeq(s, 1, n) \in Seq(Nat) /\ SubSeq(s, n + 1, Len(s)) \in Seq(Nat)
    BY <1>0, SequenceTypes
  <2>2. buf' \in [Pipe -> Seq(Nat)]
    BY <1>0, <1>1, <2>1, SequenceTypes DEF xps_pipe_source_write, PipeTypeOK
  <2>3. [sock[k] EXCEPT !.in = SubSeq(s, n + 1, Len(s))] \in Socket
    BY <1>0, <2>1 DEF Socket
  <2>4. sock' \in [Conn -> Socket]
    BY <1>1, <2>3 DEF SocketTypeOK
  <2> QED
    BY <1>1, <2>2, <2>4
    DEF connection_source_handler, UnchangedList, PipeTypeOK, SocketTypeOK, SessionTypeOK
<1>2. CASE src' = [src EXCEPT ![p].ready = FALSE] /\ UNCHANGED <<snk, buf, sock>>
  <2>1. src' \in Ends
    BY <1>0, <1>2, EndsUpdate DEF PipeTypeOK, Ends
  <2> QED
    BY <1>2, <2>1
    DEF connection_source_handler, UnchangedList, PipeTypeOK, SocketTypeOK, SessionTypeOK, Ends
<1>3. CASE connection_close(k) /\ UNCHANGED buf
  BY <1>3, CloseTypes
  DEF connection_source_handler, UnchangedList, PipeTypeOK, SocketTypeOK, SessionTypeOK, Ends
<1> QED
  BY <1>1, <1>2, <1>3 DEF connection_source_handler

LEMMA ConnectionSinkTypes ==
  ASSUME WorldOK, NEW k \in Conn, connection_sink_handler(k)
  PROVE  WorldOK'
<1> DEFINE p == SinkPipe(k)
           n == SendLen(k, Len(buf[p]))
<1>0. /\ p \in Pipe /\ sock[k] \in Socket /\ buf[p] \in Seq(Nat)
      /\ n \in Nat /\ n <= Len(buf[p]) /\ n <= sock[k].room /\ sock[k].room \in 0..Room
      /\ sent[k] \in Seq(Nat)
  <2>1. p \in Pipe /\ sock[k] \in Socket /\ buf[p] \in Seq(Nat) /\ sent[k] \in Seq(Nat)
    BY ConnPipeTypes DEF SocketTypeOK, PipeTypeOK
  <2>2. Len(buf[p]) \in Nat
    BY <2>1
  <2> QED
    BY <2>1, <2>2, SendRecvLen
<1>1. CASE connection_close(k) /\ UNCHANGED <<buf, sent>>
  BY <1>1, CloseTypes
  DEF connection_sink_handler, UnchangedList, PipeTypeOK, SocketTypeOK, SessionTypeOK, Ends
<1>2. CASE /\ snk' = [snk EXCEPT ![p].ready = FALSE]
           /\ sock' = [sock EXCEPT ![k].nospace = TRUE]
           /\ UNCHANGED <<src, buf, sent>>
  <2>1. snk' \in Ends
    BY <1>0, <1>2, EndsUpdate DEF PipeTypeOK, Ends
  <2>2. [sock[k] EXCEPT !.nospace = TRUE] \in Socket
    BY <1>0 DEF Socket
  <2>3. sock' \in [Conn -> Socket]
    BY <1>2, <2>2 DEF SocketTypeOK
  <2> QED
    BY <1>2, <2>1, <2>3
    DEF connection_sink_handler, UnchangedList, PipeTypeOK, SocketTypeOK, SessionTypeOK, Ends
<1>3. CASE /\ sent' = [sent EXCEPT ![k] = @ \o SubSeq(buf[p], 1, n)]
           /\ sock' = [sock EXCEPT ![k].room = @ - n, ![k].nospace = n < Len(buf[p])]
           /\ xps_pipe_sink_clear(p, n)
           /\ UNCHANGED <<src, snk>>
  <2>1. SubSeq(buf[p], 1, n) \in Seq(Nat) /\ SubSeq(buf[p], n + 1, Len(buf[p])) \in Seq(Nat)
    BY <1>0, SequenceTypes
  <2>2. sent' \in [Conn -> Seq(Nat)]
    BY <1>0, <1>3, <2>1, SequenceTypes DEF SocketTypeOK
  <2>3. buf' \in [Pipe -> Seq(Nat)]
    BY <1>0, <1>3, <2>1 DEF xps_pipe_sink_clear, PipeTypeOK
  <2>4. sock[k].room - n \in 0..Room
    BY <1>0, SocketAssumption
  <2>5. (n < Len(buf[p])) \in BOOLEAN
    OBVIOUS
  <2>6. \A a \in 0..Room, b \in BOOLEAN : [sock[k] EXCEPT !.room = a, !.nospace = b] \in Socket
    BY <1>0 DEF Socket
  <2>7. sock' = [sock EXCEPT ![k] = [sock[k] EXCEPT !.room = sock[k].room - n,
                                                    !.nospace = n < Len(buf[p])]]
    BY <1>3 DEF SocketTypeOK
  <2>8. sock' \in [Conn -> Socket]
    BY <2>4, <2>5, <2>6, <2>7 DEF SocketTypeOK
  <2> QED
    BY <1>3, <2>2, <2>3, <2>8
    DEF connection_sink_handler, UnchangedList, PipeTypeOK, SocketTypeOK, SessionTypeOK
<1> QED
  BY <1>1, <1>2, <1>3 DEF connection_sink_handler

LEMMA CloseHandlerTypes ==
  ASSUME WorldOK, NEW k \in Conn,
         connection_source_close_handler(k) \/ connection_sink_close_handler(k)
  PROVE  WorldOK'
<1>0. SourcePipe(k) \in Pipe /\ SinkPipe(k) \in Pipe /\ src \in Ends /\ snk \in Ends
  BY ConnPipeTypes DEF PipeTypeOK, Ends
<1>1. src' \in Ends /\ snk' \in Ends /\ sock' \in [Conn -> Socket]
  <2>1. CASE connection_close(k)
    BY <2>1, CloseTypes
  <2>2. CASE src' = [src EXCEPT ![SourcePipe(k)].active = FALSE] /\ UNCHANGED <<snk, sock>>
    BY <1>0, <2>2, EndsUpdate DEF SocketTypeOK
  <2>3. CASE snk' = [snk EXCEPT ![SinkPipe(k)].active = FALSE] /\ UNCHANGED <<src, sock>>
    BY <1>0, <2>3, EndsUpdate DEF SocketTypeOK
  <2> QED
    BY <2>1, <2>2, <2>3 DEF connection_source_close_handler, connection_sink_close_handler
<1> QED
  BY <1>1 DEF connection_source_close_handler, connection_sink_close_handler,
              UnchangedList, PipeTypeOK, SocketTypeOK, SessionTypeOK, Ends

LEMMA PushTypes ==
  ASSUME WorldOK, NEW p \in Pipe, NEW q \in Pipe, PushPipe(p) \/ PushPipes(p, q)
  PROVE  slot' \in [Pipe -> Nat] /\ pipes_length' \in Nat /\ n_null_pipes' \in Nat
<1>1. slot \in [Pipe -> Nat] /\ pipes_length \in Nat /\ n_null_pipes \in Nat
  BY DEF PipeTypeOK
<1>2. CASE PushPipe(p)
  BY <1>1, <1>2 DEF PushPipe
<1>3. CASE PushPipes(p, q)
  <2>1. pipes_length + 1 \in Nat /\ pipes_length + 2 \in Nat
    BY <1>1
  <2>2. \A m, n \in Nat : [slot EXCEPT ![p] = m, ![q] = n] \in [Pipe -> Nat]
    BY <1>1
  <2> QED
    BY <1>1, <1>3, <2>1, <2>2 DEF PushPipes
<1> QED
  BY <1>2, <1>3

LEMMA CreateTypes ==
  ASSUME WorldOK, NEW c \in Client, xps_session_create(c)
  PROVE  WorldOK'
<1> USE Names
<1>1. sock' \in [Conn -> Socket]
  BY ClosedSocketType DEF xps_session_create, SocketTypeOK
<1>2. ses' \in [Client -> Session]
  <2>1. [NoSession EXCEPT !.live = TRUE] \in Session
    BY SequenceTypes DEF NoSession, Session
  <2> QED
    BY <2>1 DEF xps_session_create, SessionTypeOK
<1>3. slot' \in [Pipe -> Nat] /\ pipes_length' \in Nat /\ n_null_pipes' \in Nat
  BY PushTypes DEF xps_session_create
<1>4. src' \in Ends
  BY FreshEnds, EndsUpdate DEF xps_session_create, PipeTypeOK, Ends
<1>5. snk' \in Ends
  <2>1. Attached(FreedEnd) \in End /\ [Attached(FreedEnd) EXCEPT !.ready = TRUE] \in End
    BY FreshEnds
  <2>2. [snk EXCEPT ![C2S(c)] = [Attached(FreedEnd) EXCEPT !.ready = TRUE],
                    ![S2C(c)] = Attached(FreedEnd)] \in Ends
    BY <2>1 DEF PipeTypeOK, Ends
  <2>3. snk' = [[[snk EXCEPT ![C2S(c)] = [Attached(FreedEnd) EXCEPT !.ready = TRUE],
                             ![S2C(c)] = Attached(FreedEnd)]
                 EXCEPT ![U2S(c)].ready = TRUE] EXCEPT ![F2S(c)].ready = TRUE]
    BY DEF xps_session_create
  <2> QED
    BY <2>2, <2>3, EndsUpdate
<1> QED
  BY <1>1, <1>2, <1>3, <1>4, <1>5
  DEF xps_session_create, PipeTypeOK, SocketTypeOK, SessionTypeOK, Ends

LEMMA SessionFields ==
  ASSUME WorldOK, NEW c \in Client
  PROVE  /\ ses[c] \in Session
         /\ ses[c].to \in Seq(Nat) /\ ses[c].from \in Seq(Nat)
         /\ Parsed(c) \in Session
         /\ [Parsed(c) EXCEPT !.to = Head0] \in Session
         /\ ParsedSources(c) \in Ends /\ ParsedSinks(c) \in Ends
         /\ src \in Ends /\ snk \in Ends
<1>1. ses[c] \in Session
  BY DEF SessionTypeOK
<1>2. ses[c].to \in Seq(Nat) /\ ses[c].from \in Seq(Nat)
  BY <1>1 DEF Session
<1>3. Parsed(c) \in Session
  <2>1. Len(buf[C2S(c)]) \in Nat
    BY Names, SequenceTypes DEF PipeTypeOK
  <2> QED
    BY <1>1, <2>1, SequenceTypes DEF Parsed, Session
<1>4. [Parsed(c) EXCEPT !.to = Head0] \in Session
  BY <1>3, SequenceTypes DEF Session
<1>5. src \in Ends /\ snk \in Ends
  BY DEF PipeTypeOK, Ends
<1>6. ParsedSources(c) \in Ends /\ ParsedSinks(c) \in Ends
  BY <1>5, FlagTypes DEF ParsedSources, ParsedSinks
<1> QED
  BY <1>1, <1>2, <1>3, <1>4, <1>5, <1>6

LEMMA WriteTypes ==
  ASSUME WorldOK, NEW p \in Pipe, NEW b \in Seq(Nat), xps_pipe_source_write(p, b)
  PROVE  buf' \in [Pipe -> Seq(Nat)]
BY SequenceTypes DEF xps_pipe_source_write, PipeTypeOK

LEMMA ClearTypes ==
  ASSUME WorldOK, NEW p \in Pipe, xps_pipe_sink_clear(p, Len(buf[p]))
  PROVE  buf[p] \in Seq(Nat) /\ buf' \in [Pipe -> Seq(Nat)]
<1>1. buf[p] \in Seq(Nat)
  BY DEF PipeTypeOK
<1>2. Len(buf[p]) \in Nat
  BY <1>1
<1>3. SubSeq(buf[p], Len(buf[p]) + 1, Len(buf[p])) \in Seq(Nat)
  BY <1>1, <1>2, SequenceTypes
<1> QED
  BY <1>1, <1>3 DEF xps_pipe_sink_clear, PipeTypeOK

LEMMA ClientSourceTypes ==
  ASSUME WorldOK, NEW c \in Client, client_source_handler(c)
  PROVE  WorldOK'
<1>1. [ses[c] EXCEPT !.to = <<>>] \in Session
  BY SessionFields, SequenceTypes DEF Session
<1>2. ToSources(src, c, FALSE) \in Ends /\ ToSinks(snk, c, FALSE) \in Ends
  BY SessionFields, FlagTypes
<1>3. src' \in Ends /\ snk' \in Ends /\ ses' \in [Client -> Session]
  BY <1>1, <1>2, CheckDestroyTypes DEF client_source_handler
<1>4. buf' \in [Pipe -> Seq(Nat)]
  BY SessionFields, WriteTypes, Names DEF client_source_handler
<1> QED
  BY <1>3, <1>4 DEF client_source_handler, UnchangedList, PipeTypeOK, SocketTypeOK,
                    SessionTypeOK, Ends

LEMMA UpstreamSourceTypes ==
  ASSUME WorldOK, NEW c \in Client, upstream_source_handler(c)
  PROVE  WorldOK'
<1>0. buf[S2U(c)] \in Seq(Nat)
  BY Names DEF PipeTypeOK
<1>1. AfterUpstreamWrite(c) \in Session
  <2> DEFINE n == ses[c].write_bytes + Len(ses[c].from)
             held == Len(buf[S2U(c)]) + Len(ses[c].from)
  <2>1. ses[c] \in Session /\ Len(ses[c].from) \in Nat /\ ses[c].write_bytes \in Nat
    <3>1. ses[c] \in Session /\ ses[c].from \in Seq(Nat)
      BY SessionFields
    <3>2. ses[c].write_bytes \in Nat
      BY <3>1 DEF Session
    <3> QED
      BY <3>1, <3>2, SequenceTypes
  <2>2. n \in Nat
    BY <2>1
  <2>3. (n > held) \in BOOLEAN
    OBVIOUS
  <2>4. [ses[c] EXCEPT !.from = <<>>] \in Session
    BY <2>1, SequenceTypes DEF Session
  <2>5. ASSUME NEW m \in Nat, NEW b \in BOOLEAN
        PROVE  [ses[c] EXCEPT !.from = <<>>, !.write_bytes = m, !.connected = b] \in Session
    BY <2>1, SequenceTypes DEF Session
  <2>6. [ses[c] EXCEPT !.from = <<>>, !.write_bytes = n, !.connected = n > held] \in Session
    BY <2>2, <2>3, <2>5
  <2> QED
    BY <2>4, <2>6 DEF AfterUpstreamWrite
<1>2. FromSources(src, c, FALSE) \in Ends /\ FromSinks(snk, c, FALSE) \in Ends
  BY SessionFields, FlagTypes
<1>3. src' \in Ends /\ snk' \in Ends /\ ses' \in [Client -> Session]
  BY <1>1, <1>2, CheckDestroyTypes DEF upstream_source_handler
<1>4. buf' \in [Pipe -> Seq(Nat)]
  BY SessionFields, WriteTypes, Names DEF upstream_source_handler
<1> QED
  BY <1>3, <1>4 DEF upstream_source_handler, UnchangedList, PipeTypeOK, SocketTypeOK,
                    SessionTypeOK, Ends

LEMMA SessionSinkTypes ==
  ASSUME WorldOK, NEW c \in Client, upstream_sink_handler(c) \/ file_sink_handler(c)
  PROVE  WorldOK'
<1>1. ToSources(src, c, TRUE) \in Ends /\ ToSinks(snk, c, TRUE) \in Ends
  BY SessionFields, FlagTypes
<1>2. buf[U2S(c)] \in Seq(Nat) /\ buf[F2S(c)] \in Seq(Nat)
  BY Names DEF PipeTypeOK
<1>3. \A b \in Seq(Nat) : /\ [ses[c] EXCEPT !.to = b] \in Session
                          /\ [ses[c] EXCEPT !.connected = TRUE, !.to = b] \in Session
  BY SessionFields DEF Session
<1>4. ses' \in [Client -> Session]
  <2>1. CASE upstream_sink_handler(c)
    <3>1. ses' = [ses EXCEPT ![c] = [ses[c] EXCEPT !.connected = TRUE, !.to = buf[U2S(c)]]]
      BY <2>1 DEF upstream_sink_handler, SessionTypeOK
    <3> QED
      BY <1>2, <1>3, <3>1 DEF SessionTypeOK
  <2>2. CASE file_sink_handler(c)
    <3>1. ses' = [ses EXCEPT ![c] = [ses[c] EXCEPT !.to = buf[F2S(c)]]]
      BY <2>2 DEF file_sink_handler, SessionTypeOK
    <3> QED
      BY <1>2, <1>3, <3>1 DEF SessionTypeOK
  <2> QED
    BY <2>1, <2>2
<1>5. buf' \in [Pipe -> Seq(Nat)]
  BY ClearTypes, Names DEF upstream_sink_handler, file_sink_handler
<1> QED
  BY <1>1, <1>4, <1>5 DEF upstream_sink_handler, file_sink_handler, UnchangedList,
                          PipeTypeOK, SocketTypeOK, SessionTypeOK, Ends

LEMMA FileTypes ==
  ASSUME WorldOK, NEW c \in Client, file_source_handler(c) \/ file_source_close_handler(c)
  PROVE  WorldOK'
<1>1. file[c] \in File /\ file[c].left \in 0..FileSize
  BY DEF SessionTypeOK, File
<1>2. ASSUME NEW why \in {"closed", "failed"}, FileDestroy(c, why)
      PROVE  file' \in [Client -> File] /\ src' \in Ends /\ buf' \in [Pipe -> Seq(Nat)]
  <2>1. [file[c] EXCEPT !.st = why] \in File
    BY <1>1 DEF File
  <2> QED
    BY <1>2, <2>1, FreshEnds, Names, EndsUpdate DEF FileDestroy, PipeTypeOK, SessionTypeOK, Ends
<1>3. CASE file_source_close_handler(c)
  BY <1>2, <1>3 DEF file_source_close_handler, UnchangedList, PipeTypeOK, SocketTypeOK,
                    SessionTypeOK, Ends
<1>4. CASE file_source_handler(c)
  <2> DEFINE n == SmallerOf(file[c].left, RecvMax)
             b == From(FileSize - file[c].left + 1, n)
  <2>1. n \in Nat /\ n <= file[c].left
    BY <1>1, SocketAssumption DEF SmallerOf
  <2>2. b \in Seq(Nat)
    <3>1. FileSize - file[c].left + 1 \in Nat \ {0}
      BY <1>1, SessionAssumption
    <3> QED
      BY <2>1, <3>1, FromType
  <2>3. file' \in [Client -> File] /\ src' \in Ends /\ buf' \in [Pipe -> Seq(Nat)]
    <3>1. CASE /\ xps_pipe_source_write(F2S(c), b)
               /\ file' = [file EXCEPT ![c].left = @ - n]
               /\ UNCHANGED src
      <4>1. file[c].left - n \in 0..FileSize
        BY <1>1, <2>1, SessionAssumption
      <4>2. [file[c] EXCEPT !.left = file[c].left - n] \in File
        BY <1>1, <4>1 DEF File
      <4>3. file' \in [Client -> File]
        BY <3>1, <4>2 DEF SessionTypeOK
      <4> QED
        BY <2>2, <3>1, <4>3, WriteTypes, Names DEF PipeTypeOK, Ends
    <3>2. CASE FileDestroy(c, "closed") \/ FileDestroy(c, "failed")
      BY <1>2, <3>2
    <3> QED
      BY <1>4, <3>1, <3>2 DEF file_source_handler
  <2> QED
    BY <1>4, <2>3 DEF file_source_handler, UnchangedList, PipeTypeOK, SocketTypeOK,
                      SessionTypeOK, Ends
<1> QED
  BY <1>3, <1>4

LEMMA SessionCloseTypes ==
  ASSUME WorldOK, NEW c \in Client,
         \/ client_source_close_handler(c) \/ client_sink_close_handler(c)
         \/ upstream_source_close_handler(c) \/ upstream_sink_close_handler(c)
         \/ file_sink_close_handler(c)
  PROVE  WorldOK'
<1>1. ses[c] \in Session /\ src \in Ends /\ snk \in Ends
  BY SessionFields
<1>2. MarkUpstreamError(c) \in Session
  <2>1. (ses[c].error_res_set \/ ~ses[c].connected) \in BOOLEAN
    OBVIOUS
  <2>2. \A b \in BOOLEAN : [ses[c] EXCEPT !.error_res_set = b] \in Session
    BY <1>1 DEF Session
  <2> QED
    BY <2>1, <2>2 DEF MarkUpstreamError
<1>3. \A p \in Pipe : SourceInactive(p) \in Ends /\ SinkInactive(p) \in Ends
  BY <1>1, EndsUpdate DEF SourceInactive, SinkInactive
<1>4. ASSUME NEW S \in Ends, NEW K \in Ends, NEW r \in Session, CloseSessionEnd(c, S, K, r)
      PROVE  WorldOK'
  <2>1. src' \in Ends /\ snk' \in Ends /\ ses' \in [Client -> Session]
    BY <1>4, CheckDestroyTypes DEF CloseSessionEnd
  <2> QED
    BY <1>4, <2>1 DEF CloseSessionEnd, UnchangedList, PipeTypeOK, SocketTypeOK,
                      SessionTypeOK, Ends
<1> QED
  BY <1>1, <1>2, <1>3, <1>4, Names
  DEF client_source_close_handler, client_sink_close_handler, upstream_source_close_handler,
      upstream_sink_close_handler, file_sink_close_handler

LEMMA RequestTypes ==
  ASSUME WorldOK, NEW c \in Client, session_process_request(c), UNCHANGED <<sent, fed>>
  PROVE  WorldOK'
<1> USE Names
<1>0. /\ ses[c] \in Session /\ Parsed(c) \in Session
      /\ [Parsed(c) EXCEPT !.to = Head0] \in Session
      /\ ParsedSources(c) \in Ends /\ ParsedSinks(c) \in Ends
      /\ src \in Ends /\ snk \in Ends
  BY SessionFields
<1>1. CASE BadRequest(c)
  <2>1. [ses[c] EXCEPT !.to = Head0] \in Session
    BY <1>0, SequenceTypes DEF Session
  <2>2. src' \in Ends /\ snk' \in Ends
    BY <1>0, <1>1, FlagTypes DEF BadRequest
  <2> QED
    BY <1>1, <2>1, <2>2 DEF BadRequest, UnchangedList, PipeTypeOK, SocketTypeOK,
                            SessionTypeOK, Ends
<1>2. CASE ReplyOnly(c)
  <2>1. src' \in Ends /\ snk' \in Ends
    BY <1>0, <1>2, FlagTypes DEF ReplyOnly
  <2>2. buf' \in [Pipe -> Seq(Nat)]
    BY <1>2, ClearTypes DEF ReplyOnly
  <2> QED
    BY <1>0, <1>2, <2>1, <2>2 DEF ReplyOnly, UnchangedList, PipeTypeOK, SocketTypeOK,
                                  SessionTypeOK, Ends
<1>3. CASE ServeFile(c)
  <2>1. ToSources(ParsedSources(c), c, TRUE) \in Ends /\ ToSinks(ParsedSinks(c), c, TRUE) \in Ends
    BY <1>0, FlagTypes
  <2>2. src' \in Ends
    BY <1>3, <2>1, FreshEnds, EndsUpdate DEF ServeFile
  <2>3. snk' \in Ends
    <3> DEFINE K == ToSinks(ParsedSinks(c), c, TRUE)
    <3>1. Attached(K[F2S(c)]) \in End
      BY <2>1, EndTypes DEF Ends
    <3>2. snk' = [K EXCEPT ![F2S(c)] = Attached(K[F2S(c)])]
      BY <1>3 DEF ServeFile
    <3> QED
      BY <2>1, <3>1, <3>2, EndsUpdate
  <2>4. buf' \in [Pipe -> Seq(Nat)]
    BY <1>3, ClearTypes DEF ServeFile
  <2>5. file' \in [Client -> File]
    <3>1. [file[c] EXCEPT !.st = "open"] \in File
      BY DEF SessionTypeOK, File
    <3> QED
      BY <1>3, <3>1 DEF ServeFile, SessionTypeOK
  <2>6. slot' \in [Pipe -> Nat] /\ pipes_length' \in Nat /\ n_null_pipes' \in Nat
    BY <1>3, PushTypes DEF ServeFile
  <2>7. ses' \in [Client -> Session]
    BY <1>0, <1>3 DEF ServeFile, SessionTypeOK
  <2> QED
    BY <1>3, <2>2, <2>3, <2>4, <2>5, <2>6, <2>7
    DEF ServeFile, PipeTypeOK, SocketTypeOK, SessionTypeOK, Ends
<1>4. CASE ReverseProxy(c)
  <2>1. src' \in Ends
    <3> DEFINE S == ParsedSources(c)
    <3>1. Attached(S[S2U(c)]) \in End
      BY <1>0, EndTypes DEF Ends
    <3>2. src' = [S EXCEPT ![S2U(c)] = Attached(S[S2U(c)]), ![U2S(c)] = Attached(FreedEnd)]
      BY <1>4, NamesDiffer DEF ReverseProxy
    <3> QED
      BY <1>0, <3>1, <3>2, FreshEnds DEF Ends
  <2>2. snk' \in Ends
    <3> DEFINE K == ParsedSinks(c)
    <3>1. Attached(K[U2S(c)]) \in End
      BY <1>0, EndTypes DEF Ends
    <3>2. snk' = [K EXCEPT ![S2U(c)] = Attached(FreedEnd), ![U2S(c)] = Attached(K[U2S(c)])]
      BY <1>0, <1>4, NamesDiffer DEF ReverseProxy, Ends
    <3> QED
      BY <1>0, <3>1, <3>2, FreshEnds DEF Ends
  <2>3. buf' \in [Pipe -> Seq(Nat)]
    BY <1>4, ClearTypes DEF ReverseProxy
  <2>4. sock' \in [Conn -> Socket]
    BY <1>4, ClosedSocketType DEF ReverseProxy, SocketTypeOK
  <2>5. slot' \in [Pipe -> Nat] /\ pipes_length' \in Nat /\ n_null_pipes' \in Nat
    BY <1>4, PushTypes DEF ReverseProxy
  <2>6. ses' \in [Client -> Session]
    BY <1>0, <1>4 DEF ReverseProxy, SessionTypeOK
  <2> QED
    BY <1>4, <2>1, <2>2, <2>3, <2>4, <2>5, <2>6
    DEF ReverseProxy, PipeTypeOK, SocketTypeOK, SessionTypeOK, Ends
<1>5. CASE InvalidRoute(c)
  <2>1. src' \in Ends /\ snk' \in Ends
    BY <1>0, <1>5, FlagTypes DEF InvalidRoute, xps_session_destroy
  <2>2. ses' \in [Client -> Session]
    <3>1. NoSession \in Session
      BY SequenceTypes DEF NoSession, Session
    <3> QED
      BY <1>5, <3>1 DEF InvalidRoute, xps_session_destroy, SessionTypeOK
  <2>3. buf' \in [Pipe -> Seq(Nat)]
    BY <1>5, ClearTypes DEF InvalidRoute
  <2> QED
    BY <1>5, <2>1, <2>2, <2>3 DEF InvalidRoute, UnchangedList, PipeTypeOK, SocketTypeOK,
                                  SessionTypeOK, Ends
<1> QED
  BY <1>1, <1>2, <1>3, <1>4, <1>5 DEF session_process_request

LEMMA ClientSinkTypes ==
  ASSUME WorldOK, NEW c \in Client, client_sink_handler(c)
  PROVE  WorldOK'
<1>1. CASE session_process_request(c)
  BY <1>1, RequestTypes DEF client_sink_handler
<1>2. CASE /\ ses' = [ses EXCEPT ![c].from = buf[C2S(c)]]
           /\ src' = FromSources(src, c, TRUE)
           /\ snk' = FromSinks(snk, c, TRUE)
           /\ xps_pipe_sink_clear(C2S(c), Len(buf[C2S(c)]))
           /\ UnchangedList
           /\ UNCHANGED <<sock, file>>
  <2>1. buf[C2S(c)] \in Seq(Nat) /\ buf' \in [Pipe -> Seq(Nat)]
    BY <1>2, ClearTypes, Names
  <2>2. [ses[c] EXCEPT !.from = buf[C2S(c)]] \in Session
    BY <2>1, SessionFields DEF Session
  <2>3. src' \in Ends /\ snk' \in Ends
    BY <1>2, SessionFields, FlagTypes
  <2> QED
    BY <1>2, <2>1, <2>2, <2>3 DEF client_sink_handler, UnchangedList, PipeTypeOK,
                                  SocketTypeOK, SessionTypeOK, Ends
<1> QED
  BY <1>1, <1>2 DEF client_sink_handler

-----------------------------------------------------------------------------
(***************************************************************************)
(* Types: the loop's own steps and the peers'.                             *)
(***************************************************************************)
LEMMA PipeFinite ==
  /\ IsFiniteSet(Pipe)
  /\ \A S \in SUBSET Pipe : IsFiniteSet(S) /\ Cardinality(S) \in Nat
<1>1. IsFiniteSet({"c2s", "s2c", "s2u", "u2s", "f2s"})
  <2>1. IsFiniteSet({} \cup {"c2s"})
    BY FS_EmptySet, FS_AddElement
  <2>2. IsFiniteSet({} \cup {"c2s"} \cup {"s2c"})
    BY <2>1, FS_AddElement
  <2>3. IsFiniteSet({} \cup {"c2s"} \cup {"s2c"} \cup {"s2u"})
    BY <2>2, FS_AddElement
  <2>4. IsFiniteSet({} \cup {"c2s"} \cup {"s2c"} \cup {"s2u"} \cup {"u2s"})
    BY <2>3, FS_AddElement
  <2>5. IsFiniteSet({} \cup {"c2s"} \cup {"s2c"} \cup {"s2u"} \cup {"u2s"} \cup {"f2s"})
    BY <2>4, FS_AddElement
  <2>6. {} \cup {"c2s"} \cup {"s2c"} \cup {"s2u"} \cup {"u2s"} \cup {"f2s"}
          = {"c2s", "s2c", "s2u", "u2s", "f2s"}
    OBVIOUS
  <2> QED
    BY <2>5, <2>6
<1>2. IsFiniteSet(Pipe)
  BY <1>1, FS_Product, PipeAssumption DEF Pipe
<1>3. ASSUME NEW S \in SUBSET Pipe
      PROVE  IsFiniteSet(S) /\ Cardinality(S) \in Nat
  <2>1. IsFiniteSet(S)
    BY <1>2, FS_Subset
  <2> QED
    BY <2>1, FS_CardinalityType
<1> QED
  BY <1>2, <1>3

LEMMA PipeListTypes ==
  ASSUME WorldOK, UNCHANGED <<sockVars, sessionVars>>,
         filter_null_pipes \/ \E p \in Pipe : xps_pipe_destroy(p)
  PROVE  WorldOK'
<1>1. CASE filter_null_pipes
  <2>1. Cardinality(Listed) \in Nat
    BY PipeFinite DEF Listed
  <2>2. \A p \in Pipe : Rank(p) \in Nat
    BY PipeFinite DEF Rank, Listed
  <2>3. slot' \in [Pipe -> Nat] /\ pipes_length' \in Nat /\ n_null_pipes' \in Nat
    <3>1. CASE /\ slot' = [p \in Pipe |-> IF slot[p] = 0 THEN 0 ELSE Rank(p)]
               /\ pipes_length' = Cardinality(Listed)
               /\ n_null_pipes' = 0
      BY <2>1, <2>2, <3>1
    <3>2. CASE UnchangedList
      BY <3>2 DEF UnchangedList, PipeTypeOK
    <3> QED
      BY <1>1, <3>1, <3>2 DEF filter_null_pipes
  <2> QED
    BY <1>1, <2>3 DEF filter_null_pipes, PipeTypeOK, SocketTypeOK, SessionTypeOK,
                      sockVars, sessionVars
<1>2. CASE \E p \in Pipe : xps_pipe_destroy(p)
  <2>1. PICK p \in Pipe : xps_pipe_destroy(p)
    BY <1>2
  <2>2. <<>> \in Seq(Nat)
    BY SequenceTypes
  <2> QED
    BY <2>1, <2>2 DEF xps_pipe_destroy, PipeTypeOK, SocketTypeOK, SessionTypeOK,
                      sockVars, sessionVars
<1> QED
  BY <1>1, <1>2

LEMMA HandlerTypes ==
  ASSUME WorldOK, NEW p \in Pipe,
         \/ SourceHandler(p) \/ SinkHandler(p)
         \/ SourceCloseHandler(p) \/ SinkCloseHandler(p)
  PROVE  WorldOK'
<1> DEFINE c == p[2]
<1>0. c \in Client /\ ClientConn(c) \in Conn /\ UpstreamConn(c) \in Conn
  BY PipeCases, Names
<1> HIDE DEF c
<1>1. CASE SourceHandler(p)
  BY <1>0, <1>1, ConnectionSourceTypes, ClientSourceTypes, UpstreamSourceTypes, FileTypes
  DEF SourceHandler, c
<1>2. CASE SinkHandler(p)
  BY <1>0, <1>2, ConnectionSinkTypes, ClientSinkTypes, SessionSinkTypes DEF SinkHandler, c
<1>3. CASE SourceCloseHandler(p)
  BY <1>0, <1>3, CloseHandlerTypes, SessionCloseTypes, FileTypes DEF SourceCloseHandler, c
<1>4. CASE SinkCloseHandler(p)
  BY <1>0, <1>4, CloseHandlerTypes, SessionCloseTypes DEF SinkCloseHandler, c
<1> QED
  BY <1>1, <1>2, <1>3, <1>4

LEMMA PeerTypes ==
  ASSUME WorldOK, PeerStep
  PROVE  WorldOK'
<1>1. sock' \in [Conn -> Socket] /\ fed' \in [Conn -> Nat] /\ sent' \in [Conn -> Seq(Nat)]
  <2>0. ASSUME NEW k \in Conn PROVE sock[k] \in Socket
    BY DEF SocketTypeOK
  <2>1. ASSUME NEW c \in Client, Connect(c) \/ Establish(c) \/ Refuse(c)
        PROVE  sock' \in [Conn -> Socket] /\ UNCHANGED <<sent, fed>>
    <3> USE Names
    <3>1. CASE Connect(c)
      <4>1. [sock[ClientConn(c)] EXCEPT !.st = "backlog"] \in Socket
        BY <2>0 DEF Socket
      <4> QED
        BY <3>1, <4>1 DEF Connect, SocketTypeOK
    <3> DEFINE u == UpstreamConn(c)
    <3>2. sock[u].reg \in BOOLEAN /\ sock[u] \in Socket
      BY <2>0 DEF Socket
    <3>3. CASE Establish(c)
      <4>1. \A b \in BOOLEAN : [sock[u] EXCEPT !.st = "up", !.edge = b] \in Socket
        BY <3>2 DEF Socket
      <4>2. sock' = [sock EXCEPT ![u] = [sock[u] EXCEPT !.st = "up", !.edge = sock[u].reg]]
        BY <3>3 DEF Establish, SocketTypeOK
      <4> QED
        BY <3>2, <3>3, <4>1, <4>2 DEF Establish, SocketTypeOK
    <3>4. CASE Refuse(c)
      <4>1. \A b \in BOOLEAN : [sock[u] EXCEPT !.rst = TRUE, !.edge = b] \in Socket
        BY <3>2 DEF Socket
      <4>2. sock' = [sock EXCEPT ![u] = [sock[u] EXCEPT !.rst = TRUE, !.edge = sock[u].reg]]
        BY <3>4 DEF Refuse, SocketTypeOK
      <4> QED
        BY <3>2, <3>4, <4>1, <4>2 DEF Refuse, SocketTypeOK
    <3> QED
      BY <2>1, <3>1, <3>3, <3>4
  <2>2. ASSUME NEW k \in Conn, PeerSend(k) \/ PeerFin(k) \/ PeerReset(k) \/ PeerDrain(k)
        PROVE  sock' \in [Conn -> Socket] /\ fed' \in [Conn -> Nat] /\ UNCHANGED sent
    <3>1. sock[k] \in Socket /\ sock[k].reg \in BOOLEAN /\ sock[k].in \in Seq(Nat)
          /\ fed[k] \in Nat /\ fed \in [Conn -> Nat] /\ sock \in [Conn -> Socket]
      BY <2>0 DEF Socket, SocketTypeOK
    <3>2. CASE PeerSend(k)
      <4>1. Append(sock[k].in, fed[k] + 1) \in Seq(Nat)
        BY <3>1
      <4>2. \A s \in Seq(Nat), b \in BOOLEAN : [sock[k] EXCEPT !.in = s, !.edge = b] \in Socket
        BY <3>1 DEF Socket
      <4>3. sock' = [sock EXCEPT ![k] = [sock[k] EXCEPT !.in = Append(sock[k].in, fed[k] + 1),
                                                        !.edge = sock[k].reg]]
        BY <3>1, <3>2 DEF PeerSend
      <4>4. sock' \in [Conn -> Socket]
        BY <3>1, <4>1, <4>2, <4>3
      <4> QED
        BY <3>1, <3>2, <4>4 DEF PeerSend
    <3>3. CASE PeerFin(k)
      <4>1. \A b \in BOOLEAN : [sock[k] EXCEPT !.fin = TRUE, !.edge = b] \in Socket
        BY <3>1 DEF Socket
      <4>2. sock' = [sock EXCEPT ![k] = [sock[k] EXCEPT !.fin = TRUE, !.edge = sock[k].reg]]
        BY <3>1, <3>3 DEF PeerFin
      <4> QED
        BY <3>1, <3>3, <4>1, <4>2 DEF PeerFin
    <3>4. CASE PeerReset(k)
      <4>1. \A b \in BOOLEAN : [sock[k] EXCEPT !.rst = TRUE, !.edge = b] \in Socket
        BY <3>1 DEF Socket
      <4>2. sock' = [sock EXCEPT ![k] = [sock[k] EXCEPT !.rst = TRUE, !.edge = sock[k].reg]]
        BY <3>1, <3>4 DEF PeerReset
      <4> QED
        BY <3>1, <3>4, <4>1, <4>2 DEF PeerReset
    <3>5. CASE PeerDrain(k)
      <4> DEFINE e == sock[k].reg /\ (sock[k].edge \/ sock[k].nospace)
      <4>0. Room \in 0..Room
        BY SocketAssumption
      <4>1. e \in BOOLEAN
        OBVIOUS
      <4>2. \A b \in BOOLEAN :
              [sock[k] EXCEPT !.room = Room, !.nospace = FALSE, !.edge = b] \in Socket
        BY <3>1, <4>0 DEF Socket
      <4>3. sock' = [sock EXCEPT ![k] = [sock[k] EXCEPT !.room = Room, !.nospace = FALSE,
                                                        !.edge = e]]
        BY <3>1, <3>5 DEF PeerDrain
      <4> QED
        BY <3>1, <3>5, <4>1, <4>2, <4>3 DEF PeerDrain
    <3> QED
      BY <2>2, <3>2, <3>3, <3>4, <3>5
  <2> QED
    BY <2>1, <2>2 DEF PeerStep, Peers, SocketTypeOK
<1> QED
  BY <1>1 DEF PeerStep, pipeVars, sessionVars, PipeTypeOK, SocketTypeOK, SessionTypeOK

LoopTypeOK ==
  /\ pc \in {"source", "sink", "close", "wait", "events", "out", "accept"}
  /\ idx \in Nat \ {0}
  /\ batch \subseteq Event
  /\ lsn \in BOOLEAN
  /\ cur \subseteq Conn

LEMMA TypeParts == TypeOK <=> WorldOK /\ LoopTypeOK
BY DEF TypeOK, LoopTypeOK

LEMMA NextTypeParts == WorldOK' /\ LoopTypeOK' => TypeOK'
BY DEF TypeOK, LoopTypeOK

LEMMA EpollTypes ==
  ASSUME TypeOK, epoll_wait
  PROVE  TypeOK'
<1>0. WorldOK /\ LoopTypeOK
  BY TypeParts
<1>1. PICK K \in SUBSET ReadyConns, l \in BOOLEAN :
        /\ batch' = {EventOf(k) : k \in K}
        /\ lsn' = l
        /\ sock' = [k \in Conn |-> IF k \in K \/ ~PollAny(k)
                                   THEN [sock[k] EXCEPT !.edge = FALSE] ELSE sock[k]]
  BY DEF epoll_wait
<1>2. batch' \subseteq Event
  <2>1. ASSUME NEW k \in Conn PROVE EventOf(k) \in Event
    <3>1. PollIn(k) \in BOOLEAN /\ PollOut(k) \in BOOLEAN
      BY DEF PollIn, PollOut
    <3>2. sock[k].rst \in BOOLEAN
      BY <1>0 DEF SocketTypeOK, Socket
    <3> QED
      BY <3>1, <3>2 DEF EventOf, Event, PollHup
  <2> QED
    BY <1>1, <2>1 DEF ReadyConns
<1>3. sock' \in [Conn -> Socket]
  <2>1. ASSUME NEW k \in Conn PROVE sock[k] \in Socket /\ [sock[k] EXCEPT !.edge = FALSE] \in Socket
    <3>1. sock[k] \in Socket
      BY <1>0 DEF SocketTypeOK
    <3> QED
      BY <3>1 DEF Socket
  <2> QED
    BY <1>1, <2>1
<1>4. WorldOK'
  BY <1>0, <1>3 DEF epoll_wait, pipeVars, sessionVars, PipeTypeOK, SocketTypeOK, SessionTypeOK
<1>5. LoopTypeOK'
  BY <1>0, <1>1, <1>2 DEF epoll_wait, LoopTypeOK
<1> QED
  BY <1>4, <1>5, NextTypeParts

LEMMA EventTypes ==
  ASSUME TypeOK, NEW e \in batch, HandleEvent(e)
  PROVE  TypeOK'
<1>0. WorldOK /\ LoopTypeOK /\ e \in Event /\ e.k \in Conn
  BY TypeParts DEF LoopTypeOK, Event
<1>1. src' \in Ends
  BY <1>0, ConnPipeTypes, EndsUpdate DEF HandleEvent, OnInput, PipeTypeOK, Ends
<1>2. sock' \in [Conn -> Socket]
  BY <1>0, SocketTypes DEF HandleEvent, OnHangup, SocketTypeOK
<1>3. WorldOK'
  BY <1>0, <1>1, <1>2 DEF HandleEvent, sessionVars, PipeTypeOK, SocketTypeOK, SessionTypeOK, Ends
<1>4. LoopTypeOK'
  BY <1>0 DEF HandleEvent, LoopTypeOK
<1> QED
  BY <1>3, <1>4, NextTypeParts

LEMMA OutTypes ==
  ASSUME TypeOK, NEW k \in Conn, HandleOut(k)
  PROVE  TypeOK'
<1>0. WorldOK /\ LoopTypeOK
  BY TypeParts
<1>1. snk' \in Ends
  <2>1. snk \in Ends
    BY <1>0 DEF PipeTypeOK, Ends
  <2>2. CASE snk' = [snk EXCEPT ![SinkPipe(k)].ready = TRUE]
    BY <2>1, <2>2, ConnPipeTypes, EndsUpdate
  <2>3. CASE UNCHANGED snk
    BY <2>1, <2>3
  <2> QED
    BY <2>2, <2>3 DEF HandleOut
<1>2. WorldOK'
  BY <1>0, <1>1 DEF HandleOut, sockVars, sessionVars, PipeTypeOK, SocketTypeOK,
                    SessionTypeOK, Ends
<1>3. LoopTypeOK'
  BY <1>0 DEF HandleOut, LoopTypeOK
<1> QED
  BY <1>2, <1>3, NextTypeParts

LEMMA UnchangedTypes ==
  ASSUME WorldOK, UnchangedWorld
  PROVE  WorldOK'
BY DEF UnchangedWorld, pipeVars, sockVars, sessionVars, PipeTypeOK, SocketTypeOK, SessionTypeOK

LEMMA MoveTypes ==
  ASSUME LoopTypeOK,
         \/ NextPosition
         \/ \E s \in {"source", "sink", "close", "wait", "events", "out", "accept"} : GoTo(s)
  PROVE  LoopTypeOK'
BY DEF LoopTypeOK, NextPosition, GoTo

\* TypeOK holds at the start and each step of the loop and of the peers keeps it.
LEMMA TypeInit == Init => TypeOK
<1> SUFFICES ASSUME Init PROVE TypeOK
  OBVIOUS
<1>1. PipeTypeOK
  BY FreshEnds, SequenceTypes DEF Init, PipeInit, PipeTypeOK
<1>2. SocketTypeOK
  BY SocketTypes, SequenceTypes DEF Init, SocketInit, SocketTypeOK
<1>3. SessionTypeOK
  <2>1. NoSession \in Session
    BY SequenceTypes DEF NoSession, Session
  <2>2. [st |-> "none", left |-> FileSize] \in File
    BY SessionAssumption DEF File
  <2> QED
    BY <2>1, <2>2 DEF Init, SessionInit, SessionTypeOK
<1>4. LoopTypeOK
  <2>1. lsn \in BOOLEAN
    BY Zenon DEF Init
  <2>2. idx \in Nat \ {0}
    BY DEF Init
  <2>3. /\ pc \in {"source", "sink", "close", "wait", "events", "out", "accept"}
        /\ batch \subseteq Event /\ cur \subseteq Conn
    BY Zenon DEF Init
  <2> QED
    BY <2>1, <2>2, <2>3 DEF LoopTypeOK
<1> QED
  BY <1>1, <1>2, <1>3, <1>4, TypeParts

LEMMA TypeStep == TypeOK /\ [Next]_vars => TypeOK'
<1> SUFFICES ASSUME TypeOK, [Next]_vars PROVE TypeOK'
  OBVIOUS
<1>0. WorldOK /\ LoopTypeOK
  BY TypeParts
<1>1. CASE UNCHANGED vars
  <2>1. UnchangedWorld /\ UNCHANGED loopVars
    BY <1>1 DEF vars, UnchangedWorld
  <2>2. LoopTypeOK'
    BY <1>0, <2>1 DEF loopVars, LoopTypeOK
  <2> QED
    BY <1>0, <2>1, <2>2, UnchangedTypes, NextTypeParts
<1>2. CASE SkipNull \/ PassDone
  BY <1>0, <1>2, UnchangedTypes, MoveTypes, NextTypeParts DEF SkipNull, PassDone
<1>3. CASE \E p \in Pipe : DestroyDead(p)
  BY <1>0, <1>3, PipeListTypes, MoveTypes, NextTypeParts DEF DestroyDead, sockVars, sessionVars
<1>4. CASE \E p \in Pipe : SourceStep(p)
  BY <1>0, <1>4, HandlerTypes, UnchangedTypes, MoveTypes, NextTypeParts DEF SourceStep
<1>5. CASE \E p \in Pipe : SinkStep(p)
  BY <1>0, <1>5, HandlerTypes, UnchangedTypes, MoveTypes, NextTypeParts DEF SinkStep
<1>6. CASE \E p \in Pipe : CloseStep(p)
  BY <1>0, <1>6, HandlerTypes, UnchangedTypes, MoveTypes, NextTypeParts DEF CloseStep
<1>7. CASE epoll_wait
  BY <1>7, EpollTypes
<1>8. CASE \E e \in batch : HandleEvent(e)
  BY <1>8, EventTypes
<1>9. CASE \E k \in Conn : HandleOut(k)
  BY <1>9, OutTypes
<1>10. CASE ListenerEvent
  <2>1. LoopTypeOK'
    BY <1>0, <1>10 DEF ListenerEvent, LoopTypeOK
  <2> QED
    BY <1>0, <1>10, <2>1, UnchangedTypes, NextTypeParts DEF ListenerEvent
<1>11. CASE AcceptDone
  BY <1>0, <1>11, UnchangedTypes, MoveTypes, NextTypeParts DEF AcceptDone
<1>12. CASE EventsDone
  <2>1. LoopTypeOK'
    BY <1>0, <1>12 DEF EventsDone, LoopTypeOK
  <2>2. WorldOK'
    BY <1>0, <1>12, PipeListTypes DEF EventsDone, sockVars, sessionVars
  <2> QED
    BY <2>1, <2>2, NextTypeParts
<1>13. CASE \E c \in Client : Accept(c)
  <2>1. LoopTypeOK'
    BY <1>0, <1>13 DEF Accept, loopVars, LoopTypeOK
  <2>2. WorldOK'
    BY <1>0, <1>13, CreateTypes DEF Accept
  <2> QED
    BY <2>1, <2>2, NextTypeParts
<1>14. CASE PeerStep
  <2>1. LoopTypeOK'
    BY <1>0, <1>14 DEF PeerStep, loopVars, LoopTypeOK
  <2>2. WorldOK'
    BY <1>0, <1>14, PeerTypes
  <2> QED
    BY <2>1, <2>2, NextTypeParts
<1> QED
  BY <1>1, <1>2, <1>3, <1>4, <1>5, <1>6, <1>7, <1>8, <1>9, <1>10, <1>11, <1>12, <1>13, <1>14
  DEF Next, xps_loop_run, handle_pipes, handle_epoll_events, Idle

\* Type correctness, for every number of clients and every value of the bounds:
\* no handler of the loop, of a session, a connection or a file takes the state
\* outside its types; a send never takes more than the socket's buffer has.
THEOREM TypeCorrect == Spec => []TypeOK
<1>1. Init => TypeOK
  BY TypeInit
<1>2. TypeOK /\ [Next]_vars => TypeOK'
  BY TypeStep
<1> QED
  BY <1>1, <1>2, PTL DEF Spec

-----------------------------------------------------------------------------
(***************************************************************************)
(* Ownership of the pipe ends.  EndsOwned is inductive with TypeOK; the    *)
(* proof follows it client by client.                                      *)
(***************************************************************************)
EndsListed == \A p \in Pipe : src[p].on \/ snk[p].on => slot[p] # 0

OwnedFor(c) ==
  /\ src[C2S(c)].on <=> ConnOpen(ClientConn(c))
  /\ snk[S2C(c)].on <=> ConnOpen(ClientConn(c))
  /\ src[U2S(c)].on <=> ConnOpen(UpstreamConn(c))
  /\ snk[S2U(c)].on <=> ConnOpen(UpstreamConn(c))
  /\ src[S2C(c)].on <=> ses[c].live
  /\ snk[C2S(c)].on <=> ses[c].live
  /\ src[S2U(c)].on => ses[c].live
  /\ snk[U2S(c)].on => ses[c].live
  /\ snk[F2S(c)].on => ses[c].live
  /\ src[F2S(c)].on <=> file[c].st = "open"

LEMMA OwnedParts ==
  /\ EndsOwned => EndsListed /\ \A c \in Client : OwnedFor(c)
  /\ EndsListed' /\ (\A c \in Client : OwnedFor(c)') => EndsOwned'
  /\ EndsListed /\ (\A c \in Client : OwnedFor(c)) => EndsOwned
<1>1. EndsOwned => EndsListed /\ \A c \in Client : OwnedFor(c)
  BY Names, ConnPipes DEF EndsOwned, EndsListed, OwnedFor
<1>2. EndsListed /\ (\A c \in Client : OwnedFor(c)) => EndsOwned
  BY ConnCases DEF EndsOwned, EndsListed, OwnedFor
<1>3. EndsListed' /\ (\A c \in Client : OwnedFor(c)') => EndsOwned'
  BY ConnCases DEF EndsOwned, EndsListed, OwnedFor
<1> QED
  BY <1>1, <1>2, <1>3

\* A step that moves no object in or out of existence keeps the ends owned.
LEMMA KeepsOwned ==
  ASSUME EndsOwned,
         \A p \in Pipe : /\ src'[p].on = src[p].on
                         /\ snk'[p].on = snk[p].on
                         /\ slot[p] # 0 => slot'[p] # 0,
         \A k \in Conn : ConnOpen(k)' <=> ConnOpen(k),
         \A c \in Client : ses'[c].live = ses[c].live /\ (file'[c].st = "open" <=> file[c].st = "open")
  PROVE  EndsOwned'
<1>1. EndsListed'
  BY OwnedParts DEF EndsListed
<1>2. ASSUME NEW c \in Client PROVE OwnedFor(c)'
  <2>1. OwnedFor(c)
    BY OwnedParts
  <2> QED
    BY <2>1, Names DEF OwnedFor
<1> QED
  BY <1>1, <1>2, OwnedParts

LEMMA UpdateKeepsOn ==
  ASSUME NEW S \in Ends, NEW q \in Pipe, NEW b \in BOOLEAN
  PROVE  \A p \in Pipe : /\ [S EXCEPT ![q].ready = b][p].on = S[p].on
                         /\ [S EXCEPT ![q].active = b][p].on = S[p].on
BY DEF Ends, End

LEMMA FlagsKeepOn ==
  ASSUME NEW S \in Ends, NEW c \in Client, NEW b \in BOOLEAN
  PROVE  \A p \in Pipe : /\ ToSources(S, c, b)[p].on = S[p].on
                         /\ ToSinks(S, c, b)[p].on = S[p].on
                         /\ FromSources(S, c, b)[p].on = S[p].on
                         /\ FromSinks(S, c, b)[p].on = S[p].on
<1> USE Names
<1>1. (~b) \in BOOLEAN
  BY NotBoolean
<1>2. ASSUME NEW x \in BOOLEAN
      PROVE  \A p \in Pipe :
               [S EXCEPT ![U2S(c)].ready = x, ![F2S(c)].ready = x][p].on = S[p].on
  <2> DEFINE T == [S EXCEPT ![U2S(c)].ready = x]
  <2>1. U2S(c) \in Pipe /\ F2S(c) \in Pipe
    OBVIOUS
  <2>2. T \in Ends
    BY <2>1, EndsUpdate
  <2>3. \A p \in Pipe : T[p].on = S[p].on
    BY <2>1, UpdateKeepsOn
  <2> HIDE DEF T
  <2>4. \A p \in Pipe : [T EXCEPT ![F2S(c)].ready = x][p].on = T[p].on
    BY <2>1, <2>2, UpdateKeepsOn
  <2> QED
    BY <2>3, <2>4 DEF T
<1>3. \A p \in Pipe : ToSinks(S, c, b)[p].on = S[p].on
  BY <1>1, <1>2 DEF ToSinks
<1>4. \A p \in Pipe : FromSinks(S, c, b)[p].on = S[p].on
  BY <1>1, UpdateKeepsOn DEF FromSinks
<1>5. \A p \in Pipe : ToSources(S, c, b)[p].on = S[p].on /\ FromSources(S, c, b)[p].on = S[p].on
  BY UpdateKeepsOn DEF ToSources, FromSources
<1> QED
  BY <1>3, <1>4, <1>5

LEMMA CloseOwned ==
  ASSUME WorldOK, EndsOwned, NEW k \in Conn, connection_close(k),
         UNCHANGED <<slot, ses, file>>
  PROVE  EndsOwned'
<1> USE Names, NamesDiffer, ConnPipes
<1>1. src \in Ends /\ snk \in Ends /\ sock \in [Conn -> Socket] /\ sock[k] \in Socket
  BY DEF PipeTypeOK, SocketTypeOK, Ends
<1>2. /\ ~src'[SourcePipe(k)].on /\ ~snk'[SinkPipe(k)].on /\ ~ConnOpen(k)'
      /\ \A p \in Pipe : p # SourcePipe(k) => src'[p] = src[p]
      /\ \A p \in Pipe : p # SinkPipe(k) => snk'[p] = snk[p]
      /\ \A h \in Conn : h # k => (ConnOpen(h)' <=> ConnOpen(h))
  <2>1. ClosedSocket(k).st = "closed"
    <3>1. xps_loop_detach(sock[k]) \in Socket
      BY <1>1, SocketTypes
    <3> QED
      BY <3>1 DEF ClosedSocket, Socket
  <2> QED
    BY <1>1, <2>1, ConnPipeTypes DEF connection_close, Ends, FreedEnd, ConnOpen
<1>3. EndsListed'
  BY <1>2, OwnedParts, ConnPipeTypes DEF EndsListed
<1>4. ASSUME NEW d \in Client PROVE OwnedFor(d)'
  <2>1. OwnedFor(d)
    BY OwnedParts
  <2>2. PICK c \in Client :
           \/ k = ClientConn(c) /\ SourcePipe(k) = C2S(c) /\ SinkPipe(k) = S2C(c)
           \/ k = UpstreamConn(c) /\ SourcePipe(k) = U2S(c) /\ SinkPipe(k) = S2U(c)
    BY ConnCases
  <2>3. CASE k = ClientConn(c) /\ SourcePipe(k) = C2S(c) /\ SinkPipe(k) = S2C(c)
    BY <1>2, <2>1, <2>3 DEF OwnedFor
  <2>4. CASE k = UpstreamConn(c) /\ SourcePipe(k) = U2S(c) /\ SinkPipe(k) = S2U(c)
    BY <1>2, <2>1, <2>4 DEF OwnedFor
  <2> QED
    BY <2>2, <2>3, <2>4
<1> QED
  BY <1>3, <1>4, OwnedParts

LEMMA DestroyOwned ==
  ASSUME WorldOK, EndsOwned, NEW c \in Client, NEW S \in Ends, NEW K \in Ends,
         \A p \in Pipe : S[p].on = src[p].on /\ K[p].on = snk[p].on,
         xps_session_destroy(c, S, K), UNCHANGED <<slot, sock, file>>
  PROVE  EndsOwned'
<1> USE Names, NamesDiffer
<1>1. /\ src' = SourcesWithout(S, c) /\ snk' = SinksWithout(K, c)
      /\ ~ses'[c].live /\ \A d \in Client : d # c => ses'[d] = ses[d]
  BY DEF xps_session_destroy, SessionTypeOK, NoSession
<1>2. \A p \in Pipe :
        /\ p \notin {S2C(c), S2U(c)} => src'[p].on = src[p].on
        /\ p \in {S2C(c), S2U(c)} => ~src'[p].on
        /\ p \notin {C2S(c), U2S(c), F2S(c)} => snk'[p].on = snk[p].on
        /\ p \in {C2S(c), U2S(c), F2S(c)} => ~snk'[p].on
  BY <1>1 DEF SourcesWithout, SinksWithout, Ends, FreedEnd
<1>3. EndsListed'
  BY <1>2, OwnedParts DEF EndsListed
<1>4. ASSUME NEW d \in Client PROVE OwnedFor(d)'
  <2>1. OwnedFor(d) /\ (ConnOpen(ClientConn(d))' <=> ConnOpen(ClientConn(d)))
                    /\ (ConnOpen(UpstreamConn(d))' <=> ConnOpen(UpstreamConn(d)))
    BY OwnedParts DEF ConnOpen
  <2>2. CASE d = c
    BY <1>1, <1>2, <2>1, <2>2 DEF OwnedFor
  <2>3. CASE d # c
    BY <1>1, <1>2, <2>1, <2>3 DEF OwnedFor
  <2> QED
    BY <2>2, <2>3
<1> QED
  BY <1>3, <1>4, OwnedParts

LEMMA CheckDestroyOwned ==
  ASSUME WorldOK, EndsOwned, NEW c \in Client, NEW S \in Ends, NEW K \in Ends, NEW r,
         \A p \in Pipe : S[p].on = src[p].on /\ K[p].on = snk[p].on,
         r.live = ses[c].live,
         session_check_destroy(c, S, K, r), UNCHANGED <<slot, sock, file>>
  PROVE  EndsOwned'
<1>1. CASE Flowing(c, S, K, r)
  BY <1>1, KeepsOwned DEF session_check_destroy, SessionTypeOK, ConnOpen
<1>2. CASE ~Flowing(c, S, K, r)
  BY <1>2, DestroyOwned DEF session_check_destroy
<1> QED
  BY <1>1, <1>2

LEMMA ConnectionOwned ==
  ASSUME WorldOK, EndsOwned, NEW k \in Conn,
         \/ connection_source_handler(k) \/ connection_sink_handler(k)
         \/ connection_source_close_handler(k) \/ connection_sink_close_handler(k)
  PROVE  EndsOwned'
<1>0. /\ SourcePipe(k) \in Pipe /\ SinkPipe(k) \in Pipe
      /\ src \in Ends /\ snk \in Ends /\ sock[k] \in Socket /\ sock \in [Conn -> Socket]
  BY ConnPipeTypes DEF PipeTypeOK, SocketTypeOK, Ends
<1>1. UNCHANGED <<slot, ses, file>>
  BY DEF connection_source_handler, connection_sink_handler, connection_source_close_handler,
         connection_sink_close_handler, UnchangedList
<1>2. CASE connection_close(k)
  BY <1>1, <1>2, CloseOwned
<1>3. CASE /\ \A p \in Pipe : src'[p].on = src[p].on /\ snk'[p].on = snk[p].on
           /\ \A h \in Conn : sock'[h].st = sock[h].st
  BY <1>1, <1>3, KeepsOwned DEF ConnOpen
<1>4. CASE connection_source_handler(k) /\ ~connection_close(k)
  <2>1. CASE /\ sock' = [sock EXCEPT ![k].in = SubSeq(@, RecvLen(k) + 1, Len(@))]
             /\ UNCHANGED <<src, snk>>
    BY <1>0, <1>3, <2>1 DEF Socket
  <2>2. CASE src' = [src EXCEPT ![SourcePipe(k)].ready = FALSE] /\ UNCHANGED <<snk, sock>>
    BY <1>0, <1>3, <2>2, UpdateKeepsOn
  <2> QED
    BY <1>4, <2>1, <2>2 DEF connection_source_handler
<1>5. CASE connection_sink_handler(k) /\ ~connection_close(k)
  <2>1. CASE /\ snk' = [snk EXCEPT ![SinkPipe(k)].ready = FALSE]
             /\ sock' = [sock EXCEPT ![k].nospace = TRUE]
             /\ UNCHANGED src
    <3>1. \A h \in Conn : sock'[h].st = sock[h].st
      BY <1>0, <2>1 DEF Socket
    <3> QED
      BY <1>0, <1>3, <2>1, <3>1, UpdateKeepsOn
  <2>2. CASE /\ \E n, b : sock' = [sock EXCEPT ![k].room = @ - n, ![k].nospace = b]
             /\ UNCHANGED <<src, snk>>
    <3>1. PICK n, b : sock' = [sock EXCEPT ![k].room = @ - n, ![k].nospace = b]
      BY <2>2
    <3>2. \A h \in Conn : sock'[h].st = sock[h].st
      BY <1>0, <3>1 DEF Socket
    <3> QED
      BY <1>3, <2>2, <3>2
  <2> QED
    BY <1>5, <2>1, <2>2 DEF connection_sink_handler
<1>6. CASE /\ connection_source_close_handler(k) \/ connection_sink_close_handler(k)
           /\ ~connection_close(k)
  <2>1. CASE src' = [src EXCEPT ![SourcePipe(k)].active = FALSE] /\ UNCHANGED <<snk, sock>>
    BY <1>0, <1>3, <2>1, UpdateKeepsOn
  <2>2. CASE snk' = [snk EXCEPT ![SinkPipe(k)].active = FALSE] /\ UNCHANGED <<src, sock>>
    BY <1>0, <1>3, <2>2, UpdateKeepsOn
  <2> QED
    BY <1>6, <2>1, <2>2 DEF connection_source_close_handler, connection_sink_close_handler
<1> QED
  BY <1>2, <1>4, <1>5, <1>6

LEMMA SessionOwned ==
  ASSUME WorldOK, EndsOwned, NEW c \in Client,
         \/ client_source_handler(c) \/ upstream_source_handler(c)
         \/ upstream_sink_handler(c) \/ file_sink_handler(c)
         \/ client_source_close_handler(c) \/ client_sink_close_handler(c)
         \/ upstream_source_close_handler(c) \/ upstream_sink_close_handler(c)
         \/ file_sink_close_handler(c)
  PROVE  EndsOwned'
<1> USE Names
<1>0. src \in Ends /\ snk \in Ends /\ ses \in [Client -> Session] /\ ses[c] \in Session
  BY SessionFields DEF SessionTypeOK
<1>1. CASE client_source_handler(c)
  <2> DEFINE r == [ses[c] EXCEPT !.to = <<>>]
  <2>1. r.live = ses[c].live
    BY <1>0 DEF Session
  <2>2. /\ ToSources(src, c, FALSE) \in Ends /\ ToSinks(snk, c, FALSE) \in Ends
        /\ \A p \in Pipe : ToSources(src, c, FALSE)[p].on = src[p].on
        /\ \A p \in Pipe : ToSinks(snk, c, FALSE)[p].on = snk[p].on
    BY <1>0, FlagTypes, FlagsKeepOn
  <2> QED
    BY <1>1, <2>1, <2>2, CheckDestroyOwned DEF client_source_handler, UnchangedList
<1>2. CASE upstream_source_handler(c)
  <2>1. AfterUpstreamWrite(c).live = ses[c].live
    BY <1>0 DEF AfterUpstreamWrite, Session
  <2>2. /\ FromSources(src, c, FALSE) \in Ends /\ FromSinks(snk, c, FALSE) \in Ends
        /\ \A p \in Pipe : FromSources(src, c, FALSE)[p].on = src[p].on
        /\ \A p \in Pipe : FromSinks(snk, c, FALSE)[p].on = snk[p].on
    BY <1>0, FlagTypes, FlagsKeepOn
  <2> QED
    BY <1>2, <2>1, <2>2, CheckDestroyOwned DEF upstream_source_handler, UnchangedList
<1>3. CASE upstream_sink_handler(c) \/ file_sink_handler(c)
  <2>0. src' = ToSources(src, c, TRUE) /\ snk' = ToSinks(snk, c, TRUE)
    BY <1>3 DEF upstream_sink_handler, file_sink_handler
  <2>1. \A p \in Pipe : src'[p].on = src[p].on /\ snk'[p].on = snk[p].on
    BY <1>0, <2>0, FlagsKeepOn
  <2>2. \A d \in Client : ses'[d].live = ses[d].live
    BY <1>0, <1>3 DEF upstream_sink_handler, file_sink_handler, Session
  <2> QED
    BY <1>3, <2>1, <2>2, KeepsOwned
    DEF upstream_sink_handler, file_sink_handler, UnchangedList, ConnOpen
<1>4. CASE \/ client_source_close_handler(c) \/ client_sink_close_handler(c)
           \/ upstream_source_close_handler(c) \/ upstream_sink_close_handler(c)
           \/ file_sink_close_handler(c)
  <2>1. MarkUpstreamError(c).live = ses[c].live
    BY <1>0 DEF MarkUpstreamError, Session
  <2>2. \A q \in Pipe : /\ SourceInactive(q) \in Ends /\ SinkInactive(q) \in Ends
                        /\ \A p \in Pipe : SourceInactive(q)[p].on = src[p].on
                        /\ \A p \in Pipe : SinkInactive(q)[p].on = snk[p].on
    <3>1. ASSUME NEW q \in Pipe, NEW S \in Ends
          PROVE  /\ [S EXCEPT ![q].active = FALSE] \in Ends
                 /\ \A p \in Pipe : [S EXCEPT ![q].active = FALSE][p].on = S[p].on
      <4>1. [S EXCEPT ![q].active = FALSE] \in Ends
        BY EndsUpdate
      <4>2. \A p \in Pipe : [S EXCEPT ![q].active = FALSE][p].on = S[p].on
        BY UpdateKeepsOn
      <4> QED
        BY <4>1, <4>2
    <3> QED
      BY <1>0, <3>1 DEF SourceInactive, SinkInactive
  <2>3. ASSUME NEW q \in Pipe, NEW r, r.live = ses[c].live,
               CloseSessionEnd(c, SourceInactive(q), snk, r) \/ CloseSessionEnd(c, src, SinkInactive(q), r)
        PROVE  EndsOwned'
    BY <1>0, <2>2, <2>3, CheckDestroyOwned DEF CloseSessionEnd, UnchangedList
  <2> QED
    BY <1>4, <2>1, <2>3
    DEF client_source_close_handler, client_sink_close_handler, upstream_source_close_handler,
        upstream_sink_close_handler, file_sink_close_handler
<1> QED
  BY <1>1, <1>2, <1>3, <1>4

LEMMA FileOwned ==
  ASSUME WorldOK, EndsOwned, NEW c \in Client,
         file_source_handler(c) \/ file_source_close_handler(c)
  PROVE  EndsOwned'
<1> USE Names, NamesDiffer
<1>0. src \in Ends /\ file \in [Client -> File] /\ file[c] \in File
  BY DEF PipeTypeOK, SessionTypeOK, Ends
<1>1. UNCHANGED <<slot, snk, sock, ses>>
  BY DEF file_source_handler, file_source_close_handler, UnchangedList
<1>2. ASSUME NEW why \in {"closed", "failed"}, FileDestroy(c, why)
      PROVE  EndsOwned'
  <2>1. /\ ~src'[F2S(c)].on /\ file'[c].st # "open"
        /\ \A p \in Pipe : p # F2S(c) => src'[p] = src[p]
        /\ \A d \in Client : d # c => file'[d] = file[d]
    BY <1>0, <1>2 DEF FileDestroy, Ends, File, FreedEnd
  <2>2. EndsListed'
    BY <1>1, <2>1, OwnedParts DEF EndsListed
  <2>3. ASSUME NEW d \in Client PROVE OwnedFor(d)'
    <3>1. OwnedFor(d) /\ (ConnOpen(ClientConn(d))' <=> ConnOpen(ClientConn(d)))
                      /\ (ConnOpen(UpstreamConn(d))' <=> ConnOpen(UpstreamConn(d)))
      BY <1>1, OwnedParts DEF ConnOpen
    <3> QED
      BY <1>1, <2>1, <3>1 DEF OwnedFor
  <2> QED
    BY <2>2, <2>3, OwnedParts
<1>3. CASE UNCHANGED src /\ \E n : file' = [file EXCEPT ![c].left = @ - n]
  <2>1. \A d \in Client : file'[d].st = file[d].st
    BY <1>0, <1>3 DEF File
  <2> QED
    BY <1>1, <1>3, <2>1, KeepsOwned DEF ConnOpen
<1> QED
  BY <1>2, <1>3 DEF file_source_handler, file_source_close_handler

LEMMA PushListed ==
  ASSUME WorldOK, NEW p \in Pipe, NEW q \in Pipe, PushPipe(p) \/ PushPipes(p, q)
  PROVE  /\ \A o \in Pipe : slot[o] # 0 => slot'[o] # 0
         /\ slot'[p] # 0
         /\ PushPipes(p, q) => slot'[q] # 0
<1>1. slot \in [Pipe -> Nat] /\ pipes_length \in Nat
  BY DEF PipeTypeOK
<1>2. pipes_length + 1 # 0 /\ pipes_length + 2 # 0
  BY <1>1
<1>3. CASE PushPipe(p) /\ ~PushPipes(p, q)
  BY <1>1, <1>2, <1>3 DEF PushPipe
<1>4. CASE PushPipes(p, q)
  BY <1>1, <1>2, <1>4 DEF PushPipes
<1> QED
  BY <1>3, <1>4

LEMMA CreateOwned ==
  ASSUME WorldOK, EndsOwned, NEW c \in Client, c \in Backlog, xps_session_create(c)
  PROVE  EndsOwned'
<1> USE Names, NamesDiffer
<1>0. /\ src \in Ends /\ snk \in Ends /\ sock \in [Conn -> Socket]
      /\ sock[ClientConn(c)] \in Socket /\ ses \in [Client -> Session]
  BY DEF PipeTypeOK, SocketTypeOK, SessionTypeOK, Ends
<1>1. /\ ConnOpen(ClientConn(c))'
      /\ \A k \in Conn : k # ClientConn(c) => (ConnOpen(k)' <=> ConnOpen(k))
  <2>1. AcceptedSocket(ClientConn(c)).st = "up"
    BY <1>0 DEF AcceptedSocket, xps_loop_attach, Socket
  <2> QED
    BY <1>0, <2>1 DEF xps_session_create, ConnOpen
<1>2. /\ ses'[c].live
      /\ \A d \in Client : d # c => ses'[d] = ses[d]
      /\ UNCHANGED file
  BY <1>0 DEF xps_session_create, NoSession
<1>3. /\ src'[C2S(c)].on /\ src'[S2C(c)].on
      /\ \A p \in Pipe : p \notin {C2S(c), S2C(c)} => src'[p] = src[p]
  BY <1>0 DEF xps_session_create, Ends, Attached, FreedEnd
<1>4. /\ snk'[C2S(c)].on /\ snk'[S2C(c)].on
      /\ \A p \in Pipe : p \notin {C2S(c), S2C(c)} => snk'[p].on = snk[p].on
  BY <1>0 DEF xps_session_create, Ends, End, Attached, FreedEnd
<1>5. slot'[C2S(c)] # 0 /\ slot'[S2C(c)] # 0 /\ \A o \in Pipe : slot[o] # 0 => slot'[o] # 0
  BY PushListed DEF xps_session_create
<1>6. EndsListed'
  BY <1>3, <1>4, <1>5, OwnedParts DEF EndsListed
<1>7. ASSUME NEW d \in Client PROVE OwnedFor(d)'
  <2>1. OwnedFor(d)
    BY OwnedParts
  <2>2. CASE d = c
    BY <1>1, <1>2, <1>3, <1>4, <2>1, <2>2 DEF OwnedFor
  <2>3. CASE d # c
    BY <1>1, <1>2, <1>3, <1>4, <2>1, <2>3 DEF OwnedFor
  <2> QED
    BY <2>2, <2>3
<1> QED
  BY <1>6, <1>7, OwnedParts

LEMMA RequestOwned ==
  ASSUME WorldOK, EndsOwned, NEW c \in Client, ses[c].live, client_sink_handler(c)
  PROVE  EndsOwned'
<1> USE Names, NamesDiffer
<1>0. /\ src \in Ends /\ snk \in Ends /\ ses \in [Client -> Session] /\ ses[c] \in Session
      /\ sock \in [Conn -> Socket] /\ file \in [Client -> File] /\ file[c] \in File
      /\ ParsedSources(c) \in Ends /\ ParsedSinks(c) \in Ends
  BY SessionFields DEF SessionTypeOK, SocketTypeOK
<1> DEFINE Keeps(S, T) == \A p \in Pipe : S[p].on = T[p].on
<1>11. ASSUME NEW S \in Ends
      PROVE  /\ Keeps(ToSources(S, c, TRUE), S) /\ Keeps(ToSinks(S, c, TRUE), S)
             /\ Keeps(FromSources(S, c, TRUE), S) /\ Keeps(FromSinks(S, c, TRUE), S)
  BY FlagsKeepOn
<1>1. \A p \in Pipe : ParsedSources(c)[p].on = src[p].on /\ ParsedSinks(c)[p].on = snk[p].on
  BY <1>0, <1>11 DEF ParsedSources, ParsedSinks
<1>2. \A p \in Pipe : /\ ToSources(ParsedSources(c), c, TRUE)[p].on = src[p].on
                      /\ ToSinks(ParsedSinks(c), c, TRUE)[p].on = snk[p].on
  BY <1>0, <1>1, <1>11
<1>3. Parsed(c).live /\ [Parsed(c) EXCEPT !.to = Head0].live
  BY <1>0 DEF Parsed, Session
<1>4. CASE /\ \A p \in Pipe : src'[p].on = src[p].on /\ snk'[p].on = snk[p].on
           /\ \A d \in Client : ses'[d].live = ses[d].live
           /\ UNCHANGED <<slot, sock, file>>
  BY <1>4, KeepsOwned DEF ConnOpen
<1>5. CASE BadRequest(c)
  <2>1. \A p \in Pipe : src'[p].on = src[p].on /\ snk'[p].on = snk[p].on
    BY <1>0, <1>5, <1>11 DEF BadRequest
  <2> QED
    BY <1>0, <1>4, <1>5, <2>1 DEF BadRequest, UnchangedList, Session
<1>6. CASE ReplyOnly(c)
  <2>1. \A d \in Client : ses'[d].live = ses[d].live
    BY <1>0, <1>3, <1>6 DEF ReplyOnly
  <2>2. \A p \in Pipe : src'[p].on = src[p].on /\ snk'[p].on = snk[p].on
    BY <1>2, <1>6 DEF ReplyOnly
  <2> QED
    BY <1>4, <1>6, <2>1, <2>2 DEF ReplyOnly, UnchangedList
<1>7. CASE ServeFile(c)
  <2>1. /\ src'[F2S(c)].on /\ snk'[F2S(c)].on
        /\ \A p \in Pipe : p # F2S(c) => src'[p].on = src[p].on /\ snk'[p].on = snk[p].on
    <3>1. ToSources(ParsedSources(c), c, TRUE) \in Ends /\ ToSinks(ParsedSinks(c), c, TRUE) \in Ends
      BY <1>0, FlagTypes
    <3> QED
      BY <1>2, <1>7, <3>1 DEF ServeFile, Ends, End, Attached, FreedEnd
  <2>2. /\ \A d \in Client : ses'[d].live = ses[d].live
        /\ file'[c].st = "open" /\ \A d \in Client : d # c => file'[d] = file[d]
        /\ UNCHANGED sock
    BY <1>0, <1>3, <1>7 DEF ServeFile, File
  <2>3. slot'[F2S(c)] # 0 /\ \A o \in Pipe : slot[o] # 0 => slot'[o] # 0
    BY <1>7, PushListed DEF ServeFile
  <2>4. EndsListed'
    BY <2>1, <2>3, OwnedParts DEF EndsListed
  <2>5. ASSUME NEW d \in Client PROVE OwnedFor(d)'
    <3>1. OwnedFor(d) /\ (ConnOpen(ClientConn(d))' <=> ConnOpen(ClientConn(d)))
                      /\ (ConnOpen(UpstreamConn(d))' <=> ConnOpen(UpstreamConn(d)))
      BY <2>2, OwnedParts DEF ConnOpen
    <3> QED
      BY <2>1, <2>2, <3>1 DEF OwnedFor
  <2> QED
    BY <2>4, <2>5, OwnedParts
<1>8. CASE ReverseProxy(c)
  <2>1. /\ src'[S2U(c)].on /\ src'[U2S(c)].on /\ snk'[S2U(c)].on /\ snk'[U2S(c)].on
        /\ \A p \in Pipe : p \notin {S2U(c), U2S(c)} =>
                             src'[p].on = src[p].on /\ snk'[p].on = snk[p].on
    BY <1>0, <1>1, <1>8 DEF ReverseProxy, Ends, End, Attached, FreedEnd
  <2>2. /\ ConnOpen(UpstreamConn(c))'
        /\ \A k \in Conn : k # UpstreamConn(c) => (ConnOpen(k)' <=> ConnOpen(k))
    <3>1. ConnectingSocket.st = "pending"
      BY DEF ConnectingSocket, xps_loop_attach, NoSocket
    <3> QED
      BY <1>0, <1>8, <3>1 DEF ReverseProxy, ConnOpen
  <2>3. (\A d \in Client : ses'[d].live = ses[d].live) /\ UNCHANGED file
    BY <1>0, <1>3, <1>8 DEF ReverseProxy
  <2>4. /\ slot'[S2U(c)] # 0 /\ slot'[U2S(c)] # 0
        /\ \A o \in Pipe : slot[o] # 0 => slot'[o] # 0
    BY <1>8, PushListed DEF ReverseProxy
  <2>5. EndsListed'
    BY <2>1, <2>4, OwnedParts DEF EndsListed
  <2>6. ASSUME NEW d \in Client PROVE OwnedFor(d)'
    <3>1. OwnedFor(d)
      BY OwnedParts
    <3>2. CASE d = c
      BY <2>1, <2>2, <2>3, <3>1, <3>2 DEF OwnedFor
    <3>3. CASE d # c
      BY <2>1, <2>2, <2>3, <3>1, <3>3 DEF OwnedFor
    <3> QED
      BY <3>2, <3>3
  <2> QED
    BY <2>5, <2>6, OwnedParts
<1>9. CASE InvalidRoute(c)
  BY <1>0, <1>9, DestroyOwned DEF InvalidRoute, UnchangedList
<1>10. CASE /\ ses' = [ses EXCEPT ![c].from = buf[C2S(c)]]
            /\ src' = FromSources(src, c, TRUE)
            /\ snk' = FromSinks(snk, c, TRUE)
            /\ UnchangedList
            /\ UNCHANGED <<sock, file>>
  <2>1. \A p \in Pipe : src'[p].on = src[p].on /\ snk'[p].on = snk[p].on
    BY <1>0, <1>10, <1>11
  <2>2. \A d \in Client : ses'[d].live = ses[d].live
    BY <1>0, <1>10 DEF Session
  <2> QED
    BY <1>4, <1>10, <2>1, <2>2 DEF UnchangedList
<1> QED
  BY <1>5, <1>6, <1>7, <1>8, <1>9, <1>10 DEF client_sink_handler, session_process_request

LEMMA RankPositive ==
  ASSUME WorldOK, NEW p \in Listed
  PROVE  Rank(p) # 0
<1> DEFINE S == {q \in Listed : slot[q] <= slot[p]}
<1>1. p \in S
  BY DEF Listed, PipeTypeOK
<1>2. IsFiniteSet(S)
  BY PipeFinite DEF Listed
<1>3. Cardinality(S) # 0
  BY <1>1, <1>2, FS_EmptySet
<1> QED
  BY <1>3 DEF Rank

LEMMA PipeListOwned ==
  ASSUME WorldOK, EndsOwned, UNCHANGED <<src, snk, sock, ses, file>>,
         \A p \in Pipe : src[p].on \/ snk[p].on => slot'[p] # 0
  PROVE  EndsOwned'
<1>1. EndsListed'
  BY DEF EndsListed
<1>2. ASSUME NEW c \in Client PROVE OwnedFor(c)'
  <2>1. OwnedFor(c)
    BY OwnedParts
  <2> QED
    BY <2>1 DEF OwnedFor, ConnOpen
<1> QED
  BY <1>1, <1>2, OwnedParts

LEMMA DestroyDeadOwned ==
  ASSUME WorldOK, EndsOwned, NEW p \in Pipe, Dead(p), xps_pipe_destroy(p),
         UNCHANGED <<sockVars, sessionVars>>
  PROVE  EndsOwned'
<1>1. \A q \in Pipe : src[q].on \/ snk[q].on => slot'[q] # 0
  BY OwnedParts DEF EndsListed, xps_pipe_destroy, Dead, PipeTypeOK
<1> QED
  BY <1>1, PipeListOwned DEF xps_pipe_destroy, sockVars, sessionVars

LEMMA FilterOwned ==
  ASSUME WorldOK, EndsOwned, filter_null_pipes, UNCHANGED <<sockVars, sessionVars>>
  PROVE  EndsOwned'
<1>1. \A q \in Pipe : src[q].on \/ snk[q].on => slot[q] # 0
  BY OwnedParts DEF EndsListed
<1>2. \A q \in Pipe : slot[q] # 0 => slot'[q] # 0
  <2>1. CASE slot' = [p \in Pipe |-> IF slot[p] = 0 THEN 0 ELSE Rank(p)]
    BY <2>1, RankPositive DEF Listed
  <2>2. CASE UNCHANGED slot
    BY <2>2
  <2> QED
    BY <2>1, <2>2 DEF filter_null_pipes, UnchangedList
<1> QED
  BY <1>1, <1>2, PipeListOwned DEF filter_null_pipes, sockVars, sessionVars

\* Steps that touch only readiness flags and the parts of a socket other than
\* its state.
LEMMA FlagsOnlyOwned ==
  ASSUME EndsOwned, UNCHANGED <<slot, sessionVars>>,
         \A p \in Pipe : src'[p].on = src[p].on /\ snk'[p].on = snk[p].on,
         \A k \in Conn : ConnOpen(k)' <=> ConnOpen(k)
  PROVE  EndsOwned'
BY KeepsOwned DEF sessionVars

LEMMA EpollOwned ==
  ASSUME TypeOK, EndsOwned,
         \/ epoll_wait \/ (\E e \in batch : HandleEvent(e)) \/ (\E k \in Conn : HandleOut(k))
  PROVE  EndsOwned'
<1>0. src \in Ends /\ snk \in Ends /\ sock \in [Conn -> Socket] /\ batch \subseteq Event
  BY DEF TypeOK, PipeTypeOK, SocketTypeOK, Ends
<1>1. CASE epoll_wait
  <2>1. PICK K \in SUBSET ReadyConns :
          sock' = [k \in Conn |-> IF k \in K \/ ~PollAny(k)
                                  THEN [sock[k] EXCEPT !.edge = FALSE] ELSE sock[k]]
    BY <1>1 DEF epoll_wait
  <2>2. \A k \in Conn : ConnOpen(k)' <=> ConnOpen(k)
    BY <1>0, <2>1 DEF ConnOpen, Socket
  <2> QED
    BY <1>1, <2>2, FlagsOnlyOwned DEF epoll_wait, pipeVars
<1>2. CASE \E e \in batch : HandleEvent(e)
  <2>1. PICK e \in batch : HandleEvent(e)
    BY <1>2
  <2>2. e.k \in Conn
    BY <1>0 DEF Event
  <2>3. \A p \in Pipe : src'[p].on = src[p].on
    <3>1. CASE src' = [src EXCEPT ![SourcePipe(e.k)].ready = TRUE]
      BY <1>0, <2>2, <3>1, ConnPipeTypes, UpdateKeepsOn
    <3>2. CASE UNCHANGED src
      BY <3>2
    <3> QED
      BY <2>1, <3>1, <3>2 DEF HandleEvent, OnInput
  <2>4. \A k \in Conn : ConnOpen(k)' <=> ConnOpen(k)
    BY <1>0, <2>1, <2>2 DEF HandleEvent, OnHangup, xps_loop_detach, ConnOpen, Socket
  <2> QED
    BY <2>1, <2>3, <2>4, FlagsOnlyOwned DEF HandleEvent
<1>3. CASE \E k \in Conn : HandleOut(k)
  <2>1. PICK k \in Conn : HandleOut(k)
    BY <1>3
  <2>2. \A p \in Pipe : snk'[p].on = snk[p].on
    <3>1. CASE snk' = [snk EXCEPT ![SinkPipe(k)].ready = TRUE]
      BY <1>0, <3>1, ConnPipeTypes, UpdateKeepsOn
    <3>2. CASE UNCHANGED snk
      BY <3>2
    <3> QED
      BY <2>1, <3>1, <3>2 DEF HandleOut
  <2>3. \A h \in Conn : ConnOpen(h)' <=> ConnOpen(h)
    BY <2>1 DEF HandleOut, sockVars, ConnOpen
  <2> QED
    BY <2>1, <2>2, <2>3, FlagsOnlyOwned DEF HandleOut
<1> QED
  BY <1>1, <1>2, <1>3

LEMMA PeerOwned ==
  ASSUME WorldOK, EndsOwned, PeerStep
  PROVE  EndsOwned'
<1>0. sock \in [Conn -> Socket]
  BY DEF SocketTypeOK
<1>1. \A k \in Conn : ConnOpen(k)' <=> ConnOpen(k)
  <2>1. ASSUME NEW c \in Client, Connect(c) \/ Establish(c) \/ Refuse(c)
        PROVE  \A k \in Conn : ConnOpen(k)' <=> ConnOpen(k)
    <3> USE Names, NamesDiffer
    <3>1. CASE Connect(c)
      BY <1>0, <3>1 DEF Connect, ConnOpen, Socket
    <3>2. CASE Establish(c)
      <4>1. /\ sock[UpstreamConn(c)].st = "pending" /\ sock'[UpstreamConn(c)].st = "up"
            /\ \A k \in Conn : k # UpstreamConn(c) => sock'[k] = sock[k]
        BY <1>0, <3>2 DEF Establish, Socket
      <4> QED
        BY <4>1 DEF ConnOpen
    <3>3. CASE Refuse(c)
      <4>1. \A k \in Conn : sock'[k].st = sock[k].st
        BY <1>0, <3>3 DEF Refuse, Socket
      <4> QED
        BY <4>1 DEF ConnOpen
    <3> QED
      BY <2>1, <3>1, <3>2, <3>3
  <2>2. ASSUME NEW h \in Conn, PeerSend(h) \/ PeerFin(h) \/ PeerReset(h) \/ PeerDrain(h)
        PROVE  \A k \in Conn : sock'[k].st = sock[k].st
    <3>1. CASE PeerSend(h)
      BY <1>0, <3>1 DEF PeerSend, Socket
    <3>2. CASE PeerFin(h)
      BY <1>0, <3>2 DEF PeerFin, Socket
    <3>3. CASE PeerReset(h)
      BY <1>0, <3>3 DEF PeerReset, Socket
    <3>4. CASE PeerDrain(h)
      <4>1. PICK e \in BOOLEAN :
               sock' = [sock EXCEPT ![h].room = Room, ![h].nospace = FALSE, ![h].edge = e]
        <5>1. (sock[h].reg /\ (sock[h].edge \/ sock[h].nospace)) \in BOOLEAN
          OBVIOUS
        <5> QED
          BY <3>4, <5>1 DEF PeerDrain
      <4> QED
        BY <1>0, <4>1 DEF Socket
    <3> QED
      BY <2>2, <3>1, <3>2, <3>3, <3>4
  <2> QED
    BY <2>1, <2>2 DEF PeerStep, Peers, ConnOpen
<1> QED
  BY <1>1, FlagsOnlyOwned DEF PeerStep, pipeVars

LEMMA HandlerOwned ==
  ASSUME WorldOK, EndsOwned, NEW p \in Pipe,
         \/ SourceHandler(p)
         \/ SinkTurn(p) /\ SinkHandler(p)
         \/ SourceCloseHandler(p) \/ SinkCloseHandler(p)
  PROVE  EndsOwned'
<1> DEFINE c == p[2]
<1>0. c \in Client /\ ClientConn(c) \in Conn /\ UpstreamConn(c) \in Conn
  BY PipeCases, Names
<1>1. p[1] = "c2s" => p = C2S(c)
  BY DEF C2S, Pipe
<1> HIDE DEF c
<1>2. CASE SourceHandler(p)
  BY <1>0, <1>2, ConnectionOwned, SessionOwned, FileOwned DEF SourceHandler, c
<1>3. CASE SinkTurn(p) /\ SinkHandler(p)
  <2>1. CASE p[1] = "c2s" /\ client_sink_handler(c)
    <3>1. ses[c].live
      BY <1>0, <1>1, <1>3, <2>1, OwnedParts DEF SinkTurn, OwnedFor
    <3> QED
      BY <1>0, <2>1, <3>1, RequestOwned
  <2> QED
    BY <1>0, <1>3, <2>1, ConnectionOwned, SessionOwned DEF SinkHandler, c
<1>4. CASE SourceCloseHandler(p)
  BY <1>0, <1>4, ConnectionOwned, SessionOwned, FileOwned DEF SourceCloseHandler, c
<1>5. CASE SinkCloseHandler(p)
  BY <1>0, <1>5, ConnectionOwned, SessionOwned DEF SinkCloseHandler, c
<1> QED
  BY <1>2, <1>3, <1>4, <1>5

LEMMA UnchangedOwned ==
  ASSUME EndsOwned, UnchangedWorld
  PROVE  EndsOwned'
BY FlagsOnlyOwned DEF UnchangedWorld, pipeVars, sockVars, ConnOpen

LEMMA OwnedInit == Init => EndsOwned
<1> SUFFICES ASSUME Init PROVE EndsOwned
  OBVIOUS
<1>1. \A p \in Pipe : ~src[p].on /\ ~snk[p].on
  BY DEF Init, PipeInit, FreedEnd
<1>2. \A k \in Conn : ~ConnOpen(k)
  BY DEF Init, SocketInit, NoSocket, ConnOpen
<1>3. \A c \in Client : ~ses[c].live /\ file[c].st # "open"
  BY DEF Init, SessionInit, NoSession
<1>4. EndsListed
  BY <1>1 DEF EndsListed
<1>5. ASSUME NEW c \in Client PROVE OwnedFor(c)
  BY <1>1, <1>2, <1>3, Names DEF OwnedFor
<1> QED
  BY <1>4, <1>5, OwnedParts

LEMMA OwnedStep == TypeOK /\ EndsOwned /\ [Next]_vars => EndsOwned'
<1> SUFFICES ASSUME TypeOK, EndsOwned, [Next]_vars PROVE EndsOwned'
  OBVIOUS
<1>0. WorldOK
  BY TypeParts
<1>1. CASE UNCHANGED vars
  BY <1>1, UnchangedOwned DEF vars, UnchangedWorld
<1>2. CASE SkipNull \/ PassDone \/ ListenerEvent \/ AcceptDone
  BY <1>2, UnchangedOwned DEF SkipNull, PassDone, ListenerEvent, AcceptDone
<1>3. CASE \E p \in Pipe : DestroyDead(p)
  BY <1>0, <1>3, DestroyDeadOwned DEF DestroyDead, sockVars, sessionVars
<1>4. CASE \E p \in Pipe : SourceStep(p)
  <2>1. PICK p \in Pipe : SourceHandler(p) \/ UnchangedWorld
    BY <1>4 DEF SourceStep
  <2>2. CASE SourceHandler(p)
    BY <1>0, <2>2, HandlerOwned
  <2>3. CASE UnchangedWorld
    BY <2>3, UnchangedOwned
  <2> QED
    BY <2>1, <2>2, <2>3
<1>5. CASE \E p \in Pipe : SinkStep(p)
  <2>1. PICK p \in Pipe : (SinkTurn(p) /\ SinkHandler(p)) \/ UnchangedWorld
    BY <1>5 DEF SinkStep
  <2>2. CASE SinkTurn(p) /\ SinkHandler(p)
    BY <1>0, <2>2, HandlerOwned
  <2>3. CASE UnchangedWorld
    BY <2>3, UnchangedOwned
  <2> QED
    BY <2>1, <2>2, <2>3
<1>6. CASE \E p \in Pipe : CloseStep(p)
  BY <1>0, <1>6, HandlerOwned, UnchangedOwned DEF CloseStep
<1>7. CASE \/ epoll_wait \/ (\E e \in batch : HandleEvent(e)) \/ (\E k \in Conn : HandleOut(k))
  BY <1>7, EpollOwned
<1>8. CASE EventsDone
  BY <1>0, <1>8, FilterOwned DEF EventsDone, sockVars, sessionVars
<1>9. CASE \E c \in Client : Accept(c)
  BY <1>0, <1>9, CreateOwned DEF Accept
<1>10. CASE PeerStep
  BY <1>0, <1>10, PeerOwned
<1> QED
  BY <1>1, <1>2, <1>3, <1>4, <1>5, <1>6, <1>7, <1>8, <1>9, <1>10
  DEF Next, xps_loop_run, handle_pipes, handle_epoll_events, Idle

\* No dangling pipe end, ever: with any number of clients and whatever the
\* interleaving of peers, events and close handlers, a pipe end is attached
\* exactly while its connection, session or file exists, and only to a pipe
\* that has not been freed.
THEOREM EndsAreOwned == Spec => []EndsOwned
<1>1. Init => TypeOK /\ EndsOwned
  BY TypeInit, OwnedInit
<1>2. TypeOK /\ EndsOwned /\ [Next]_vars => TypeOK' /\ EndsOwned'
  BY TypeStep, OwnedStep
<1> QED
  BY <1>1, <1>2, PTL DEF Spec

-----------------------------------------------------------------------------
(***************************************************************************)
(* Epoll's events: none is handled that its connection has not survived,   *)
(* and none that a connection needs is lost.                               *)
(***************************************************************************)
SourceFlag(k) == src[SourcePipe(k)].ready
SinkFlag(k) == snk[SinkPipe(k)].ready

\* What makes NoLostWakeup inductive: a full send buffer with a sink that waits
\* for room has been noticed by a send, so that a drain is announced; and only a
\* reset takes an open connection out of epoll.
Wake(k) ==
  /\ sock[k].st \in {"none", "backlog"} => sock[k].room > 0
  /\ sock[k].reg => ConnOpen(k)
  /\ ConnOpen(k) =>
       /\ sock[k].reg /\ PollIn(k) /\ ~SourceFlag(k) =>
            sock[k].edge \/ \E e \in batch : e.k = k /\ e.in
       /\ sock[k].reg /\ PollOut(k) /\ ~SinkFlag(k) =>
            sock[k].edge \/ k \in cur \/ \E e \in batch : e.k = k /\ e.out
       /\ sock[k].room = 0 /\ ~SinkFlag(k) => sock[k].nospace
       /\ ~sock[k].reg => SourceFlag(k) /\ sock[k].rst

\* The events in hand: one at most for a connection, and none while the loop
\* walks the pipes.
BatchInv ==
  /\ \A e \in batch : sock[e.k].reg /\ (e.hup => e.in /\ sock[e.k].rst)
  /\ \A e, f \in batch : e.k = f.k => e = f
  /\ pc \in {"source", "sink", "close", "wait"} => batch = {}
  /\ pc # "out" => cur = {}
  /\ \A k \in cur : ConnOpen(k) /\ cur = {k}

WakeInv == \A k \in Conn : Wake(k)
EventInv == WakeInv /\ BatchInv

LEMMA EventInvMeans ==
  ASSUME TypeOK, EventInv
  PROVE  NoLostWakeup /\ EventsOfLiveConnections
<1>1. NoLostWakeup
  BY DEF NoLostWakeup, EventInv, WakeInv, Wake, SourceFlag, SinkFlag
<1>2. \A e \in batch : e.k \in Conn
  BY DEF TypeOK, Event
<1>3. EventsOfLiveConnections
  BY <1>2 DEF EventsOfLiveConnections, EventInv, WakeInv, Wake, BatchInv
<1> QED
  BY <1>1, <1>3

-----------------------------------------------------------------------------
LEMMA WakeFrame ==
  ASSUME NEW k \in Conn, Wake(k), sock'[k] = sock[k], UNCHANGED <<batch, cur>>,
         SourceFlag(k)' = SourceFlag(k), SinkFlag(k)' = SinkFlag(k)
  PROVE  Wake(k)'
BY DEF Wake, ConnOpen, PollIn, PollOut

\* The frame of BatchInv for steps of the pipes and of the peers.
LEMMA BatchFrame ==
  ASSUME TypeOK, BatchInv, UNCHANGED <<batch, cur, pc>>,
         \A k \in Conn : /\ sock[k].reg => sock'[k].reg
                         /\ sock[k].rst => sock'[k].rst
                         /\ ConnOpen(k) => ConnOpen(k)'
  PROVE  BatchInv'
<1>1. (\A e \in batch : e.k \in Conn) /\ \A k \in cur : k \in Conn
  BY DEF TypeOK, Event
<1> QED
  BY <1>1 DEF BatchInv

LEMMA BatchEmpty ==
  ASSUME BatchInv, pc \in {"source", "sink", "close", "wait"}, UNCHANGED <<batch, cur>>
  PROVE  BatchInv' /\ batch = {} /\ cur = {}
BY DEF BatchInv

-----------------------------------------------------------------------------
(***************************************************************************)
(* Steps of the handlers.                                                  *)
(***************************************************************************)
\* A handler that leaves the sockets and the connections' ends alone.
LEMMA SessionsWake ==
  ASSUME WakeInv, UNCHANGED <<sock, batch, cur>>,
         \A k \in Conn : SourceFlag(k)' = SourceFlag(k) /\ SinkFlag(k)' = SinkFlag(k)
  PROVE  WakeInv'
BY WakeFrame DEF WakeInv

\* A handler of one connection.
LEMMA OneWake ==
  ASSUME WakeInv, UNCHANGED <<batch, cur>>, NEW k \in Conn, Wake(k)',
         \A h \in Conn : h # k => /\ sock'[h] = sock[h]
                                  /\ SourceFlag(h)' = SourceFlag(h)
                                  /\ SinkFlag(h)' = SinkFlag(h)
  PROVE  WakeInv'
BY WakeFrame DEF WakeInv

LEMMA ClosedIsClosed ==
  ASSUME WorldOK, NEW k \in Conn
  PROVE  ClosedSocket(k).st = "closed" /\ ~ClosedSocket(k).reg
<1>1. sock[k] \in Socket
  BY DEF WorldOK, SocketTypeOK
<1>2. xps_loop_detach(sock[k]) \in Socket /\ ~xps_loop_detach(sock[k]).reg
  BY <1>1, SocketTypes DEF xps_loop_detach, Socket
<1> QED
  BY <1>2 DEF ClosedSocket, Socket

LEMMA CloseWakes ==
  ASSUME WorldOK, WakeInv, UNCHANGED <<batch, cur>>, NEW k \in Conn, connection_close(k)
  PROVE  WakeInv'
<1>1. src \in Ends /\ snk \in Ends /\ sock \in [Conn -> Socket]
  BY DEF WorldOK, PipeTypeOK, SocketTypeOK, Ends
<1>2. Wake(k)'
  BY <1>1, ClosedIsClosed DEF connection_close, Wake, ConnOpen
<1>3. \A h \in Conn : h # k => /\ sock'[h] = sock[h]
                               /\ SourceFlag(h)' = SourceFlag(h)
                               /\ SinkFlag(h)' = SinkFlag(h)
  BY <1>1, ConnPipesDiffer DEF connection_close, SourceFlag, SinkFlag, Ends
<1> QED
  BY <1>2, <1>3, OneWake

LEMMA ConnectionWakes ==
  ASSUME WorldOK, WakeInv, UNCHANGED <<batch, cur>>, NEW k \in Conn,
         \/ SourceFlag(k) /\ connection_source_handler(k)
         \/ SinkFlag(k) /\ connection_sink_handler(k)
         \/ connection_source_close_handler(k) \/ connection_sink_close_handler(k)
  PROVE  WakeInv'
<1>0. /\ src \in Ends /\ snk \in Ends /\ sock \in [Conn -> Socket] /\ sock[k] \in Socket
      /\ SourcePipe(k) \in Pipe /\ SinkPipe(k) \in Pipe /\ Wake(k)
  BY ConnPipesDiffer DEF WorldOK, PipeTypeOK, SocketTypeOK, Ends, WakeInv
<1>1. CASE connection_close(k)
  BY <1>1, CloseWakes
<1>2. ASSUME NEW S \in Ends, NEW p \in Pipe, NEW b \in BOOLEAN
      PROVE  /\ \A q \in Pipe \ {p} : /\ [S EXCEPT ![p].ready = b][q].ready = S[q].ready
                                      /\ [S EXCEPT ![p].active = b][q].ready = S[q].ready
             /\ [S EXCEPT ![p].ready = b][p].ready = b
             /\ [S EXCEPT ![p].active = b][p].ready = S[p].ready
  BY DEF Ends, End
<1>6. ASSUME NEW h \in Conn, h # k
      PROVE  /\ [src EXCEPT ![SourcePipe(k)].ready = FALSE][SourcePipe(h)].ready = src[SourcePipe(h)].ready
             /\ [snk EXCEPT ![SinkPipe(k)].ready = FALSE][SinkPipe(h)].ready = snk[SinkPipe(h)].ready
  <2>1. SourcePipe(h) \in Pipe \ {SourcePipe(k)} /\ SinkPipe(h) \in Pipe \ {SinkPipe(k)}
    BY <1>6, ConnPipesDiffer
  <2> QED
    BY <1>0, <1>2, <2>1
<1>3. CASE connection_source_handler(k) /\ SourceFlag(k) /\ ~connection_close(k)
  <2>1. CASE /\ sock' = [sock EXCEPT ![k].in = SubSeq(@, RecvLen(k) + 1, Len(@))]
             /\ UNCHANGED <<src, snk>>
    <3>1. Wake(k)'
      BY <1>0, <1>3, <2>1 DEF Wake, SourceFlag, SinkFlag, ConnOpen, PollIn, PollOut, Socket
    <3> QED
      BY <1>0, <2>1, <3>1, OneWake DEF SourceFlag, SinkFlag
  <2>2. CASE ~PollIn(k) /\ src' = [src EXCEPT ![SourcePipe(k)].ready = FALSE] /\ UNCHANGED <<snk, sock>>
    <3>1. Wake(k)'
      BY <1>0, <2>2 DEF Wake, SinkFlag, ConnOpen, PollIn, PollOut, Socket
    <3>2. \A h \in Conn : h # k => SourceFlag(h)' = SourceFlag(h) /\ SinkFlag(h)' = SinkFlag(h)
      BY <1>6, <2>2 DEF SourceFlag, SinkFlag
    <3> QED
      BY <2>2, <3>1, <3>2, OneWake
  <2> QED
    BY <1>3, <2>1, <2>2 DEF connection_source_handler
<1>4. CASE connection_sink_handler(k) /\ SinkFlag(k) /\ ~connection_close(k)
  <2>1. CASE /\ ~sock[k].rst /\ ~CanSend(k)
             /\ snk' = [snk EXCEPT ![SinkPipe(k)].ready = FALSE]
             /\ sock' = [sock EXCEPT ![k].nospace = TRUE]
             /\ UNCHANGED src
    <3>1. /\ sock'[k].nospace /\ \A h \in Conn : h # k => sock'[h] = sock[h]
          /\ sock'[k].st = sock[k].st /\ sock'[k].reg = sock[k].reg /\ sock'[k].in = sock[k].in
          /\ sock'[k].fin = sock[k].fin /\ sock'[k].rst = sock[k].rst
          /\ sock'[k].room = sock[k].room /\ sock'[k].edge = sock[k].edge
      BY <1>0, <2>1 DEF Socket
    <3>2. ~PollOut(k)' /\ (PollIn(k)' <=> PollIn(k)) /\ (ConnOpen(k)' <=> ConnOpen(k))
      BY <2>1, <3>1 DEF PollOut, PollIn, ConnOpen, CanSend
    <3>3. SourceFlag(k)' = SourceFlag(k)
      BY <2>1 DEF SourceFlag
    <3>4. Wake(k)'
      BY <1>0, <3>1, <3>2, <3>3 DEF Wake
    <3>5. \A h \in Conn : h # k => SourceFlag(h)' = SourceFlag(h) /\ SinkFlag(h)' = SinkFlag(h)
      BY <1>6, <2>1 DEF SourceFlag, SinkFlag
    <3> QED
      BY <3>1, <3>4, <3>5, OneWake
  <2>2. CASE /\ CanSend(k)
             /\ \E n, b : sock' = [sock EXCEPT ![k].room = @ - n, ![k].nospace = b]
             /\ UNCHANGED <<src, snk>>
    <3>1. /\ \A h \in Conn : h # k => sock'[h] = sock[h]
          /\ sock'[k].st = sock[k].st /\ sock'[k].reg = sock[k].reg /\ sock'[k].in = sock[k].in
          /\ sock'[k].fin = sock[k].fin /\ sock'[k].rst = sock[k].rst
          /\ sock'[k].edge = sock[k].edge /\ sock[k].st = "up"
      BY <1>0, <2>2 DEF Socket, CanSend
    <3>2. (PollIn(k)' <=> PollIn(k)) /\ (ConnOpen(k)' <=> ConnOpen(k))
      BY <3>1 DEF PollIn, ConnOpen
    <3>3. /\ SourceFlag(k)' = SourceFlag(k) /\ SinkFlag(k)'
          /\ \A h \in Conn : SourceFlag(h)' = SourceFlag(h) /\ SinkFlag(h)' = SinkFlag(h)
      BY <1>4, <2>2 DEF SourceFlag, SinkFlag
    <3>4. Wake(k)'
      BY <1>0, <3>1, <3>2, <3>3 DEF Wake
    <3> QED
      BY <3>1, <3>3, <3>4, OneWake
  <2> QED
    BY <1>4, <2>1, <2>2 DEF connection_sink_handler
<1>5. CASE /\ connection_source_close_handler(k) \/ connection_sink_close_handler(k)
           /\ ~connection_close(k)
  <2>1. \A h \in Conn : SourceFlag(h)' = SourceFlag(h) /\ SinkFlag(h)' = SinkFlag(h)
    <3>1. ASSUME NEW h \in Conn
          PROVE  SourceFlag(h)' = SourceFlag(h) /\ SinkFlag(h)' = SinkFlag(h)
      <4>1. SourcePipe(h) \in Pipe /\ SinkPipe(h) \in Pipe
        BY ConnPipesDiffer
      <4>2. CASE src' = [src EXCEPT ![SourcePipe(k)].active = FALSE] /\ UNCHANGED snk
        BY <1>0, <1>2, <4>1, <4>2 DEF SourceFlag, SinkFlag
      <4>3. CASE snk' = [snk EXCEPT ![SinkPipe(k)].active = FALSE] /\ UNCHANGED src
        BY <1>0, <1>2, <4>1, <4>3 DEF SourceFlag, SinkFlag
      <4> QED
        BY <1>5, <4>2, <4>3 DEF connection_source_close_handler, connection_sink_close_handler
    <3> QED
      BY <3>1
  <2> QED
    BY <1>5, <2>1, SessionsWake DEF connection_source_close_handler, connection_sink_close_handler
<1> QED
  BY <1>1, <1>3, <1>4, <1>5
-----------------------------------------------------------------------------
\* The setters of the readiness flags and the end of a session leave the
\* connections' ends alone.
LEMMA SettersSpare ==
  ASSUME NEW S \in Ends, NEW c \in Client, NEW b \in BOOLEAN, NEW k \in Conn
  PROVE  /\ ToSources(S, c, b)[SourcePipe(k)] = S[SourcePipe(k)]
         /\ FromSources(S, c, b)[SourcePipe(k)] = S[SourcePipe(k)]
         /\ SourcesWithout(S, c)[SourcePipe(k)] = S[SourcePipe(k)]
         /\ ToSinks(S, c, b)[SinkPipe(k)] = S[SinkPipe(k)]
         /\ FromSinks(S, c, b)[SinkPipe(k)] = S[SinkPipe(k)]
         /\ SinksWithout(S, c)[SinkPipe(k)] = S[SinkPipe(k)]
BY ConnPipesDiffer, Names
DEF Ends, ToSources, FromSources, SourcesWithout, ToSinks, FromSinks, SinksWithout

LEMMA CheckDestroySpares ==
  ASSUME NEW c \in Client, NEW S \in Ends, NEW K \in Ends, NEW r,
         \A k \in Conn : S[SourcePipe(k)] = src[SourcePipe(k)] /\ K[SinkPipe(k)] = snk[SinkPipe(k)],
         session_check_destroy(c, S, K, r) \/ xps_session_destroy(c, S, K)
  PROVE  \A k \in Conn : SourceFlag(k)' = SourceFlag(k) /\ SinkFlag(k)' = SinkFlag(k)
<1>1. \A k \in Conn : /\ SourcesWithout(S, c)[SourcePipe(k)] = S[SourcePipe(k)]
                      /\ SinksWithout(K, c)[SinkPipe(k)] = K[SinkPipe(k)]
  BY SettersSpare
<1>2. \/ src' = S /\ snk' = K
      \/ src' = SourcesWithout(S, c) /\ snk' = SinksWithout(K, c)
  BY DEF session_check_destroy, xps_session_destroy
<1> QED
  BY <1>1, <1>2 DEF SourceFlag, SinkFlag

LEMMA SessionWakes ==
  ASSUME WorldOK, WakeInv, UNCHANGED <<batch, cur>>, NEW c \in Client,
         \/ client_source_handler(c) \/ upstream_source_handler(c)
         \/ upstream_sink_handler(c) \/ file_sink_handler(c)
         \/ client_source_close_handler(c) \/ client_sink_close_handler(c)
         \/ upstream_source_close_handler(c) \/ upstream_sink_close_handler(c)
         \/ file_sink_close_handler(c)
  PROVE  WakeInv'
<1>0. src \in Ends /\ snk \in Ends
  BY DEF WorldOK, PipeTypeOK, Ends
<1>1. /\ ToSources(src, c, FALSE) \in Ends /\ ToSinks(snk, c, FALSE) \in Ends
      /\ FromSources(src, c, FALSE) \in Ends /\ FromSinks(snk, c, FALSE) \in Ends
  BY <1>0, FlagTypes
<1>2. ASSUME NEW p \in {S2C(c), S2U(c)}
      PROVE  /\ SourceInactive(p) \in Ends
             /\ \A k \in Conn : SourceInactive(p)[SourcePipe(k)] = src[SourcePipe(k)]
  BY <1>0, Names, EndsUpdate, ConnPipesDiffer DEF SourceInactive, Ends
<1>3. ASSUME NEW p \in {C2S(c), U2S(c), F2S(c)}
      PROVE  /\ SinkInactive(p) \in Ends
             /\ \A k \in Conn : SinkInactive(p)[SinkPipe(k)] = snk[SinkPipe(k)]
  BY <1>0, Names, EndsUpdate, ConnPipesDiffer DEF SinkInactive, Ends
<1>4. \A k \in Conn : SourceFlag(k)' = SourceFlag(k) /\ SinkFlag(k)' = SinkFlag(k)
  <2>1. CASE client_source_handler(c)
    <3>1. \A k \in Conn : /\ ToSources(src, c, FALSE)[SourcePipe(k)] = src[SourcePipe(k)]
                          /\ ToSinks(snk, c, FALSE)[SinkPipe(k)] = snk[SinkPipe(k)]
      BY <1>0, SettersSpare
    <3>2. PICK r : session_check_destroy(c, ToSources(src, c, FALSE), ToSinks(snk, c, FALSE), r)
      BY <2>1 DEF client_source_handler
    <3> QED
      BY <1>1, <3>1, <3>2, CheckDestroySpares
  <2>2. CASE upstream_source_handler(c)
    <3>1. \A k \in Conn : /\ FromSources(src, c, FALSE)[SourcePipe(k)] = src[SourcePipe(k)]
                          /\ FromSinks(snk, c, FALSE)[SinkPipe(k)] = snk[SinkPipe(k)]
      BY <1>0, SettersSpare
    <3>2. PICK r : session_check_destroy(c, FromSources(src, c, FALSE), FromSinks(snk, c, FALSE), r)
      BY <2>2 DEF upstream_source_handler
    <3> QED
      BY <1>1, <3>1, <3>2, CheckDestroySpares
  <2>3. CASE upstream_sink_handler(c) \/ file_sink_handler(c)
    <3>1. src' = ToSources(src, c, TRUE) /\ snk' = ToSinks(snk, c, TRUE)
      BY <2>3 DEF upstream_sink_handler, file_sink_handler
    <3> QED
      BY <1>0, <3>1, SettersSpare DEF SourceFlag, SinkFlag
  <2>4. CASE client_source_close_handler(c) \/ upstream_source_close_handler(c)
    <3>1. PICK p \in {S2C(c), S2U(c)}, r \in {ses[c], MarkUpstreamError(c)} :
             session_check_destroy(c, SourceInactive(p), snk, r)
      BY <2>4 DEF client_source_close_handler, upstream_source_close_handler, CloseSessionEnd
    <3> QED
      BY <1>0, <1>2, <3>1, CheckDestroySpares
  <2>5. CASE client_sink_close_handler(c) \/ upstream_sink_close_handler(c) \/ file_sink_close_handler(c)
    <3>1. PICK p \in {C2S(c), U2S(c), F2S(c)}, r \in {ses[c], MarkUpstreamError(c)} :
             session_check_destroy(c, src, SinkInactive(p), r)
      BY <2>5 DEF client_sink_close_handler, upstream_sink_close_handler, file_sink_close_handler,
                  CloseSessionEnd
    <3> QED
      BY <1>0, <1>3, <3>1, CheckDestroySpares
  <2> QED
    BY <2>1, <2>2, <2>3, <2>4, <2>5
<1>5. UNCHANGED sock
  BY DEF client_source_handler, upstream_source_handler, upstream_sink_handler, file_sink_handler,
         client_source_close_handler, client_sink_close_handler, upstream_source_close_handler,
         upstream_sink_close_handler, file_sink_close_handler, CloseSessionEnd
<1> QED
  BY <1>4, <1>5, SessionsWake

LEMMA FileWakes ==
  ASSUME WorldOK, WakeInv, UNCHANGED <<batch, cur>>, NEW c \in Client,
         file_source_handler(c) \/ file_source_close_handler(c)
  PROVE  WakeInv'
<1>1. UNCHANGED sock /\ UNCHANGED snk
      /\ (UNCHANGED src \/ src' = [src EXCEPT ![F2S(c)] = FreedEnd])
  BY DEF file_source_handler, file_source_close_handler, FileDestroy
<1>2. \A k \in Conn : SourceFlag(k)' = SourceFlag(k) /\ SinkFlag(k)' = SinkFlag(k)
  BY <1>1, ConnPipesDiffer DEF WorldOK, PipeTypeOK, SourceFlag, SinkFlag
<1> QED
  BY <1>1, <1>2, SessionsWake

LEMMA RequestWakes ==
  ASSUME WorldOK, WakeInv, UNCHANGED <<batch, cur>>, NEW c \in Client, client_sink_handler(c)
  PROVE  WakeInv'
<1>0. /\ src \in Ends /\ snk \in Ends
      /\ ParsedSources(c) \in Ends /\ ParsedSinks(c) \in Ends
      /\ ToSources(ParsedSources(c), c, TRUE) \in Ends /\ ToSinks(ParsedSinks(c), c, TRUE) \in Ends
  BY FlagTypes DEF WorldOK, PipeTypeOK, Ends, ParsedSources, ParsedSinks
<1>1. \A k \in Conn :
        /\ ParsedSources(c)[SourcePipe(k)] = src[SourcePipe(k)]
        /\ ParsedSinks(c)[SinkPipe(k)] = snk[SinkPipe(k)]
        /\ ToSources(ParsedSources(c), c, TRUE)[SourcePipe(k)] = src[SourcePipe(k)]
        /\ ToSinks(ParsedSinks(c), c, TRUE)[SinkPipe(k)] = snk[SinkPipe(k)]
        /\ ToSources(src, c, TRUE)[SourcePipe(k)] = src[SourcePipe(k)]
        /\ ToSinks(snk, c, TRUE)[SinkPipe(k)] = snk[SinkPipe(k)]
        /\ FromSources(src, c, TRUE)[SourcePipe(k)] = src[SourcePipe(k)]
        /\ FromSinks(snk, c, TRUE)[SinkPipe(k)] = snk[SinkPipe(k)]
  <2>1. ASSUME NEW S \in Ends, NEW k \in Conn
        PROVE  /\ ToSources(S, c, TRUE)[SourcePipe(k)] = S[SourcePipe(k)]
               /\ FromSources(S, c, TRUE)[SourcePipe(k)] = S[SourcePipe(k)]
               /\ ToSinks(S, c, TRUE)[SinkPipe(k)] = S[SinkPipe(k)]
               /\ FromSinks(S, c, TRUE)[SinkPipe(k)] = S[SinkPipe(k)]
    BY SettersSpare
  <2>2. \A k \in Conn : /\ ParsedSources(c)[SourcePipe(k)] = src[SourcePipe(k)]
                        /\ ParsedSinks(c)[SinkPipe(k)] = snk[SinkPipe(k)]
    BY <1>0, <2>1 DEF ParsedSources, ParsedSinks
  <2> QED
    BY <1>0, <2>1, <2>2
<1>2. CASE /\ UNCHANGED sock
           /\ \A k \in Conn : SourceFlag(k)' = SourceFlag(k) /\ SinkFlag(k)' = SinkFlag(k)
  BY <1>2, SessionsWake
<1>3. CASE BadRequest(c) \/ ReplyOnly(c)
  <2>1. UNCHANGED sock
    BY <1>3 DEF BadRequest, ReplyOnly
  <2>2. \A k \in Conn : SourceFlag(k)' = SourceFlag(k) /\ SinkFlag(k)' = SinkFlag(k)
    BY <1>1, <1>3 DEF BadRequest, ReplyOnly, SourceFlag, SinkFlag
  <2> QED
    BY <1>2, <2>1, <2>2
<1>4. CASE ServeFile(c)
  <2>1. \A k \in Conn : SourceFlag(k)' = SourceFlag(k) /\ SinkFlag(k)' = SinkFlag(k)
    BY <1>0, <1>1, <1>4, Names, ConnPipesDiffer DEF ServeFile, SourceFlag, SinkFlag, Ends
  <2> QED
    BY <1>2, <1>4, <2>1 DEF ServeFile
<1>5. CASE ReverseProxy(c)
  <2> DEFINE k == UpstreamConn(c)
  <2>0. k \in Conn /\ SourcePipe(k) = U2S(c) /\ SinkPipe(k) = S2U(c)
    BY Names, ConnPipes
  <2>1. \A h \in Conn : h # k => SourceFlag(h)' = SourceFlag(h) /\ SinkFlag(h)' = SinkFlag(h)
    <3>1. ASSUME NEW h \in Conn, h # k
          PROVE  SourceFlag(h)' = SourceFlag(h) /\ SinkFlag(h)' = SinkFlag(h)
      <4>1. /\ SourcePipe(h) \in Pipe \ {S2U(c), U2S(c)}
            /\ SinkPipe(h) \in Pipe \ {S2U(c), U2S(c)}
        BY <2>0, <3>1, ConnPipesDiffer
      <4> QED
        BY <1>0, <1>1, <1>5, <4>1 DEF ReverseProxy, SourceFlag, SinkFlag, Ends
    <3> QED
      BY <3>1
  <2>2. sock' = [sock EXCEPT ![k] = ConnectingSocket] /\ sock \in [Conn -> Socket]
    BY <1>5 DEF ReverseProxy, WorldOK, SocketTypeOK
  <2>3. /\ ConnectingSocket.st = "pending" /\ ConnectingSocket.in = <<>>
        /\ ~ConnectingSocket.fin /\ ~ConnectingSocket.rst
        /\ ConnectingSocket.room = Room /\ ConnectingSocket.reg
    BY DEF ConnectingSocket, xps_loop_attach, NoSocket
  <2>4. Wake(k)'
    BY <2>0, <2>2, <2>3, SocketAssumption DEF Wake, ConnOpen, PollIn, PollOut
  <2> QED
    BY <2>0, <2>1, <2>2, <2>4, OneWake
<1>6. CASE InvalidRoute(c)
  BY <1>0, <1>2, <1>6, CheckDestroySpares DEF InvalidRoute
<1>7. CASE /\ src' = FromSources(src, c, TRUE)
           /\ snk' = FromSinks(snk, c, TRUE)
           /\ UNCHANGED sock
  BY <1>1, <1>2, <1>7 DEF SourceFlag, SinkFlag
<1> QED
  BY <1>3, <1>4, <1>5, <1>6, <1>7 DEF client_sink_handler, session_process_request

-----------------------------------------------------------------------------
LEMMA HandlerWakes ==
  ASSUME WorldOK, WakeInv, UNCHANGED <<batch, cur>>, NEW p \in Pipe,
         \/ SourceTurn(p) /\ SourceHandler(p)
         \/ SinkTurn(p) /\ SinkHandler(p)
         \/ SourceCloseHandler(p) \/ SinkCloseHandler(p)
  PROVE  WakeInv'
<1> DEFINE c == p[2]
<1>0. c \in Client /\ ClientConn(c) \in Conn /\ UpstreamConn(c) \in Conn
  BY PipeCases, Names
<1>1. /\ p[1] = "c2s" => p = SourcePipe(ClientConn(c))
      /\ p[1] = "u2s" => p = SourcePipe(UpstreamConn(c))
      /\ p[1] = "s2c" => p = SinkPipe(ClientConn(c))
      /\ p[1] = "s2u" => p = SinkPipe(UpstreamConn(c))
  BY <1>0, ConnPipes DEF C2S, U2S, S2C, S2U, Pipe
<1> HIDE DEF c
<1>2. CASE SourceTurn(p) /\ SourceHandler(p)
  BY <1>0, <1>1, <1>2, ConnectionWakes, SessionWakes, FileWakes
  DEF SourceHandler, SourceTurn, SourceFlag, c
<1>3. CASE SinkTurn(p) /\ SinkHandler(p)
  BY <1>0, <1>1, <1>3, ConnectionWakes, SessionWakes, RequestWakes
  DEF SinkHandler, SinkTurn, SinkFlag, c
<1>4. CASE SourceCloseHandler(p)
  BY <1>0, <1>4, ConnectionWakes, SessionWakes, FileWakes DEF SourceCloseHandler, c
<1>5. CASE SinkCloseHandler(p)
  BY <1>0, <1>5, ConnectionWakes, SessionWakes DEF SinkCloseHandler, c
<1> QED
  BY <1>2, <1>3, <1>4, <1>5

-----------------------------------------------------------------------------
(***************************************************************************)
(* Steps of epoll, the listener and the peers.                             *)
(***************************************************************************)
LEMMA EpollWakes ==
  ASSUME TypeOK, EventInv, epoll_wait
  PROVE  EventInv'
<1>0. batch = {} /\ cur = {} /\ sock \in [Conn -> Socket]
  BY DEF EventInv, BatchInv, epoll_wait, TypeOK, SocketTypeOK
<1>1. PICK K \in SUBSET ReadyConns :
        /\ batch' = {EventOf(k) : k \in K}
        /\ sock' = [k \in Conn |-> IF k \in K \/ ~PollAny(k)
                                   THEN [sock[k] EXCEPT !.edge = FALSE] ELSE sock[k]]
  BY DEF epoll_wait
<1>2. /\ pc' = "events" /\ cur' = {} /\ UNCHANGED <<src, snk>>
      /\ K \subseteq Conn /\ \A k \in K : sock[k].reg
  BY <1>0 DEF epoll_wait, pipeVars, ReadyConns
<1>3. \A k \in Conn :
        /\ sock'[k].st = sock[k].st /\ sock'[k].in = sock[k].in /\ sock'[k].fin = sock[k].fin
        /\ sock'[k].rst = sock[k].rst /\ sock'[k].room = sock[k].room
        /\ sock'[k].nospace = sock[k].nospace /\ sock'[k].reg = sock[k].reg
        /\ k \notin K /\ PollAny(k) => sock'[k].edge = sock[k].edge
  BY <1>0, <1>1 DEF Socket
<1>4. \A k \in Conn : /\ PollIn(k)' <=> PollIn(k)
                      /\ PollOut(k)' <=> PollOut(k)
                      /\ ConnOpen(k)' <=> ConnOpen(k)
                      /\ SourceFlag(k)' = SourceFlag(k) /\ SinkFlag(k)' = SinkFlag(k)
  BY <1>2, <1>3 DEF PollIn, PollOut, ConnOpen, SourceFlag, SinkFlag
<1>5. \A k \in K : /\ EventOf(k) \in batch' /\ EventOf(k).k = k
                   /\ EventOf(k).in <=> PollIn(k)
                   /\ EventOf(k).out <=> PollOut(k)
                   /\ EventOf(k).hup <=> sock[k].rst
  BY <1>1 DEF EventOf, PollHup
<1>6. ASSUME NEW k \in Conn PROVE Wake(k)'
  <2>1. Wake(k)
    BY DEF EventInv, WakeInv
  <2>2. CASE k \in K
    BY <1>2, <1>3, <1>4, <1>5, <2>1, <2>2 DEF Wake
  <2>3. CASE k \notin K
    BY <1>0, <1>3, <1>4, <2>1, <2>3 DEF Wake, PollAny
  <2> QED
    BY <2>2, <2>3
<1>7. \A e \in batch' : sock'[e.k].reg /\ (e.hup => e.in /\ sock'[e.k].rst)
  <2>1. ASSUME NEW k \in K
        PROVE  sock'[k].reg /\ (EventOf(k).hup => EventOf(k).in /\ sock'[k].rst)
    BY <1>2, <1>3, <1>5, <2>1 DEF PollIn
  <2> QED
    BY <1>1, <1>5, <2>1
<1>8. \A e, f \in batch' : e.k = f.k => e = f
  BY <1>1, <1>5
<1> QED
  BY <1>2, <1>6, <1>7, <1>8 DEF EventInv, WakeInv, BatchInv

LEMMA HandleEventWakes ==
  ASSUME TypeOK, EventInv, NEW e \in batch, HandleEvent(e)
  PROVE  EventInv'
<1> DEFINE k == e.k
<1>0. /\ k \in Conn /\ src \in Ends /\ sock \in [Conn -> Socket] /\ cur = {}
      /\ e.in \in BOOLEAN /\ e.out \in BOOLEAN /\ e.hup \in BOOLEAN
      /\ batch' = batch \ {e} /\ \A f \in batch : f.k \in Conn
      /\ SourcePipe(k) \in Pipe /\ UNCHANGED snk
  BY ConnPipesDiffer
  DEF TypeOK, Event, PipeTypeOK, SocketTypeOK, Ends, EventInv, BatchInv, HandleEvent
<1> HIDE DEF k
<1>1. /\ SourceFlag(k)' <=> SourceFlag(k) \/ e.in
      /\ \A h \in Conn : h # k => SourceFlag(h)' = SourceFlag(h)
      /\ \A h \in Conn : SinkFlag(h)' = SinkFlag(h)
  <2>1. CASE src' = [src EXCEPT ![SourcePipe(k)].ready = TRUE] /\ e.in
    BY <1>0, <2>1, ConnPipesDiffer DEF SourceFlag, SinkFlag, Ends, End
  <2>2. CASE UNCHANGED src /\ ~e.in
    BY <1>0, <2>2 DEF SourceFlag, SinkFlag
  <2> QED
    BY <2>1, <2>2 DEF HandleEvent, OnInput, k
<1>2. /\ \A h \in Conn : h # k => sock'[h] = sock[h]
      /\ sock'[k].st = sock[k].st /\ sock'[k].in = sock[k].in /\ sock'[k].fin = sock[k].fin
      /\ sock'[k].rst = sock[k].rst /\ sock'[k].room = sock[k].room
      /\ sock'[k].nospace = sock[k].nospace
      /\ ~e.hup => sock'[k] = sock[k]
      /\ e.hup => ~sock'[k].reg
  BY <1>0 DEF HandleEvent, OnHangup, xps_loop_detach, Socket, k
<1>3. /\ e.out => pc' = "out" /\ cur' = {k}
      /\ ~e.out => pc' = "events" /\ cur' = {}
  BY <1>0 DEF HandleEvent, k
<1>4. (PollIn(k)' <=> PollIn(k)) /\ (PollOut(k)' <=> PollOut(k)) /\ (ConnOpen(k)' <=> ConnOpen(k))
  BY <1>2 DEF PollIn, PollOut, ConnOpen
<1>5. sock[k].reg /\ ConnOpen(k) /\ (e.hup => e.in /\ sock[k].rst)
      /\ \A f \in batch : f.k = k => f = e
  BY <1>0 DEF EventInv, BatchInv, WakeInv, Wake, k
<1>6. Wake(k)'
  <2>1. Wake(k)
    BY <1>0 DEF EventInv, WakeInv
  <2> QED
    BY <1>0, <1>1, <1>2, <1>3, <1>4, <1>5, <2>1 DEF Wake
<1>7. ASSUME NEW h \in Conn, h # k PROVE Wake(h)'
  <2>1. Wake(h)
    BY DEF EventInv, WakeInv
  <2>2. \A f \in batch : f.k = h => f \in batch'
    BY <1>0, <1>7 DEF k
  <2>3. (PollIn(h)' <=> PollIn(h)) /\ (PollOut(h)' <=> PollOut(h)) /\ (ConnOpen(h)' <=> ConnOpen(h))
    BY <1>2, <1>7 DEF PollIn, PollOut, ConnOpen
  <2> QED
    BY <1>0, <1>1, <1>2, <1>7, <2>1, <2>2, <2>3 DEF Wake
<1>8. BatchInv'
  <2>1. \A f \in batch' : f.k # k /\ f.k \in Conn /\ sock'[f.k] = sock[f.k]
    BY <1>0, <1>2, <1>5
  <2>2. \A f \in batch' : sock'[f.k].reg /\ (f.hup => f.in /\ sock'[f.k].rst)
    BY <1>0, <2>1 DEF EventInv, BatchInv
  <2>3. \A f, g \in batch' : f.k = g.k => f = g
    BY <1>0 DEF EventInv, BatchInv
  <2>4. \A h \in cur' : ConnOpen(h)' /\ cur' = {h}
    BY <1>3, <1>4, <1>5
  <2> QED
    BY <1>3, <2>2, <2>3, <2>4 DEF BatchInv
<1> QED
  BY <1>6, <1>7, <1>8 DEF EventInv, WakeInv

LEMMA HandleOutWakes ==
  ASSUME TypeOK, EventInv, NEW k \in Conn, HandleOut(k)
  PROVE  EventInv'
<1>0. /\ snk \in Ends /\ SinkPipe(k) \in Pipe /\ UNCHANGED <<sock, src, batch>>
      /\ cur = {k} /\ cur' = {} /\ pc = "out" /\ pc' = "events"
  BY ConnPipesDiffer DEF TypeOK, PipeTypeOK, Ends, EventInv, BatchInv, HandleOut, sockVars
<1>1. /\ SinkFlag(k)' <=> SinkFlag(k) \/ snk' # snk
      /\ sock[k].reg => SinkFlag(k)'
      /\ \A h \in Conn : h # k => SinkFlag(h)' = SinkFlag(h)
      /\ \A h \in Conn : SourceFlag(h)' = SourceFlag(h)
  <2>1. CASE snk' = [snk EXCEPT ![SinkPipe(k)].ready = TRUE]
    <3>1. SinkFlag(k)' /\ \A q \in Pipe \ {SinkPipe(k)} : snk'[q] = snk[q]
      BY <1>0, <2>1 DEF SinkFlag, Ends, End
    <3>2. SinkFlag(k) => snk' = snk
      BY <1>0, <2>1 DEF SinkFlag, Ends, End
    <3>3. ~SinkFlag(k) => snk' # snk
      BY <3>1 DEF SinkFlag
    <3> QED
      BY <1>0, <3>1, <3>2, <3>3, ConnPipesDiffer DEF SinkFlag, SourceFlag
  <2>2. CASE ~sock[k].reg /\ UNCHANGED snk
    BY <1>0, <2>2 DEF SinkFlag, SourceFlag
  <2> QED
    BY <2>1, <2>2 DEF HandleOut
<1>2. ASSUME NEW h \in Conn PROVE Wake(h)'
  <2>1. Wake(h) /\ (PollIn(h)' <=> PollIn(h)) /\ (PollOut(h)' <=> PollOut(h))
        /\ (ConnOpen(h)' <=> ConnOpen(h))
    BY <1>0 DEF EventInv, WakeInv, PollIn, PollOut, ConnOpen
  <2> QED
    BY <1>0, <1>1, <2>1 DEF Wake
<1> QED
  BY <1>0, <1>2 DEF EventInv, WakeInv, BatchInv

\* The accepted socket is ready to write, so epoll puts it on its list at once.
LEMMA AcceptWakes ==
  ASSUME TypeOK, EventInv, NEW c \in Client, Accept(c)
  PROVE  EventInv'
<1> DEFINE k == ClientConn(c)
<1>0. /\ k \in Conn /\ sock \in [Conn -> Socket] /\ src \in Ends /\ snk \in Ends
      /\ sock[k].st = "backlog" /\ SourcePipe(k) = C2S(c) /\ SinkPipe(k) = S2C(c)
      /\ UNCHANGED <<pc, batch, cur>>
  BY Names, ConnPipes
  DEF TypeOK, SocketTypeOK, PipeTypeOK, Ends, Accept, Backlog, loopVars
<1>1. sock' = [sock EXCEPT ![k] = AcceptedSocket(k)]
  BY DEF Accept, xps_session_create
<1>2. /\ AcceptedSocket(k).st = "up" /\ AcceptedSocket(k).room = sock[k].room
      /\ AcceptedSocket(k).in = sock[k].in /\ AcceptedSocket(k).reg
      /\ AcceptedSocket(k).fin = sock[k].fin /\ AcceptedSocket(k).rst = sock[k].rst
      /\ sock[k].room > 0 => AcceptedSocket(k).edge
  BY <1>0 DEF AcceptedSocket, xps_loop_attach, ReadyAtOnce, Socket
<1>3. sock[k].room > 0
  BY <1>0 DEF EventInv, WakeInv, Wake
<1> HIDE DEF k
<1>4. /\ sock'[k].st = "up" /\ sock'[k].reg /\ sock'[k].edge /\ sock'[k].room > 0
      /\ sock'[k].rst = sock[k].rst
      /\ \A h \in Conn : h # k => sock'[h] = sock[h]
  BY <1>0, <1>1, <1>2, <1>3
<1>5. Wake(k)'
  BY <1>4 DEF Wake, ConnOpen
<1>6. ASSUME NEW h \in Conn, h # k
      PROVE  SourceFlag(h)' = SourceFlag(h) /\ SinkFlag(h)' = SinkFlag(h)
  <2>1. /\ SourcePipe(h) \in Pipe /\ SourcePipe(h) \notin {C2S(c), S2C(c)}
        /\ SinkPipe(h) \in Pipe /\ SinkPipe(h) \notin {C2S(c), S2C(c), U2S(c), F2S(c)}
    BY <1>0, <1>6, ConnPipesDiffer
  <2> QED
    BY <1>0, <2>1, Names DEF Accept, xps_session_create, SourceFlag, SinkFlag, Ends
<1>7. WakeInv'
  BY <1>0, <1>4, <1>5, <1>6, OneWake DEF EventInv
<1>8. \A h \in Conn : /\ sock[h].reg => sock'[h].reg
                      /\ sock[h].rst => sock'[h].rst
                      /\ ConnOpen(h) => ConnOpen(h)'
  BY <1>4 DEF ConnOpen
<1> QED
  BY <1>0, <1>7, <1>8, BatchFrame DEF EventInv

\* A step of one peer.
LEMMA OnePeerWakes ==
  ASSUME TypeOK, EventInv, UNCHANGED <<pipeVars, loopVars>>, NEW k \in Conn, Wake(k)',
         \A h \in Conn : h # k => sock'[h] = sock[h],
         sock[k].reg => sock'[k].reg, sock[k].rst => sock'[k].rst,
         ConnOpen(k) => ConnOpen(k)'
  PROVE  EventInv'
<1>1. /\ UNCHANGED <<pc, batch, cur>>
      /\ \A h \in Conn : SourceFlag(h)' = SourceFlag(h) /\ SinkFlag(h)' = SinkFlag(h)
  BY DEF pipeVars, loopVars, SourceFlag, SinkFlag
<1>2. \A h \in Conn : /\ sock[h].reg => sock'[h].reg
                      /\ sock[h].rst => sock'[h].rst
                      /\ ConnOpen(h) => ConnOpen(h)'
  BY DEF ConnOpen
<1> QED
  BY <1>1, <1>2, OneWake, BatchFrame DEF EventInv

LEMMA PeerWakes ==
  ASSUME TypeOK, EventInv, PeerStep
  PROVE  EventInv'
<1>0. /\ sock \in [Conn -> Socket] /\ UNCHANGED <<pipeVars, loopVars>>
      /\ \A k \in Conn : /\ Wake(k)
                         /\ SourceFlag(k)' = SourceFlag(k) /\ SinkFlag(k)' = SinkFlag(k)
      /\ UNCHANGED <<batch, cur>>
  BY DEF TypeOK, SocketTypeOK, PeerStep, EventInv, WakeInv, pipeVars, loopVars,
         SourceFlag, SinkFlag
<1>1. ASSUME NEW c \in Client, Connect(c)
      PROVE  EventInv'
  <2> DEFINE k == ClientConn(c)
  <2>1. /\ k \in Conn /\ sock[k].st = "none"
        /\ sock'[k].st = "backlog" /\ sock'[k].room = sock[k].room
        /\ sock'[k].reg = sock[k].reg /\ sock'[k].rst = sock[k].rst
        /\ \A h \in Conn : h # k => sock'[h] = sock[h]
    BY <1>0, <1>1, Names DEF Connect, Socket
  <2>2. Wake(k)' /\ ~ConnOpen(k)
    BY <1>0, <2>1 DEF Wake, ConnOpen
  <2> QED
    BY <1>0, <2>1, <2>2, OnePeerWakes
<1>2. ASSUME NEW c \in Client, Establish(c) \/ Refuse(c)
      PROVE  EventInv'
  <2> DEFINE k == UpstreamConn(c)
  <2>1. /\ k \in Conn /\ sock[k].st = "pending" /\ ~sock[k].rst
        /\ sock'[k].st \in {"up", "pending"}
        /\ sock'[k].room = sock[k].room /\ sock'[k].nospace = sock[k].nospace
        /\ sock'[k].reg = sock[k].reg /\ sock'[k].edge = sock[k].reg
        /\ \A h \in Conn : h # k => sock'[h] = sock[h]
    BY <1>0, <1>2, Names DEF Establish, Refuse, Socket
  <2>2. ConnOpen(k) /\ ConnOpen(k)'
    BY <2>1 DEF ConnOpen
  <2>3. Wake(k)'
    BY <1>0, <2>1, <2>2 DEF Wake
  <2> QED
    BY <1>0, <2>1, <2>2, <2>3, OnePeerWakes
<1>3. ASSUME NEW k \in Conn, PeerSend(k) \/ PeerFin(k) \/ PeerReset(k)
      PROVE  EventInv'
  <2>1. /\ sock'[k].st = sock[k].st
        /\ sock'[k].room = sock[k].room /\ sock'[k].nospace = sock[k].nospace
        /\ sock'[k].reg = sock[k].reg /\ sock'[k].edge = sock[k].reg
        /\ sock[k].rst => sock'[k].rst
        /\ \A h \in Conn : h # k => sock'[h] = sock[h]
    <3>1. CASE PeerSend(k)
      BY <1>0, <3>1 DEF PeerSend, Socket
    <3>2. CASE PeerFin(k)
      BY <1>0, <3>2 DEF PeerFin, Socket
    <3>3. CASE PeerReset(k)
      BY <1>0, <3>3 DEF PeerReset, Socket
    <3> QED
      BY <1>3, <3>1, <3>2, <3>3
  <2>2. ConnOpen(k)' <=> ConnOpen(k)
    BY <2>1 DEF ConnOpen
  <2>3. Wake(k)'
    BY <1>0, <2>1, <2>2 DEF Wake
  <2> QED
    BY <1>0, <2>1, <2>2, <2>3, OnePeerWakes
<1>4. ASSUME NEW k \in Conn, PeerDrain(k)
      PROVE  EventInv'
  <2>1. PICK b \in BOOLEAN :
           /\ b <=> sock[k].reg /\ (sock[k].edge \/ sock[k].nospace)
           /\ sock' = [sock EXCEPT ![k].room = Room, ![k].nospace = FALSE, ![k].edge = b]
    <3>1. (sock[k].reg /\ (sock[k].edge \/ sock[k].nospace)) \in BOOLEAN
      OBVIOUS
    <3> QED
      BY <1>4, <3>1 DEF PeerDrain
  <2>2. /\ sock'[k].st = sock[k].st /\ sock'[k].in = sock[k].in
        /\ sock'[k].fin = sock[k].fin /\ sock'[k].rst = sock[k].rst
        /\ sock'[k].room = Room /\ sock'[k].reg = sock[k].reg /\ sock'[k].edge = b
        /\ \A h \in Conn : h # k => sock'[h] = sock[h]
    BY <1>0, <2>1 DEF Socket
  <2>3. sock[k].st = "up" /\ sock[k].room \in 0..Room /\ Room \in Nat \ {0}
    BY <1>0, <1>4, SocketAssumption DEF PeerDrain, Socket
  <2>4. /\ ConnOpen(k) /\ ConnOpen(k)' /\ (PollIn(k)' <=> PollIn(k))
        /\ sock[k].room # 0 => PollOut(k)
    BY <2>2, <2>3 DEF ConnOpen, PollIn, PollOut
  <2>5. Wake(k)'
    BY <1>0, <2>1, <2>2, <2>3, <2>4 DEF Wake
  <2> QED
    BY <1>0, <2>2, <2>4, <2>5, OnePeerWakes
<1> QED
  BY <1>1, <1>2, <1>3, <1>4 DEF PeerStep, Peers

-----------------------------------------------------------------------------
LEMMA UnchangedWakes ==
  ASSUME EventInv, UNCHANGED <<src, snk, sock, batch, cur>>,
         \/ UNCHANGED pc
         \/ batch = {} /\ pc \in {"source", "sink", "close", "wait"}
         \/ pc \in {"events", "accept"} /\ pc' \in {"events", "accept"}
         \/ pc = "events" /\ batch = {}
  PROVE  EventInv'
<1>1. \A k \in Conn : SourceFlag(k)' = SourceFlag(k) /\ SinkFlag(k)' = SinkFlag(k)
  BY DEF SourceFlag, SinkFlag
<1>2. WakeInv'
  BY <1>1, SessionsWake DEF EventInv
<1>3. BatchInv'
  BY DEF EventInv, BatchInv, ConnOpen
<1> QED
  BY <1>2, <1>3 DEF EventInv

LEMMA PipeStepWakes ==
  ASSUME TypeOK, EventInv, handle_pipes
  PROVE  EventInv'
<1>0. WorldOK /\ WakeInv /\ BatchInv
  BY TypeParts DEF EventInv
<1>1. /\ pc \in {"source", "sink", "close", "wait"} /\ UNCHANGED <<batch, cur>>
  BY DEF handle_pipes, SkipNull, PassDone, DestroyDead, SourceStep, SinkStep, CloseStep,
         At, GoTo, NextPosition
<1>2. batch = {} /\ cur = {} /\ BatchInv'
  BY <1>0, <1>1, BatchEmpty
<1>3. CASE UNCHANGED <<src, snk, sock>>
  BY <1>1, <1>2, <1>3, UnchangedWakes
<1>4. CASE \E p \in Pipe : \/ SourceTurn(p) /\ SourceHandler(p)
                           \/ SinkTurn(p) /\ SinkHandler(p)
                           \/ SourceCloseHandler(p) \/ SinkCloseHandler(p)
  BY <1>0, <1>1, <1>2, <1>4, HandlerWakes DEF EventInv
<1> QED
  BY <1>3, <1>4
  DEF handle_pipes, SkipNull, PassDone, DestroyDead, SourceStep, SinkStep, CloseStep,
      UnchangedWorld, pipeVars, sockVars, xps_pipe_destroy

LEMMA EventInit == Init => EventInv
<1> SUFFICES ASSUME Init PROVE EventInv
  OBVIOUS
<1>1. ASSUME NEW k \in Conn PROVE Wake(k)
  BY SocketAssumption DEF Init, SocketInit, NoSocket, Wake, ConnOpen
<1> QED
  BY <1>1 DEF Init, EventInv, WakeInv, BatchInv

LEMMA EventStep == TypeOK /\ EventInv /\ [Next]_vars => EventInv'
<1> SUFFICES ASSUME TypeOK, EventInv, [Next]_vars PROVE EventInv'
  OBVIOUS
<1>1. CASE UNCHANGED vars
  BY <1>1, UnchangedWakes DEF vars, pipeVars, sockVars, loopVars
<1>2. CASE handle_pipes
  BY <1>2, PipeStepWakes
<1>3. CASE epoll_wait
  BY <1>3, EpollWakes
<1>4. CASE \E e \in batch : HandleEvent(e)
  BY <1>4, HandleEventWakes
<1>5. CASE \E k \in Conn : HandleOut(k)
  BY <1>5, HandleOutWakes
<1>6. CASE ListenerEvent \/ AcceptDone
  BY <1>6, UnchangedWakes DEF ListenerEvent, AcceptDone, GoTo, UnchangedWorld, pipeVars, sockVars
<1>7. CASE EventsDone
  BY <1>7, UnchangedWakes DEF EventsDone, filter_null_pipes, sockVars
<1>8. CASE \E c \in Client : Accept(c)
  BY <1>8, AcceptWakes
<1>9. CASE PeerStep
  BY <1>9, PeerWakes
<1> QED
  BY <1>1, <1>2, <1>3, <1>4, <1>5, <1>6, <1>7, <1>8, <1>9
  DEF Next, xps_loop_run, handle_epoll_events, Idle

-----------------------------------------------------------------------------
LEMMA EventsAlways == Spec => [](NoLostWakeup /\ EventsOfLiveConnections)
<1>1. Init => TypeOK /\ EventInv
  BY TypeInit, EventInit
<1>2. TypeOK /\ EventInv /\ [Next]_vars => TypeOK' /\ EventInv'
  BY TypeStep, EventStep
<1>3. TypeOK /\ EventInv => NoLostWakeup /\ EventsOfLiveConnections
  BY EventInvMeans
<1> QED
  BY <1>1, <1>2, <1>3, PTL DEF Spec

\* No readiness is lost, ever: whenever an open connection has bytes to read or
\* room to write and its end says "not ready", the edge triggered event that
\* will say otherwise is on epoll's list or in the batch being handled, with any
\* number of clients, any batch size and any interleaving of peers and handlers.
THEOREM NoWakeupIsLost == Spec => []NoLostWakeup
BY EventsAlways, PTL

\* No event outlives its connection: whatever the order in which a batch is
\* handled, each event left in it belongs to a connection that is open and
\* still registered, so the pointer epoll hands back is valid.
THEOREM EventsAreLive == Spec => []EventsOfLiveConnections
BY EventsAlways, PTL
=============================================================================
