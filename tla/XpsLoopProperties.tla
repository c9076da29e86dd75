-------------------------- MODULE XpsLoopProperties --------------------------
(***************************************************************************)
(* What must hold of the event loop and of the sessions it drives.         *)
(***************************************************************************)
EXTENDS XpsLoop

SequenceOps == INSTANCE SequencesExt

ConnOpen(k) == sock[k].st \in {"pending", "up"}

-----------------------------------------------------------------------------
\* No dangling pointer in a pipe, and no object the loop cannot reach: a pipe
\* end is attached exactly while the connection, session or file that owns it
\* exists (xps_pipe_source_destroy and xps_pipe_sink_destroy clear the pipe's
\* pointer, xps_pipe.c:160-176 and 231-244), and the pipe it is attached to has
\* not been freed.
EndsOwned ==
  /\ \A p \in Pipe : src[p].on \/ snk[p].on => slot[p] # 0
  /\ \A k \in Conn : /\ src[SourcePipe(k)].on <=> ConnOpen(k)
                     /\ snk[SinkPipe(k)].on <=> ConnOpen(k)
  /\ \A c \in Client : /\ src[S2C(c)].on <=> ses[c].live
                       /\ snk[C2S(c)].on <=> ses[c].live
                       /\ src[S2U(c)].on => ses[c].live
                       /\ snk[U2S(c)].on => ses[c].live
                       /\ snk[F2S(c)].on => ses[c].live
                       /\ src[F2S(c)].on <=> file[c].st = "open"

\* A session's ends are ready exactly when its two buffers let them act: the
\* assertion buff != NULL of xps_pipe_source_write (xps_pipe.c:181) cannot
\* fail, and no sink overwrites a buffer that has not been passed on.
ReadyFollowsBuffers ==
  \A c \in Client : ses[c].live =>
    /\ src[S2C(c)].ready <=> ses[c].to # <<>>
    /\ snk[U2S(c)].ready <=> ses[c].to = <<>>
    /\ snk[F2S(c)].ready <=> ses[c].to = <<>>
    /\ src[S2U(c)].ready <=> ses[c].from # <<>>
    /\ snk[C2S(c)].ready <=> ses[c].from = <<>>

-----------------------------------------------------------------------------
ServedByProxy(c) == sock[UpstreamConn(c)].st # "none"
ServedByFile(c) == file[c].st # "none"

\* Everything the session of c has for its client, in the order it goes out.
ToClient(c) == sent[ClientConn(c)] \o buf[S2C(c)] \o ses[c].to

\* What the upstream has sent so far, or what the program itself answers.
Response(c) ==
  IF ServedByProxy(c) THEN From(1, fed[UpstreamConn(c)])
  ELSE IF ServedByFile(c) THEN Head0 \o From(1, FileSize)
  ELSE Head0

\* A client receives its own response, nothing lost, repeated or reordered on
\* the way through two pipes and to_client_buff.
ResponseInOrder == \A c \in Client : SequenceOps!IsPrefix(ToClient(c), Response(c))

\* While client and session are there, whatever has been read from the file or
\* sent by an upstream that was not reset is somewhere on the way.
ResponseNotLost ==
  \A c \in Client : ses[c].live /\ ConnOpen(ClientConn(c)) =>
    /\ LET u == UpstreamConn(c) IN
       ServedByProxy(c) /\ ~sock[u].rst =>
         ToClient(c) \o buf[U2S(c)] \o sock[u].in = Response(c)
    /\ ServedByFile(c) =>
         ToClient(c) \o buf[F2S(c)] = Head0 \o From(1, FileSize - file[c].left)

\* session_check_destroy never truncates a response: when a session is gone
\* and its client's connection is not, the upstream has finished (or failed),
\* or the file has, and the whole response is in the client's pipe or sent.
\* Only a route of unknown type ends a session before it has any response.
ResponseComplete ==
  \A c \in Client :
    sock[ClientConn(c)].st = "up" /\ ~ses[c].live =>
      \/ ToClient(c) = Response(c) /\ (ServedByProxy(c) => sock[UpstreamConn(c)].fin)
      \/ ServedByProxy(c) /\ sock[UpstreamConn(c)].rst
      \/ ServedByFile(c) /\ file[c].st = "failed"
      \/ /\ "invalid" \in Outcomes /\ ~ServedByProxy(c) /\ ~ServedByFile(c)
         /\ ToClient(c) = <<>>

\* The upstream is sent the serialised head of the request and then, without a
\* gap, every chunk behind the read that completed the head, from the first on.
\* What that read itself held behind the head is cleared with it
\* (xps_session.c:233-234) and reaches nobody: ses[c].head counts it in.
RequestNotLost ==
  \A c \in Client :
    LET k == ClientConn(c)
        s == sent[UpstreamConn(c)] \o buf[S2U(c)] \o ses[c].from \o buf[C2S(c)] \o sock[k].in
    IN ses[c].live /\ ServedByProxy(c) /\ sock[k].st = "up" =>
         /\ ses[c].head \in 1..fed[k]
         /\ s = Head0 \o From(ses[c].head + 1, fed[k] - ses[c].head)

\* Backpressure: xps_pipe_source_write checks only that the pipe is below its
\* threshold and then appends a whole buffer, so a pipe can exceed it by less
\* than one buffer of its source; client_source and upstream_source pass on
\* what a whole pipe held.
Backpressure ==
  LET one == Thresh - 1 + RecvMax
      two == Thresh - 1 + one
  IN \A c \in Client :
       /\ Len(buf[C2S(c)]) <= one /\ Len(buf[U2S(c)]) <= one /\ Len(buf[F2S(c)]) <= one
       /\ Len(ses[c].to) <= one /\ Len(ses[c].from) <= one
       /\ Len(buf[S2C(c)]) <= two /\ Len(buf[S2U(c)]) <= two

-----------------------------------------------------------------------------
\* Edge triggered epoll announces a condition once: whenever a connection has
\* something to read or room to write and its flag says not ready, the event is
\* still to come or already in hand.  A connection that an EPOLLHUP took out of
\* epoll gets no more events, so its source must be ready to find the error.
NoLostWakeup ==
  \A k \in Conn : ConnOpen(k) =>
    /\ sock[k].reg /\ PollIn(k) /\ ~src[SourcePipe(k)].ready =>
         sock[k].edge \/ \E e \in batch : e.k = k /\ e.in
    /\ sock[k].reg /\ PollOut(k) /\ ~snk[SinkPipe(k)].ready =>
         sock[k].edge \/ k \in cur \/ \E e \in batch : e.k = k /\ e.out
    /\ ~sock[k].reg => src[SourcePipe(k)].ready

\* An event epoll_wait returned is still registered when its turn comes, so its
\* loop_event_t is the one epoll was given, never a later one at the same
\* address; and a callback never gets a connection that has been freed
\* (xps_loop.c:261-275).
EventsOfLiveConnections ==
  /\ \A e \in batch : sock[e.k].reg /\ ConnOpen(e.k)
  /\ \A k \in cur : ConnOpen(k)

\* The write callback is read from an event that still exists: "Check if event
\* still exists" (xps_loop.c:261) is meant for the whole handling of an event.
OutFromLiveEvent == \A k \in cur : sock[k].reg

\* session_process_request reads session->client, a pointer nothing clears: it
\* only runs while the client's connection exists.
RequestFromLiveClient ==
  \A c \in Client :
    pc = "sink" /\ slot[C2S(c)] = idx /\ SinkTurn(C2S(c)) /\ ~ses[c].req
      => ConnOpen(ClientConn(c))

\* upstream_connected is inferred from byte counts; it is never set for an
\* upstream that took nothing and sent nothing, and nothing is offered to an
\* upstream before its connection is established.
UpstreamConnectedIsReal ==
  \A c \in Client :
    LET u == UpstreamConn(c) IN
    /\ ses[c].connected => sent[u] # <<>> \/ fed[u] > 0
    /\ sock[u].st = "pending" /\ snk[S2U(c)].ready => sock[u].rst

\* n_null_pipes counts the NULL positions, and no two pipes share a position.
PipeListConsistent ==
  /\ \A p, q \in Listed : slot[p] = slot[q] => p = q
  /\ \A p \in Listed : slot[p] <= pipes_length
  /\ n_null_pipes = pipes_length - Cardinality(Listed)

\* Pipes keep their order in the list, so a pass serves them first created,
\* first served, and a session's request pipe before its response pipe.
PipesKeepOrder ==
  [][\A p, q \in Listed \cap Listed' : slot[p] < slot[q] => slot'[p] < slot'[q]]_vars

-----------------------------------------------------------------------------
(***************************************************************************)
(* Liveness, under FairSpec.                                               *)
(***************************************************************************)
\* A session does not outlive its client: the close handlers of its pipes bring
\* it to session_check_destroy even when part of a request waits for a slow
\* upstream.
SessionEndsWithClient ==
  \A c \in Client :
    ses[c].live /\ ~ConnOpen(ClientConn(c)) ~> ~ses[c].live

\* When a session is gone its connections are closed, once what is in their
\* pipes has been sent.
ConnectionsEndWithSession ==
  \A c \in Client : \A k \in {ClientConn(c), UpstreamConn(c)} :
    ~ses[c].live /\ ConnOpen(k) ~> ~ConnOpen(k)

\* A connection that a hangup took out of epoll is closed and does not leak.
HangupCloses ==
  \A k \in Conn : ConnOpen(k) /\ ~sock[k].reg ~> ~ConnOpen(k)

\* Every chunk an upstream sends reaches the client, unless one of the two
\* connections fails or the client closes.
ResponseDelivered ==
  \A c \in Client : \A n \in 1..PeerSends["upstream"] :
    fed[UpstreamConn(c)] = n ~>
      \/ Len(sent[ClientConn(c)]) >= n
      \/ sock[ClientConn(c)].fin \/ sock[ClientConn(c)].rst
      \/ sock[UpstreamConn(c)].rst
=============================================================================
