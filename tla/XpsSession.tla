----------------------------- MODULE XpsSession -----------------------------
(***************************************************************************)
(* Sessions (core/xps_session.c), and the two objects whose pipe ends they *)
(* meet: connections (network/xps_connection.c) and files                  *)
(* (disk/xps_file.c).  One operator per handler; the handlers of a session *)
(* run when the loop finds one of its pipes ready (module XpsLoop).        *)
(*                                                                         *)
(* A response the program makes itself is the chunk 0; what a file or an   *)
(* upstream contributes is numbered from 1 on.  Parsing the request and    *)
(* looking its route up are reduced to their outcome.                      *)
(***************************************************************************)
EXTENDS XpsSocket

CONSTANTS FileSize,  \* chunks in the file a session serves
          Outcomes   \* what requests may turn out to be in this run

(***************************************************************************)
(* What session_process_request can do with the bytes read so far:         *)
(*   bad      xps_http_req_create fails: 400                               *)
(*   reply    one response, no pipe: a redirect, a directory page, 403,    *)
(*            404, or 500 (which is also what a failed connect() gives)    *)
(*   file     200 and a pipe from the file                                 *)
(*   proxy    pipes to and from an upstream                                *)
(*   invalid  a route of unknown type: 500, and the session is destroyed   *)
(***************************************************************************)
AllOutcomes == {"bad", "reply", "file", "proxy", "invalid"}

ASSUME SessionAssumption == FileSize \in Nat /\ Outcomes \subseteq AllOutcomes

VARIABLES
  ses,   \* the session of each client
  file   \* the file its session has opened

sessionVars == <<ses, file>>

\* to, from: to_client_buff and from_client_buff, <<>> for NULL.
\* req: http_req is set.  head: a history of the read that set it, the number
\* of chunks it took, which the program does not keep.  The other fields: the
\* upstream_* fields.
Session == [live: BOOLEAN, req: BOOLEAN, head: Nat, to: Seq(Nat), from: Seq(Nat),
            connected: BOOLEAN, error_res_set: BOOLEAN, write_bytes: Nat]
NoSession == [live |-> FALSE, req |-> FALSE, head |-> 0, to |-> <<>>, from |-> <<>>,
              connected |-> FALSE, error_res_set |-> FALSE, write_bytes |-> 0]

File == [st: {"none", "open", "closed", "failed"}, left: 0..FileSize]

SessionTypeOK ==
  /\ ses \in [Client -> Session]
  /\ file \in [Client -> File]

SessionInit ==
  /\ ses = [c \in Client |-> NoSession]
  /\ file = [c \in Client |-> [st |-> "none", left |-> FileSize]]

Head0 == <<0>>
From(a, n) == [i \in 1..n |-> a + i - 1]
SmallerOf(a, b) == IF a < b THEN a ELSE b

-----------------------------------------------------------------------------
(***************************************************************************)
(* The readiness flags that follow the two buffers, as functions of the    *)
(* sources S and sinks K before the assignment.                            *)
(***************************************************************************)
\* Mutants: a sink keeps its flag while the buffer it would fill is in use.
ToSinks_FileStaysReady(K, c, full) == [K EXCEPT ![U2S(c)].ready = ~full]
ToSinks_UpstreamStaysReady(K, c, full) ==
  [K EXCEPT ![U2S(c)].ready = TRUE, ![F2S(c)].ready = ~full]

\* set_to_client_buff: "full" says whether the new buffer is not NULL.
ToSources(S, c, full) == [S EXCEPT ![S2C(c)].ready = full]
ToSinks(K, c, full) == [K EXCEPT ![U2S(c)].ready = ~full, ![F2S(c)].ready = ~full]

\* set_from_client_buff
FromSources(S, c, full) == [S EXCEPT ![S2U(c)].ready = full]
FromSinks(K, c, full) == [K EXCEPT ![C2S(c)].ready = ~full]

\* The ends a session owns, all freed by xps_session_destroy.
SourcesWithout(S, c) == [S EXCEPT ![S2C(c)] = FreedEnd, ![S2U(c)] = FreedEnd]
SinksWithout(K, c) == [K EXCEPT ![C2S(c)] = FreedEnd, ![U2S(c)] = FreedEnd,
                                ![F2S(c)] = FreedEnd]

xps_session_destroy(c, S, K) ==
  /\ src' = SourcesWithout(S, c)
  /\ snk' = SinksWithout(K, c)
  /\ ses' = [ses EXCEPT ![c] = NoSession]

\* Mutants: the buffer under way does not keep the session; an active client
\* keeps it without an upstream.
Flowing_NoBuffer(c, S, K, r) ==
  \/ S[S2U(c)].active /\ K[C2S(c)].active
  \/ S[S2C(c)].active /\ (K[U2S(c)].active \/ K[F2S(c)].active)
Flowing_ClientSuffices(c, S, K, r) ==
  \/ K[C2S(c)].active \/ r.from # <<>>
  \/ S[S2C(c)].active /\ (K[U2S(c)].active \/ K[F2S(c)].active \/ r.to # <<>>)

\* S, K, r: the sources, the sinks and the record of the session as its
\* handler leaves them.
Flowing(c, S, K, r) ==
  \/ S[S2U(c)].active /\ (K[C2S(c)].active \/ r.from # <<>>)
  \/ S[S2C(c)].active /\ (K[U2S(c)].active \/ r.to # <<>>)
  \/ S[S2C(c)].active /\ (K[F2S(c)].active \/ r.to # <<>>)

session_check_destroy(c, S, K, r) ==
  IF Flowing(c, S, K, r)
  THEN src' = S /\ snk' = K /\ ses' = [ses EXCEPT ![c] = r]
  ELSE xps_session_destroy(c, S, K)

-----------------------------------------------------------------------------
(***************************************************************************)
(* Connections.                                                            *)
(***************************************************************************)
\* Mutant: the sink stays attached to its pipe.
connection_close_KeepsSink(k) ==
  /\ src' = [src EXCEPT ![SourcePipe(k)] = FreedEnd]
  /\ sock' = [sock EXCEPT ![k] = ClosedSocket(k)]
  /\ UNCHANGED snk

\* xps_connection_destroy: out of epoll, both ends off their pipes, close().
connection_close(k) ==
  /\ src' = [src EXCEPT ![SourcePipe(k)] = FreedEnd]
  /\ snk' = [snk EXCEPT ![SinkPipe(k)] = FreedEnd]
  /\ sock' = [sock EXCEPT ![k] = ClosedSocket(k)]

\* recv() returns queued data before an error, and an error before end of file.
connection_source_handler(k) ==
  /\ \/ /\ sock[k].in # <<>>
        /\ xps_pipe_source_write(SourcePipe(k), SubSeq(sock[k].in, 1, RecvLen(k)))
        /\ sock' = [sock EXCEPT ![k].in = SubSeq(@, RecvLen(k) + 1, Len(@))]
        /\ UNCHANGED <<src, snk>>
     \/ /\ ~PollIn(k)
        /\ src' = [src EXCEPT ![SourcePipe(k)].ready = FALSE]
        /\ UNCHANGED <<snk, buf, sock>>
     \/ /\ sock[k].in = <<>> /\ (sock[k].rst \/ sock[k].fin)
        /\ connection_close(k)
        /\ UNCHANGED buf
  /\ UnchangedList
  /\ UNCHANGED <<sent, fed, ses, file>>

\* The whole pipe is offered to send(), what it took is cleared.
connection_sink_handler(k) ==
  LET p == SinkPipe(k)
      n == SendLen(k, Len(buf[p]))
  IN
  /\ \/ /\ sock[k].rst
        /\ connection_close(k)
        /\ UNCHANGED <<buf, sent>>
     \/ /\ ~sock[k].rst /\ ~CanSend(k)
        /\ snk' = [snk EXCEPT ![p].ready = FALSE]
        /\ sock' = [sock EXCEPT ![k].nospace = TRUE]
        /\ UNCHANGED <<src, buf, sent>>
     \/ /\ CanSend(k)
        /\ sent' = [sent EXCEPT ![k] = @ \o SubSeq(buf[p], 1, n)]
        /\ sock' = [sock EXCEPT ![k].room = @ - n, ![k].nospace = n < Len(buf[p])]
        /\ xps_pipe_sink_clear(p, n)
        /\ UNCHANGED <<src, snk>>
  /\ UnchangedList
  /\ UNCHANGED <<fed, ses, file>>

\* handle_pipes clears the end's active flag and calls its close handler: the
\* connection goes once neither of its ends is active.
connection_source_close_handler(k) ==
  /\ IF snk[SinkPipe(k)].active
     THEN /\ src' = [src EXCEPT ![SourcePipe(k)].active = FALSE]
          /\ UNCHANGED <<snk, sock>>
     ELSE connection_close(k)
  /\ UnchangedList
  /\ UNCHANGED <<buf, sent, fed, ses, file>>

connection_sink_close_handler(k) ==
  /\ IF src[SourcePipe(k)].active
     THEN /\ snk' = [snk EXCEPT ![SinkPipe(k)].active = FALSE]
          /\ UNCHANGED <<src, sock>>
     ELSE connection_close(k)
  /\ UnchangedList
  /\ UNCHANGED <<buf, sent, fed, ses, file>>

-----------------------------------------------------------------------------
(***************************************************************************)
(* Creation, when the listener has accepted the client's connection.       *)
(***************************************************************************)
xps_session_create(c) ==
  /\ sock' = [sock EXCEPT ![ClientConn(c)] = AcceptedSocket(ClientConn(c))]
  /\ ses' = [ses EXCEPT ![c] = [NoSession EXCEPT !.live = TRUE]]
  /\ PushPipes(C2S(c), S2C(c))
  /\ src' = [src EXCEPT ![C2S(c)] = Attached(FreedEnd), ![S2C(c)] = Attached(FreedEnd)]
  /\ snk' = [snk EXCEPT ![C2S(c)] = [Attached(FreedEnd) EXCEPT !.ready = TRUE],
                        ![S2C(c)] = Attached(FreedEnd),
                        ![U2S(c)].ready = TRUE,
                        ![F2S(c)].ready = TRUE]
  /\ UNCHANGED <<buf, sent, fed, file>>

-----------------------------------------------------------------------------
(***************************************************************************)
(* The client's side of a session.                                         *)
(***************************************************************************)
client_source_handler(c) ==
  /\ xps_pipe_source_write(S2C(c), ses[c].to)
  /\ session_check_destroy(c, ToSources(src, c, FALSE), ToSinks(snk, c, FALSE),
                           [ses[c] EXCEPT !.to = <<>>])
  /\ UnchangedList
  /\ UNCHANGED <<sock, sent, fed, file>>

\* The request parsed: http_req is set and its serialised head is to go
\* upstream; the pipe is cleared whole, and with it what it held beyond the head.
Parsed(c) == [ses[c] EXCEPT !.req = TRUE, !.head = Len(buf[C2S(c)]), !.from = Head0]
ParsedSources(c) == FromSources(src, c, TRUE)
ParsedSinks(c) == FromSinks(snk, c, TRUE)

\* session_process_request, by outcome.  A failed parse leaves the pipe as it is.
BadRequest(c) ==
  /\ ses' = [ses EXCEPT ![c].to = Head0]
  /\ src' = ToSources(src, c, TRUE)
  /\ snk' = ToSinks(snk, c, TRUE)
  /\ UnchangedList
  /\ UNCHANGED <<buf, sock, file>>

ReplyOnly(c) ==
  /\ ses' = [ses EXCEPT ![c] = [Parsed(c) EXCEPT !.to = Head0]]
  /\ src' = ToSources(ParsedSources(c), c, TRUE)
  /\ snk' = ToSinks(ParsedSinks(c), c, TRUE)
  /\ xps_pipe_sink_clear(C2S(c), Len(buf[C2S(c)]))
  /\ UnchangedList
  /\ UNCHANGED <<sock, file>>

\* xps_file_create succeeds; its source is ready from the start.
ServeFile(c) ==
  /\ ses' = [ses EXCEPT ![c] = [Parsed(c) EXCEPT !.to = Head0]]
  /\ file' = [file EXCEPT ![c].st = "open"]
  /\ PushPipe(F2S(c))
  /\ src' = [ToSources(ParsedSources(c), c, TRUE) EXCEPT
               ![F2S(c)] = [Attached(FreedEnd) EXCEPT !.ready = TRUE]]
  /\ snk' = [ToSinks(ParsedSinks(c), c, TRUE) EXCEPT ![F2S(c)] = Attached(@)]
  /\ xps_pipe_sink_clear(C2S(c), Len(buf[C2S(c)]))
  /\ UNCHANGED sock

\* xps_upstream_create has started the connection.
ReverseProxy(c) ==
  /\ ses' = [ses EXCEPT ![c] = Parsed(c)]
  /\ sock' = [sock EXCEPT ![UpstreamConn(c)] = ConnectingSocket]
  /\ PushPipes(S2U(c), U2S(c))
  /\ src' = [ParsedSources(c) EXCEPT ![S2U(c)] = Attached(@),
                                     ![U2S(c)] = Attached(FreedEnd)]
  /\ snk' = [ParsedSinks(c) EXCEPT ![S2U(c)] = Attached(FreedEnd),
                                   ![U2S(c)] = Attached(@)]
  /\ xps_pipe_sink_clear(C2S(c), Len(buf[C2S(c)]))
  /\ UNCHANGED file

InvalidRoute(c) ==
  /\ xps_session_destroy(c, src, snk)
  /\ xps_pipe_sink_clear(C2S(c), Len(buf[C2S(c)]))
  /\ UnchangedList
  /\ UNCHANGED <<sock, file>>

session_process_request(c) ==
  \/ "bad" \in Outcomes /\ BadRequest(c)
  \/ "reply" \in Outcomes /\ ReplyOnly(c)
  \/ "file" \in Outcomes /\ ServeFile(c)
  \/ "proxy" \in Outcomes /\ ReverseProxy(c)
  \/ "invalid" \in Outcomes /\ InvalidRoute(c)

\* Mutant: a read that comes before the upstream has answered is dropped.
client_sink_handler_DropsEarly(c) ==
  /\ \/ ~ses[c].req /\ session_process_request(c)
     \/ /\ ses[c].req
        /\ ses' = [ses EXCEPT ![c].from = IF ses[c].connected THEN buf[C2S(c)] ELSE @]
        /\ src' = FromSources(src, c, ses[c].connected)
        /\ snk' = FromSinks(snk, c, ses[c].connected)
        /\ xps_pipe_sink_clear(C2S(c), Len(buf[C2S(c)]))
        /\ UnchangedList
        /\ UNCHANGED <<sock, file>>
  /\ UNCHANGED <<sent, fed>>

\* After the first request everything the client sends goes upstream.
client_sink_handler(c) ==
  /\ \/ ~ses[c].req /\ session_process_request(c)
     \/ /\ ses[c].req
        /\ ses' = [ses EXCEPT ![c].from = buf[C2S(c)]]
        /\ src' = FromSources(src, c, TRUE)
        /\ snk' = FromSinks(snk, c, TRUE)
        /\ xps_pipe_sink_clear(C2S(c), Len(buf[C2S(c)]))
        /\ UnchangedList
        /\ UNCHANGED <<sock, file>>
  /\ UNCHANGED <<sent, fed>>

-----------------------------------------------------------------------------
(***************************************************************************)
(* The upstream's side and the file's side of a session.                   *)
(***************************************************************************)
\* Mutant: connected as soon as everything written is in the pipe.
AfterUpstreamWrite_AtLeast(c) ==
  LET n == ses[c].write_bytes + Len(ses[c].from)
      held == Len(buf[S2U(c)]) + Len(ses[c].from)
  IN IF ses[c].connected THEN [ses[c] EXCEPT !.from = <<>>]
     ELSE [ses[c] EXCEPT !.from = <<>>, !.write_bytes = n, !.connected = n >= held]

\* More written than the pipe holds: something has left for the upstream.
AfterUpstreamWrite(c) ==
  LET n == ses[c].write_bytes + Len(ses[c].from)
      held == Len(buf[S2U(c)]) + Len(ses[c].from)
  IN IF ses[c].connected THEN [ses[c] EXCEPT !.from = <<>>]
     ELSE [ses[c] EXCEPT !.from = <<>>, !.write_bytes = n, !.connected = n > held]

upstream_source_handler(c) ==
  /\ xps_pipe_source_write(S2U(c), ses[c].from)
  /\ session_check_destroy(c, FromSources(src, c, FALSE), FromSinks(snk, c, FALSE),
                           AfterUpstreamWrite(c))
  /\ UnchangedList
  /\ UNCHANGED <<sock, sent, fed, file>>

upstream_sink_handler(c) ==
  /\ ses' = [ses EXCEPT ![c].connected = TRUE, ![c].to = buf[U2S(c)]]
  /\ src' = ToSources(src, c, TRUE)
  /\ snk' = ToSinks(snk, c, TRUE)
  /\ xps_pipe_sink_clear(U2S(c), Len(buf[U2S(c)]))
  /\ UnchangedList
  /\ UNCHANGED <<sock, sent, fed, file>>

file_sink_handler(c) ==
  /\ ses' = [ses EXCEPT ![c].to = buf[F2S(c)]]
  /\ src' = ToSources(src, c, TRUE)
  /\ snk' = ToSinks(snk, c, TRUE)
  /\ xps_pipe_sink_clear(F2S(c), Len(buf[F2S(c)]))
  /\ UnchangedList
  /\ UNCHANGED <<sock, sent, fed, file>>

\* xps_file_destroy
FileDestroy(c, why) ==
  /\ file' = [file EXCEPT ![c].st = why]
  /\ src' = [src EXCEPT ![F2S(c)] = FreedEnd]
  /\ UNCHANGED buf

file_source_handler(c) ==
  LET n == SmallerOf(file[c].left, RecvMax) IN
  /\ \/ /\ n > 0
        /\ xps_pipe_source_write(F2S(c), From(FileSize - file[c].left + 1, n))
        /\ file' = [file EXCEPT ![c].left = @ - n]
        /\ UNCHANGED src
     \/ n = 0 /\ FileDestroy(c, "closed")
     \/ n > 0 /\ FileDestroy(c, "failed")
  /\ UnchangedList
  /\ UNCHANGED <<snk, sock, sent, fed, ses>>

file_source_close_handler(c) ==
  /\ FileDestroy(c, "closed")
  /\ UnchangedList
  /\ UNCHANGED <<snk, sock, sent, fed, ses>>

(***************************************************************************)
(* The close handlers of a session's ends: handle_pipes has cleared the    *)
(* end's active flag; the session ends when nothing can flow any more.     *)
(***************************************************************************)
CloseSessionEnd(c, S, K, r) ==
  /\ session_check_destroy(c, S, K, r)
  /\ UnchangedList
  /\ UNCHANGED <<buf, sock, sent, fed, file>>

\* Mutant: the active flag is not cleared.
SinkInactive_Kept(p) == snk

SourceInactive(p) == [src EXCEPT ![p].active = FALSE]
SinkInactive(p) == [snk EXCEPT ![p].active = FALSE]

\* upstream_error_res, from either end of the upstream's side
MarkUpstreamError(c) ==
  [ses[c] EXCEPT !.error_res_set = @ \/ ~ses[c].connected]

client_source_close_handler(c) ==
  CloseSessionEnd(c, SourceInactive(S2C(c)), snk, ses[c])
client_sink_close_handler(c) ==
  CloseSessionEnd(c, src, SinkInactive(C2S(c)), ses[c])
upstream_source_close_handler(c) ==
  CloseSessionEnd(c, SourceInactive(S2U(c)), snk, MarkUpstreamError(c))
upstream_sink_close_handler(c) ==
  CloseSessionEnd(c, src, SinkInactive(U2S(c)), MarkUpstreamError(c))
file_sink_close_handler(c) ==
  CloseSessionEnd(c, src, SinkInactive(F2S(c)), ses[c])
=============================================================================
