------------------------------- MODULE XpsLoop -------------------------------
(***************************************************************************)
(* The event loop of eXpServer (core/xps_loop.c) over sessions, connections*)
(* and files: one thread that walks core->pipes in order, waits in epoll,  *)
(* sets readiness flags from the events it gets and compacts its lists.    *)
(* The peers act between any two of its steps.                             *)
(*                                                                         *)
(* One pass of handle_pipes visits the positions 1..pipes_length, the      *)
(* length read again at each; a visit has three steps (pc): the source's   *)
(* turn, the sink's turn, and the closing of an end left alone.            *)
(***************************************************************************)
EXTENDS XpsSession

CONSTANTS MaxEvents,  \* MAX_EPOLL_EVENTS
          FreedReads  \* what reading the write_cb of a freed event may give:
                      \* "callback" (its old contents), "nothing" (NULL)

ASSUME LoopAssumption == /\ MaxEvents \in Nat \ {0}
                         /\ FreedReads \in (SUBSET {"callback", "nothing"}) \ {{}}

VARIABLES
  pc,     \* where the loop is
  idx,    \* the position handle_pipes is at
  batch,  \* connection events epoll_wait has returned, not handled yet
  lsn,    \* the listener's event is among them
  cur     \* the connection whose event is half handled: EPOLLOUT is still to do

loopVars == <<pc, idx, batch, lsn, cur>>
vars == <<pipeVars, sockVars, sessionVars, loopVars>>

Event == [k: Conn, in: BOOLEAN, out: BOOLEAN, hup: BOOLEAN]

TypeOK ==
  /\ PipeTypeOK
  /\ SocketTypeOK
  /\ SessionTypeOK
  /\ pc \in {"source", "sink", "close", "wait", "events", "out", "accept"}
  /\ idx \in Nat \ {0}
  /\ batch \subseteq Event
  /\ lsn \in BOOLEAN
  /\ cur \subseteq Conn

Init ==
  /\ PipeInit /\ SocketInit /\ SessionInit
  /\ pc = "source" /\ idx = 1
  /\ batch = {} /\ lsn = FALSE /\ cur = {}

-----------------------------------------------------------------------------
(***************************************************************************)
(* handle_pipes                                                            *)
(***************************************************************************)
GoTo(stage) == pc' = stage /\ UNCHANGED <<idx, batch, lsn, cur>>
NextPosition == pc' = "source" /\ idx' = idx + 1 /\ UNCHANGED <<batch, lsn, cur>>

At(stage, p) == pc = stage /\ slot[p] = idx

\* The handlers and close handlers the program installs in each end.
SourceHandler(p) ==
  LET c == p[2] IN
  \/ p[1] = "c2s" /\ connection_source_handler(ClientConn(c))
  \/ p[1] = "u2s" /\ connection_source_handler(UpstreamConn(c))
  \/ p[1] = "s2c" /\ client_source_handler(c)
  \/ p[1] = "s2u" /\ upstream_source_handler(c)
  \/ p[1] = "f2s" /\ file_source_handler(c)

SinkHandler(p) ==
  LET c == p[2] IN
  \/ p[1] = "c2s" /\ client_sink_handler(c)
  \/ p[1] = "u2s" /\ upstream_sink_handler(c)
  \/ p[1] = "s2c" /\ connection_sink_handler(ClientConn(c))
  \/ p[1] = "s2u" /\ connection_sink_handler(UpstreamConn(c))
  \/ p[1] = "f2s" /\ file_sink_handler(c)

SourceCloseHandler(p) ==
  LET c == p[2] IN
  \/ p[1] = "c2s" /\ connection_source_close_handler(ClientConn(c))
  \/ p[1] = "u2s" /\ connection_source_close_handler(UpstreamConn(c))
  \/ p[1] = "s2c" /\ client_source_close_handler(c)
  \/ p[1] = "s2u" /\ upstream_source_close_handler(c)
  \/ p[1] = "f2s" /\ file_source_close_handler(c)

SinkCloseHandler(p) ==
  LET c == p[2] IN
  \/ p[1] = "c2s" /\ client_sink_close_handler(c)
  \/ p[1] = "u2s" /\ upstream_sink_close_handler(c)
  \/ p[1] = "s2c" /\ connection_sink_close_handler(ClientConn(c))
  \/ p[1] = "s2u" /\ connection_sink_close_handler(UpstreamConn(c))
  \/ p[1] = "f2s" /\ file_sink_close_handler(c)

UnchangedWorld == UNCHANGED <<pipeVars, sockVars, sessionVars>>

\* A NULL in the list, and the end of the list.
SkipNull ==
  /\ pc = "source" /\ idx <= pipes_length
  /\ \A p \in Pipe : slot[p] # idx
  /\ NextPosition /\ UnchangedWorld

PassDone ==
  /\ pc = "source" /\ idx > pipes_length
  /\ GoTo("wait") /\ UnchangedWorld

DestroyDead(p) ==
  /\ At("source", p) /\ Dead(p)
  /\ xps_pipe_destroy(p)
  /\ NextPosition
  /\ UNCHANGED <<sockVars, sessionVars>>

SourceStep(p) ==
  /\ At("source", p) /\ ~Dead(p)
  /\ \/ SourceTurn(p) /\ SourceHandler(p)
     \/ ~SourceTurn(p) /\ UnchangedWorld
  /\ GoTo("sink")

SinkStep(p) ==
  /\ At("sink", p)
  /\ \/ SinkTurn(p) /\ SinkHandler(p)
     \/ ~SinkTurn(p) /\ UnchangedWorld
  /\ GoTo("close")

\* A source without a sink, or a sink without a source and nothing to read:
\* closing the source leaves the pipe without a sink, so never both.
CloseStep(p) ==
  /\ At("close", p)
  /\ \/ SourceOrphan(p) /\ SourceCloseHandler(p)
     \/ SinkOrphan(p) /\ SinkCloseHandler(p)
     \/ ~SourceOrphan(p) /\ ~SinkOrphan(p) /\ UnchangedWorld
  /\ NextPosition

-----------------------------------------------------------------------------
(***************************************************************************)
(* epoll_wait and handle_epoll_events                                      *)
(***************************************************************************)
Backlog == {c \in Client : sock[ClientConn(c)].st = "backlog"}
ReadyConns == {k \in Conn : sock[k].reg /\ sock[k].edge /\ PollAny(k)}
EventOf(k) == [k |-> k, in |-> PollIn(k), out |-> PollOut(k), hup |-> PollHup(k)]

\* The connections and the listener that one epoll_wait reports: all that are
\* ready, or MaxEvents of them.  The listener is level triggered.
Reportable(K, l) ==
  LET n == Cardinality(K) + (IF l THEN 1 ELSE 0)
      ready == Cardinality(ReadyConns) + (IF Backlog # {} THEN 1 ELSE 0)
  IN /\ l => Backlog # {}
     /\ n = SmallerOf(ready, MaxEvents)

\* Without a ready pipe the call blocks until there is something to report.
\* A socket on the ready list that has nothing to report any more leaves it.
epoll_wait ==
  /\ pc = "wait"
  /\ has_ready_pipes \/ ReadyConns # {} \/ Backlog # {}
  /\ \E K \in SUBSET ReadyConns, l \in BOOLEAN :
       /\ Reportable(K, l)
       /\ batch' = {EventOf(k) : k \in K}
       /\ lsn' = l
       /\ sock' = [k \in Conn |-> IF k \in K \/ ~PollAny(k)
                                  THEN [sock[k] EXCEPT !.edge = FALSE] ELSE sock[k]]
  /\ pc' = "events"
  /\ UNCHANGED <<idx, cur, pipeVars, sent, fed, sessionVars>>

\* Mutants: a hangup is not read; a hangup closes the connection at once.
OnInput_NotOnHangup(e) ==
  src' = IF e.in /\ ~e.hup THEN [src EXCEPT ![SourcePipe(e.k)].ready = TRUE] ELSE src
OnHangup_Closes(e) ==
  sock' = IF e.hup THEN [sock EXCEPT ![e.k] = ClosedSocket(e.k)] ELSE sock

\* EPOLLIN runs connection_loop_read_handler; EPOLLHUP detaches the socket,
\* which frees its loop_event_t.
OnInput(e) == src' = IF e.in THEN [src EXCEPT ![SourcePipe(e.k)].ready = TRUE] ELSE src
OnHangup(e) ==
  sock' = IF e.hup THEN [sock EXCEPT ![e.k] = xps_loop_detach(sock[e.k])] ELSE sock

HandleEvent(e) ==
  /\ pc = "events" /\ e \in batch
  /\ batch' = batch \ {e}
  /\ OnInput(e)
  /\ OnHangup(e)
  /\ IF e.out THEN pc' = "out" /\ cur' = {e.k} ELSE UNCHANGED <<pc, cur>>
  /\ UNCHANGED <<idx, lsn, slot, pipes_length, n_null_pipes, snk, buf, sent, fed, sessionVars>>

\* EPOLLOUT runs connection_loop_write_handler, whose address is read from the
\* loop_event_t, freed or not.
HandleOut(k) ==
  /\ pc = "out" /\ k \in cur
  /\ pc' = "events" /\ cur' = {}
  /\ \/ /\ sock[k].reg \/ "callback" \in FreedReads
        /\ snk' = [snk EXCEPT ![SinkPipe(k)].ready = TRUE]
     \/ ~sock[k].reg /\ "nothing" \in FreedReads /\ UNCHANGED snk
  /\ UNCHANGED <<idx, batch, lsn, slot, pipes_length, n_null_pipes, src, buf,
                 sockVars, sessionVars>>

\* listener_connection_handler: accept() until there is no one left, or until
\* accept() fails for want of a descriptor.
ListenerEvent ==
  /\ pc = "events" /\ lsn
  /\ pc' = "accept" /\ lsn' = FALSE
  /\ UNCHANGED <<idx, batch, cur>> /\ UnchangedWorld

Accept(c) ==
  /\ pc = "accept" /\ c \in Backlog
  /\ xps_session_create(c)
  /\ UNCHANGED loopVars

AcceptDone ==
  /\ pc = "accept"
  /\ GoTo("events") /\ UnchangedWorld

\* The end of an iteration of xps_loop_run: filter_nulls, and back to the top.
EventsDone ==
  /\ pc = "events" /\ batch = {} /\ ~lsn
  /\ filter_null_pipes
  /\ pc' = "source" /\ idx' = 1
  /\ UNCHANGED <<batch, lsn, cur, sockVars, sessionVars>>

-----------------------------------------------------------------------------
handle_pipes == \/ SkipNull \/ PassDone
                \/ \E p \in Pipe : DestroyDead(p) \/ SourceStep(p) \/ SinkStep(p) \/ CloseStep(p)

handle_epoll_events == \/ \E e \in batch : HandleEvent(e)
                       \/ \E k \in Conn : HandleOut(k)
                       \/ ListenerEvent \/ AcceptDone \/ EventsDone
                       \/ \E c \in Client : Accept(c)

xps_loop_run == handle_pipes \/ epoll_wait \/ handle_epoll_events

PeerStep == Peers /\ UNCHANGED <<pipeVars, sessionVars, loopVars>>

\* epoll_wait blocks for ever when the peers have nothing more to do.
Idle == /\ pc = "wait" /\ ~has_ready_pipes /\ ReadyConns = {} /\ Backlog = {}
        /\ UNCHANGED vars

Next == xps_loop_run \/ PeerStep \/ Idle

Spec == Init /\ [][Next]_vars

(***************************************************************************)
(* The loop's thread keeps running, a peer that is alive reads what it is  *)
(* sent, and TCP settles a connection attempt.  Nothing obliges a peer to  *)
(* connect, to send or to close.                                           *)
(***************************************************************************)
Fairness ==
  /\ WF_vars(xps_loop_run)
  /\ \A k \in Conn : WF_vars(PeerDrain(k) /\ UNCHANGED <<pipeVars, sessionVars, loopVars>>)
  /\ \A c \in Client : WF_vars((Establish(c) \/ Refuse(c))
                                /\ UNCHANGED <<pipeVars, sessionVars, loopVars>>)

FairSpec == Spec /\ Fairness
=============================================================================
