------------------------------- MODULE XpsCore -------------------------------
(***************************************************************************)
(* The core (core/xps_core.c): the lists in which it keeps the events,     *)
(* connections and sessions, and its destruction, which the handler of     *)
(* SIGINT runs (main.c).  A list is a vector whose positions turn NULL as  *)
(* objects are destroyed; filter_nulls compacts it when the count of NULLs *)
(* kept beside it passes a threshold.  The list of pipes is XpsPipe's: its *)
(* positions matter to handle_pipes while the loop walks it.               *)
(*                                                                         *)
(* Objects come and go in the handlers of XpsLoop; each step of the loop   *)
(* here also does to the lists what the same handler does to them.         *)
(***************************************************************************)
EXTENDS XpsLoopProperties

CONSTANTS NULL,     \* a position whose object has been destroyed
          Listener  \* the listener, created before the loop runs

ASSUME CoreAssumption == NULL \notin Conn \cup Client \cup {Listener} /\ Listener \notin Conn

VARIABLES
  events,           \* loop->events, an event named by the object that it is for
  n_null_events,    \* loop->n_null_events
  connections,      \* core->connections
  sessions,         \* core->sessions, a session named by its client
  n_null_sessions,  \* core->n_null_sessions
  phase,            \* "running", what xps_core_destroy is about to destroy, or how it ended
  atSignal,         \* a history: the connections open when the signal came
  wild              \* a history: the objects whose destructor wrote into a freed pipe

listVars == <<events, n_null_events, connections, sessions, n_null_sessions>>
shutdownVars == <<phase, atSignal, wild>>
coreVars == <<vars, listVars, shutdownVars>>

\* Mutant: the pipes go first.
Order_PipesFirst == <<"pipes", "sessions", "connections", "listeners", "loop", "exited">>

\* The order in which xps_core_destroy goes through what there is.
Order == <<"sessions", "pipes", "connections", "listeners", "loop", "exited">>

xps_core_create ==
  /\ events = <<Listener>> /\ connections = <<>> /\ sessions = <<>>
  /\ n_null_events = 0 /\ n_null_sessions = 0
  /\ phase = "running" /\ atSignal = {} /\ wild = {}

CoreInit == Init /\ xps_core_create

-----------------------------------------------------------------------------
Registered == {k \in Conn : sock[k].reg}
Open == {k \in Conn : ConnOpen(k)}
LiveSessions == {c \in Client : ses[c].live}

Left(list) == {i \in DOMAIN list : list[i] # NULL}
RankIn(list, i) == Cardinality({j \in Left(list) : j <= i})

\* Mutant: compaction loses the last object that is left.
Compact_DropsLast(list) ==
  [n \in 1..(Cardinality(Left(list)) - 1) |->
    list[CHOOSE i \in Left(list) : RankIn(list, i) = n]]

\* What a destructor does to its list, and a constructor: vec_push.
Nulled(list, gone) == [i \in DOMAIN list |-> IF list[i] \in gone THEN NULL ELSE list[i]]
Pushed(list, new) == list \o SequenceOps!SetToSeq(new)
Updated(list, before, after) == Pushed(Nulled(list, before \ after), after \ before)

\* What is left keeps its order and closes the gaps.
Compact(list) ==
  [n \in 1..Cardinality(Left(list)) |->
    list[CHOOSE i \in Left(list) : RankIn(list, i) = n]]

\* Mutant: xps_loop_detach does not count the new NULL.
DetachedCount_Zero == 0

DetachedCount == Cardinality(Registered \ Registered')
DestroyedSessions == Cardinality(LiveSessions \ LiveSessions')

\* xps_loop_attach and xps_loop_detach, xps_connection_create and
\* xps_connection_destroy (which has no counter), xps_session_create and
\* xps_session_destroy, whichever of them the step runs.
ListsFollow ==
  /\ events' = Updated(events, Registered, Registered')
  /\ n_null_events' = n_null_events + DetachedCount
  /\ connections' = Updated(connections, Open, Open')
  /\ sessions' = Updated(sessions, LiveSessions, LiveSessions')
  /\ n_null_sessions' = n_null_sessions + DestroyedSessions

\* n_null_connections is never incremented, so core->connections is left alone.
filter_nulls ==
  /\ IF n_null_events > NullsThresh
     THEN events' = Compact(events) /\ n_null_events' = 0
     ELSE UNCHANGED <<events, n_null_events>>
  /\ IF n_null_sessions > NullsThresh
     THEN sessions' = Compact(sessions) /\ n_null_sessions' = 0
     ELSE UNCHANGED <<sessions, n_null_sessions>>
  /\ UNCHANGED connections

Running ==
  /\ phase = "running"
  /\ \/ xps_loop_run /\ pc' = "source" /\ pc = "events" /\ filter_nulls
     \/ xps_loop_run /\ ~(pc' = "source" /\ pc = "events") /\ ListsFollow
     \/ (PeerStep \/ Idle) /\ UNCHANGED listVars
  /\ UNCHANGED shutdownVars

-----------------------------------------------------------------------------
(***************************************************************************)
(* xps_core_destroy.  The signal arrives between two steps of the loop,    *)
(* which does not run again: where it stood is forgotten.                  *)
(*                                                                         *)
(* A destructor clears the pointer of the pipe that its end is attached    *)
(* to.  When that pipe has been freed the write is undefined: the process  *)
(* may die of it, there or at a later call of the allocator, or go on.     *)
(* Nothing is allocated between the freeing of the pipes and the exit, so  *)
(* while it goes on the memory written to belongs to no other object.      *)
(***************************************************************************)
sigint_handler ==
  /\ phase = "running" /\ phase' = Order[1]
  /\ atSignal' = Open
  /\ pc' = "source" /\ idx' = 1 /\ batch' = {} /\ lsn' = FALSE /\ cur' = {}
  /\ UNCHANGED <<pipeVars, sockVars, sessionVars, listVars, wild>>

Destroying(what) ==
  /\ phase = what
  /\ \E i \in DOMAIN Order : Order[i] = what /\ phase' = Order[i + 1]
  /\ UNCHANGED atSignal

\* An end, source or sink, attached to a pipe that has been freed.
Dangling(end, p) == end[p].on /\ slot[p] = 0
SessionDangles(c) ==
  \/ Dangling(src, S2C(c)) \/ Dangling(src, S2U(c))
  \/ Dangling(snk, C2S(c)) \/ Dangling(snk, U2S(c)) \/ Dangling(snk, F2S(c))
ConnDangles(k) == Dangling(src, SourcePipe(k)) \/ Dangling(snk, SinkPipe(k))

\* Mutant: a sweep that starts at the second position.
Objects_FromSecond(list) == {list[i] : i \in 2..Len(list)} \ {NULL}

\* What a sweep over a list destroys.
Objects(list) == {list[i] : i \in DOMAIN list} \ {NULL}

DestroySessions ==
  /\ Destroying("sessions")
  /\ LET gone == Objects(sessions) IN
     /\ src' = [p \in Pipe |-> IF p[1] \in {"s2c", "s2u"} /\ p[2] \in gone THEN FreedEnd ELSE src[p]]
     /\ snk' = [p \in Pipe |-> IF p[1] \in {"c2s", "u2s", "f2s"} /\ p[2] \in gone
                               THEN FreedEnd ELSE snk[p]]
     /\ ses' = [c \in Client |-> IF c \in gone THEN NoSession ELSE ses[c]]
     /\ sessions' = Nulled(sessions, gone)
     /\ n_null_sessions' = n_null_sessions + Cardinality(gone)
     /\ wild' = wild \cup {c \in gone : SessionDangles(c)}
  /\ UNCHANGED <<slot, pipes_length, n_null_pipes, buf, sockVars, file, loopVars,
                 events, n_null_events, connections>>

\* xps_pipe_destroy leaves the ends' pointers to the pipe as they are.
DestroyPipes ==
  /\ Destroying("pipes")
  /\ slot' = [p \in Pipe |-> 0]
  /\ n_null_pipes' = n_null_pipes + Cardinality(Listed)
  /\ buf' = [p \in Pipe |-> <<>>]
  /\ UNCHANGED <<pipes_length, src, snk, sockVars, sessionVars, loopVars, listVars, wild>>

DestroyConnections ==
  /\ Destroying("connections")
  /\ LET gone == Objects(connections)
         detached == gone \cap Objects(events)
     IN
     /\ src' = [p \in Pipe |-> IF \E k \in gone : p = SourcePipe(k) THEN FreedEnd ELSE src[p]]
     /\ snk' = [p \in Pipe |-> IF \E k \in gone : p = SinkPipe(k) THEN FreedEnd ELSE snk[p]]
     /\ sock' = [k \in Conn |-> IF k \in gone THEN ClosedSocket(k) ELSE sock[k]]
     /\ connections' = Nulled(connections, gone)
     /\ events' = Nulled(events, detached)
     /\ n_null_events' = n_null_events + Cardinality(detached)
     /\ wild' = wild \cup {k \in gone : ConnDangles(k)}
  /\ UNCHANGED <<slot, pipes_length, n_null_pipes, buf, sent, fed, sessionVars, loopVars,
                 sessions, n_null_sessions>>

DestroyListeners ==
  /\ Destroying("listeners")
  /\ events' = Nulled(events, {Listener})
  /\ n_null_events' = n_null_events + 1
  /\ UNCHANGED <<vars, connections, sessions, n_null_sessions, wild>>

\* xps_loop_destroy frees the events that are left; then the process exits.
DestroyLoop ==
  /\ Destroying("loop")
  /\ events' = Nulled(events, Objects(events))
  /\ UNCHANGED <<vars, n_null_events, connections, sessions, n_null_sessions, wild>>

\* The process dies of a write into a freed pipe.
Fault ==
  /\ wild # {} /\ \E i \in DOMAIN Order \ {Len(Order)} : phase = Order[i]
  /\ phase' = "faulted"
  /\ UNCHANGED <<vars, listVars, atSignal, wild>>

xps_core_destroy == \/ DestroySessions \/ DestroyPipes \/ DestroyConnections
                    \/ DestroyListeners \/ DestroyLoop \/ Fault

Exited == phase \in {"exited", "faulted"} /\ UNCHANGED coreVars

CoreNext == Running \/ sigint_handler \/ xps_core_destroy \/ Exited

CoreSpec == CoreInit /\ [][CoreNext]_coreVars

-----------------------------------------------------------------------------
Nulls(list) == Cardinality({i \in DOMAIN list : list[i] = NULL})
HoldsOnce(list, objects) ==
  /\ SequenceOps!ToSet(list) \ {NULL} = objects
  /\ Len(list) = Nulls(list) + Cardinality(objects)
TopOfLoop == phase = "running" /\ pc = "source" /\ idx = 1

\* While the loop runs each list holds exactly the objects that exist, each
\* once, whatever was destroyed while events were handled and however often the
\* list was compacted: the search for an event in loop->events
\* (xps_loop.c:265-270) and the sweeps of xps_core_destroy rest on it.
ListsHoldTheLiving ==
  phase = "running" =>
    /\ HoldsOnce(events, Registered \cup {Listener})
    /\ HoldsOnce(connections, Open)
    /\ HoldsOnce(sessions, LiveSessions)

\* The lists of events and sessions do not grow with the number of clients
\* served: their NULLs are counted exactly, whichever handlers left them, and at
\* the top of the loop no more than NullsThresh positions are NULL.
NullsFiltered ==
  /\ phase = "running" => n_null_events = Nulls(events) /\ n_null_sessions = Nulls(sessions)
  /\ TopOfLoop => Nulls(events) <= NullsThresh /\ Nulls(sessions) <= NullsThresh

\* The same of the connections, which the comment at xps_loop.c:227 names among
\* the lists that are compacted.
ConnectionNullsFiltered == TopOfLoop => Nulls(connections) <= NullsThresh

\* "Destroy sessions first - they depend on pipes and connections"
\* (xps_core.c:40): when a session's ends are destroyed, the pipes they write
\* to still exist.
SessionsDetachFromLivePipes == phase = "sessions" => \A c \in Client : ~SessionDangles(c)

\* The same of the connections, whose ends write to their pipes in the same way
\* when they are destroyed (xps_pipe.c:165-167, 236-238).
ConnectionsDetachFromLivePipes == phase = "connections" => \A k \in Conn : ~ConnDangles(k)

\* How a shutdown can end, from whatever state of the loop it starts.  If it
\* reaches the exit it leaves no session, open connection, registered socket,
\* pipe or event behind, and every connection that was open at the signal, and
\* no other object, has written into a freed pipe.  If it dies of such a write,
\* a connection was open at the signal, and sessions and pipes are gone: with
\* no connection open it cannot fail.
ShutdownOutcome ==
  /\ phase = "exited" => /\ LiveSessions = {} /\ Open = {} /\ Registered = {}
                         /\ Listed = {} /\ Objects(events) = {}
                         /\ wild = atSignal
  /\ phase = "faulted" => /\ atSignal # {} /\ wild \subseteq atSignal
                          /\ LiveSessions = {} /\ Listed = {}
=============================================================================
