------------------------------- MODULE XpsPipe -------------------------------
(***************************************************************************)
(* The pipes of eXpServer (core/xps_pipe.c) and the list that holds them.  *)
(* A pipe is a list of buffers with a source that fills it and a sink that *)
(* empties it.  A session of client c uses at most five of them:           *)
(*                                                                         *)
(*    c2s  client connection   -> session.client_sink                      *)
(*    s2c  session.client_source -> client connection                      *)
(*    s2u  session.upstream_source -> upstream connection                  *)
(*    u2s  upstream connection -> session.upstream_sink                    *)
(*    f2s  file                -> session.file_sink                        *)
(*                                                                         *)
(* Every source and every sink feeds one pipe in its life, so it is named  *)
(* by that pipe: src[p] and snk[p] are the records of the end, "on" when   *)
(* the pipe points to it.  A buffer is a sequence of chunks, each chunk a  *)
(* number; the number of chunks stands for the number of bytes.            *)
(***************************************************************************)
EXTENDS Integers, Sequences, FiniteSets

CONSTANTS Client,       \* the clients, each connecting at most once
          Thresh,       \* DEFAULT_PIPE_BUFF_THRESH
          NullsThresh   \* DEFAULT_NULLS_THRESH

ASSUME PipeAssumption == /\ Thresh \in Nat \ {0}
                         /\ NullsThresh \in Nat
                         /\ IsFiniteSet(Client)

C2S(c) == <<"c2s", c>>
S2C(c) == <<"s2c", c>>
S2U(c) == <<"s2u", c>>
U2S(c) == <<"u2s", c>>
F2S(c) == <<"f2s", c>>
Pipe == {"c2s", "s2c", "s2u", "u2s", "f2s"} \X Client

VARIABLES
  slot,          \* position of each pipe in core->pipes, 0 when it is not there
  pipes_length,  \* core->pipes.length; positions that hold no pipe are NULL
  n_null_pipes,  \* core->n_null_pipes
  src,           \* the source of each pipe
  snk,           \* the sink of each pipe
  buf            \* the buff_list of each pipe

pipeVars == <<slot, pipes_length, n_null_pipes, src, snk, buf>>

End == [on: BOOLEAN, ready: BOOLEAN, active: BOOLEAN]
FreedEnd == [on |-> FALSE, ready |-> FALSE, active |-> FALSE]
\* An end that xps_pipe_create attaches keeps its readiness and becomes active.
Attached(end) == [end EXCEPT !.on = TRUE, !.active = TRUE]

PipeTypeOK ==
  /\ slot \in [Pipe -> Nat]
  /\ pipes_length \in Nat
  /\ n_null_pipes \in Nat
  /\ src \in [Pipe -> End]
  /\ snk \in [Pipe -> End]
  /\ buf \in [Pipe -> Seq(Nat)]

PipeInit ==
  /\ slot = [p \in Pipe |-> 0]
  /\ pipes_length = 0
  /\ n_null_pipes = 0
  /\ src = [p \in Pipe |-> FreedEnd]
  /\ snk = [p \in Pipe |-> FreedEnd]
  /\ buf = [p \in Pipe |-> <<>>]

-----------------------------------------------------------------------------
Listed == {p \in Pipe : slot[p] # 0}

\* Mutant: one more buffer is let in at the threshold.
xps_pipe_is_writable_AtThresh(p) == Len(buf[p]) <= Thresh

xps_pipe_is_readable(p) == buf[p] # <<>>
xps_pipe_is_writable(p) == Len(buf[p]) < Thresh

\* vec_push of one new pipe, and of two in this order.
PushPipe(p) ==
  /\ slot' = [slot EXCEPT ![p] = pipes_length + 1]
  /\ pipes_length' = pipes_length + 1
  /\ UNCHANGED n_null_pipes

PushPipes(p, q) ==
  /\ slot' = [slot EXCEPT ![p] = pipes_length + 1, ![q] = pipes_length + 2]
  /\ pipes_length' = pipes_length + 2
  /\ UNCHANGED n_null_pipes

UnchangedList == UNCHANGED <<slot, pipes_length, n_null_pipes>>

\* The callers of xps_pipe_source_write hold a writable pipe, so its two
\* refusals are never taken: the whole buffer is appended, whatever its length.
xps_pipe_source_write(p, b) == buf' = [buf EXCEPT ![p] = @ \o b]

\* Mutant: the whole pipe is cleared, not what was taken.
xps_pipe_sink_clear_All(p, n) == buf' = [buf EXCEPT ![p] = <<>>]

xps_pipe_sink_clear(p, n) == buf' = [buf EXCEPT ![p] = SubSeq(@, n + 1, Len(@))]

\* Mutant: the new NULL is not counted.
xps_pipe_destroy_NotCounted(p) ==
  /\ slot' = [slot EXCEPT ![p] = 0]
  /\ buf' = [buf EXCEPT ![p] = <<>>]
  /\ UNCHANGED <<pipes_length, n_null_pipes, src, snk>>

xps_pipe_destroy(p) ==
  /\ slot' = [slot EXCEPT ![p] = 0]
  /\ n_null_pipes' = n_null_pipes + 1
  /\ buf' = [buf EXCEPT ![p] = <<>>]
  /\ UNCHANGED <<pipes_length, src, snk>>

\* Mutant: the list is rebuilt from its end.
Rank_Reversed(p) == Cardinality({q \in Listed : slot[q] >= slot[p]})

\* vec_filter_null keeps the pipes in their order and closes the gaps.
Rank(p) == Cardinality({q \in Listed : slot[q] <= slot[p]})

filter_null_pipes ==
  /\ IF n_null_pipes > NullsThresh
     THEN /\ slot' = [p \in Pipe |-> IF slot[p] = 0 THEN 0 ELSE Rank(p)]
          /\ pipes_length' = Cardinality(Listed)
          /\ n_null_pipes' = 0
     ELSE UnchangedList
  /\ UNCHANGED <<src, snk, buf>>

\* What handle_pipes tests: a stage of pipe p has work to do.
SourceTurn(p) == src[p].on /\ src[p].ready /\ xps_pipe_is_writable(p)
SinkTurn(p)   == snk[p].on /\ snk[p].ready /\ xps_pipe_is_readable(p)
SourceOrphan(p) == src[p].on /\ ~snk[p].on
SinkOrphan(p)   == snk[p].on /\ ~src[p].on /\ ~xps_pipe_is_readable(p)
Dead(p) == ~src[p].on /\ ~snk[p].on

\* Mutants: the second sweep forgets a kind of work.
has_ready_pipes_NoSource ==
  \E p \in Listed : SinkTurn(p) \/ SourceOrphan(p) \/ SinkOrphan(p)
has_ready_pipes_NoOrphan == \E p \in Listed : SourceTurn(p) \/ SinkTurn(p)

has_ready_pipes ==
  \E p \in Listed : SourceTurn(p) \/ SinkTurn(p) \/ SourceOrphan(p) \/ SinkOrphan(p)
=============================================================================
