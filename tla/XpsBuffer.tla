------------------------------ MODULE XpsBuffer ------------------------------
(***************************************************************************)
(* The buffer list of a pipe (utils/xps_buffer.c), byte by byte: a vector  *)
(* of buffers and a total length kept beside it.  The pipe's writers       *)
(* append whole buffers; its readers ask for any number of bytes, within a *)
(* buffer or across several.  XpsPipe models a list by the bytes it holds; *)
(* this module is the ground for that: the list implements a byte queue.   *)
(***************************************************************************)
EXTENDS Integers, Sequences

CONSTANTS MaxBytes,  \* bound: bytes appended in a behaviour
          MaxChunk   \* bound: bytes in one buffer

ASSUME BufferAssumption == MaxBytes \in Nat /\ MaxChunk \in Nat \ {0}

SequenceOps == INSTANCE SequencesExt

VARIABLES
  list,      \* buff_list->list, each buffer its bytes data[0..len-1]
  len,       \* buff_list->len
  request,   \* the last call: the operation and its len
  answer,    \* the buffer the last read returned, <<>> for NULL
  appended   \* how many bytes have been appended: byte n is the number n

vars == <<list, len, request, answer, appended>>

xps_buffer_list_create ==
  /\ list = <<>> /\ len = 0
  /\ request = <<"none", 0>> /\ answer = <<>> /\ appended = 0

Bytes(a, n) == [i \in 1..n |-> a + i]

-----------------------------------------------------------------------------
xps_buffer_list_append(n) ==
  /\ appended + n <= MaxBytes
  /\ list' = Append(list, Bytes(appended, n))
  /\ len' = len + n
  /\ appended' = appended + n
  /\ request' = <<"append", n>>
  /\ UNCHANGED answer

\* Mutant: a buffer is copied whole when some of it is wanted.
CopyFrom_Whole(n, out, b) == IF Len(out) < n THEN out \o b ELSE out

\* One buffer of a read: it is copied whole while it fits, then in part.
CopyFrom(n, out, b) ==
  IF Len(out) + Len(b) <= n THEN out \o b ELSE out \o SubSeq(b, 1, n - Len(out))

\* The bytes a read copies, buffer by buffer.
Copied(l, n) ==
  LET out[i \in 0..Len(l)] == IF i = 0 THEN <<>> ELSE CopyFrom(n, out[i - 1], l[i])
  IN out[Len(l)]

xps_buffer_list_read(n) ==
  /\ request' = <<"read", n>>
  /\ answer' = IF len < n THEN <<>> ELSE Copied(list, n)
  /\ UNCHANGED <<list, len, appended>>

\* Mutants: a buffer that is exactly used up is kept, empty; a part of a buffer
\* is taken from the list's front once more for each buffer that follows.
KeepFrom_Exhausted(acc, b) ==
  IF acc.left > Len(b)
  THEN [acc EXCEPT !.left = @ - Len(b)]
  ELSE [left |-> 0, kept |-> Append(acc.kept, SubSeq(b, acc.left + 1, Len(b)))]
KeepFrom_NotSettled(acc, b) ==
  IF acc.left >= Len(b)
  THEN [acc EXCEPT !.left = @ - Len(b)]
  ELSE [acc EXCEPT !.kept = Append(@, SubSeq(b, acc.left + 1, Len(b)))]

\* One buffer of a clear: a buffer that is used up is destroyed; the rest of the
\* one that is used in part moves to its front, the others stay.
KeepFrom(acc, b) ==
  IF acc.left > 0 /\ acc.left >= Len(b)
  THEN [acc EXCEPT !.left = @ - Len(b)]
  ELSE [left |-> 0, kept |-> Append(acc.kept, SubSeq(b, acc.left + 1, Len(b)))]

\* What a clear of n bytes leaves.
Kept(l, n) ==
  LET acc[i \in 0..Len(l)] == IF i = 0 THEN [left |-> n, kept |-> <<>>] ELSE KeepFrom(acc[i - 1], l[i])
  IN acc[Len(l)].kept

\* Mutant: the length is not checked.
xps_buffer_list_clear_Unchecked(n) ==
  /\ request' = <<"clear", n>>
  /\ list' = Kept(list, n) /\ len' = len - n
  /\ UNCHANGED <<answer, appended>>

xps_buffer_list_clear(n) ==
  /\ request' = <<"clear", n>>
  /\ IF len < n THEN UNCHANGED <<list, len>>
     ELSE list' = Kept(list, n) /\ len' = len - n
  /\ UNCHANGED <<answer, appended>>

-----------------------------------------------------------------------------
Init == xps_buffer_list_create

\* The callers never ask for nothing, and one more than there is stands for all
\* requests that are too large.
Next == \/ \E n \in 1..MaxChunk : xps_buffer_list_append(n)
        \/ \E n \in 1..(len + 1) : xps_buffer_list_read(n) \/ xps_buffer_list_clear(n)

Spec == Init /\ [][Next]_vars

-----------------------------------------------------------------------------
TypeOK ==
  /\ list \in Seq(Seq(1..MaxBytes))
  /\ len \in 0..MaxBytes
  /\ answer \in Seq(1..MaxBytes)
  /\ appended \in 0..MaxBytes
  /\ request \in {"none", "append", "read", "clear"} \X (0..(MaxBytes + 1))

\* The length kept beside the list is what its buffers hold together, after any
\* appends and clears: xps_pipe_is_readable and every length check rest on it
\* (xps_buffer.c:109 and 180).
LengthInStep == len = Len(SequenceOps!FlattenSeq(list))

\* No empty buffer stays in the list, however a clear falls on its borders: the
\* list cannot grow while the pipe drains (xps_buffer.c:167-177).
NoEmptyBuffer == \A i \in 1..Len(list) : list[i] # <<>>

\* The list implements the queue of bytes that XpsPipe takes it for.
Queue == INSTANCE ByteQueue WITH
           queue <- SequenceOps!FlattenSeq(list),
           Chunk <- {Bytes(a, n) : a \in 0..MaxBytes, n \in 1..MaxChunk}
ImplementsQueue == Queue!Spec
=============================================================================
