------------------------------ MODULE ByteQueue ------------------------------
(***************************************************************************)
(* What a buffer list promises to the pipe that holds it: a queue of bytes *)
(* that is appended to at its end, read without being changed, and cleared *)
(* from its front.  A request for more than is there changes nothing.      *)
(***************************************************************************)
EXTENDS Integers, Sequences

CONSTANT Chunk    \* what may be appended at once: sequences of bytes

VARIABLES queue,    \* the bytes held
          request,  \* the last operation that was asked for, and how many bytes
          answer    \* what the last read returned, <<>> for NULL

Init == queue = <<>> /\ request = <<"none", 0>> /\ answer = <<>>

Enqueue(b) ==
  /\ request' = <<"append", Len(b)>>
  /\ queue' = queue \o b
  /\ UNCHANGED answer

Read(n) ==
  /\ request' = <<"read", n>>
  /\ answer' = IF n <= Len(queue) THEN SubSeq(queue, 1, n) ELSE <<>>
  /\ UNCHANGED queue

Clear(n) ==
  /\ request' = <<"clear", n>>
  /\ queue' = IF n <= Len(queue) THEN SubSeq(queue, n + 1, Len(queue)) ELSE queue
  /\ UNCHANGED answer

Next == \/ \E b \in Chunk : Enqueue(b)
        \/ \E n \in 1..(Len(queue) + 1) : Read(n) \/ Clear(n)

Spec == Init /\ [][Next]_<<queue, request, answer>>
=============================================================================
