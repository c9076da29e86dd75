--------------------------- MODULE XpsStreamProofs ---------------------------
(***************************************************************************)
(* Proofs about what passes through a session: the response reaches the    *)
(* client in order and whole, the request reaches the upstream.            *)
(***************************************************************************)
EXTENDS XpsSessionProofs, SequenceTheorems

USE DEF WorldOK

-----------------------------------------------------------------------------
(***************************************************************************)
(* Sequences.                                                              *)
(***************************************************************************)
LEMMA Concat ==
  /\ \A s, t \in Seq(Nat) : s \o t \in Seq(Nat)
  /\ \A s, t, r \in Seq(Nat) : (s \o t) \o r = s \o (t \o r)
  /\ \A s \in Seq(Nat) : s \o <<>> = s /\ <<>> \o s = s
  /\ <<>> \in Seq(Nat) /\ Head0 \in Seq(Nat) /\ Head0 # <<>>
<1>1. \A s, t \in Seq(Nat) : s \o t \in Seq(Nat)
  BY ConcatProperties
<1>2. \A s, t, r \in Seq(Nat) : (s \o t) \o r = s \o (t \o r)
  <2> DEFINE S == Nat
  <2> SUFFICES ASSUME NEW s \in Seq(S), NEW t \in Seq(S), NEW r \in Seq(S)
               PROVE  (s \o t) \o r = s \o (t \o r)
    OBVIOUS
  <2> HIDE DEF S
  <2> QED
    BY SMTT(30)
<1>3. \A s \in Seq(Nat) : s \o <<>> = s /\ <<>> \o s = s
  BY ConcatEmptySeq
<1>4. Head0 # <<>>
  BY DEF Head0
<1> QED
  BY <1>1, <1>2, <1>3, <1>4, SequenceTypes, Zenon

LEMMA Split ==
  ASSUME NEW s \in Seq(Nat), NEW n \in Nat, n <= Len(s)
  PROVE  /\ SubSeq(s, 1, n) \in Seq(Nat) /\ SubSeq(s, n + 1, Len(s)) \in Seq(Nat)
         /\ SubSeq(s, 1, n) \o SubSeq(s, n + 1, Len(s)) = s
<1>1. Len(s) \in Nat
  BY LenProperties
<1>2. /\ 1 \in 1..(Len(s) + 1) /\ n \in (1 - 1)..Len(s) /\ Len(s) \in n..Len(s)
  BY <1>1
<1>3. SubSeq(s, 1, n) \o SubSeq(s, n + 1, Len(s)) = SubSeq(s, 1, Len(s))
  BY <1>2, ConcatAdjacentSubSeq, Zenon
<1>4. SubSeq(s, 1, Len(s)) = s
  BY SubSeqFull, Zenon
<1> QED
  BY <1>3, <1>4, SequenceTypes, Zenon

LEMMA ClearedWhole ==
  ASSUME NEW s \in Seq(Nat)
  PROVE  SubSeq(s, Len(s) + 1, Len(s)) = <<>>
BY LenProperties, SubSeqEmpty

\* Numbers in a row.
LEMMA Row ==
  ASSUME NEW a \in Nat \ {0}, NEW n \in Nat
  PROVE  /\ From(a, n) \in Seq(Nat) /\ Len(From(a, n)) = n
         /\ \A i \in 1..n : From(a, n)[i] = a + i - 1
BY FromType DEF From

LEMMA RowsJoin ==
  ASSUME NEW a \in Nat \ {0}, NEW m \in Nat, NEW n \in Nat
  PROVE  From(a, m) \o From(a + m, n) = From(a, m + n)
<1> DEFINE s == From(a, m)
           t == From(a + m, n)
           w == From(a, m + n)
<1>1. s \in Seq(Nat) /\ Len(s) = m /\ \A i \in 1..m : s[i] = a + i - 1
  BY Row
<1>2. t \in Seq(Nat) /\ Len(t) = n /\ \A i \in 1..n : t[i] = a + m + i - 1
  <2>1. a + m \in Nat \ {0}
    OBVIOUS
  <2> QED
    BY <2>1, Row
<1>3. w \in Seq(Nat) /\ Len(w) = m + n /\ \A i \in 1..(m + n) : w[i] = a + i - 1
  <2>1. m + n \in Nat
    OBVIOUS
  <2> QED
    BY <2>1, Row
<1> HIDE DEF s, t, w
<1>4. /\ s \o t \in Seq(Nat) /\ Len(s \o t) = Len(s) + Len(t)
      /\ \A i \in 1..(Len(s) + Len(t)) : (s \o t)[i] = IF i <= Len(s) THEN s[i] ELSE t[i - Len(s)]
  BY <1>1, <1>2, ConcatProperties, Zenon
<1>5. ASSUME NEW i \in 1..(m + n)
      PROVE  (s \o t)[i] = w[i]
  <2>1. CASE i <= m
    <3>1. i \in 1..m
      BY <2>1
    <3>2. (s \o t)[i] = s[i]
      BY <1>1, <1>2, <1>4, <2>1
    <3> QED
      BY <3>1, <3>2, <1>1, <1>3
  <2>2. CASE ~(i <= m)
    <3>1. i - m \in 1..n
      BY <2>2
    <3>2. (s \o t)[i] = t[i - m]
      BY <1>1, <1>2, <1>4, <2>2
    <3>3. t[i - m] = a + m + (i - m) - 1
      BY <3>1, <1>2
    <3> QED
      BY <3>2, <3>3, <1>3
  <2> QED
    BY <2>1, <2>2
<1>6. s \o t = w
  <2>1. Len(s \o t) = Len(w) /\ \A i \in 1..Len(s \o t) : (s \o t)[i] = w[i]
    BY <1>1, <1>2, <1>3, <1>4, <1>5
  <2> QED
    BY <2>1, <1>3, <1>4, SeqEqual, Zenon
<1> QED
  BY <1>6 DEF s, t, w

LEMMA RowGrows ==
  ASSUME NEW n \in Nat
  PROVE  Append(From(1, n), n + 1) = From(1, n + 1)
<1>1. From(1, n) \in Seq(Nat) /\ From(1 + n, 1) = <<n + 1>>
  BY Row DEF From
<1>2. Append(From(1, n), n + 1) = From(1, n) \o <<n + 1>>
  BY <1>1, AppendIsConcat
<1>3. From(1, n) \o From(1 + n, 1) = From(1, n + 1)
  <2>1. 1 \in Nat \ {0} /\ 1 \in Nat
    OBVIOUS
  <2> QED
    BY <2>1, RowsJoin, Zenon
<1> QED
  BY <1>1, <1>2, <1>3

LEMMA NoRow == From(1, 0) = <<>>
BY DEF From

-----------------------------------------------------------------------------
(***************************************************************************)
(* The algebra of texts.  Text and Join are names the provers do not look  *)
(* into: what they need of them is in these lemmas.                        *)
(***************************************************************************)
Text == Seq(Nat)
Join(s, t) == s \o t

LEMMA Texts ==
  /\ <<>> \in Text /\ Head0 \in Text /\ Head0 # <<>>
  /\ \A s, t \in Text : Join(s, t) \in Text
  /\ \A s, t, r \in Text : Join(Join(s, t), r) = Join(s, Join(t, r))
  /\ \A s \in Text : Join(s, <<>>) = s /\ Join(<<>>, s) = s
  /\ \A s, t \in Text : Join(s, t) = <<>> => s = <<>> /\ t = <<>>
<1>1. \A s, t \in Text : Join(s, t) = <<>> => s = <<>> /\ t = <<>>
  BY ConcatEqualIffEmpty DEF Text, Join
<1> QED
  BY <1>1, Concat, Zenon DEF Text, Join

\* s is the beginning of t.
Begins(s, t) == \E r \in Text : Join(s, r) = t

LEMMA BeginsTrue ==
  /\ \A s \in Text : Begins(s, s) /\ Begins(<<>>, s)
  /\ \A s, t \in Text : Begins(s, Join(s, t))
  /\ \A s, t, r \in Text : Begins(Join(s, t), r) => Begins(s, r)
  /\ \A s, t, r \in Text : Begins(s, t) => Begins(s, Join(t, r))
<1>1. ASSUME NEW s \in Text, NEW t \in Text
      PROVE  Begins(s, s) /\ Begins(<<>>, s) /\ Begins(s, Join(s, t))
  BY Texts DEF Begins
<1>2. ASSUME NEW s \in Text, NEW t \in Text, NEW r \in Text, Begins(Join(s, t), r)
      PROVE  Begins(s, r)
  BY <1>2, Texts DEF Begins
<1>3. ASSUME NEW s \in Text, NEW t \in Text, NEW r \in Text, Begins(s, t)
      PROVE  Begins(s, Join(t, r))
  BY <1>3, Texts DEF Begins
<1> QED
  BY <1>1, <1>2, <1>3

LEMMA FirstBegins ==
  ASSUME NEW o \in Text, NEW t \in Text, NEW d \in Text
  PROVE  /\ Begins(o, Join(Join(o, t), d))
         /\ \A i, w \in Text : Begins(Join(Join(Join(o, t), d), i), w) => Begins(o, w)
<1>1. Join(o, t) \in Text /\ Join(Join(o, t), d) \in Text
  BY Texts
<1>2. Begins(Join(o, t), Join(Join(o, t), d)) /\ Begins(o, Join(Join(o, t), d))
  BY <1>1, BeginsTrue
<1>3. ASSUME NEW i \in Text, NEW w \in Text, Begins(Join(Join(Join(o, t), d), i), w)
      PROVE  Begins(o, w)
  <2>1. Begins(Join(Join(o, t), d), w)
    BY <1>1, <1>3, BeginsTrue
  <2>2. Begins(Join(o, t), w)
    BY <1>1, <2>1, BeginsTrue
  <2> QED
    BY <2>2, BeginsTrue
<1> QED
  BY <1>2, <1>3

LEMMA BeginsMeans ==
  ASSUME NEW s \in Text, NEW t \in Text, Begins(s, t)
  PROVE  SequenceOps!IsPrefix(s, t)
<1>1. PICK r \in Seq(Nat) : s \o r = t
  BY DEF Begins, Text, Join
<1>2. Len(s) \in Nat /\ Len(r) \in Nat /\ Len(t) = Len(s) + Len(r)
      /\ \A i \in 1..Len(s) : t[i] = s[i]
      /\ DOMAIN s = 1..Len(s) /\ DOMAIN t = 1..Len(t)
  BY <1>1, ConcatProperties, LenProperties DEF Text
<1> QED
  BY <1>2 DEF SequenceOps!IsPrefix

\* The first n chunks of i move from i to the end of d.
LEMMA Moved ==
  ASSUME NEW i \in Text, NEW n \in Nat, n <= Len(i)
  PROVE  /\ SubSeq(i, 1, n) \in Text /\ SubSeq(i, n + 1, Len(i)) \in Text
         /\ \A d \in Text :
              Join(Join(d, SubSeq(i, 1, n)), SubSeq(i, n + 1, Len(i))) = Join(d, i)
         /\ \A x, d \in Text :
              Join(Join(x, Join(d, SubSeq(i, 1, n))), SubSeq(i, n + 1, Len(i)))
                = Join(Join(x, d), i)
<1> DEFINE a == SubSeq(i, 1, n)
           b == SubSeq(i, n + 1, Len(i))
<1>1. a \in Text /\ b \in Text /\ Join(a, b) = i
  BY Split DEF Text, Join
<1> HIDE DEF a, b
<1>2. \A d \in Text : Join(Join(d, a), b) = Join(d, i)
  BY <1>1, Texts
<1>3. \A x, d \in Text : Join(Join(x, Join(d, a)), b) = Join(Join(x, d), i)
  BY <1>1, <1>2, Texts
<1> QED
  BY <1>1, <1>2, <1>3 DEF a, b

LEMMA Taken ==
  ASSUME NEW i \in Text
  PROVE  SubSeq(i, Len(i) + 1, Len(i)) = <<>>
BY ClearedWhole DEF Text

LEMMA Rows ==
  /\ \A n \in Nat : From(1, n) \in Text /\ Append(From(1, n), n + 1) = From(1, n + 1)
  /\ From(1, 0) = <<>>
  /\ \A m, n \in Nat : From(1 + m, n) \in Text
                       /\ Join(From(1, m), From(1 + m, n)) = From(1, m + n)
<1>1. ASSUME NEW n \in Nat
      PROVE  From(1, n) \in Text /\ Append(From(1, n), n + 1) = From(1, n + 1)
  <2>1. From(1, n) \in Text
    BY Row DEF Text
  <2> QED
    BY <2>1, RowGrows, Zenon
<1>2. ASSUME NEW m \in Nat, NEW n \in Nat
      PROVE  From(1 + m, n) \in Text /\ Join(From(1, m), From(1 + m, n)) = From(1, m + n)
  <2>1. 1 + m \in Nat \ {0} /\ 1 \in Nat \ {0}
    OBVIOUS
  <2> QED
    BY <2>1, Row, RowsJoin, Zenon DEF Text, Join
<1> QED
  BY <1>1, <1>2, NoRow

\* The next chunk arrives at the end of i.
LEMMA Arrived ==
  ASSUME NEW i \in Text, NEW n \in Nat
  PROVE  /\ Append(i, n + 1) \in Text
         /\ \A x \in Text : Join(x, i) = From(1, n) => Join(x, Append(i, n + 1)) = From(1, n + 1)
         /\ i = From(1, n) => Append(i, n + 1) = From(1, n + 1)
         /\ \A x \in Text : Join(x, Append(i, n + 1)) = Join(Join(x, i), <<n + 1>>)
         /\ <<n + 1>> \in Text
<1>1. <<n + 1>> \in Text /\ \A s \in Text : Append(s, n + 1) = Join(s, <<n + 1>>)
  BY AppendIsConcat DEF Text, Join
<1>2. From(1, n) \in Text /\ Append(From(1, n), n + 1) = From(1, n + 1)
  BY Rows, Zenon
<1> DEFINE new == <<n + 1>>
           all == From(1, n)
           grown == Append(i, n + 1)
<1>3. new \in Text /\ grown = Join(i, new) /\ all \in Text /\ Join(all, new) = From(1, n + 1)
  BY <1>1, <1>2
<1> HIDE DEF new, all, grown
<1>4. ASSUME NEW x \in Text
      PROVE  Join(x, grown) = Join(Join(x, i), new)
  BY <1>3, Texts
<1>5. grown \in Text /\ (i = all => grown = From(1, n + 1))
  BY <1>3, Texts
<1>6. ASSUME NEW x \in Text, Join(x, i) = all
      PROVE  Join(x, grown) = From(1, n + 1)
  BY <1>3, <1>4, <1>6
<1> QED
  BY <1>3, <1>4, <1>5, <1>6 DEF new, all, grown

-----------------------------------------------------------------------------
(***************************************************************************)
(* Clients do not touch one another: what a handler changes belongs to the *)
(* client its pipe is of.                                                  *)
(***************************************************************************)
Local(c) ==
  /\ \A p \in Pipe : p[2] # c => /\ slot'[p] = slot[p] /\ buf'[p] = buf[p]
                                 /\ src'[p] = src[p] /\ snk'[p] = snk[p]
  /\ \A k \in Conn : k[2] # c => sock'[k] = sock[k] /\ sent'[k] = sent[k] /\ fed'[k] = fed[k]
  /\ \A d \in Client : d # c => ses'[d] = ses[d] /\ file'[d] = file[d]

LEMMA Owners ==
  /\ \A c \in Client : /\ C2S(c)[2] = c /\ S2C(c)[2] = c /\ S2U(c)[2] = c
                       /\ U2S(c)[2] = c /\ F2S(c)[2] = c
                       /\ ClientConn(c)[2] = c /\ UpstreamConn(c)[2] = c
  /\ \A k \in Conn : k[2] \in Client /\ SourcePipe(k)[2] = k[2] /\ SinkPipe(k)[2] = k[2]
BY DEF C2S, S2C, S2U, U2S, F2S, ClientConn, UpstreamConn, Conn, SourcePipe, SinkPipe

\* The state functions, under names their types are all the provers need.
LEMMA States ==
  ASSUME WorldOK
  PROVE  /\ slot \in [Pipe -> Nat] /\ buf \in [Pipe -> Seq(Nat)]
         /\ src \in Ends /\ snk \in Ends
         /\ src \in [Pipe -> End] /\ snk \in [Pipe -> End]
         /\ sock \in [Conn -> Socket] /\ sent \in [Conn -> Seq(Nat)] /\ fed \in [Conn -> Nat]
         /\ ses \in [Client -> Session] /\ file \in [Client -> File]
BY DEF PipeTypeOK, SocketTypeOK, SessionTypeOK, Ends

LEMMA ConnectionLocal ==
  ASSUME WorldOK, NEW k \in Conn,
         \/ connection_source_handler(k) \/ connection_sink_handler(k)
         \/ connection_source_close_handler(k) \/ connection_sink_close_handler(k)
  PROVE  Local(k[2])
<1> USE States, Owners, ConnPipeTypes
<1>1. CASE connection_source_handler(k)
  <2>1. UnchangedList /\ UNCHANGED <<sent, fed, ses, file>>
    BY <1>1 DEF connection_source_handler
  <2>2. \A p \in Pipe : p[2] # k[2] => buf'[p] = buf[p]
    BY <1>1 DEF connection_source_handler, xps_pipe_source_write
  <2>3. \A p \in Pipe : p[2] # k[2] => src'[p] = src[p] /\ snk'[p] = snk[p]
    BY <1>1 DEF connection_source_handler, connection_close
  <2>4. \A h \in Conn : h[2] # k[2] => sock'[h] = sock[h]
    BY <1>1 DEF connection_source_handler, connection_close
  <2> QED
    BY <2>1, <2>2, <2>3, <2>4 DEF UnchangedList, Local
<1>2. CASE connection_sink_handler(k)
  <2> DEFINE p == SinkPipe(k)
             n == SendLen(k, Len(buf[p]))
  <2>0. UnchangedList /\ UNCHANGED <<fed, ses, file>>
    BY <1>2 DEF connection_sink_handler
  <2>1. CASE connection_close(k) /\ UNCHANGED <<buf, sent>>
    BY <2>0, <2>1 DEF connection_close, UnchangedList, Local
  <2>2. CASE /\ snk' = [snk EXCEPT ![p].ready = FALSE]
             /\ sock' = [sock EXCEPT ![k].nospace = TRUE]
             /\ UNCHANGED <<src, buf, sent>>
    BY <2>0, <2>2 DEF UnchangedList, Local
  <2>3. CASE /\ sent' = [sent EXCEPT ![k] = @ \o SubSeq(buf[p], 1, n)]
             /\ sock' = [sock EXCEPT ![k].room = @ - n, ![k].nospace = n < Len(buf[p])]
             /\ xps_pipe_sink_clear(p, n)
             /\ UNCHANGED <<src, snk>>
    <3>1. \A h \in Conn : h # k => sock'[h] = sock[h]
      BY <2>3
    <3>2. \A h \in Conn : h # k => sent'[h] = sent[h]
      BY <2>3
    <3>3. \A q \in Pipe : q # p => buf'[q] = buf[q]
      BY <2>3 DEF xps_pipe_sink_clear
    <3> QED
      BY <2>0, <2>3, <3>1, <3>2, <3>3 DEF UnchangedList, Local
  <2> QED
    BY <1>2, <2>1, <2>2, <2>3 DEF connection_sink_handler
<1>3. CASE connection_source_close_handler(k)
  BY <1>3 DEF connection_source_close_handler, connection_close, UnchangedList, Local
<1>4. CASE connection_sink_close_handler(k)
  BY <1>4 DEF connection_sink_close_handler, connection_close, UnchangedList, Local
<1> QED
  BY <1>1, <1>2, <1>3, <1>4

\* Ends of other clients in S and K.
SparesEnds(c, S, K) == \A p \in Pipe : p[2] # c => S[p] = src[p] /\ K[p] = snk[p]

LEMMA SettersLocal ==
  ASSUME WorldOK, NEW c \in Client, NEW S \in Ends, NEW K \in Ends, NEW b \in BOOLEAN,
         SparesEnds(c, S, K)
  PROVE  /\ SparesEnds(c, ToSources(S, c, b), ToSinks(K, c, b))
         /\ SparesEnds(c, FromSources(S, c, b), FromSinks(K, c, b))
         /\ SparesEnds(c, SourcesWithout(S, c), SinksWithout(K, c))
<1>1. /\ S \in [Pipe -> End] /\ K \in [Pipe -> End]
      /\ \A p \in Pipe : p[2] # c => p \notin {C2S(c), S2C(c), S2U(c), U2S(c), F2S(c)}
  BY Owners DEF Ends
<1> SUFFICES ASSUME NEW p \in Pipe, p[2] # c
             PROVE  /\ ToSources(S, c, b)[p] = S[p] /\ ToSinks(K, c, b)[p] = K[p]
                    /\ FromSources(S, c, b)[p] = S[p] /\ FromSinks(K, c, b)[p] = K[p]
                    /\ SourcesWithout(S, c)[p] = S[p] /\ SinksWithout(K, c)[p] = K[p]
  BY DEF SparesEnds
<1>2. p \notin {C2S(c), S2C(c), S2U(c), U2S(c), F2S(c)}
  BY <1>1
<1>3. ToSources(S, c, b)[p] = S[p] /\ FromSources(S, c, b)[p] = S[p]
  BY <1>1, <1>2 DEF ToSources, FromSources
<1>4. ToSinks(K, c, b)[p] = K[p] /\ FromSinks(K, c, b)[p] = K[p]
  BY <1>1, <1>2 DEF ToSinks, FromSinks
<1>5. SourcesWithout(S, c)[p] = S[p] /\ SinksWithout(K, c)[p] = K[p]
  BY <1>1, <1>2 DEF SourcesWithout, SinksWithout
<1> QED
  BY <1>3, <1>4, <1>5

LEMMA CheckLocal ==
  ASSUME WorldOK, NEW c \in Client, NEW S \in Ends, NEW K \in Ends, NEW r,
         SparesEnds(c, S, K), session_check_destroy(c, S, K, r)
  PROVE  /\ SparesEnds(c, src', snk')
         /\ \A d \in Client : d # c => ses'[d] = ses[d]
<1>1. SparesEnds(c, SourcesWithout(S, c), SinksWithout(K, c))
  BY SettersLocal
<1> QED
  BY <1>1, States DEF session_check_destroy, xps_session_destroy

LEMMA SessionLocal ==
  ASSUME WorldOK, NEW c \in Client,
         \/ client_source_handler(c) \/ upstream_source_handler(c)
         \/ upstream_sink_handler(c) \/ file_sink_handler(c)
         \/ client_source_close_handler(c) \/ client_sink_close_handler(c)
         \/ upstream_source_close_handler(c) \/ upstream_sink_close_handler(c)
         \/ file_sink_close_handler(c)
  PROVE  Local(c)
<1>0. /\ SparesEnds(c, src, snk) /\ FALSE \in BOOLEAN /\ TRUE \in BOOLEAN
      /\ \A b \in BOOLEAN : /\ ToSources(src, c, b) \in Ends /\ ToSinks(snk, c, b) \in Ends
                            /\ FromSources(src, c, b) \in Ends /\ FromSinks(snk, c, b) \in Ends
      /\ \A b \in BOOLEAN : /\ SparesEnds(c, ToSources(src, c, b), ToSinks(snk, c, b))
                            /\ SparesEnds(c, FromSources(src, c, b), FromSinks(snk, c, b))
  <2>1. SparesEnds(c, src, snk)
    BY DEF SparesEnds
  <2> QED
    BY <2>1, SettersLocal, States, FlagTypes
<1>01. ASSUME NEW p \in Pipe, p[2] = c
      PROVE  /\ SourceInactive(p) \in Ends /\ SparesEnds(c, SourceInactive(p), snk)
             /\ SinkInactive(p) \in Ends /\ SparesEnds(c, src, SinkInactive(p))
  <2>1. SourceInactive(p) \in Ends /\ SinkInactive(p) \in Ends
    BY States, EndsUpdate DEF SourceInactive, SinkInactive
  <2>2. \A q \in Pipe : q # p => SourceInactive(p)[q] = src[q] /\ SinkInactive(p)[q] = snk[q]
    BY States DEF SourceInactive, SinkInactive
  <2> QED
    BY <1>01, <2>1, <2>2 DEF SparesEnds
<1>1. \A p \in {S2C(c), S2U(c)} : SourceInactive(p) \in Ends /\ SparesEnds(c, SourceInactive(p), snk)
  BY <1>01, Names, Owners
<1>2. \A p \in {C2S(c), U2S(c), F2S(c)} : SinkInactive(p) \in Ends /\ SparesEnds(c, src, SinkInactive(p))
  BY <1>01, Names, Owners
<1>3. /\ SparesEnds(c, src', snk') /\ \A d \in Client : d # c => ses'[d] = ses[d]
      /\ UnchangedList /\ UNCHANGED <<sock, sent, fed, file>>
  <2>1. CASE client_source_handler(c)
    BY <1>0, <2>1, States, CheckLocal DEF client_source_handler
  <2>2. CASE upstream_source_handler(c)
    BY <1>0, <2>2, States, CheckLocal DEF upstream_source_handler
  <2>3. CASE upstream_sink_handler(c)
    BY <1>0, <2>3, States DEF upstream_sink_handler
  <2>4. CASE file_sink_handler(c)
    BY <1>0, <2>4, States DEF file_sink_handler
  <2>5. CASE client_source_close_handler(c) \/ upstream_source_close_handler(c)
    BY <1>1, <2>5, States, CheckLocal
    DEF client_source_close_handler, upstream_source_close_handler, CloseSessionEnd
  <2>6. CASE \/ client_sink_close_handler(c) \/ upstream_sink_close_handler(c)
             \/ file_sink_close_handler(c)
    BY <1>2, <2>6, States, CheckLocal
    DEF client_sink_close_handler, upstream_sink_close_handler, file_sink_close_handler,
        CloseSessionEnd
  <2> QED
    BY <2>1, <2>2, <2>3, <2>4, <2>5, <2>6
<1>4. \A p \in Pipe : p[2] # c => buf'[p] = buf[p]
  <2> SUFFICES ASSUME NEW p \in Pipe, p[2] # c PROVE buf'[p] = buf[p]
    OBVIOUS
  <2>1. p \notin {C2S(c), S2C(c), S2U(c), U2S(c), F2S(c)} /\ buf \in [Pipe -> Seq(Nat)]
    BY Owners, States
  <2>2. CASE client_source_handler(c) \/ upstream_source_handler(c)
    BY <2>1, <2>2 DEF client_source_handler, upstream_source_handler, xps_pipe_source_write
  <2>3. CASE upstream_sink_handler(c) \/ file_sink_handler(c)
    BY <2>1, <2>3 DEF upstream_sink_handler, file_sink_handler, xps_pipe_sink_clear
  <2>4. CASE UNCHANGED buf
    BY <2>4
  <2> QED
    BY <2>2, <2>3, <2>4
    DEF client_source_close_handler, upstream_source_close_handler, client_sink_close_handler,
        upstream_sink_close_handler, file_sink_close_handler, CloseSessionEnd
<1> QED
  BY <1>3, <1>4 DEF Local, SparesEnds, UnchangedList

LEMMA FileLocal ==
  ASSUME WorldOK, NEW c \in Client, file_source_handler(c) \/ file_source_close_handler(c)
  PROVE  Local(c)
<1> USE States, Owners, Names
<1>0. UnchangedList /\ UNCHANGED <<snk, sock, sent, fed, ses>>
  BY DEF file_source_handler, file_source_close_handler
<1>1. CASE \E why : FileDestroy(c, why)
  BY <1>0, <1>1 DEF FileDestroy, UnchangedList, Local
<1>2. CASE \E n, b : /\ xps_pipe_source_write(F2S(c), b)
                     /\ file' = [file EXCEPT ![c].left = @ - n]
                     /\ UNCHANGED src
  BY <1>0, <1>2 DEF xps_pipe_source_write, UnchangedList, Local
<1> QED
  BY <1>1, <1>2 DEF file_source_handler, file_source_close_handler

LEMMA RequestLocal ==
  ASSUME WorldOK, NEW c \in Client, client_sink_handler(c)
  PROVE  Local(c)
<1> USE States, Owners, Names
<1>0. /\ \A b \in BOOLEAN : /\ SparesEnds(c, ToSources(src, c, b), ToSinks(snk, c, b))
                            /\ SparesEnds(c, FromSources(src, c, b), FromSinks(snk, c, b))
      /\ SparesEnds(c, ParsedSources(c), ParsedSinks(c))
      /\ ParsedSources(c) \in Ends /\ ParsedSinks(c) \in Ends
      /\ TRUE \in BOOLEAN
  <2>1. SparesEnds(c, src, snk)
    BY DEF SparesEnds
  <2> QED
    BY <2>1, SettersLocal, SessionFields DEF ParsedSources, ParsedSinks
<1>1. /\ SparesEnds(c, SourcesWithout(src, c), SinksWithout(snk, c))
      /\ SparesEnds(c, ToSources(ParsedSources(c), c, TRUE), ToSinks(ParsedSinks(c), c, TRUE))
      /\ ToSources(ParsedSources(c), c, TRUE) \in Ends /\ ToSinks(ParsedSinks(c), c, TRUE) \in Ends
  <2>1. SparesEnds(c, src, snk)
    BY DEF SparesEnds
  <2> QED
    BY <1>0, <2>1, SettersLocal, FlagTypes
<1>2. UNCHANGED <<sent, fed>>
  BY DEF client_sink_handler
<1>9. /\ \A p \in Pipe : p[2] # c => p \notin {C2S(c), S2C(c), S2U(c), U2S(c), F2S(c)}
      /\ \A p \in Pipe : xps_pipe_sink_clear(C2S(c), Len(buf[C2S(c)])) /\ p[2] # c => buf'[p] = buf[p]
      /\ \A h \in Conn : h[2] # c => h # UpstreamConn(c)
  BY DEF xps_pipe_sink_clear
<1>10. ASSUME SparesEnds(c, src', snk'),
              \A p \in Pipe : p[2] # c => buf'[p] = buf[p] /\ slot'[p] = slot[p],
              \A h \in Conn : h[2] # c => sock'[h] = sock[h],
              \A d \in Client : d # c => ses'[d] = ses[d] /\ file'[d] = file[d]
       PROVE  Local(c)
  BY <1>2, <1>10 DEF Local, SparesEnds
<1> USE <1>9
<1>3. CASE BadRequest(c)
  <2>1. SparesEnds(c, src', snk')
    BY <1>0, <1>3 DEF BadRequest
  <2>2. \A d \in Client : d # c => ses'[d] = ses[d]
    BY <1>3 DEF BadRequest
  <2> QED
    BY <1>3, <1>10, <2>1, <2>2 DEF BadRequest, UnchangedList
<1>4. CASE ReplyOnly(c)
  <2>1. SparesEnds(c, src', snk')
    BY <1>1, <1>4 DEF ReplyOnly
  <2>2. \A d \in Client : d # c => ses'[d] = ses[d]
    BY <1>4 DEF ReplyOnly
  <2> QED
    BY <1>4, <1>10, <2>1, <2>2 DEF ReplyOnly, UnchangedList
<1>5. CASE ServeFile(c)
  <2>1. \A p \in Pipe : p[2] # c =>
          /\ src'[p] = ToSources(ParsedSources(c), c, TRUE)[p]
          /\ snk'[p] = ToSinks(ParsedSinks(c), c, TRUE)[p]
    BY <1>1, <1>5 DEF ServeFile, Ends
  <2>2. SparesEnds(c, src', snk')
    BY <1>1, <2>1 DEF SparesEnds
  <2>3. \A d \in Client : d # c => ses'[d] = ses[d] /\ file'[d] = file[d]
    BY <1>5 DEF ServeFile
  <2>4. \A p \in Pipe : p[2] # c => slot'[p] = slot[p]
    BY <1>5 DEF ServeFile, PushPipe
  <2> QED
    BY <1>5, <1>10, <2>2, <2>3, <2>4 DEF ServeFile
<1>6. CASE ReverseProxy(c)
  <2>1. \A p \in Pipe : p[2] # c => src'[p] = ParsedSources(c)[p] /\ snk'[p] = ParsedSinks(c)[p]
    BY <1>0, <1>6 DEF ReverseProxy, Ends
  <2>2. SparesEnds(c, src', snk')
    BY <1>0, <2>1 DEF SparesEnds
  <2>3. \A d \in Client : d # c => ses'[d] = ses[d] /\ file'[d] = file[d]
    BY <1>6 DEF ReverseProxy
  <2>4. \A p \in Pipe : p[2] # c => slot'[p] = slot[p]
    BY <1>6 DEF ReverseProxy, PushPipes
  <2>5. \A h \in Conn : h[2] # c => sock'[h] = sock[h]
    BY <1>6 DEF ReverseProxy
  <2> QED
    BY <1>6, <1>10, <2>2, <2>3, <2>4, <2>5 DEF ReverseProxy
<1>7. CASE InvalidRoute(c)
  <2>1. SparesEnds(c, src', snk')
    BY <1>1, <1>7 DEF InvalidRoute, xps_session_destroy
  <2>2. \A d \in Client : d # c => ses'[d] = ses[d]
    BY <1>7 DEF InvalidRoute, xps_session_destroy
  <2> QED
    BY <1>7, <1>10, <2>1, <2>2 DEF InvalidRoute, UnchangedList
<1>8. CASE /\ ses' = [ses EXCEPT ![c].from = buf[C2S(c)]]
           /\ src' = FromSources(src, c, TRUE)
           /\ snk' = FromSinks(snk, c, TRUE)
           /\ xps_pipe_sink_clear(C2S(c), Len(buf[C2S(c)]))
           /\ UnchangedList
           /\ UNCHANGED <<sock, file>>
  <2>1. \A d \in Client : d # c => ses'[d] = ses[d]
    BY <1>8
  <2>2. \A p \in Pipe : p[2] # c => buf'[p] = buf[p]
    BY <1>8 DEF xps_pipe_sink_clear
  <2>3. SparesEnds(c, src', snk')
    BY <1>0, <1>8 DEF SparesEnds
  <2> QED
    BY <1>2, <1>8, <2>1, <2>2, <2>3 DEF UnchangedList, Local, SparesEnds
<1> QED
  BY <1>3, <1>4, <1>5, <1>6, <1>7, <1>8 DEF client_sink_handler, session_process_request

LEMMA AcceptLocal ==
  ASSUME WorldOK, NEW c \in Client, xps_session_create(c)
  PROVE  Local(c)
<1> USE States, Owners, Names
<1>0. \A p \in Pipe : p[2] # c => p \notin {C2S(c), S2C(c), S2U(c), U2S(c), F2S(c)}
  OBVIOUS
<1>1. \A p \in Pipe : p[2] # c => src'[p] = src[p]
  BY <1>0, Zenon DEF xps_session_create
<1>2. \A p \in Pipe : p[2] # c => snk'[p] = snk[p]
  BY <1>0, Zenon DEF xps_session_create
<1>3. \A p \in Pipe : p[2] # c => slot'[p] = slot[p]
  BY DEF xps_session_create, PushPipes
<1>4. \A k \in Conn : k[2] # c => sock'[k] = sock[k]
  BY DEF xps_session_create
<1>5. \A d \in Client : d # c => ses'[d] = ses[d]
  BY DEF xps_session_create
<1> QED
  BY <1>1, <1>2, <1>3, <1>4, <1>5 DEF xps_session_create, Local

LEMMA HandlerLocal ==
  ASSUME WorldOK, NEW p \in Pipe,
         SourceHandler(p) \/ SinkHandler(p) \/ SourceCloseHandler(p) \/ SinkCloseHandler(p)
  PROVE  Local(p[2])
<1> DEFINE c == p[2]
<1>0. /\ c \in Client /\ ClientConn(c) \in Conn /\ UpstreamConn(c) \in Conn
      /\ ClientConn(c)[2] = c /\ UpstreamConn(c)[2] = c
  BY PipeCases, Names, Owners
<1> HIDE DEF c
<1>1. CASE SourceHandler(p)
  BY <1>0, <1>1, ConnectionLocal, SessionLocal, FileLocal DEF SourceHandler, c
<1>2. CASE SinkHandler(p)
  BY <1>0, <1>2, ConnectionLocal, SessionLocal, RequestLocal DEF SinkHandler, c
<1>3. CASE SourceCloseHandler(p)
  BY <1>0, <1>3, ConnectionLocal, SessionLocal, FileLocal DEF SourceCloseHandler, c
<1>4. CASE SinkCloseHandler(p)
  BY <1>0, <1>4, ConnectionLocal, SessionLocal DEF SinkCloseHandler, c
<1> QED
  BY <1>1, <1>2, <1>3, <1>4 DEF c

-----------------------------------------------------------------------------
(***************************************************************************)
(* The response.  A client passes through stages: it has no session yet;   *)
(* its session has nothing to pass on but a reply of its own; the session  *)
(* serves a file; it relays an upstream; it has ended.  Each says where    *)
(* the response is on its way and which ends keep the session.             *)
(* S, K, r, o: the sources, the sinks, the session, and what its pipe to   *)
(* the client holds or the client was sent.                                *)
(***************************************************************************)
Out(c) == Join(sent[ClientConn(c)], buf[S2C(c)])

NoUpstream(c) ==
  LET u == UpstreamConn(c)
  IN /\ sock[u].st = "none" /\ sock[u].in = <<>> /\ ~sock[u].fin /\ ~sock[u].rst
     /\ fed[u] = 0 /\ buf[U2S(c)] = <<>>

NoUpstreamEnds(c, S, K) == /\ ~S[S2U(c)].on /\ ~S[S2U(c)].active
                           /\ ~K[U2S(c)].on /\ ~K[U2S(c)].active

NoFile(c) == file[c].st = "none" /\ file[c].left = FileSize /\ buf[F2S(c)] = <<>>

NoFileEnds(c, K) == ~K[F2S(c)].on /\ ~K[F2S(c)].active

\* While the client is there, so is its side of the session.
Held(c, S, K) == ConnOpen(ClientConn(c)) => S[S2C(c)].active /\ K[C2S(c)].active

\* x has gone on from the file of c, from the upstream of c.
Served(c, x) ==
  /\ file[c].st # "none"
  /\ Join(x, buf[F2S(c)]) = Join(Head0, From(1, FileSize - file[c].left))
  /\ file[c].st = "closed" => file[c].left = 0

Relayed(c, x) ==
  LET u == UpstreamConn(c)
      all == Join(Join(x, buf[U2S(c)]), sock[u].in)
  IN /\ sock[u].st # "none"
     /\ Begins(all, From(1, fed[u]))
     /\ ~sock[u].rst => all = From(1, fed[u])
     /\ ~ConnOpen(u) => sock[u].in = <<>> /\ (sock[u].fin \/ sock[u].rst)

Own(c, S, K, r, o) ==
  /\ NoUpstream(c) /\ NoUpstreamEnds(c, S, K) /\ NoFile(c) /\ NoFileEnds(c, K)
  /\ o = <<>> /\ r.to \in {<<>>, Head0}
  /\ r.req => r.to = Head0
  /\ ~r.req => r.from = <<>>

Serving(c, S, K, r, o) ==
  /\ NoUpstream(c) /\ NoUpstreamEnds(c, S, K)
  /\ r.req
  /\ Served(c, Join(o, r.to))
  /\ K[F2S(c)].on
  /\ K[F2S(c)].active \/ (file[c].st # "open" /\ buf[F2S(c)] = <<>>)

Relaying(c, S, K, r, o) ==
  /\ NoFile(c) /\ NoFileEnds(c, K)
  /\ r.req
  /\ Relayed(c, Join(o, r.to))
  /\ S[S2U(c)].on /\ K[U2S(c)].on
  /\ K[U2S(c)].active \/ (~ConnOpen(UpstreamConn(c)) /\ buf[U2S(c)] = <<>>)

Alive(c, S, K, r, o) ==
  /\ r.live /\ ~NotYet(ClientConn(c)) /\ Held(c, S, K)
  /\ Own(c, S, K, r, o) \/ Serving(c, S, K, r, o) \/ Relaying(c, S, K, r, o)

Fresh(c) == /\ ses[c] = NoSession /\ NotYet(ClientConn(c))
            /\ NoUpstream(c) /\ NoUpstreamEnds(c, src, snk) /\ NoFile(c) /\ NoFileEnds(c, snk)
            /\ Out(c) = <<>> /\ buf[C2S(c)] = <<>>

Complete(c) ==
  \/ ToClient(c) = Response(c) /\ (ServedByProxy(c) => sock[UpstreamConn(c)].fin)
  \/ ServedByProxy(c) /\ sock[UpstreamConn(c)].rst
  \/ ServedByFile(c) /\ file[c].st = "failed"
  \/ "invalid" \in Outcomes /\ ~ServedByProxy(c) /\ ~ServedByFile(c) /\ ToClient(c) = <<>>

Ended(c) == /\ ses[c] = NoSession /\ ~NotYet(ClientConn(c))
            /\ Begins(Out(c), Response(c))
            /\ sock[ClientConn(c)].st = "up" => Complete(c)

Stage(c) == Fresh(c) \/ Alive(c, src, snk, ses[c], Out(c)) \/ Ended(c)

StageInv == \A c \in Client : Stage(c)

-----------------------------------------------------------------------------
LEMMA StreamTexts ==
  ASSUME WorldOK, NEW c \in Client
  PROVE  /\ \A p \in Pipe : buf[p] \in Text
         /\ \A k \in Conn : sent[k] \in Text /\ sock[k].in \in Text /\ fed[k] \in Nat
                            /\ From(1, fed[k]) \in Text
         /\ ses[c].to \in Text /\ ses[c].from \in Text
         /\ Out(c) \in Text
         /\ file[c].left \in Nat /\ file[c].left <= FileSize
         /\ From(1, FileSize - file[c].left) \in Text /\ From(1, FileSize) \in Text
<1>1. \A p \in Pipe : buf[p] \in Text
  BY DEF PipeTypeOK, Text
<1>2. \A k \in Conn : sent[k] \in Text /\ sock[k].in \in Text /\ fed[k] \in Nat
  BY DEF SocketTypeOK, Socket, Text
<1>3. ses[c].to \in Text /\ ses[c].from \in Text
  BY SessionFields DEF Text
<1>4. file[c].left \in Nat /\ file[c].left <= FileSize /\ FileSize - file[c].left \in Nat
      /\ FileSize \in Nat
  BY SessionAssumption DEF SessionTypeOK, File
<1>5. Out(c) \in Text
  BY <1>1, <1>2, Names, Texts DEF Out
<1> QED
  BY <1>1, <1>2, <1>3, <1>4, <1>5, Rows

LEMMA ToClientOut ==
  ASSUME WorldOK, NEW c \in Client
  PROVE  /\ ToClient(c) = Join(Out(c), ses[c].to)
         /\ ses[c] = NoSession => ToClient(c) = Out(c)
<1>1. ToClient(c) = Join(Out(c), ses[c].to)
  BY DEF ToClient, Out, Join
<1>2. Join(Out(c), <<>>) = Out(c)
  BY StreamTexts, Texts
<1> QED
  BY <1>1, <1>2 DEF NoSession

\* What the stage of c depends on.
SameStream(c) ==
  LET k == ClientConn(c)
      u == UpstreamConn(c)
  IN /\ ses'[c].live = ses[c].live /\ ses'[c].req = ses[c].req /\ ses'[c].to = ses[c].to
     /\ ~ses[c].req => ses'[c].from = ses[c].from
     /\ ses[c] = NoSession => ses'[c] = NoSession
     /\ file'[c] = file[c]
     /\ NotYet(k)' = NotYet(k) /\ (ConnOpen(k)' => ConnOpen(k))
     /\ sock'[k].st = "up" => sock[k].st = "up"
     /\ (sock'[u].st = "none" <=> sock[u].st = "none") /\ ConnOpen(u)' = ConnOpen(u)
     /\ sock'[u].in = sock[u].in
     /\ sock'[u].fin = sock[u].fin /\ sock'[u].rst = sock[u].rst
     /\ fed'[u] = fed[u]
     /\ Out(c)' = Out(c) /\ buf'[U2S(c)] = buf[U2S(c)] /\ buf'[F2S(c)] = buf[F2S(c)]
     /\ NotYet(k) => buf'[C2S(c)] = buf[C2S(c)]

\* S and K agree with T and L on the ends that keep the session of c.
SameEnds(c, S, K, T, L) ==
  /\ ConnOpen(ClientConn(c)) => S[S2C(c)].active = T[S2C(c)].active
                                /\ K[C2S(c)].active = L[C2S(c)].active
  /\ S[S2U(c)].on = T[S2U(c)].on /\ S[S2U(c)].active = T[S2U(c)].active
  /\ K[U2S(c)].on = L[U2S(c)].on /\ K[U2S(c)].active = L[U2S(c)].active
  /\ K[F2S(c)].on = L[F2S(c)].on /\ K[F2S(c)].active = L[F2S(c)].active

LEMMA StageFrame ==
  ASSUME WorldOK, WorldOK', NEW c \in Client, Stage(c), SameStream(c),
         SameEnds(c, src', snk', src, snk)
  PROVE  Stage(c)'
<1> DEFINE k == ClientConn(c)
           u == UpstreamConn(c)
<1>1. /\ (NoUpstream(c)' <=> NoUpstream(c)) /\ (NoFile(c)' <=> NoFile(c))
      /\ \A x : (Served(c, x)' <=> Served(c, x)) /\ (Relayed(c, x)' <=> Relayed(c, x))
  BY DEF SameStream, NoUpstream, NoFile, Served, Relayed
<1>2. /\ (NoUpstreamEnds(c, src, snk)' <=> NoUpstreamEnds(c, src, snk))
      /\ (NoFileEnds(c, snk)' <=> NoFileEnds(c, snk))
      /\ (Held(c, src, snk) => Held(c, src, snk)')
  BY DEF SameStream, SameEnds, NoUpstreamEnds, NoFileEnds, Held
<1>3. CASE Fresh(c)
  BY <1>1, <1>2, <1>3 DEF Fresh, Stage, SameStream
<1>4. CASE Alive(c, src, snk, ses[c], Out(c))
  <2>1. Own(c, src, snk, ses[c], Out(c)) => Own(c, src, snk, ses[c], Out(c))'
    BY <1>1, <1>2 DEF Own, SameStream
  <2>2. Serving(c, src, snk, ses[c], Out(c)) => Serving(c, src, snk, ses[c], Out(c))'
    BY <1>1, <1>2 DEF Serving, SameStream, SameEnds
  <2>3. Relaying(c, src, snk, ses[c], Out(c)) => Relaying(c, src, snk, ses[c], Out(c))'
    BY <1>1, <1>2 DEF Relaying, SameStream, SameEnds
  <2> QED
    BY <1>2, <1>4, <2>1, <2>2, <2>3 DEF Alive, Stage, SameStream
<1>5. CASE Ended(c)
  <2>1. Response(c)' = Response(c) /\ ServedByProxy(c)' = ServedByProxy(c)
        /\ ServedByFile(c)' = ServedByFile(c)
    BY DEF SameStream, Response, ServedByProxy, ServedByFile
  <2>2. ToClient(c)' = ToClient(c)
    <3>1. ToClient(c)' = Join(Out(c)', ses'[c].to) /\ ToClient(c) = Join(Out(c), ses[c].to)
      BY DEF ToClient, Out, Join
    <3> QED
      BY <3>1 DEF SameStream
  <2> QED
    BY <1>5, <2>1, <2>2 DEF Ended, Complete, Stage, SameStream
<1> QED
  BY <1>3, <1>4, <1>5 DEF Stage

\* A session ends: what it has passed on is the beginning of its response, and
\* all of it if the client is there to see.
LEMMA EndsWell ==
  ASSUME WorldOK, NEW c \in Client, NEW S, NEW K, NEW r, NEW o \in Text, r.to \in Text,
         Alive(c, S, K, r, o), ~Flowing(c, S, K, r),
         Own(c, S, K, r, o) => ~ConnOpen(ClientConn(c)),
         UNCHANGED <<sock, fed, file>>, ses'[c] = NoSession, Out(c)' = o
  PROVE  Stage(c)'
<1> DEFINE k == ClientConn(c)
           u == UpstreamConn(c)
<1>0. /\ ServedByProxy(c)' = ServedByProxy(c) /\ ServedByFile(c)' = ServedByFile(c)
      /\ Response(c)' = Response(c)
      /\ ToClient(c)' = o
  <2>1. ToClient(c)' = Join(Out(c)', <<>>)
    BY DEF ToClient, Out, Join, NoSession
  <2> QED
    BY <2>1, Texts DEF ServedByProxy, ServedByFile, Response
<1>1. SUFFICES Begins(o, Response(c)) /\ (sock[k].st = "up" => Complete(c)')
  BY <1>0 DEF Stage, Ended, Alive, NotYet
<1>2. sock[k].st = "up" =>
        /\ r.to = <<>>
        /\ Serving(c, S, K, r, o) => ~K[F2S(c)].active
        /\ Relaying(c, S, K, r, o) => ~K[U2S(c)].active
        /\ ~Own(c, S, K, r, o)
  BY DEF Alive, Held, ConnOpen, Flowing
<1>3. CASE Own(c, S, K, r, o)
  <2>1. Response(c) \in Text
    BY <1>3, Texts DEF Own, NoUpstream, NoFile, Response, ServedByProxy, ServedByFile
  <2> QED
    BY <1>2, <1>3, <2>1, BeginsTrue DEF Own
<1>4. CASE Serving(c, S, K, r, o)
  <2> DEFINE w == From(1, FileSize - file[c].left)
             rest == From(1 + (FileSize - file[c].left), file[c].left)
  <2>1. ~ServedByProxy(c) /\ ServedByFile(c) /\ Response(c) = Join(Head0, From(1, FileSize))
    BY <1>4 DEF Serving, NoUpstream, Served, Response, ServedByProxy, ServedByFile, Join
  <2>2. w \in Text /\ rest \in Text /\ Join(w, rest) = From(1, FileSize)
    <3>1. /\ FileSize - file[c].left \in Nat /\ file[c].left \in Nat
          /\ (FileSize - file[c].left) + file[c].left = FileSize
      BY StreamTexts, SessionAssumption
    <3> QED
      BY <3>1, Rows
  <2>3. Join(Join(o, r.to), buf[F2S(c)]) = Join(Head0, w)
    BY <1>4 DEF Serving, Served
  <2>4. Begins(o, Join(Head0, w))
    <3>1. buf[F2S(c)] \in Text
      BY StreamTexts, Names
    <3> QED
      BY <2>3, <3>1, FirstBegins
  <2>5. Begins(o, Response(c))
    <3> HIDE DEF w, rest
    <3>1. Join(Head0, From(1, FileSize)) = Join(Join(Head0, w), rest)
      BY <2>2, Texts
    <3>2. Join(Head0, w) \in Text
      BY <2>2, Texts
    <3> QED
      BY <2>1, <2>2, <2>4, <3>1, <3>2, BeginsTrue
  <2>6. ASSUME sock[k].st = "up" PROVE Complete(c)'
    <3>1. file[c].st # "open" /\ buf[F2S(c)] = <<>> /\ r.to = <<>>
      BY <1>2, <1>4, <2>6 DEF Serving
    <3>2. CASE file[c].st = "failed"
      BY <1>0, <2>1, <3>2 DEF Complete
    <3>3. CASE file[c].st = "closed"
      <4>1. file[c].left = 0 /\ FileSize - 0 = FileSize
        BY <1>4, <3>3, SessionAssumption DEF Serving, Served
      <4>2. o = Response(c)
        BY <2>1, <2>3, <3>1, <4>1, Texts
      <4> QED
        BY <1>0, <2>1, <4>2 DEF Complete
    <3>4. file[c].st \in {"open", "closed", "failed"}
      BY <1>4 DEF Serving, Served, SessionTypeOK, File
    <3> QED
      BY <3>1, <3>2, <3>3, <3>4
  <2> QED
    BY <2>5, <2>6
<1>5. CASE Relaying(c, S, K, r, o)
  <2>1. ServedByProxy(c) /\ Response(c) = From(1, fed[u]) /\ From(1, fed[u]) \in Text
    BY <1>5, StreamTexts, Names DEF Relaying, Relayed, Response, ServedByProxy
  <2>2. Begins(Join(Join(Join(o, r.to), buf[U2S(c)]), sock[u].in), From(1, fed[u]))
    BY <1>5 DEF Relaying, Relayed
  <2>3. Begins(o, Response(c))
    <3>1. buf[U2S(c)] \in Text /\ sock[u].in \in Text
      BY StreamTexts, Names
    <3> QED
      BY <2>1, <2>2, <3>1, FirstBegins
  <2>4. ASSUME sock[k].st = "up" PROVE Complete(c)'
    <3>1. ~ConnOpen(u) /\ buf[U2S(c)] = <<>> /\ r.to = <<>>
      BY <1>2, <1>5, <2>4 DEF Relaying
    <3>2. sock[u].in = <<>> /\ (sock[u].fin \/ sock[u].rst)
      BY <1>5, <3>1 DEF Relaying, Relayed
    <3>3. ~sock[u].rst => o = Response(c)
      BY <1>5, <2>1, <3>1, <3>2, Texts DEF Relaying, Relayed
    <3> QED
      BY <1>0, <2>1, <3>2, <3>3 DEF Complete
  <2> QED
    BY <2>3, <2>4
<1> QED
  BY <1>3, <1>4, <1>5 DEF Alive

-----------------------------------------------------------------------------
(***************************************************************************)
(* The response through the handlers of connections.                       *)
(***************************************************************************)
LEMMA Closed ==
  ASSUME WorldOK, NEW k \in Conn, connection_close(k)
  PROVE  /\ sock'[k].st = "closed" /\ sock'[k].in = <<>>
         /\ sock'[k].fin = sock[k].fin /\ sock'[k].rst = sock[k].rst
         /\ \A h \in Conn : h # k => sock'[h] = sock[h]
         /\ \A p \in Pipe : p # SourcePipe(k) => src'[p] = src[p]
         /\ \A p \in Pipe : p # SinkPipe(k) => snk'[p] = snk[p]
<1>1. xps_loop_detach(sock[k]) \in Socket /\ xps_loop_detach(sock[k]).fin = sock[k].fin
      /\ xps_loop_detach(sock[k]).rst = sock[k].rst
  <2>1. sock[k] \in Socket
    BY States
  <2>2. xps_loop_detach(sock[k]) \in Socket
    BY <2>1, SocketTypes
  <2> QED
    BY <2>1, <2>2 DEF xps_loop_detach, Socket
<1>2. /\ ClosedSocket(k).st = "closed" /\ ClosedSocket(k).in = <<>>
      /\ ClosedSocket(k).fin = sock[k].fin /\ ClosedSocket(k).rst = sock[k].rst
  BY <1>1 DEF ClosedSocket, Socket
<1> QED
  BY <1>2, States DEF connection_close, Ends

\* What a handler of connection k does to its socket and to the two pipes.
LEMMA ConnectionEffect ==
  ASSUME WorldOK, NEW k \in Conn,
         \/ connection_source_handler(k) \/ connection_sink_handler(k)
         \/ connection_source_close_handler(k) \/ connection_sink_close_handler(k)
  PROVE  /\ UNCHANGED <<fed, ses, file>>
         /\ \A h \in Conn : h # k => sock'[h] = sock[h] /\ sent'[h] = sent[h]
         /\ \A p \in Pipe : p \notin {SourcePipe(k), SinkPipe(k)} => buf'[p] = buf[p]
         /\ \A p \in Pipe : p # SourcePipe(k) => src'[p] = src[p]
         /\ \A p \in Pipe : p # SinkPipe(k) => snk'[p] = snk[p]
         /\ sock'[k].fin = sock[k].fin /\ sock'[k].rst = sock[k].rst
         /\ sock'[k].st \in {sock[k].st, "closed"}
         /\ Join(sent'[k], buf'[SinkPipe(k)]) = Join(sent[k], buf[SinkPipe(k)])
         /\ \/ sock'[k].in = sock[k].in /\ buf'[SourcePipe(k)] = buf[SourcePipe(k)]
               /\ sock'[k].st = sock[k].st
            \/ /\ \E n \in Nat : /\ n <= Len(sock[k].in)
                                 /\ sock'[k].in = SubSeq(sock[k].in, n + 1, Len(sock[k].in))
                                 /\ buf'[SourcePipe(k)]
                                      = Join(buf[SourcePipe(k)], SubSeq(sock[k].in, 1, n))
               /\ sock'[k].st = sock[k].st
            \/ /\ sock'[k].st = "closed" /\ sock'[k].in = <<>>
               /\ buf'[SourcePipe(k)] = buf[SourcePipe(k)]
<1> DEFINE p == SourcePipe(k)
           q == SinkPipe(k)
<1>0. p \in Pipe /\ q \in Pipe /\ p # q /\ sock[k] \in Socket
  BY ConnPipeTypes, States, ConnCases, NamesDiffer
<1>1. CASE connection_source_handler(k)
  <2>0. UNCHANGED <<sent, fed, ses, file>>
    BY <1>1 DEF connection_source_handler
  <2>1. CASE /\ xps_pipe_source_write(p, SubSeq(sock[k].in, 1, RecvLen(k)))
             /\ sock' = [sock EXCEPT ![k].in = SubSeq(@, RecvLen(k) + 1, Len(@))]
             /\ UNCHANGED <<src, snk>>
    <3>1. /\ \A h \in Conn : h # k => sock'[h] = sock[h]
          /\ sock'[k].st = sock[k].st /\ sock'[k].fin = sock[k].fin /\ sock'[k].rst = sock[k].rst
          /\ sock'[k].in = SubSeq(sock[k].in, RecvLen(k) + 1, Len(sock[k].in))
      BY <1>0, <2>1, States DEF Socket
    <3>2. /\ buf'[p] = Join(buf[p], SubSeq(sock[k].in, 1, RecvLen(k)))
          /\ \A r \in Pipe : r # p => buf'[r] = buf[r]
      BY <1>0, <2>1, States DEF xps_pipe_source_write, Join
    <3>3. RecvLen(k) \in Nat /\ RecvLen(k) <= Len(sock[k].in)
      BY SendRecvLen
    <3> QED
      BY <1>0, <2>0, <2>1, <3>1, <3>2, <3>3
  <2>2. CASE src' = [src EXCEPT ![p].ready = FALSE] /\ UNCHANGED <<snk, buf, sock>>
    BY <1>0, <2>0, <2>2, States
  <2>3. CASE connection_close(k) /\ UNCHANGED buf /\ sock[k].in = <<>>
             /\ (sock[k].rst \/ sock[k].fin)
    BY <1>0, <1>1, <2>0, <2>3, Closed
  <2> QED
    BY <1>1, <2>1, <2>2, <2>3 DEF connection_source_handler
<1>2. CASE connection_sink_handler(k)
  <2> DEFINE n == SendLen(k, Len(buf[q]))
  <2>0. UNCHANGED <<fed, ses, file>>
    BY <1>2 DEF connection_sink_handler
  <2>1. CASE sock[k].rst /\ connection_close(k) /\ UNCHANGED <<buf, sent>>
    BY <1>0, <1>2, <2>0, <2>1, Closed
  <2>2. CASE /\ snk' = [snk EXCEPT ![q].ready = FALSE]
             /\ sock' = [sock EXCEPT ![k].nospace = TRUE]
             /\ UNCHANGED <<src, buf, sent>>
    <3>1. /\ \A h \in Conn : h # k => sock'[h] = sock[h]
          /\ sock'[k].st = sock[k].st /\ sock'[k].fin = sock[k].fin /\ sock'[k].rst = sock[k].rst
          /\ sock'[k].in = sock[k].in
      BY <1>0, <2>2, States DEF Socket
    <3>2. \A r \in Pipe : r # q => snk'[r] = snk[r]
      BY <2>2, States
    <3> QED
      BY <1>0, <2>0, <2>2, <3>1, <3>2
  <2>3. CASE /\ sent' = [sent EXCEPT ![k] = @ \o SubSeq(buf[q], 1, n)]
             /\ sock' = [sock EXCEPT ![k].room = @ - n, ![k].nospace = n < Len(buf[q])]
             /\ xps_pipe_sink_clear(q, n)
             /\ UNCHANGED <<src, snk>>
    <3>1. /\ \A h \in Conn : h # k => sock'[h] = sock[h]
          /\ sock'[k].st = sock[k].st /\ sock'[k].fin = sock[k].fin /\ sock'[k].rst = sock[k].rst
          /\ sock'[k].in = sock[k].in
      BY <1>0, <2>3, States DEF Socket
    <3>2. /\ sent'[k] = Join(sent[k], SubSeq(buf[q], 1, n))
          /\ \A h \in Conn : h # k => sent'[h] = sent[h]
      BY <2>3, States DEF Join
    <3>3. /\ buf'[q] = SubSeq(buf[q], n + 1, Len(buf[q]))
          /\ \A r \in Pipe : r # q => buf'[r] = buf[r]
      BY <1>0, <2>3, States DEF xps_pipe_sink_clear
    <3>4. Join(sent'[k], buf'[q]) = Join(sent[k], buf[q])
      <4>1. buf[q] \in Text /\ sent[k] \in Text /\ Len(buf[q]) \in Nat
        BY <1>0, States DEF Text
      <4>2. n \in Nat /\ n <= Len(buf[q])
        BY <4>1, SendRecvLen
      <4> QED
        BY <3>2, <3>3, <4>1, <4>2, Moved
    <3> QED
      BY <1>0, <2>0, <2>3, <3>1, <3>2, <3>3, <3>4
  <2> QED
    BY <1>2, <2>1, <2>2, <2>3 DEF connection_sink_handler
<1>3. CASE connection_source_close_handler(k)
  <2>0. UNCHANGED <<buf, sent, fed, ses, file>>
    BY <1>3 DEF connection_source_close_handler
  <2>1. CASE src' = [src EXCEPT ![p].active = FALSE] /\ UNCHANGED <<snk, sock>>
    BY <1>0, <2>0, <2>1, States
  <2>2. CASE connection_close(k)
    BY <1>0, <1>3, <2>0, <2>2, Closed
  <2> QED
    BY <1>3, <2>1, <2>2 DEF connection_source_close_handler
<1>4. CASE connection_sink_close_handler(k)
  <2>0. UNCHANGED <<buf, sent, fed, ses, file>>
    BY <1>4 DEF connection_sink_close_handler
  <2>1. CASE snk' = [snk EXCEPT ![q].active = FALSE] /\ UNCHANGED <<src, sock>>
    BY <1>0, <2>0, <2>1, States
  <2>2. CASE connection_close(k)
    BY <1>0, <1>4, <2>0, <2>2, Closed
  <2> QED
    BY <1>4, <2>1, <2>2 DEF connection_sink_close_handler
<1> QED
  BY <1>1, <1>2, <1>3, <1>4

\* recv() and send() close a connection only when the peer has reset it, or has
\* closed it and everything it sent has been read.
LEMMA ClosedBecause ==
  ASSUME WorldOK, NEW k \in Conn, connection_source_handler(k) \/ connection_sink_handler(k)
  PROVE  \/ sock[k].rst \/ (sock[k].in = <<>> /\ sock[k].fin)
         \/ sock'[k].st = sock[k].st
<1>1. CASE connection_source_handler(k)
  BY <1>1, States DEF connection_source_handler, Socket
<1>2. CASE connection_sink_handler(k)
  <2>1. ASSUME ~sock[k].rst PROVE sock'[k].st = sock[k].st
    <3>1. CASE sock' = [sock EXCEPT ![k].nospace = TRUE]
      BY <3>1, States DEF Socket
    <3>2. CASE \E r, b : sock' = [sock EXCEPT ![k].room = r, ![k].nospace = b]
      BY <3>2, States DEF Socket
    <3> QED
      BY <1>2, <2>1, <3>1, <3>2 DEF connection_sink_handler
  <2> QED
    BY <2>1
<1> QED
  BY <1>1, <1>2

LEMMA ClientConnStage ==
  ASSUME WorldOK, WorldOK', NEW c \in Client, Stage(c), ConnOpen(ClientConn(c)),
         \/ connection_source_handler(ClientConn(c)) \/ connection_sink_handler(ClientConn(c))
         \/ connection_source_close_handler(ClientConn(c))
         \/ connection_sink_close_handler(ClientConn(c))
  PROVE  Stage(c)'
<1> DEFINE k == ClientConn(c)
<1> USE Names, NamesDiffer, ConnPipes
<1>1. SameStream(c)
  <2>1. Out(c)' = Out(c)
    BY ConnectionEffect DEF Out
  <2>2. ~NotYet(k) /\ sock'[k].st \in {sock[k].st, "closed"}
    BY ConnectionEffect DEF NotYet, ConnOpen
  <2> QED
    BY <2>1, <2>2, ConnectionEffect DEF SameStream, NotYet, ConnOpen
<1>2. SameEnds(c, src', snk', src, snk)
  BY ConnectionEffect DEF SameEnds
<1> QED
  BY <1>1, <1>2, StageFrame

\* The stage of an ended session depends on little.
LEMMA EndedKept ==
  ASSUME WorldOK, WorldOK', NEW c \in Client, Ended(c),
         ses'[c] = ses[c], Out(c)' = Out(c), ServedByFile(c)' = ServedByFile(c),
         file[c].st = "failed" => file'[c].st = "failed",
         NotYet(ClientConn(c))' = NotYet(ClientConn(c)),
         sock'[ClientConn(c)].st = "up" => sock[ClientConn(c)].st = "up",
         ServedByProxy(c)' = ServedByProxy(c),
         sock[UpstreamConn(c)].fin => sock'[UpstreamConn(c)].fin,
         sock[UpstreamConn(c)].rst => sock'[UpstreamConn(c)].rst,
         Begins(Out(c), Response(c)'),
         \/ Response(c)' = Response(c)
         \/ ServedByProxy(c) /\ ~sock[UpstreamConn(c)].fin
  PROVE  Stage(c)'
<1>1. ToClient(c)' = ToClient(c)
  BY DEF ToClient, Out, Join
<1>2. Complete(c) => Complete(c)'
  BY <1>1 DEF Complete
<1> QED
  BY <1>2 DEF Stage, Ended

LEMMA UpstreamConnStage ==
  ASSUME WorldOK, WorldOK', NEW c \in Client, Stage(c), OwnedFor(c), ConnOpen(UpstreamConn(c)),
         \/ connection_source_handler(UpstreamConn(c))
         \/ connection_sink_handler(UpstreamConn(c))
         \/ connection_source_close_handler(UpstreamConn(c)) /\ ~snk[U2S(c)].on
         \/ connection_sink_close_handler(UpstreamConn(c)) /\ ~src[S2U(c)].on
  PROVE  Stage(c)'
<1> DEFINE k == ClientConn(c)
           u == UpstreamConn(c)
<1> USE Names, NamesDiffer, ConnPipes
<1>1. /\ ses'[c] = ses[c] /\ file'[c] = file[c] /\ fed' = fed
      /\ sock'[k] = sock[k]
      /\ sock'[u].fin = sock[u].fin /\ sock'[u].rst = sock[u].rst
      /\ sock[u].st # "none" /\ sock'[u].st # "none"
      /\ buf'[F2S(c)] = buf[F2S(c)] /\ Out(c)' = Out(c)
      /\ SameEnds(c, src', snk', src, snk)
  BY ConnectionEffect DEF ConnOpen, SameEnds, Out
<1>2. CASE Ended(c)
  <2>1. ServedByProxy(c) /\ ServedByProxy(c)' /\ Response(c)' = Response(c)
    BY <1>1 DEF ServedByProxy, Response
  <2> QED
    BY <1>1, <1>2, <2>1, EndedKept DEF NotYet, Ended, ServedByFile
<1>3. CASE Alive(c, src, snk, ses[c], Out(c))
  <2>1. Relaying(c, src, snk, ses[c], Out(c))
    BY <1>1, <1>3 DEF Alive, Own, Serving, NoUpstream
  <2> DEFINE x == Join(Out(c), ses[c].to)
             all == Join(Join(x, buf[U2S(c)]), sock[u].in)
  <2>2. /\ x \in Text /\ buf[U2S(c)] \in Text /\ sock[u].in \in Text
        /\ Join(x, buf[U2S(c)]) \in Text
    BY StreamTexts, Texts
  <2>3. Relayed(c, x)' /\ (buf[U2S(c)] = <<>> /\ ~ConnOpen(u) => buf'[U2S(c)] = <<>>)
        /\ (ConnOpen(u)' => ConnOpen(u))
    <3>1. CASE sock'[u].in = sock[u].in /\ buf'[U2S(c)] = buf[U2S(c)] /\ sock'[u].st = sock[u].st
      BY <1>1, <2>1, <3>1 DEF Relaying, Relayed, ConnOpen
    <3>2. CASE /\ \E n \in Nat : /\ n <= Len(sock[u].in)
                                 /\ sock'[u].in = SubSeq(sock[u].in, n + 1, Len(sock[u].in))
                                 /\ buf'[U2S(c)] = Join(buf[U2S(c)], SubSeq(sock[u].in, 1, n))
               /\ sock'[u].st = sock[u].st
      <4>1. Join(Join(x, buf'[U2S(c)]), sock'[u].in) = all
        BY <2>2, <3>2, Moved
      <4> QED
        BY <1>1, <2>1, <3>2, <4>1 DEF Relaying, Relayed, ConnOpen
    <3>3. CASE /\ sock'[u].st = "closed" /\ sock'[u].in = <<>> /\ buf'[U2S(c)] = buf[U2S(c)]
               /\ sock[u].rst \/ (sock[u].in = <<>> /\ sock[u].fin)
      <4>1. Begins(Join(x, buf[U2S(c)]), From(1, fed[u]))
        BY <2>1, <2>2, StreamTexts, BeginsTrue DEF Relaying, Relayed
      <4>2. Join(Join(x, buf[U2S(c)]), <<>>) = Join(x, buf[U2S(c)])
        BY <2>2, Texts
      <4> QED
        BY <1>1, <2>1, <3>3, <4>1, <4>2 DEF Relaying, Relayed, ConnOpen
    <3>4. connection_source_handler(u) \/ connection_sink_handler(u)
      BY <2>1 DEF Relaying
    <3>5. \/ sock[u].rst \/ (sock[u].in = <<>> /\ sock[u].fin)
          \/ sock'[u].st = sock[u].st
      BY <3>4, ClosedBecause
    <3> DEFINE Stays == sock'[u].in = sock[u].in /\ buf'[U2S(c)] = buf[U2S(c)]
               Moves == \E n \in Nat : /\ n <= Len(sock[u].in)
                                       /\ sock'[u].in = SubSeq(sock[u].in, n + 1, Len(sock[u].in))
                                       /\ buf'[U2S(c)] = Join(buf[U2S(c)], SubSeq(sock[u].in, 1, n))
               Goes == sock'[u].st = "closed" /\ sock'[u].in = <<>> /\ buf'[U2S(c)] = buf[U2S(c)]
    <3>6. \/ Stays /\ sock'[u].st = sock[u].st
          \/ Moves /\ sock'[u].st = sock[u].st
          \/ Goes
      BY <3>4, ConnectionEffect
    <3>7. Goes => sock'[u].st # sock[u].st
      BY DEF ConnOpen
    <3> QED
      BY <3>1, <3>2, <3>3, <3>5, <3>6, <3>7
  <2>4. NoFile(c)' /\ NoFileEnds(c, snk)'
    BY <1>1, <2>1 DEF Relaying, NoFile, NoFileEnds, SameEnds
  <2>5. Relaying(c, src, snk, ses[c], Out(c))'
    BY <1>1, <2>1, <2>3, <2>4 DEF Relaying, SameEnds
  <2> QED
    BY <1>1, <1>3, <2>5 DEF Stage, Alive, NotYet, Held, SameEnds, ConnOpen
<1> QED
  BY <1>1, <1>2, <1>3 DEF Stage, Fresh, NoUpstream

-----------------------------------------------------------------------------
(***************************************************************************)
(* The response through the handlers of sessions and files.                *)
(***************************************************************************)
LEMMA SettersKeep ==
  ASSUME NEW S \in Ends, NEW c \in Client, NEW b \in BOOLEAN
  PROVE  \A p \in Pipe :
           /\ ToSources(S, c, b)[p].on = S[p].on /\ ToSources(S, c, b)[p].active = S[p].active
           /\ ToSinks(S, c, b)[p].on = S[p].on /\ ToSinks(S, c, b)[p].active = S[p].active
           /\ FromSources(S, c, b)[p].on = S[p].on /\ FromSources(S, c, b)[p].active = S[p].active
           /\ FromSinks(S, c, b)[p].on = S[p].on /\ FromSinks(S, c, b)[p].active = S[p].active
<1> USE Names
<1>1. ASSUME NEW T \in Ends, NEW q \in Pipe, NEW x \in BOOLEAN
      PROVE  /\ [T EXCEPT ![q].ready = x] \in Ends
             /\ \A p \in Pipe : /\ [T EXCEPT ![q].ready = x][p].on = T[p].on
                                /\ [T EXCEPT ![q].ready = x][p].active = T[p].active
  <2>1. [T EXCEPT ![q].ready = x] \in Ends
    BY EndsUpdate
  <2>2. T \in [Pipe -> End] /\ T[q] \in End
    BY DEF Ends
  <2>3. [T[q] EXCEPT !.ready = x].on = T[q].on /\ [T[q] EXCEPT !.ready = x].active = T[q].active
    BY <2>2 DEF End
  <2>4. [T EXCEPT ![q].ready = x][q] = [T[q] EXCEPT !.ready = x]
    BY <2>2
  <2>5. \A p \in Pipe : p # q => [T EXCEPT ![q].ready = x][p] = T[p]
    BY <2>2
  <2> QED
    BY <2>1, <2>3, <2>4, <2>5
<1> DEFINE nb == ~b
<1>2. nb \in BOOLEAN
  BY NotBoolean
<1>3. \A p \in Pipe : ToSinks(S, c, b)[p].on = S[p].on /\ ToSinks(S, c, b)[p].active = S[p].active
  <2> DEFINE T == [S EXCEPT ![U2S(c)].ready = nb]
  <2>2. ToSinks(S, c, b) = [T EXCEPT ![F2S(c)].ready = nb]
    BY DEF ToSinks
  <2> HIDE DEF nb
  <2>1. T \in Ends /\ \A p \in Pipe : T[p].on = S[p].on /\ T[p].active = S[p].active
    BY <1>1, <1>2
  <2> HIDE DEF T
  <2> QED
    BY <1>1, <1>2, <2>1, <2>2
<1>4. FromSinks(S, c, b) = [S EXCEPT ![C2S(c)].ready = nb]
  BY DEF FromSinks
<1> HIDE DEF nb
<1> QED
  BY <1>1, <1>2, <1>3, <1>4 DEF ToSources, FromSources

\* The stage of a session that goes on or ends.
LEMMA CheckStage ==
  ASSUME WorldOK, NEW c \in Client, NEW S, NEW K, NEW r, NEW o \in Text, r.to \in Text,
         Alive(c, S, K, r, o), Own(c, S, K, r, o) => ~ConnOpen(ClientConn(c)),
         session_check_destroy(c, S, K, r),
         UNCHANGED <<sock, fed, file>>, Out(c)' = o,
         buf'[U2S(c)] = buf[U2S(c)], buf'[F2S(c)] = buf[F2S(c)]
  PROVE  Stage(c)'
<1>1. CASE Flowing(c, S, K, r)
  <2>1. src' = S /\ snk' = K /\ ses'[c] = r
    BY <1>1, States DEF session_check_destroy
  <2>2. /\ (NoUpstream(c)' <=> NoUpstream(c)) /\ (NoFile(c)' <=> NoFile(c))
        /\ \A x : (Served(c, x)' <=> Served(c, x)) /\ (Relayed(c, x)' <=> Relayed(c, x))
    BY DEF NoUpstream, NoFile, Served, Relayed, ConnOpen
  <2>3. /\ Own(c, S, K, r, o) => Own(c, src, snk, ses[c], Out(c))'
        /\ Serving(c, S, K, r, o) => Serving(c, src, snk, ses[c], Out(c))'
        /\ Relaying(c, S, K, r, o) => Relaying(c, src, snk, ses[c], Out(c))'
    BY <2>1, <2>2 DEF Own, Serving, Relaying, NoUpstreamEnds, NoFileEnds, ConnOpen
  <2> QED
    BY <2>1, <2>3 DEF Stage, Alive, Held, ConnOpen, NotYet
<1>2. CASE ~Flowing(c, S, K, r)
  <2>1. ses'[c] = NoSession
    BY <1>2, States DEF session_check_destroy, xps_session_destroy
  <2> QED
    BY <1>2, <2>1, EndsWell
<1> QED
  BY <1>1, <1>2

LEMMA ClientSourceStage ==
  ASSUME WorldOK, NEW c \in Client, Stage(c), OwnedFor(c), FlagsFor(c),
         SourceTurn(S2C(c)), client_source_handler(c)
  PROVE  Stage(c)'
<1> DEFINE S == ToSources(src, c, FALSE)
           K == ToSinks(snk, c, FALSE)
           r == [ses[c] EXCEPT !.to = <<>>]
           o == Join(Out(c), ses[c].to)
           k == ClientConn(c)
<1> USE Names, NamesDiffer
<1>0. /\ ses[c].live /\ ses[c].to # <<>> /\ Out(c) \in Text /\ ses[c].to \in Text
      /\ ses[c] \in Session
  BY StreamTexts, States DEF OwnedFor, FlagsFor, Follows, SourceTurn
<1>1. /\ UNCHANGED <<sock, sent, fed, file>> /\ session_check_destroy(c, S, K, r)
      /\ buf'[S2C(c)] = Join(buf[S2C(c)], ses[c].to)
      /\ buf'[U2S(c)] = buf[U2S(c)] /\ buf'[F2S(c)] = buf[F2S(c)]
  BY States DEF client_source_handler, xps_pipe_source_write, Join
<1>2. /\ r.live /\ r.req = ses[c].req /\ r.to = <<>> /\ r.from = ses[c].from
  BY <1>0 DEF Session
<1>3. \A p \in Pipe : /\ S[p].on = src[p].on /\ S[p].active = src[p].active
                      /\ K[p].on = snk[p].on /\ K[p].active = snk[p].active
  <2> DEFINE no == FALSE
  <2>1. src \in Ends /\ snk \in Ends /\ no \in BOOLEAN
    BY States
  <2>2. S = ToSources(src, c, no) /\ K = ToSinks(snk, c, no)
    OBVIOUS
  <2> HIDE DEF S, K, no
  <2> QED
    BY <2>1, <2>2, SettersKeep
<1>4. Out(c)' = o /\ o \in Text /\ Join(o, <<>>) = o
  <2>1. Out(c)' = Join(sent[k], Join(buf[S2C(c)], ses[c].to))
    BY <1>1 DEF Out
  <2>2. sent[k] \in Text /\ buf[S2C(c)] \in Text /\ ses[c].to \in Text
    BY <1>0, StreamTexts
  <2>3. Join(sent[k], Join(buf[S2C(c)], ses[c].to)) = Join(Join(sent[k], buf[S2C(c)]), ses[c].to)
    <3> DEFINE x == sent[k]
               y == buf[S2C(c)]
               z == ses[c].to
    <3> SUFFICES x \in Text /\ y \in Text /\ z \in Text => Join(x, Join(y, z)) = Join(Join(x, y), z)
      BY <2>2
    <3> HIDE DEF x, y, z
    <3> QED
      BY Texts
  <2>4. o \in Text
    BY <1>0, Texts
  <2> QED
    BY <2>1, <2>3, <2>4, Texts DEF Out
<1> HIDE DEF S, K, r
<1>5. Alive(c, src, snk, ses[c], Out(c))
  BY <1>0 DEF Stage, Fresh, Ended, NoSession
<1>6. CASE Own(c, src, snk, ses[c], Out(c))
  <2>1. ~Flowing(c, S, K, r)
    BY <1>2, <1>3, <1>6 DEF Own, NoUpstreamEnds, NoFileEnds, Flowing
  <2>2. ses'[c] = NoSession
    BY <1>1, <2>1, States DEF session_check_destroy, xps_session_destroy
  <2>3. o = Head0 /\ Head0 \in Text
    BY <1>0, <1>6, Texts DEF Own
  <2>4. Response(c)' = Head0 /\ ~ServedByProxy(c)'
    BY <1>1, <1>6 DEF Own, NoUpstream, NoFile, Response, ServedByProxy, ServedByFile
  <2>5. ToClient(c)' = Head0
    <3>0. ses'[c].to = <<>>
      BY <2>2 DEF NoSession
    <3>1. ToClient(c)' = Join(Out(c)', <<>>)
      BY <3>0 DEF ToClient, Out, Join
    <3> QED
      BY <1>4, <2>3, <3>1
  <2>6. Begins(Out(c)', Response(c)')
    BY <1>4, <2>3, <2>4, BeginsTrue
  <2>7. ~NotYet(k)'
    BY <1>1, <1>5 DEF Alive, NotYet
  <2> QED
    BY <2>2, <2>4, <2>5, <2>6, <2>7 DEF Stage, Ended, Complete
<1>7. CASE ~Own(c, src, snk, ses[c], Out(c))
  <2>1. /\ Serving(c, src, snk, ses[c], Out(c)) => Serving(c, S, K, r, o)
        /\ Relaying(c, src, snk, ses[c], Out(c)) => Relaying(c, S, K, r, o)
    BY <1>2, <1>3, <1>4 DEF Serving, Relaying, NoUpstreamEnds, NoFileEnds
  <2>2. Held(c, S, K) /\ (Serving(c, S, K, r, o) \/ Relaying(c, S, K, r, o))
    BY <1>3, <1>5, <1>7, <2>1 DEF Alive, Held
  <2>3. Alive(c, S, K, r, o) /\ r.req
    BY <1>2, <1>5, <2>2 DEF Alive, Serving, Relaying
  <2>4. ~Own(c, S, K, r, o)
    BY <1>2, <2>3, Texts DEF Own
  <2>5. r.to \in Text
    BY <1>2, Texts
  <2> QED
    BY <1>1, <1>4, <2>3, <2>4, <2>5, CheckStage
<1> QED
  BY <1>6, <1>7

\* A session record and its ends in new states that the stage does not tell apart.
LEMMA AliveFrame ==
  ASSUME NEW c \in Client, NEW S, NEW K, NEW T, NEW L, NEW r, NEW q, NEW o,
         Alive(c, T, L, q, o), SameEnds(c, S, K, T, L),
         r.live = q.live, r.req = q.req, r.to = q.to, ~q.req => r.from = q.from
  PROVE  Alive(c, S, K, r, o)
<1>1. Held(c, S, K)
  BY DEF Alive, Held, SameEnds
<1>2. Own(c, T, L, q, o) => Own(c, S, K, r, o)
  BY DEF Own, SameEnds, NoUpstreamEnds, NoFileEnds
<1>3. Serving(c, T, L, q, o) => Serving(c, S, K, r, o)
  BY DEF Serving, SameEnds, NoUpstreamEnds
<1>4. Relaying(c, T, L, q, o) => Relaying(c, S, K, r, o)
  BY DEF Relaying, SameEnds, NoFileEnds
<1> QED
  BY <1>1, <1>2, <1>3, <1>4 DEF Alive

LEMMA LiveStage ==
  ASSUME NEW c \in Client, Stage(c), ses[c].live
  PROVE  /\ Alive(c, src, snk, ses[c], Out(c))
         /\ src[S2U(c)].on \/ snk[U2S(c)].on => Relaying(c, src, snk, ses[c], Out(c))
         /\ snk[F2S(c)].on => Serving(c, src, snk, ses[c], Out(c))
         /\ ~ses[c].req => Own(c, src, snk, ses[c], Out(c))
<1>1. Alive(c, src, snk, ses[c], Out(c))
  BY DEF Stage, Fresh, Ended, NoSession
<1>2. src[S2U(c)].on \/ snk[U2S(c)].on => Relaying(c, src, snk, ses[c], Out(c))
  BY <1>1 DEF Alive, Own, Serving, NoUpstreamEnds
<1>3. snk[F2S(c)].on => Serving(c, src, snk, ses[c], Out(c))
  BY <1>1 DEF Alive, Own, Relaying, NoFileEnds
<1>4. ~ses[c].req => Own(c, src, snk, ses[c], Out(c))
  BY <1>1 DEF Alive, Serving, Relaying
<1> QED
  BY <1>1, <1>2, <1>3, <1>4

LEMMA InactiveKeeps ==
  ASSUME WorldOK, NEW p \in Pipe
  PROVE  /\ \A q \in Pipe : q # p => SourceInactive(p)[q] = src[q] /\ SinkInactive(p)[q] = snk[q]
         /\ SourceInactive(p)[p].on = src[p].on /\ SinkInactive(p)[p].on = snk[p].on
<1>1. src[p] \in End /\ snk[p] \in End
  BY States
<1>2. [src[p] EXCEPT !.active = FALSE].on = src[p].on
      /\ [snk[p] EXCEPT !.active = FALSE].on = snk[p].on
  BY <1>1 DEF End
<1> QED
  BY <1>2, States DEF SourceInactive, SinkInactive

LEMMA UpstreamSourceStage ==
  ASSUME WorldOK, NEW c \in Client, Stage(c), OwnedFor(c),
         SourceTurn(S2U(c)), upstream_source_handler(c)
  PROVE  Stage(c)'
<1> DEFINE no == FALSE
           S == FromSources(src, c, no)
           K == FromSinks(snk, c, no)
           r == AfterUpstreamWrite(c)
<1> USE Names, NamesDiffer
<1>1. src[S2U(c)].on /\ ses[c].live
  BY DEF SourceTurn, OwnedFor
<1>2. /\ UNCHANGED <<sock, sent, fed, file>> /\ session_check_destroy(c, S, K, r)
      /\ \A p \in Pipe : p # S2U(c) => buf'[p] = buf[p]
  BY States DEF upstream_source_handler, xps_pipe_source_write
<1>3. r.live = ses[c].live /\ r.req = ses[c].req /\ r.to = ses[c].to
  BY States DEF AfterUpstreamWrite, Session
<1>4. \A p \in Pipe : /\ S[p].on = src[p].on /\ S[p].active = src[p].active
                      /\ K[p].on = snk[p].on /\ K[p].active = snk[p].active
  <2>1. src \in Ends /\ snk \in Ends /\ no \in BOOLEAN
    BY States
  <2> HIDE DEF no
  <2> QED
    BY <2>1, SettersKeep
<1> HIDE DEF S, K, r
<1>5. Relaying(c, src, snk, ses[c], Out(c)) /\ Alive(c, src, snk, ses[c], Out(c))
  BY <1>1, LiveStage
<1>6. SameEnds(c, S, K, src, snk)
  BY <1>4 DEF SameEnds
<1>7. ses[c].req
  BY <1>5 DEF Relaying
<1>8. Alive(c, S, K, r, Out(c))
  BY <1>3, <1>5, <1>6, <1>7, AliveFrame
<1>9. ~Own(c, S, K, r, Out(c))
  BY <1>5 DEF Own, Relaying, NoUpstream, Relayed
<1>10. Out(c)' = Out(c) /\ Out(c) \in Text /\ r.to \in Text
  BY <1>2, <1>3, StreamTexts DEF Out
<1>11. buf'[U2S(c)] = buf[U2S(c)] /\ buf'[F2S(c)] = buf[F2S(c)]
  BY <1>2
<1> QED
  BY <1>2, <1>8, <1>9, <1>10, <1>11, CheckStage

\* handle_pipes runs the close handler of a session's end that is left alone.
LEMMA SessionCloseStage ==
  ASSUME WorldOK, NEW c \in Client, Stage(c), OwnedFor(c),
         \/ SourceOrphan(S2C(c)) /\ client_source_close_handler(c)
         \/ SinkOrphan(C2S(c)) /\ client_sink_close_handler(c)
         \/ SourceOrphan(S2U(c)) /\ upstream_source_close_handler(c)
         \/ SinkOrphan(U2S(c)) /\ upstream_sink_close_handler(c)
         \/ SinkOrphan(F2S(c)) /\ file_sink_close_handler(c)
  PROVE  Stage(c)'
<1> DEFINE k == ClientConn(c)
           u == UpstreamConn(c)
           o == Out(c)
<1> USE Names, NamesDiffer
<1>1. ses[c].live
  BY DEF OwnedFor, SourceOrphan, SinkOrphan
<1>2. Alive(c, src, snk, ses[c], o)
  BY <1>1, LiveStage
<1>3. ASSUME NEW S, NEW K, NEW r, CloseSessionEnd(c, S, K, r), r.to = ses[c].to,
             Alive(c, S, K, r, o), Own(c, S, K, r, o) => ~ConnOpen(k)
      PROVE  Stage(c)'
  <2>1. /\ session_check_destroy(c, S, K, r) /\ UNCHANGED <<sock, fed, file>>
        /\ buf' = buf /\ sent' = sent
    BY <1>3 DEF CloseSessionEnd
  <2>2. Out(c)' = o /\ o \in Text /\ r.to \in Text
    BY <1>3, <2>1, StreamTexts DEF Out
  <2> QED
    BY <1>3, <2>1, <2>2, CheckStage
<1>4. LET r == MarkUpstreamError(c)
      IN r.live = ses[c].live /\ r.req = ses[c].req /\ r.to = ses[c].to /\ r.from = ses[c].from
  BY States DEF MarkUpstreamError, Session
<1>5. CASE SourceOrphan(S2C(c)) /\ client_source_close_handler(c)
  <2> DEFINE S == SourceInactive(S2C(c))
  <2>1. ~ConnOpen(k)
    BY <1>5 DEF SourceOrphan, OwnedFor
  <2>2. SameEnds(c, S, snk, src, snk)
    BY <2>1, InactiveKeeps DEF SameEnds
  <2>3. Alive(c, S, snk, ses[c], o)
    BY <1>2, <2>2, AliveFrame
  <2> QED
    BY <1>3, <1>5, <2>1, <2>3 DEF client_source_close_handler
<1>6. CASE SinkOrphan(C2S(c)) /\ client_sink_close_handler(c)
  <2> DEFINE K == SinkInactive(C2S(c))
  <2>1. ~ConnOpen(k)
    BY <1>6 DEF SinkOrphan, OwnedFor
  <2>2. SameEnds(c, src, K, src, snk)
    BY <2>1, InactiveKeeps DEF SameEnds
  <2>3. Alive(c, src, K, ses[c], o)
    BY <1>2, <2>2, AliveFrame
  <2> QED
    BY <1>3, <1>6, <2>1, <2>3 DEF client_sink_close_handler
<1>7. CASE SourceOrphan(S2U(c)) /\ upstream_source_close_handler(c)
  <2> DEFINE S == SourceInactive(S2U(c))
             r == MarkUpstreamError(c)
  <2>1. Relaying(c, src, snk, ses[c], o)
    BY <1>1, <1>7, LiveStage DEF SourceOrphan
  <2>2. S[S2U(c)].on = src[S2U(c)].on /\ S[S2C(c)] = src[S2C(c)]
    BY InactiveKeeps
  <2> HIDE DEF S, r
  <2>3. r.live /\ r.req /\ r.to = ses[c].to
    BY <1>1, <1>4, <2>1 DEF r, Relaying
  <2>4. Relaying(c, S, snk, r, o)
    BY <2>1, <2>2, <2>3 DEF Relaying
  <2>5. Alive(c, S, snk, r, o) /\ ~Own(c, S, snk, r, o)
    BY <1>2, <2>2, <2>3, <2>4 DEF Alive, Held, Own, Relaying, NoUpstream, Relayed
  <2> QED
    BY <1>3, <1>7, <2>3, <2>5 DEF upstream_source_close_handler, S, r
<1>8. CASE SinkOrphan(U2S(c)) /\ upstream_sink_close_handler(c)
  <2> DEFINE K == SinkInactive(U2S(c))
             r == MarkUpstreamError(c)
  <2>1. Relaying(c, src, snk, ses[c], o) /\ ~ConnOpen(u) /\ buf[U2S(c)] = <<>>
    BY <1>1, <1>8, LiveStage DEF SinkOrphan, OwnedFor, xps_pipe_is_readable
  <2>2. /\ K[U2S(c)].on = snk[U2S(c)].on /\ K[C2S(c)] = snk[C2S(c)] /\ K[F2S(c)] = snk[F2S(c)]
    BY InactiveKeeps
  <2> HIDE DEF K, r
  <2>3. r.live /\ r.req /\ r.to = ses[c].to
    BY <1>1, <1>4, <2>1 DEF r, Relaying
  <2>4. Relaying(c, src, K, r, o)
    BY <2>1, <2>2, <2>3 DEF Relaying, NoFileEnds
  <2>5. Alive(c, src, K, r, o) /\ ~Own(c, src, K, r, o)
    BY <1>2, <2>2, <2>3, <2>4 DEF Alive, Held, Own, Relaying, NoUpstream, Relayed
  <2> QED
    BY <1>3, <1>8, <2>3, <2>5 DEF upstream_sink_close_handler, K, r
<1>9. CASE SinkOrphan(F2S(c)) /\ file_sink_close_handler(c)
  <2> DEFINE K == SinkInactive(F2S(c))
  <2>1. Serving(c, src, snk, ses[c], o) /\ file[c].st # "open" /\ buf[F2S(c)] = <<>>
    BY <1>1, <1>9, LiveStage DEF SinkOrphan, OwnedFor, xps_pipe_is_readable
  <2>2. /\ K[F2S(c)].on = snk[F2S(c)].on /\ K[C2S(c)] = snk[C2S(c)] /\ K[U2S(c)] = snk[U2S(c)]
    BY InactiveKeeps
  <2> HIDE DEF K
  <2>3. Serving(c, src, K, ses[c], o)
    BY <2>1, <2>2 DEF Serving, NoUpstreamEnds
  <2>4. Alive(c, src, K, ses[c], o) /\ ~Own(c, src, K, ses[c], o)
    BY <1>2, <2>2, <2>3 DEF Alive, Held, Own, Serving, NoFile, Served
  <2> QED
    BY <1>3, <1>9, <2>4 DEF file_sink_close_handler, K
<1> QED
  BY <1>5, <1>6, <1>7, <1>8, <1>9

\* The session takes over what a pipe from its upstream or its file holds.
LEMMA SessionSinkStage ==
  ASSUME WorldOK, NEW c \in Client, Stage(c), OwnedFor(c), FlagsFor(c),
         \/ SinkTurn(U2S(c)) /\ upstream_sink_handler(c)
         \/ SinkTurn(F2S(c)) /\ file_sink_handler(c)
  PROVE  Stage(c)'
<1> DEFINE k == ClientConn(c)
           u == UpstreamConn(c)
           o == Out(c)
           yes == TRUE
<1> USE Names, NamesDiffer
<1>1. ses[c].live /\ ses[c].to = <<>>
  BY DEF SinkTurn, OwnedFor, FlagsFor, Follows
<1>2. Alive(c, src, snk, ses[c], o) /\ ~NotYet(k) /\ Held(c, src, snk)
  BY <1>1, LiveStage DEF Alive
<1>3. /\ UNCHANGED <<sock, sent, fed, file>> /\ buf'[S2C(c)] = buf[S2C(c)]
      /\ Out(c)' = o
      /\ src' = ToSources(src, c, yes) /\ snk' = ToSinks(snk, c, yes)
  <2>1. buf'[S2C(c)] = buf[S2C(c)]
    BY States DEF upstream_sink_handler, file_sink_handler, xps_pipe_sink_clear
  <2> QED
    BY <2>1 DEF upstream_sink_handler, file_sink_handler, Out
<1>4. \A p \in Pipe : /\ src'[p].on = src[p].on /\ src'[p].active = src[p].active
                      /\ snk'[p].on = snk[p].on /\ snk'[p].active = snk[p].active
  <2>1. src \in Ends /\ snk \in Ends /\ yes \in BOOLEAN
    BY States
  <2> HIDE DEF yes
  <2> QED
    BY <1>3, <2>1, SettersKeep
<1>5. /\ ses'[c].live /\ ses'[c].req = ses[c].req
      /\ SinkTurn(U2S(c)) /\ upstream_sink_handler(c) => ses'[c].to = buf[U2S(c)]
      /\ SinkTurn(F2S(c)) /\ file_sink_handler(c) => ses'[c].to = buf[F2S(c)]
  <2>1. ses[c] \in Session /\ ses \in [Client -> Session]
    BY States
  <2>2. upstream_sink_handler(c) =>
          ses'[c].live /\ ses'[c].req = ses[c].req /\ ses'[c].to = buf[U2S(c)]
    BY <1>1, <2>1 DEF upstream_sink_handler, Session
  <2>3. file_sink_handler(c) =>
          ses'[c].live /\ ses'[c].req = ses[c].req /\ ses'[c].to = buf[F2S(c)]
    BY <1>1, <2>1 DEF file_sink_handler, Session
  <2> QED
    BY <2>2, <2>3
<1>6. Held(c, src, snk)' /\ ~NotYet(k)'
  BY <1>2, <1>3, <1>4 DEF Held, ConnOpen, NotYet
<1>7. o \in Text /\ buf[U2S(c)] \in Text /\ buf[F2S(c)] \in Text /\ sock[u].in \in Text
  BY StreamTexts
<1>8. \A t \in Text : Join(Join(o, t), <<>>) = Join(Join(o, <<>>), t) /\ Join(o, t) \in Text
  BY <1>7, Texts
<1>9. CASE SinkTurn(U2S(c)) /\ upstream_sink_handler(c)
  <2>1. buf'[U2S(c)] = <<>> /\ buf'[F2S(c)] = buf[F2S(c)]
    BY <1>7, <1>9, States, Taken DEF upstream_sink_handler, xps_pipe_sink_clear
  <2>2. Relaying(c, src, snk, ses[c], o)
    BY <1>1, <1>9, LiveStage DEF SinkTurn
  <2>3. Relayed(c, Join(o, <<>>))
    BY <1>1, <2>2 DEF Relaying
  <2>4. Relayed(c, Join(Out(c), ses[c].to))'
    <3>1. Join(Join(o, buf[U2S(c)]), <<>>) = Join(Join(o, <<>>), buf[U2S(c)])
      BY <1>7, <1>8
    <3> QED
      BY <1>3, <1>5, <1>9, <2>1, <2>3, <3>1 DEF Relayed, ConnOpen
  <2>5. Relaying(c, src, snk, ses[c], Out(c))'
    BY <1>3, <1>4, <1>5, <1>9, <2>1, <2>2, <2>4 DEF Relaying, NoFile, NoFileEnds, ConnOpen
  <2> QED
    BY <1>5, <1>6, <2>5 DEF Stage, Alive
<1>10. CASE SinkTurn(F2S(c)) /\ file_sink_handler(c)
  <2>1. buf'[F2S(c)] = <<>> /\ buf'[U2S(c)] = buf[U2S(c)]
    BY <1>7, <1>10, States, Taken DEF file_sink_handler, xps_pipe_sink_clear
  <2>2. Serving(c, src, snk, ses[c], o)
    BY <1>1, <1>10, LiveStage DEF SinkTurn
  <2>3. Served(c, Join(o, <<>>))
    BY <1>1, <2>2 DEF Serving
  <2>4. Served(c, Join(Out(c), ses[c].to))'
    <3>1. Join(Join(o, buf[F2S(c)]), <<>>) = Join(Join(o, <<>>), buf[F2S(c)])
      BY <1>7, <1>8
    <3> QED
      BY <1>3, <1>5, <1>10, <2>1, <2>3, <3>1 DEF Served
  <2>5. Serving(c, src, snk, ses[c], Out(c))'
    BY <1>3, <1>4, <1>5, <1>10, <2>1, <2>2, <2>4 DEF Serving, NoUpstream, NoUpstreamEnds
  <2> QED
    BY <1>5, <1>6, <2>5 DEF Stage, Alive
<1> QED
  BY <1>9, <1>10

LEMMA FileStage ==
  ASSUME WorldOK, WorldOK', NEW c \in Client, Stage(c), OwnedFor(c),
         \/ SourceTurn(F2S(c)) /\ file_source_handler(c)
         \/ SourceOrphan(F2S(c)) /\ file_source_close_handler(c)
  PROVE  Stage(c)'
<1> DEFINE k == ClientConn(c)
           u == UpstreamConn(c)
           o == Out(c)
           left == file[c].left
           n == SmallerOf(left, RecvMax)
           row == From(FileSize - left + 1, n)
<1> USE Names, NamesDiffer
<1>1. file[c].st = "open"
  BY DEF SourceTurn, SourceOrphan, OwnedFor
<1>2. /\ UNCHANGED <<snk, sock, sent, fed, ses>>
      /\ \A p \in Pipe : p # F2S(c) => src'[p] = src[p] /\ buf'[p] = buf[p]
  BY States DEF file_source_handler, file_source_close_handler, FileDestroy, xps_pipe_source_write
<1>3. Out(c)' = o /\ NoUpstream(c)' = NoUpstream(c)
      /\ NoUpstreamEnds(c, src, snk)' = NoUpstreamEnds(c, src, snk)
      /\ Held(c, src, snk)' = Held(c, src, snk) /\ NotYet(k)' = NotYet(k)
  BY <1>2 DEF Out, NoUpstream, NoUpstreamEnds, Held, ConnOpen, NotYet
<1>4. left \in Nat /\ left <= FileSize /\ n \in Nat /\ n <= left /\ (n = 0 => left = 0)
      /\ file[c] \in File /\ FileSize \in Nat
  <2>1. left \in Nat /\ left <= FileSize /\ file[c] \in File /\ FileSize \in Nat
    BY StreamTexts, States, SessionAssumption
  <2>2. RecvMax \in Nat \ {0}
    BY SocketAssumption
  <2> QED
    BY <2>1, <2>2 DEF SmallerOf
<1>5. \/ /\ SourceTurn(F2S(c)) /\ buf'[F2S(c)] = Join(buf[F2S(c)], row)
         /\ file'[c].st = "open" /\ file'[c].left = left - n
      \/ /\ buf' = buf /\ file'[c].left = left /\ file'[c].st # "none"
         /\ \/ SourceTurn(F2S(c)) /\ file'[c].st = "closed" /\ left = 0
            \/ SourceTurn(F2S(c)) /\ file'[c].st = "failed"
            \/ SourceOrphan(F2S(c)) /\ file'[c].st = "closed"
  <2>1. \A st \in {"closed", "failed"} :
          FileDestroy(c, st) => buf' = buf /\ file'[c].left = left /\ file'[c].st = st
    BY <1>4, States DEF FileDestroy, File
  <2>2. CASE SourceTurn(F2S(c)) /\ file_source_handler(c)
    <3>1. CASE /\ xps_pipe_source_write(F2S(c), row)
               /\ file' = [file EXCEPT ![c].left = @ - n]
      BY <1>1, <1>4, <2>2, <3>1, States DEF xps_pipe_source_write, File, Join
    <3>2. CASE n = 0 /\ FileDestroy(c, "closed")
      BY <1>4, <2>1, <2>2, <3>2
    <3>3. CASE n > 0 /\ FileDestroy(c, "failed")
      BY <2>1, <2>2, <3>3
    <3> QED
      BY <2>2, <3>1, <3>2, <3>3 DEF file_source_handler
  <2>3. CASE SourceOrphan(F2S(c)) /\ file_source_close_handler(c)
    BY <2>1, <2>3 DEF file_source_close_handler
  <2> QED
    BY <2>2, <2>3
<1> HIDE DEF n, row
<1>6. CASE Ended(c)
  <2>1. /\ ServedByProxy(c)' = ServedByProxy(c) /\ ServedByFile(c) /\ ServedByFile(c)'
        /\ Response(c)' = Response(c)
    BY <1>1, <1>2, <1>5 DEF ServedByProxy, ServedByFile, Response
  <2> QED
    BY <1>1, <1>2, <1>3, <1>6, <2>1, EndedKept DEF Ended
<1>7. CASE Alive(c, src, snk, ses[c], o)
  <2>1. Serving(c, src, snk, ses[c], o) /\ snk[F2S(c)].on /\ snk[F2S(c)].active
    BY <1>1, <1>7 DEF Alive, Own, Relaying, NoFile, Serving
  <2> DEFINE x == Join(o, ses[c].to)
             b == buf[F2S(c)]
             done == From(1, FileSize - left)
  <2>2. Join(x, b) = Join(Head0, done)
    BY <2>1 DEF Serving, Served
  <2>3. x \in Text /\ b \in Text /\ done \in Text /\ Head0 \in Text
    BY StreamTexts, Texts
  <2>4. Served(c, Join(Out(c), ses[c].to))'
    <3>0. Join(Out(c)', ses'[c].to) = x
      BY <1>2, <1>3
    <3>1. CASE /\ buf'[F2S(c)] = Join(b, row)
               /\ file'[c].st = "open" /\ file'[c].left = left - n
      <4>1. row \in Text /\ Join(done, row) = From(1, FileSize - (left - n))
        <5>1. /\ FileSize - left \in Nat /\ FileSize - left + 1 = 1 + (FileSize - left)
              /\ (FileSize - left) + n = FileSize - (left - n)
          BY <1>4
        <5> QED
          BY <1>4, <5>1, Rows DEF row
      <4>2. Join(x, Join(b, row)) = Join(Head0, Join(done, row))
        <5> HIDE DEF x, b, done
        <5>1. Join(x, Join(b, row)) = Join(Join(x, b), row)
          BY <2>3, <4>1, Texts
        <5>2. Join(Join(Head0, done), row) = Join(Head0, Join(done, row))
          BY <2>3, <4>1, Texts
        <5> QED
          BY <2>2, <5>1, <5>2
      <4> QED
        BY <3>0, <3>1, <4>1, <4>2 DEF Served
    <3>2. CASE /\ buf' = buf /\ file'[c].left = left /\ file'[c].st # "none"
               /\ file'[c].st = "closed" => left = 0
      BY <2>2, <3>0, <3>2 DEF Served
    <3> QED
      BY <1>5, <2>1, <3>1, <3>2 DEF SourceOrphan
  <2>5. Serving(c, src, snk, ses[c], Out(c))'
    BY <1>2, <1>3, <2>1, <2>4 DEF Serving
  <2> QED
    BY <1>2, <1>3, <1>7, <2>5 DEF Stage, Alive
<1> QED
  BY <1>1, <1>6, <1>7 DEF Stage, Fresh, NoFile

\* The first request is processed, or later bytes go on to the upstream.
LEMMA RequestStage ==
  ASSUME WorldOK, WorldOK', NEW c \in Client, Stage(c), ses[c].live,
         ~ses[c].req => ses[c].to = <<>>, client_sink_handler(c)
  PROVE  Stage(c)'
<1> DEFINE k == ClientConn(c)
           u == UpstreamConn(c)
           o == Out(c)
           yes == TRUE
           S == FromSources(src, c, yes)
           K == FromSinks(snk, c, yes)
<1> USE Names, NamesDiffer
<1>1. Alive(c, src, snk, ses[c], o) /\ ~NotYet(k) /\ Held(c, src, snk)
  BY LiveStage DEF Alive
<1>2. /\ UNCHANGED <<sent, fed>>
      /\ \A p \in Pipe : p # C2S(c) => buf'[p] = buf[p]
      /\ sock'[k] = sock[k]
  <2>1. UNCHANGED <<sent, fed>>
    BY DEF client_sink_handler
  <2>2. \A p \in Pipe : p # C2S(c) => buf'[p] = buf[p]
    BY States DEF client_sink_handler, session_process_request, BadRequest, ReplyOnly, ServeFile,
       ReverseProxy, InvalidRoute, xps_pipe_sink_clear
  <2>3. sock'[k] = sock[k]
    BY States DEF client_sink_handler, session_process_request, BadRequest, ReplyOnly, ServeFile,
       ReverseProxy, InvalidRoute
  <2> QED
    BY <2>1, <2>2, <2>3
<1>3. Out(c)' = o /\ NotYet(k)' = NotYet(k) /\ ConnOpen(k)' = ConnOpen(k)
  BY <1>2 DEF Out, NotYet, ConnOpen
<1>4. /\ S \in Ends /\ K \in Ends /\ S = ParsedSources(c) /\ K = ParsedSinks(c)
      /\ \A p \in Pipe : /\ S[p].on = src[p].on /\ S[p].active = src[p].active
                         /\ K[p].on = snk[p].on /\ K[p].active = snk[p].active
  <2>1. src \in Ends /\ snk \in Ends /\ yes \in BOOLEAN
    BY States
  <2>2. S = ParsedSources(c) /\ K = ParsedSinks(c)
    BY DEF ParsedSources, ParsedSinks
  <2> HIDE DEF yes
  <2> QED
    BY <2>1, <2>2, SettersKeep, FlagTypes
<1>5. ASSUME NEW T \in Ends
      PROVE  \A p \in Pipe : /\ ToSources(T, c, TRUE)[p].on = T[p].on
                             /\ ToSources(T, c, TRUE)[p].active = T[p].active
                             /\ ToSinks(T, c, TRUE)[p].on = T[p].on
                             /\ ToSinks(T, c, TRUE)[p].active = T[p].active
  <2> DEFINE A == ToSources(T, c, TRUE)
             B == ToSinks(T, c, TRUE)
  <2>1. yes \in BOOLEAN /\ A = ToSources(T, c, yes) /\ B = ToSinks(T, c, yes)
    OBVIOUS
  <2> HIDE DEF yes, S, K, A, B
  <2>2. \A p \in Pipe : /\ A[p].on = T[p].on /\ A[p].active = T[p].active
                        /\ B[p].on = T[p].on /\ B[p].active = T[p].active
    BY <2>1, SettersKeep
  <2> QED
    BY <2>2 DEF A, B
<1>6. ses[c] \in Session /\ ses \in [Client -> Session] /\ src \in Ends /\ snk \in Ends
  BY States
<1> HIDE DEF S, K
<1>7. CASE ses[c].req
  <2>1. /\ ses' = [ses EXCEPT ![c].from = buf[C2S(c)]]
        /\ src' = S /\ snk' = K /\ UNCHANGED <<sock, file>>
    BY <1>7 DEF client_sink_handler, S, K
  <2>2. ses'[c].live = ses[c].live /\ ses'[c].req = ses[c].req /\ ses'[c].to = ses[c].to
    BY <1>6, <2>1 DEF Session
  <2>3. SameStream(c)
    <3>1. ses[c] # NoSession
      BY DEF NoSession
    <3>2. ConnOpen(u)' = ConnOpen(u)
      BY <2>1 DEF ConnOpen
    <3> QED
      BY <1>1, <1>2, <1>3, <1>7, <2>1, <2>2, <3>1, <3>2 DEF SameStream
  <2>4. SameEnds(c, src', snk', src, snk)
    BY <1>4, <2>1 DEF SameEnds
  <2> QED
    BY <2>3, <2>4, StageFrame
<1>8. CASE ~ses[c].req
  <2>0. Own(c, src, snk, ses[c], o) /\ ses[c].to = <<>> /\ ses[c].from = <<>>
        /\ ses[c].live
    BY <1>8, LiveStage DEF Own
  <2>1. o = <<>> /\ NoUpstream(c) /\ NoUpstreamEnds(c, src, snk) /\ NoFile(c) /\ NoFileEnds(c, snk)
    BY <2>0 DEF Own
  <2>2. ASSUME UNCHANGED <<sock, file>>,
               \A p \in Pipe : /\ src'[p].on = src[p].on /\ src'[p].active = src[p].active
                               /\ snk'[p].on = snk[p].on /\ snk'[p].active = snk[p].active
        PROVE  /\ NoUpstream(c)' /\ NoFile(c)' /\ NoUpstreamEnds(c, src, snk)'
               /\ NoFileEnds(c, snk)' /\ Held(c, src, snk)'
    BY <1>1, <1>2, <1>3, <2>1, <2>2
    DEF NoUpstream, NoFile, NoUpstreamEnds, NoFileEnds, Held
  <2>3. CASE BadRequest(c)
    <3>1. ses'[c].live /\ ses'[c].to = Head0 /\ ~ses'[c].req /\ ses'[c].from = <<>>
      BY <1>6, <1>8, <2>0, <2>3 DEF BadRequest, Session
    <3>2. \A p \in Pipe : /\ src'[p].on = src[p].on /\ src'[p].active = src[p].active
                          /\ snk'[p].on = snk[p].on /\ snk'[p].active = snk[p].active
      BY <1>5, <1>6, <2>3 DEF BadRequest
    <3> QED
      BY <1>1, <1>3, <2>1, <2>2, <2>3, <3>1, <3>2 DEF BadRequest, Own, Alive, Stage
  <2>4. /\ [Parsed(c) EXCEPT !.to = Head0].live /\ [Parsed(c) EXCEPT !.to = Head0].req
        /\ [Parsed(c) EXCEPT !.to = Head0].to = Head0
        /\ Parsed(c).live /\ Parsed(c).req /\ Parsed(c).to = <<>>
    BY <1>6, <2>0 DEF Parsed, Session
  <2>5. CASE ReplyOnly(c)
    <3>1. ses'[c].live /\ ses'[c].to = Head0 /\ ses'[c].req
      BY <1>6, <2>4, <2>5 DEF ReplyOnly
    <3>2. \A p \in Pipe : /\ src'[p].on = src[p].on /\ src'[p].active = src[p].active
                          /\ snk'[p].on = snk[p].on /\ snk'[p].active = snk[p].active
      <4> DEFINE A == ToSources(S, c, TRUE)
                 B == ToSinks(K, c, TRUE)
      <4>1. src' = A /\ snk' = B
        BY <1>4, <2>5 DEF ReplyOnly
      <4>2. \A p \in Pipe : /\ A[p].on = S[p].on /\ A[p].active = S[p].active
                            /\ B[p].on = K[p].on /\ B[p].active = K[p].active
        BY <1>4, <1>5, ZenonT(60)
      <4> HIDE DEF A, B
      <4> QED
        BY <1>4, <4>1, <4>2
    <3> QED
      BY <1>1, <1>3, <2>1, <2>2, <2>5, <3>1, <3>2 DEF ReplyOnly, Own, Alive, Stage
  <2>6. CASE ServeFile(c)
    <3> DEFINE T == ToSources(S, c, TRUE)
               L == ToSinks(K, c, TRUE)
    <3>1. ses'[c].live /\ ses'[c].to = Head0 /\ ses'[c].req
      BY <1>6, <2>4, <2>6 DEF ServeFile
    <3>2. T \in Ends /\ L \in Ends /\ [Attached(FreedEnd) EXCEPT !.ready = TRUE] \in End
          /\ Attached(L[F2S(c)]).on /\ Attached(L[F2S(c)]).active
      <4>1. T \in Ends /\ L \in Ends
        BY <1>4, FlagTypes
      <4>2. L[F2S(c)] \in End
        BY <4>1 DEF Ends
      <4> QED
        BY <4>1, <4>2, FreshEnds DEF Attached, End
    <3>3. \A p \in Pipe : /\ T[p].on = src[p].on /\ T[p].active = src[p].active
                          /\ L[p].on = snk[p].on /\ L[p].active = snk[p].active
      <4>1. \A p \in Pipe : /\ T[p].on = S[p].on /\ T[p].active = S[p].active
                            /\ L[p].on = K[p].on /\ L[p].active = K[p].active
        BY <1>4, <1>5
      <4> HIDE DEF T, L
      <4> QED
        BY <1>4, <4>1
    <3>4. src' = [T EXCEPT ![F2S(c)] = [Attached(FreedEnd) EXCEPT !.ready = TRUE]]
          /\ snk' = [L EXCEPT ![F2S(c)] = Attached(@)]
      BY <1>4, <2>6 DEF ServeFile
    <3> HIDE DEF T, L
    <3>5. /\ \A p \in Pipe : p # F2S(c) => src'[p] = T[p] /\ snk'[p] = L[p]
          /\ snk'[F2S(c)].on /\ snk'[F2S(c)].active
      BY <3>2, <3>4 DEF Ends
    <3>6. file'[c].st = "open" /\ file'[c].left = FileSize /\ sock' = sock
      BY <2>1, <2>6, States DEF ServeFile, File, NoFile
    <3>7. Held(c, src, snk)' /\ NoUpstream(c)' /\ NoUpstreamEnds(c, src, snk)'
      BY <1>1, <1>2, <1>3, <2>1, <3>3, <3>5, <3>6 DEF Held, NoUpstream, NoUpstreamEnds
    <3>8. Served(c, Join(Out(c), ses[c].to))'
      <4>1. Join(Join(<<>>, Head0), <<>>) = Join(Head0, <<>>) /\ From(1, FileSize - FileSize) = <<>>
        BY SessionAssumption, Texts, Rows
      <4> QED
        BY <1>2, <1>3, <2>1, <3>1, <3>6, <4>1 DEF Served, NoFile
    <3> QED
      BY <1>1, <1>3, <3>1, <3>5, <3>7, <3>8 DEF Serving, Alive, Stage
  <2>7. CASE ReverseProxy(c)
    <3>1. ses'[c].live /\ ses'[c].to = <<>> /\ ses'[c].req
      BY <1>6, <2>4, <2>7 DEF ReverseProxy
    <3>2. src' = [S EXCEPT ![S2U(c)] = Attached(@), ![U2S(c)] = Attached(FreedEnd)]
          /\ snk' = [K EXCEPT ![S2U(c)] = Attached(FreedEnd), ![U2S(c)] = Attached(@)]
      BY <1>4, <2>7 DEF ReverseProxy
    <3>3. /\ \A p \in Pipe : p \notin {S2U(c), U2S(c)} => src'[p] = S[p] /\ snk'[p] = K[p]
          /\ src'[S2U(c)] = Attached(S[S2U(c)]) /\ snk'[U2S(c)] = Attached(K[U2S(c)])
      BY <1>4, <3>2 DEF Ends
    <3>4. src'[S2U(c)].on /\ snk'[U2S(c)].on /\ snk'[U2S(c)].active
      <4>1. S[S2U(c)] \in End /\ K[U2S(c)] \in End
        BY <1>4 DEF Ends
      <4> QED
        BY <3>3, <4>1 DEF Attached, End
    <3>5. /\ sock'[u].st = "pending" /\ sock'[u].in = <<>> /\ file' = file
      BY <2>7, States DEF ReverseProxy, ConnectingSocket, xps_loop_attach, NoSocket
    <3>6. Held(c, src, snk)' /\ NoFile(c)' /\ NoFileEnds(c, snk)'
      BY <1>1, <1>2, <1>3, <1>4, <2>1, <3>3, <3>5 DEF Held, NoFile, NoFileEnds
    <3>7. Relayed(c, Join(Out(c), ses[c].to))'
      <4>1. Join(Join(Join(<<>>, <<>>), <<>>), <<>>) = <<>> /\ From(1, 0) = <<>>
            /\ Begins(<<>>, <<>>)
        BY Texts, Rows, BeginsTrue
      <4> QED
        BY <1>2, <1>3, <2>1, <3>1, <3>5, <4>1 DEF Relayed, NoUpstream, ConnOpen
    <3> QED
      BY <1>1, <1>3, <3>1, <3>4, <3>6, <3>7 DEF Relaying, Alive, Stage
  <2>8. CASE "invalid" \in Outcomes /\ InvalidRoute(c)
    <3>1. ses'[c] = NoSession /\ sock' = sock /\ file' = file
      BY <1>6, <2>8 DEF InvalidRoute, xps_session_destroy
    <3>2. ToClient(c)' = <<>>
      <4>0. ses'[c].to = <<>>
        BY <3>1 DEF NoSession
      <4>1. ToClient(c)' = Join(Out(c)', <<>>)
        BY <4>0 DEF ToClient, Out, Join
      <4> QED
        BY <1>3, <2>1, <4>1, Texts
    <3>3. Response(c)' \in Text
      BY <1>2, <2>1, <3>1, Texts DEF Response, ServedByProxy, ServedByFile, NoUpstream, NoFile
    <3>4. Begins(Out(c)', Response(c)')
      BY <1>3, <2>1, <3>3, BeginsTrue
    <3>5. ~ServedByProxy(c)' /\ ~ServedByFile(c)'
      BY <2>1, <3>1 DEF ServedByProxy, ServedByFile, NoUpstream, NoFile
    <3> QED
      BY <1>1, <1>3, <2>8, <3>1, <3>2, <3>4, <3>5 DEF Ended, Complete, Stage
  <2> QED
    BY <1>8, <2>3, <2>5, <2>6, <2>7, <2>8 DEF client_sink_handler, session_process_request
<1> QED
  BY <1>7, <1>8

\* The listener accepts the client's connection.
LEMMA AcceptStage ==
  ASSUME WorldOK, NEW c \in Client, Stage(c), c \in Backlog, xps_session_create(c)
  PROVE  Stage(c)'
<1> DEFINE k == ClientConn(c)
           u == UpstreamConn(c)
<1> USE Names, NamesDiffer
<1>1. Fresh(c)
  BY DEF Backlog, Stage, Alive, Ended, NotYet
<1>2. /\ UNCHANGED <<buf, sent, fed, file>> /\ sock'[u] = sock[u] /\ sock'[k].st = "up"
      /\ ses'[c].live /\ ses'[c].to = <<>> /\ ses'[c].from = <<>> /\ ~ses'[c].req
  <2>1. AcceptedSocket(k).st = "up"
    <3>1. sock[k] \in Socket
      BY States
    <3> QED
      BY <3>1 DEF AcceptedSocket, xps_loop_attach, Socket
  <2>2. sock' = [sock EXCEPT ![k] = AcceptedSocket(k)]
        /\ ses' = [ses EXCEPT ![c] = [NoSession EXCEPT !.live = TRUE]]
        /\ UNCHANGED <<buf, sent, fed, file>>
    BY DEF xps_session_create
  <2> QED
    BY <2>1, <2>2, States DEF NoSession
<1>3. src'[S2C(c)].active /\ src'[S2U(c)] = src[S2U(c)]
  BY States DEF xps_session_create, Attached, FreedEnd
<1>4. /\ snk'[C2S(c)].active
      /\ snk'[U2S(c)].on = snk[U2S(c)].on /\ snk'[U2S(c)].active = snk[U2S(c)].active
      /\ snk'[F2S(c)].on = snk[F2S(c)].on /\ snk'[F2S(c)].active = snk[F2S(c)].active
  <2>1. snk[U2S(c)] \in End /\ snk[F2S(c)] \in End
    BY States
  <2>2. snk'[C2S(c)] = [Attached(FreedEnd) EXCEPT !.ready = TRUE]
        /\ snk'[U2S(c)] = [snk[U2S(c)] EXCEPT !.ready = TRUE]
        /\ snk'[F2S(c)] = [snk[F2S(c)] EXCEPT !.ready = TRUE]
    BY States DEF xps_session_create
  <2> QED
    BY <2>1, <2>2 DEF Attached, FreedEnd, End
<1>5. Out(c)' = <<>> /\ NoUpstream(c)' /\ NoFile(c)'
  BY <1>1, <1>2 DEF Fresh, Out, NoUpstream, NoFile
<1>6. NoUpstreamEnds(c, src, snk)' /\ NoFileEnds(c, snk)' /\ Held(c, src, snk)'
  BY <1>1, <1>3, <1>4 DEF Fresh, NoUpstreamEnds, NoFileEnds, Held
<1> QED
  BY <1>2, <1>5, <1>6 DEF Stage, Alive, Own, NotYet

\* A pipe without ends is destroyed, with what it still holds.
LEMMA DestroyDeadStage ==
  ASSUME WorldOK, WorldOK', NEW c \in Client, Stage(c), OwnedFor(c),
         NEW p \in Pipe, Dead(p), xps_pipe_destroy(p), UNCHANGED <<sockVars, sessionVars>>
  PROVE  Stage(c)'
<1> DEFINE k == ClientConn(c)
           u == UpstreamConn(c)
<1> USE Names, NamesDiffer
<1>1. /\ UNCHANGED <<sock, sent, fed, ses, file, src, snk>>
      /\ buf'[p] = <<>> /\ \A q \in Pipe : q # p => buf'[q] = buf[q]
  BY States DEF xps_pipe_destroy, sockVars, sessionVars
<1>2. SameEnds(c, src', snk', src, snk)
  BY <1>1 DEF SameEnds
<1>3. ASSUME buf'[S2C(c)] = buf[S2C(c)], buf'[U2S(c)] = buf[U2S(c)],
             buf'[F2S(c)] = buf[F2S(c)], NotYet(k) => buf'[C2S(c)] = buf[C2S(c)]
      PROVE  Stage(c)'
  <2>1. SameStream(c)
    BY <1>1, <1>3 DEF SameStream, Out, NotYet, ConnOpen
  <2> QED
    BY <1>2, <2>1, StageFrame
<1>4. CASE Fresh(c)
  <2>1. buf[C2S(c)] = <<>> /\ buf[S2C(c)] = <<>> /\ buf[U2S(c)] = <<>> /\ buf[F2S(c)] = <<>>
    BY <1>4, StreamTexts, Texts, ZenonT(60) DEF Fresh, Out, NoUpstream, NoFile
  <2> QED
    BY <1>1, <1>3, <2>1
<1>5. CASE Alive(c, src, snk, ses[c], Out(c))
  <2>1. p # S2C(c) /\ ~NotYet(k)
    BY <1>5 DEF Alive, Dead, OwnedFor
  <2>2. p = U2S(c) => buf[U2S(c)] = <<>>
    BY <1>5 DEF Dead, Alive, Own, Serving, Relaying, NoUpstream
  <2>3. p = F2S(c) => buf[F2S(c)] = <<>>
    BY <1>5 DEF Dead, Alive, Own, Serving, Relaying, NoFile
  <2> QED
    BY <1>1, <1>3, <2>1, <2>2, <2>3
<1>6. CASE Ended(c)
  <2>1. /\ ServedByProxy(c)' = ServedByProxy(c) /\ ServedByFile(c)' = ServedByFile(c)
        /\ Response(c)' = Response(c) /\ NotYet(k)' = NotYet(k)
    BY <1>1 DEF ServedByProxy, ServedByFile, Response, NotYet
  <2>2. CASE p # S2C(c)
    <3>1. Out(c)' = Out(c)
      BY <1>1, <2>2 DEF Out
    <3> QED
      BY <1>1, <1>6, <2>1, <3>1, EndedKept DEF Ended
  <2>3. CASE p = S2C(c)
    <3>1. sock'[k].st # "up"
      BY <1>1, <2>3 DEF Dead, OwnedFor, ConnOpen
    <3>2. sent[k] \in Text /\ buf[S2C(c)] \in Text /\ Join(sent[k], <<>>) = sent[k]
          /\ Out(c)' = sent[k]
      <4>1. sent[k] \in Text /\ buf[S2C(c)] \in Text
        BY StreamTexts
      <4> QED
        BY <1>1, <2>3, <4>1, Texts DEF Out
    <3>3. Begins(sent[k], Response(c))
      <4>1. PICK r \in Text : Join(Join(sent[k], buf[S2C(c)]), r) = Response(c)
        BY <1>6 DEF Ended, Out, Begins
      <4>2. Join(Join(sent[k], buf[S2C(c)]), r) = Join(sent[k], Join(buf[S2C(c)], r))
            /\ Join(buf[S2C(c)], r) \in Text
        <5> DEFINE x == sent[k]
                   y == buf[S2C(c)]
        <5> SUFFICES x \in Text /\ y \in Text
                       => Join(Join(x, y), r) = Join(x, Join(y, r)) /\ Join(y, r) \in Text
          BY <3>2
        <5> HIDE DEF x, y
        <5> QED
          BY Texts
      <4> QED
        BY <4>1, <4>2 DEF Begins
    <3> QED
      BY <1>1, <1>6, <2>1, <3>1, <3>2, <3>3 DEF Stage, Ended
  <2> QED
    BY <2>2, <2>3
<1> QED
  BY <1>4, <1>5, <1>6 DEF Stage

-----------------------------------------------------------------------------
(***************************************************************************)
(* The response through the steps of epoll and of the peers.               *)
(***************************************************************************)
LEMMA QuietStage ==
  ASSUME WorldOK, WorldOK', NEW c \in Client, Stage(c), UNCHANGED <<ses, file, buf, sent, fed>>,
         \A k \in Conn : /\ sock'[k].st = sock[k].st /\ sock'[k].in = sock[k].in
                         /\ sock'[k].fin = sock[k].fin /\ sock'[k].rst = sock[k].rst,
         \A p \in Pipe : /\ src'[p].on = src[p].on /\ src'[p].active = src[p].active
                         /\ snk'[p].on = snk[p].on /\ snk'[p].active = snk[p].active
  PROVE  Stage(c)'
<1> USE Names
<1>1. SameStream(c)
  BY DEF SameStream, Out, NotYet, ConnOpen
<1>2. SameEnds(c, src', snk', src, snk)
  BY DEF SameEnds
<1> QED
  BY <1>1, <1>2, StageFrame

\* Readiness is all that an event changes in a pipe's end.
LEMMA ReadyOnly ==
  ASSUME NEW T \in Ends, NEW q \in Pipe, NEW x \in BOOLEAN
  PROVE  \A p \in Pipe : /\ [T EXCEPT ![q].ready = x][p].on = T[p].on
                         /\ [T EXCEPT ![q].ready = x][p].active = T[p].active
<1>1. T \in [Pipe -> End] /\ T[q] \in End
  BY DEF Ends
<1>2. [T[q] EXCEPT !.ready = x].on = T[q].on /\ [T[q] EXCEPT !.ready = x].active = T[q].active
  BY <1>1 DEF End
<1>3. [T EXCEPT ![q].ready = x][q] = [T[q] EXCEPT !.ready = x]
  BY <1>1
<1>4. \A p \in Pipe : p # q => [T EXCEPT ![q].ready = x][p] = T[p]
  BY <1>1
<1> QED
  BY <1>2, <1>3, <1>4

LEMMA EpollStage ==
  ASSUME TypeOK, WorldOK', NEW c \in Client, Stage(c),
         \/ epoll_wait \/ (\E e \in batch : HandleEvent(e)) \/ (\E k \in Conn : HandleOut(k))
  PROVE  Stage(c)'
<1>0. WorldOK /\ batch \subseteq Event /\ src \in Ends /\ snk \in Ends /\ sock \in [Conn -> Socket]
  BY TypeParts, States DEF TypeOK
<1>1. CASE epoll_wait
  <2>1. PICK K \in SUBSET ReadyConns :
          sock' = [k \in Conn |-> IF k \in K \/ ~PollAny(k)
                                  THEN [sock[k] EXCEPT !.edge = FALSE] ELSE sock[k]]
    BY <1>1 DEF epoll_wait
  <2>2. \A k \in Conn : /\ sock'[k].st = sock[k].st /\ sock'[k].in = sock[k].in
                        /\ sock'[k].fin = sock[k].fin /\ sock'[k].rst = sock[k].rst
    BY <1>0, <2>1 DEF Socket
  <2>3. UNCHANGED <<ses, file, buf, sent, fed, src, snk>>
    BY <1>1 DEF epoll_wait, pipeVars, sessionVars
  <2> QED
    BY <1>0, <2>2, <2>3, QuietStage
<1>2. CASE \E e \in batch : HandleEvent(e)
  <2>1. PICK e \in batch : HandleEvent(e)
    BY <1>2
  <2>2. e.k \in Conn
    BY <1>0 DEF Event
  <2>3. \A p \in Pipe : src'[p].on = src[p].on /\ src'[p].active = src[p].active
    <3>1. CASE src' = [src EXCEPT ![SourcePipe(e.k)].ready = TRUE]
      <4>1. SourcePipe(e.k) \in Pipe
        BY <2>2, ConnPipeTypes
      <4> QED
        BY <1>0, <3>1, <4>1, ReadyOnly
    <3>2. CASE UNCHANGED src
      BY <3>2
    <3> QED
      BY <2>1, <3>1, <3>2 DEF HandleEvent, OnInput
  <2>4. \A k \in Conn : /\ sock'[k].st = sock[k].st /\ sock'[k].in = sock[k].in
                        /\ sock'[k].fin = sock[k].fin /\ sock'[k].rst = sock[k].rst
    <3>1. CASE sock' = [sock EXCEPT ![e.k] = xps_loop_detach(sock[e.k])]
      BY <1>0, <2>2, <3>1 DEF xps_loop_detach, Socket
    <3>2. CASE UNCHANGED sock
      BY <3>2
    <3> QED
      BY <2>1, <3>1, <3>2 DEF HandleEvent, OnHangup
  <2>5. UNCHANGED <<ses, file, buf, sent, fed, snk>>
    BY <2>1 DEF HandleEvent, sessionVars
  <2> QED
    BY <1>0, <2>3, <2>4, <2>5, QuietStage
<1>3. CASE \E k \in Conn : HandleOut(k)
  <2>1. PICK k \in Conn : HandleOut(k)
    BY <1>3
  <2>2. \A p \in Pipe : snk'[p].on = snk[p].on /\ snk'[p].active = snk[p].active
    <3>1. CASE snk' = [snk EXCEPT ![SinkPipe(k)].ready = TRUE]
      <4>1. SinkPipe(k) \in Pipe
        BY ConnPipeTypes
      <4> QED
        BY <1>0, <3>1, <4>1, ReadyOnly
    <3>2. CASE UNCHANGED snk
      BY <3>2
    <3> QED
      BY <2>1, <3>1, <3>2 DEF HandleOut
  <2>3. UNCHANGED <<ses, file, buf, sent, fed, src, sock>>
    BY <2>1 DEF HandleOut, sockVars, sessionVars
  <2> QED
    BY <1>0, <2>2, <2>3, QuietStage
<1> QED
  BY <1>1, <1>2, <1>3

\* What the peers can do to the two connections of c.
LEMMA PeerEffect ==
  ASSUME WorldOK, PeerStep, NEW c \in Client
  PROVE  LET k == ClientConn(c)
             u == UpstreamConn(c)
         IN /\ NotYet(k)' = NotYet(k) /\ ConnOpen(k)' = ConnOpen(k)
            /\ sock'[k].st = "up" => sock[k].st = "up"
            /\ (sock'[u].st = "none" <=> sock[u].st = "none") /\ ConnOpen(u)' = ConnOpen(u)
            /\ sock[u].fin => sock'[u].fin
            /\ sock[u].rst => sock'[u].rst
            /\ sock'[u].st = "pending" => sock[u].st = "pending"
            /\ \/ sock'[k].in = sock[k].in /\ fed'[k] = fed[k]
               \/ sock'[k].in = Append(sock[k].in, fed[k] + 1) /\ fed'[k] = fed[k] + 1
            /\ \/ /\ sock'[u].in = sock[u].in /\ fed'[u] = fed[u]
                  /\ sock[u].st = "none" => sock'[u].fin = sock[u].fin /\ sock'[u].rst = sock[u].rst
               \/ /\ sock'[u].in = Append(sock[u].in, fed[u] + 1) /\ fed'[u] = fed[u] + 1
                  /\ PeerOpen(u) /\ sock'[u].fin = sock[u].fin /\ sock'[u].rst = sock[u].rst
<1> DEFINE k == ClientConn(c)
           u == UpstreamConn(c)
<1> USE Names, NamesDiffer
<1>0. sock \in [Conn -> Socket] /\ fed \in [Conn -> Nat] /\ k \in Conn /\ u \in Conn /\ k # u
  BY States
<1>1. ASSUME NEW d \in Client, Connect(d) \/ Establish(d) \/ Refuse(d)
      PROVE  /\ NotYet(k)' = NotYet(k) /\ ConnOpen(k)' = ConnOpen(k)
             /\ sock'[k].st = "up" => sock[k].st = "up"
             /\ (sock'[u].st = "none" <=> sock[u].st = "none") /\ ConnOpen(u)' = ConnOpen(u)
             /\ sock[u].fin => sock'[u].fin
             /\ sock[u].rst => sock'[u].rst
             /\ sock'[u].st = "pending" => sock[u].st = "pending"
             /\ sock'[k].in = sock[k].in /\ fed'[k] = fed[k]
             /\ sock'[u].in = sock[u].in /\ fed'[u] = fed[u]
             /\ sock[u].st = "none" => sock'[u].fin = sock[u].fin /\ sock'[u].rst = sock[u].rst
  <2>1. CASE Connect(d)
    <3>1. /\ sock[ClientConn(d)].st = "none" /\ sock'[ClientConn(d)].st = "backlog"
          /\ sock'[ClientConn(d)].in = sock[ClientConn(d)].in
          /\ \A h \in Conn : h # ClientConn(d) => sock'[h] = sock[h]
          /\ fed' = fed
      BY <1>0, <2>1 DEF Connect, Socket
    <3>2. sock'[u] = sock[u] /\ (k = ClientConn(d) \/ sock'[k] = sock[k])
      BY <3>1
    <3> QED
      BY <3>1, <3>2 DEF NotYet, ConnOpen
  <2>2. CASE Establish(d)
    <3> DEFINE v == UpstreamConn(d)
    <3>1. /\ sock[v].st = "pending" /\ sock'[v].st = "up" /\ sock'[v].in = sock[v].in
          /\ sock'[v].fin = sock[v].fin /\ sock'[v].rst = sock[v].rst
          /\ \A h \in Conn : h # v => sock'[h] = sock[h]
          /\ fed' = fed
      BY <1>0, <2>2 DEF Establish, Socket
    <3>2. sock'[k] = sock[k] /\ (u = v \/ sock'[u] = sock[u])
      BY <3>1
    <3> QED
      BY <3>1, <3>2 DEF NotYet, ConnOpen
  <2>3. CASE Refuse(d)
    <3> DEFINE v == UpstreamConn(d)
    <3>1. /\ sock[v].st = "pending" /\ sock'[v].st = "pending" /\ sock'[v].in = sock[v].in
          /\ sock'[v].fin = sock[v].fin /\ sock'[v].rst
          /\ \A h \in Conn : h # v => sock'[h] = sock[h]
          /\ fed' = fed
      BY <1>0, <2>3 DEF Refuse, Socket
    <3>2. sock'[k] = sock[k] /\ (u = v \/ sock'[u] = sock[u])
      BY <3>1
    <3> QED
      BY <3>1, <3>2 DEF NotYet, ConnOpen
  <2> QED
    BY <1>1, <2>1, <2>2, <2>3
<1>2. ASSUME NEW h \in Conn, PeerFin(h) \/ PeerReset(h) \/ PeerDrain(h)
      PROVE  /\ fed' = fed
             /\ \A g \in Conn : /\ sock'[g].st = sock[g].st /\ sock'[g].in = sock[g].in
                                /\ sock[g].fin => sock'[g].fin
                                /\ sock[g].rst => sock'[g].rst
                                /\ sock[g].st = "none" => sock'[g].fin = sock[g].fin
                                                          /\ sock'[g].rst = sock[g].rst
  <2>1. CASE PeerFin(h)
    BY <1>0, <2>1 DEF PeerFin, PeerOpen, Socket
  <2>2. CASE PeerReset(h)
    BY <1>0, <2>2, ZenonT(60) DEF PeerReset, Socket
  <2>3. CASE PeerDrain(h)
    <3>1. PICK e \in BOOLEAN :
             sock' = [sock EXCEPT ![h].room = Room, ![h].nospace = FALSE, ![h].edge = e]
      <4>1. (sock[h].reg /\ (sock[h].edge \/ sock[h].nospace)) \in BOOLEAN
        OBVIOUS
      <4> QED
        BY <2>3, <4>1 DEF PeerDrain
    <3> QED
      BY <1>0, <2>3, <3>1 DEF PeerDrain, Socket
  <2> QED
    BY <1>2, <2>1, <2>2, <2>3
<1>3. ASSUME NEW h \in Conn, PeerSend(h)
      PROVE  /\ PeerOpen(h) /\ sock'[h].in = Append(sock[h].in, fed[h] + 1)
             /\ fed'[h] = fed[h] + 1
             /\ \A g \in Conn : g # h => sock'[g] = sock[g] /\ fed'[g] = fed[g]
             /\ \A g \in Conn : /\ sock'[g].st = sock[g].st /\ sock'[g].fin = sock[g].fin
                                /\ sock'[g].rst = sock[g].rst
  <2>1. PeerOpen(h) /\ fed' = [fed EXCEPT ![h] = @ + 1]
    BY <1>3 DEF PeerSend
  <2>2. sock' = [sock EXCEPT ![h].in = Append(@, fed[h] + 1), ![h].edge = sock[h].reg]
    BY <1>3 DEF PeerSend
  <2>3. sock'[h].in = Append(sock[h].in, fed[h] + 1) /\ \A g \in Conn : g # h => sock'[g] = sock[g]
    BY <1>0, <2>2 DEF Socket
  <2>4. \A g \in Conn : /\ sock'[g].st = sock[g].st /\ sock'[g].fin = sock[g].fin
                        /\ sock'[g].rst = sock[g].rst
    BY <1>0, <2>2 DEF Socket
  <2> QED
    BY <1>0, <2>1, <2>3, <2>4
<1>4. CASE \E d \in Client : Connect(d) \/ Establish(d) \/ Refuse(d)
  BY <1>1, <1>4
<1>5. CASE \E h \in Conn : PeerFin(h) \/ PeerReset(h) \/ PeerDrain(h)
  BY <1>0, <1>2, <1>5 DEF NotYet, ConnOpen
<1>6. CASE \E h \in Conn : PeerSend(h)
  <2>1. PICK h \in Conn : PeerSend(h)
    BY <1>6
  <2>2. CASE h = u
    BY <1>0, <1>3, <2>1, <2>2 DEF NotYet, ConnOpen
  <2>3. CASE h # u
    BY <1>0, <1>3, <2>1, <2>3 DEF NotYet, ConnOpen
  <2> QED
    BY <2>2, <2>3
<1> QED
  BY <1>4, <1>5, <1>6 DEF PeerStep, Peers

LEMMA NextRow ==
  ASSUME NEW n \in Nat
  PROVE  From(1, n + 1) = Join(From(1, n), <<n + 1>>) /\ <<n + 1>> \in Text
<1> DEFINE i == From(1, n)
<1>1. i \in Text /\ Append(i, n + 1) = From(1, n + 1)
  BY Rows
<1> HIDE DEF i
<1>2. /\ Append(i, n + 1) \in Text /\ <<n + 1>> \in Text
      /\ \A x \in Text : Join(x, Append(i, n + 1)) = Join(Join(x, i), <<n + 1>>)
  BY <1>1, Arrived
<1>3. <<>> \in Text
  BY Texts
<1>4. Join(<<>>, Append(i, n + 1)) = Join(Join(<<>>, i), <<n + 1>>)
  BY <1>2, <1>3
<1>5. Join(<<>>, Append(i, n + 1)) = Append(i, n + 1) /\ Join(<<>>, i) = i
  BY <1>1, <1>2, Texts
<1> QED
  BY <1>1, <1>2, <1>4, <1>5 DEF i

LEMMA PeerStage ==
  ASSUME WorldOK, WorldOK', NEW c \in Client, Stage(c), PeerStep
  PROVE  Stage(c)'
<1> DEFINE k == ClientConn(c)
           u == UpstreamConn(c)
           o == Out(c)
<1> USE Names, NamesDiffer
<1>1. UNCHANGED <<buf, src, snk, ses, file, sent>>
  BY ZenonT(60)
  DEF PeerStep, pipeVars, sessionVars, Peers, Connect, Establish, Refuse, PeerSend, PeerFin,
      PeerReset, PeerDrain
<1>2. Out(c)' = o /\ o \in Text
  BY <1>1, StreamTexts DEF Out
<1>3. /\ NotYet(k)' = NotYet(k) /\ ConnOpen(k)' = ConnOpen(k)
      /\ sock'[k].st = "up" => sock[k].st = "up"
      /\ (sock'[u].st = "none" <=> sock[u].st = "none") /\ ConnOpen(u)' = ConnOpen(u)
      /\ sock[u].fin => sock'[u].fin
      /\ sock[u].rst => sock'[u].rst
  BY PeerEffect
<1>4. SameEnds(c, src', snk', src, snk)
  BY <1>1 DEF SameEnds
<1>5. CASE sock[u].st = "none"
  <2>1. SameStream(c)
    <3>1. /\ sock'[u].in = sock[u].in /\ fed'[u] = fed[u]
          /\ sock'[u].fin = sock[u].fin /\ sock'[u].rst = sock[u].rst
      BY <1>5, PeerEffect DEF PeerOpen
    <3> QED
      BY <1>1, <1>2, <1>3, <3>1 DEF SameStream
  <2> QED
    BY <1>4, <2>1, StageFrame
<1>6. CASE sock[u].st # "none"
  <2>1. ServedByProxy(c) /\ ServedByProxy(c)' /\ ServedByFile(c)' = ServedByFile(c)
        /\ Response(c) = From(1, fed[u]) /\ Response(c)' = From(1, fed'[u])
    BY <1>1, <1>3, <1>6 DEF ServedByProxy, ServedByFile, Response
  <2>2. \/ sock'[u].in = sock[u].in /\ fed'[u] = fed[u]
        \/ /\ sock'[u].in = Append(sock[u].in, fed[u] + 1) /\ fed'[u] = fed[u] + 1
           /\ PeerOpen(u) /\ sock'[u].fin = sock[u].fin /\ sock'[u].rst = sock[u].rst
    BY PeerEffect
  <2>3. /\ fed[u] \in Nat /\ sock[u].in \in Text /\ buf[U2S(c)] \in Text /\ ses[c].to \in Text
        /\ From(1, fed[u]) \in Text
    BY StreamTexts
  <2>4. From(1, fed[u] + 1) = Join(From(1, fed[u]), <<fed[u] + 1>>) /\ <<fed[u] + 1>> \in Text
    BY <2>3, NextRow
  <2>5. CASE Ended(c)
    <3>1. Begins(o, Response(c)')
      BY <1>2, <2>1, <2>2, <2>3, <2>4, <2>5, BeginsTrue DEF Ended
    <3> QED
      BY <1>1, <1>2, <1>3, <2>1, <2>2, <2>5, <3>1, EndedKept DEF PeerOpen
  <2>6. CASE Alive(c, src, snk, ses[c], o)
    <3> DEFINE x == Join(o, ses[c].to)
               y == Join(x, buf[U2S(c)])
    <3>1. Relaying(c, src, snk, ses[c], o)
      BY <1>6, <2>6 DEF Alive, Own, Serving, NoUpstream
    <3>2. y \in Text
      BY <1>2, <2>3, Texts
    <3>3. Relayed(c, x)
      BY <3>1 DEF Relaying
    <3>4. Relayed(c, Join(Out(c), ses[c].to))'
      <4>0. Join(Out(c)', ses'[c].to) = x /\ buf'[U2S(c)] = buf[U2S(c)]
        BY <1>1, <1>2
      <4>1. CASE sock'[u].in = sock[u].in /\ fed'[u] = fed[u]
        BY <1>3, <3>3, <4>0, <4>1 DEF Relayed
      <4>2. CASE /\ sock'[u].in = Append(sock[u].in, fed[u] + 1) /\ fed'[u] = fed[u] + 1
                 /\ PeerOpen(u) /\ sock'[u].fin = sock[u].fin /\ sock'[u].rst = sock[u].rst
        <5>1. ~sock[u].rst /\ ConnOpen(u) /\ Join(y, sock[u].in) = From(1, fed[u])
          BY <3>3, <4>2 DEF Relayed, PeerOpen
        <5>2. Join(y, Append(sock[u].in, fed[u] + 1)) = From(1, fed[u] + 1)
          <6> HIDE DEF y
          <6> QED
            BY <2>3, <3>2, <5>1, Arrived
        <5>3. Begins(From(1, fed[u] + 1), From(1, fed[u] + 1))
          BY <2>3, Rows, BeginsTrue
        <5> QED
          BY <1>3, <1>6, <4>0, <4>2, <5>1, <5>2, <5>3 DEF Relayed
      <4> QED
        BY <2>2, <4>1, <4>2
    <3>5. Relaying(c, src, snk, ses[c], Out(c))'
      BY <1>1, <1>2, <1>3, <3>1, <3>4 DEF Relaying, NoFile, NoFileEnds
    <3> QED
      BY <1>1, <1>3, <2>6, <3>5 DEF Stage, Alive, Held
  <2> QED
    BY <1>6, <2>5, <2>6 DEF Stage, Fresh, NoUpstream
<1> QED
  BY <1>5, <1>6

-----------------------------------------------------------------------------
(***************************************************************************)
(* The response through every step.  A session that has not taken a        *)
(* request yet holds bytes of its client, or an answer of its own, only    *)
(* while the loop is between the two pipes of the client: what comes in is *)
(* processed in the same visit and answered in the same pass.              *)
(***************************************************************************)
Between(c) ==
  \/ pc = "close" /\ idx = slot[C2S(c)]
  \/ pc \in {"source", "sink", "close"} /\ slot[C2S(c)] < idx /\ idx < slot[S2C(c)]
  \/ pc = "source" /\ idx = slot[S2C(c)]

TurnFor(c) ==
  ses[c].live =>
    /\ slot[C2S(c)] < slot[S2C(c)]
    /\ ~ses[c].req /\ ses[c].to # <<>> => Between(c)
    /\ ~ses[c].req /\ ses[c].to = <<>> /\ buf[C2S(c)] # <<>> =>
         pc = "sink" /\ idx = slot[C2S(c)] /\ ConnOpen(ClientConn(c))

TurnInv == \A c \in Client : TurnFor(c)

LEMMA Dispatch ==
  ASSUME NEW c \in Client
  PROVE  /\ SourceHandler(C2S(c)) => connection_source_handler(ClientConn(c))
         /\ SourceHandler(U2S(c)) => connection_source_handler(UpstreamConn(c))
         /\ SourceHandler(S2C(c)) => client_source_handler(c)
         /\ SourceHandler(S2U(c)) => upstream_source_handler(c)
         /\ SourceHandler(F2S(c)) => file_source_handler(c)
         /\ SinkHandler(C2S(c)) => client_sink_handler(c)
         /\ SinkHandler(U2S(c)) => upstream_sink_handler(c)
         /\ SinkHandler(S2C(c)) => connection_sink_handler(ClientConn(c))
         /\ SinkHandler(S2U(c)) => connection_sink_handler(UpstreamConn(c))
         /\ SinkHandler(F2S(c)) => file_sink_handler(c)
         /\ SourceCloseHandler(C2S(c)) => connection_source_close_handler(ClientConn(c))
         /\ SourceCloseHandler(U2S(c)) => connection_source_close_handler(UpstreamConn(c))
         /\ SourceCloseHandler(S2C(c)) => client_source_close_handler(c)
         /\ SourceCloseHandler(S2U(c)) => upstream_source_close_handler(c)
         /\ SourceCloseHandler(F2S(c)) => file_source_close_handler(c)
         /\ SinkCloseHandler(C2S(c)) => client_sink_close_handler(c)
         /\ SinkCloseHandler(U2S(c)) => upstream_sink_close_handler(c)
         /\ SinkCloseHandler(S2C(c)) => connection_sink_close_handler(ClientConn(c))
         /\ SinkCloseHandler(S2U(c)) => connection_sink_close_handler(UpstreamConn(c))
         /\ SinkCloseHandler(F2S(c)) => file_sink_close_handler(c)
<1>1. /\ C2S(c)[1] = "c2s" /\ C2S(c)[2] = c /\ S2C(c)[1] = "s2c" /\ S2C(c)[2] = c
      /\ S2U(c)[1] = "s2u" /\ S2U(c)[2] = c /\ U2S(c)[1] = "u2s" /\ U2S(c)[2] = c
      /\ F2S(c)[1] = "f2s" /\ F2S(c)[2] = c
  BY DEF C2S, S2C, S2U, U2S, F2S
<1>2. /\ SourceHandler(C2S(c)) => connection_source_handler(ClientConn(c))
      /\ SourceHandler(U2S(c)) => connection_source_handler(UpstreamConn(c))
      /\ SourceHandler(S2C(c)) => client_source_handler(c)
      /\ SourceHandler(S2U(c)) => upstream_source_handler(c)
      /\ SourceHandler(F2S(c)) => file_source_handler(c)
  BY <1>1 DEF SourceHandler
<1>3. /\ SinkHandler(C2S(c)) => client_sink_handler(c)
      /\ SinkHandler(U2S(c)) => upstream_sink_handler(c)
      /\ SinkHandler(S2C(c)) => connection_sink_handler(ClientConn(c))
      /\ SinkHandler(S2U(c)) => connection_sink_handler(UpstreamConn(c))
      /\ SinkHandler(F2S(c)) => file_sink_handler(c)
  BY <1>1 DEF SinkHandler
<1>4. /\ SourceCloseHandler(C2S(c)) => connection_source_close_handler(ClientConn(c))
      /\ SourceCloseHandler(U2S(c)) => connection_source_close_handler(UpstreamConn(c))
      /\ SourceCloseHandler(S2C(c)) => client_source_close_handler(c)
      /\ SourceCloseHandler(S2U(c)) => upstream_source_close_handler(c)
      /\ SourceCloseHandler(F2S(c)) => file_source_close_handler(c)
  BY <1>1 DEF SourceCloseHandler
<1>5. /\ SinkCloseHandler(C2S(c)) => client_sink_close_handler(c)
      /\ SinkCloseHandler(U2S(c)) => upstream_sink_close_handler(c)
      /\ SinkCloseHandler(S2C(c)) => connection_sink_close_handler(ClientConn(c))
      /\ SinkCloseHandler(S2U(c)) => connection_sink_close_handler(UpstreamConn(c))
      /\ SinkCloseHandler(F2S(c)) => file_sink_close_handler(c)
  BY <1>1 DEF SinkCloseHandler
<1> QED
  BY <1>2, <1>3, <1>4, <1>5

LEMMA StageLocal ==
  ASSUME WorldOK, WorldOK', NEW d \in Client, Local(d), NEW c \in Client, c # d, Stage(c)
  PROVE  Stage(c)'
<1> USE Names, Owners
<1>1. /\ ses'[c] = ses[c] /\ file'[c] = file[c]
      /\ \A k \in {ClientConn(c), UpstreamConn(c)} :
           sock'[k] = sock[k] /\ sent'[k] = sent[k] /\ fed'[k] = fed[k]
      /\ \A p \in {C2S(c), S2C(c), S2U(c), U2S(c), F2S(c)} :
           buf'[p] = buf[p] /\ src'[p] = src[p] /\ snk'[p] = snk[p]
  BY DEF Local
<1>2. SameStream(c)
  BY <1>1 DEF SameStream, Out, NotYet, ConnOpen
<1>3. SameEnds(c, src', snk', src, snk)
  BY <1>1 DEF SameEnds
<1> QED
  BY <1>2, <1>3, StageFrame

\* A visit of a pipe: what handle_pipes finds to do there.
Unanswered(p) == \A c \in Client : p = C2S(c) /\ ~ses[c].req => ses[c].to = <<>>

Visit(p) ==
  \/ SourceTurn(p) /\ SourceHandler(p)
  \/ SinkTurn(p) /\ Unanswered(p) /\ SinkHandler(p)
  \/ SourceOrphan(p) /\ SourceCloseHandler(p)
  \/ SinkOrphan(p) /\ SinkCloseHandler(p)

LEMMA VisitStage ==
  ASSUME WorldOK, WorldOK', EndsOwned, FlagsInv, StageInv, NEW p \in Pipe, Visit(p)
  PROVE  StageInv'
<1>1. PICK c \in Client : p \in {C2S(c), S2C(c), S2U(c), U2S(c), F2S(c)} /\ p[2] = c
  BY PipeCases
<1>2. Local(c)
  BY <1>1, HandlerLocal DEF Visit
<1>3. Stage(c) /\ OwnedFor(c) /\ FlagsFor(c)
  BY OwnedParts DEF StageInv, FlagsInv
<1>4. Stage(c)'
  <2>1. CASE p = C2S(c)
    <3>1. CASE SinkTurn(p) /\ Unanswered(p) /\ SinkHandler(p)
      <4>1. ses[c].live /\ (~ses[c].req => ses[c].to = <<>>)
        BY <1>3, <2>1, <3>1 DEF SinkTurn, OwnedFor, Unanswered
      <4> QED
        BY <1>3, <2>1, <3>1, <4>1, Dispatch, RequestStage
    <3>2. CASE SinkOrphan(p) /\ SinkCloseHandler(p)
      BY <1>3, <2>1, <3>2, Dispatch, SessionCloseStage
    <3>3. CASE (SourceTurn(p) /\ SourceHandler(p)) \/ (SourceOrphan(p) /\ SourceCloseHandler(p))
      <4>1. ConnOpen(ClientConn(c))
        BY <1>3, <2>1, <3>3 DEF SourceTurn, SourceOrphan, OwnedFor
      <4> QED
        BY <1>3, <2>1, <3>3, <4>1, Dispatch, ClientConnStage
    <3> QED
      BY <3>1, <3>2, <3>3 DEF Visit
  <2>2. CASE p = S2C(c)
    <3>1. CASE SourceTurn(p) /\ SourceHandler(p)
      BY <1>3, <2>2, <3>1, Dispatch, ClientSourceStage
    <3>2. CASE SourceOrphan(p) /\ SourceCloseHandler(p)
      BY <1>3, <2>2, <3>2, Dispatch, SessionCloseStage
    <3>3. CASE (SinkTurn(p) /\ SinkHandler(p)) \/ (SinkOrphan(p) /\ SinkCloseHandler(p))
      <4>1. ConnOpen(ClientConn(c))
        BY <1>3, <2>2, <3>3 DEF SinkTurn, SinkOrphan, OwnedFor
      <4> QED
        BY <1>3, <2>2, <3>3, <4>1, Dispatch, ClientConnStage
    <3> QED
      BY <3>1, <3>2, <3>3 DEF Visit
  <2>3. CASE p = S2U(c)
    <3>1. CASE SourceTurn(p) /\ SourceHandler(p)
      BY <1>3, <2>3, <3>1, Dispatch, UpstreamSourceStage
    <3>2. CASE SourceOrphan(p) /\ SourceCloseHandler(p)
      BY <1>3, <2>3, <3>2, Dispatch, SessionCloseStage
    <3>3. CASE (SinkTurn(p) /\ SinkHandler(p)) \/ (SinkOrphan(p) /\ SinkCloseHandler(p))
      <4>1. ConnOpen(UpstreamConn(c)) /\ (SinkOrphan(p) => ~src[S2U(c)].on)
        BY <1>3, <2>3, <3>3 DEF SinkTurn, SinkOrphan, OwnedFor
      <4> QED
        BY <1>3, <2>3, <3>3, <4>1, Dispatch, UpstreamConnStage
    <3> QED
      BY <3>1, <3>2, <3>3 DEF Visit
  <2>4. CASE p = U2S(c)
    <3>1. CASE SinkTurn(p) /\ SinkHandler(p)
      BY <1>3, <2>4, <3>1, Dispatch, SessionSinkStage
    <3>2. CASE SinkOrphan(p) /\ SinkCloseHandler(p)
      BY <1>3, <2>4, <3>2, Dispatch, SessionCloseStage
    <3>3. CASE (SourceTurn(p) /\ SourceHandler(p)) \/ (SourceOrphan(p) /\ SourceCloseHandler(p))
      <4>1. ConnOpen(UpstreamConn(c)) /\ (SourceOrphan(p) => ~snk[U2S(c)].on)
        BY <1>3, <2>4, <3>3 DEF SourceTurn, SourceOrphan, OwnedFor
      <4> QED
        BY <1>3, <2>4, <3>3, <4>1, Dispatch, UpstreamConnStage
    <3> QED
      BY <3>1, <3>2, <3>3 DEF Visit
  <2>5. CASE p = F2S(c)
    <3>1. CASE SinkTurn(p) /\ SinkHandler(p)
      BY <1>3, <2>5, <3>1, Dispatch, SessionSinkStage
    <3>2. CASE SinkOrphan(p) /\ SinkCloseHandler(p)
      BY <1>3, <2>5, <3>2, Dispatch, SessionCloseStage
    <3>3. CASE (SourceTurn(p) /\ SourceHandler(p)) \/ (SourceOrphan(p) /\ SourceCloseHandler(p))
      BY <1>3, <2>5, <3>3, Dispatch, FileStage
    <3> QED
      BY <3>1, <3>2, <3>3 DEF Visit
  <2> QED
    BY <1>1, <2>1, <2>2, <2>3, <2>4, <2>5
<1>5. \A d \in Client : d # c => Stage(d)'
  BY <1>2, StageLocal DEF StageInv
<1> QED
  BY <1>4, <1>5 DEF StageInv

LEMMA StepVisits ==
  ASSUME TypeOK, EndsOwned, TurnInv, NEW p \in Pipe, SourceStep(p) \/ SinkStep(p) \/ CloseStep(p)
  PROVE  Visit(p) \/ UnchangedWorld
<1>1. CASE SourceStep(p) \/ CloseStep(p)
  BY <1>1 DEF SourceStep, CloseStep, Visit
<1>2. CASE SinkStep(p)
  <2>1. ASSUME NEW c \in Client, p = C2S(c), SinkTurn(p), ~ses[c].req
        PROVE  ses[c].to = <<>>
    <3>1. ses[c].live /\ TurnFor(c)
      BY <2>1, OwnedParts DEF SinkTurn, OwnedFor, TurnInv
    <3>2. pc = "sink" /\ slot[C2S(c)] = idx /\ slot[C2S(c)] \in Nat
      BY <1>2, <2>1, TypeParts, States, Names DEF SinkStep, At
    <3> QED
      BY <2>1, <3>1, <3>2 DEF TurnFor, Between
  <2> QED
    BY <1>2, <2>1 DEF SinkStep, Visit, Unanswered
<1> QED
  BY <1>1, <1>2

LEMMA StageInit == Init => StageInv
<1> SUFFICES ASSUME Init, NEW c \in Client PROVE Fresh(c)
  BY DEF StageInv, Stage
<1> USE Names
<1>1. /\ buf[S2C(c)] = <<>> /\ buf[C2S(c)] = <<>> /\ buf[U2S(c)] = <<>> /\ buf[F2S(c)] = <<>>
      /\ \A p \in Pipe : src[p] = FreedEnd /\ snk[p] = FreedEnd
  BY DEF Init, PipeInit
<1>2. sent[ClientConn(c)] = <<>> /\ \A k \in Conn : sock[k] = NoSocket /\ fed[k] = 0
  BY DEF Init, SocketInit
<1>3. ses[c] = NoSession /\ file[c].st = "none" /\ file[c].left = FileSize
  BY DEF Init, SessionInit
<1>4. Out(c) = <<>>
  BY <1>1, <1>2, Texts DEF Out
<1> QED
  BY <1>1, <1>2, <1>3, <1>4
  DEF Fresh, NoUpstream, NoUpstreamEnds, NoFile, NoFileEnds, NotYet, NoSocket, FreedEnd

LEMMA StageStep ==
  TypeOK /\ EndsOwned /\ FlagsInv /\ TurnInv /\ StageInv /\ [Next]_vars => StageInv'
<1> SUFFICES ASSUME TypeOK, EndsOwned, FlagsInv, TurnInv, StageInv, [Next]_vars
             PROVE  StageInv'
  OBVIOUS
<1>0. WorldOK /\ WorldOK'
  <2>1. TypeOK'
    BY TypeStep
  <2> QED
    BY <2>1, TypeParts DEF TypeOK
<1>1. CASE \/ UNCHANGED vars \/ SkipNull \/ PassDone \/ ListenerEvent \/ AcceptDone
           \/ UnchangedWorld \/ EventsDone
  <2>1. UNCHANGED <<src, snk, buf, sock, sent, fed, ses, file>>
    BY <1>1 DEF vars, SkipNull, PassDone, ListenerEvent, AcceptDone, UnchangedWorld, EventsDone,
                filter_null_pipes, pipeVars, sockVars, sessionVars
  <2> QED
    BY <1>0, <2>1, QuietStage DEF StageInv
<1>2. CASE \E p \in Pipe : DestroyDead(p)
  <2>1. \A c \in Client : OwnedFor(c)
    BY OwnedParts
  <2> QED
    BY <1>0, <1>2, <2>1, DestroyDeadStage DEF StageInv, DestroyDead
<1>3. CASE \E p \in Pipe : SourceStep(p) \/ SinkStep(p) \/ CloseStep(p)
  <2>1. PICK p \in Pipe : SourceStep(p) \/ SinkStep(p) \/ CloseStep(p)
    BY <1>3
  <2>2. CASE UnchangedWorld
    BY <1>1, <2>2
  <2> QED
    BY <1>0, <2>1, <2>2, VisitStage, StepVisits
<1>4. CASE \/ epoll_wait \/ (\E e \in batch : HandleEvent(e)) \/ (\E k \in Conn : HandleOut(k))
  BY <1>0, <1>4, EpollStage DEF StageInv
<1>5. CASE \E c \in Client : Accept(c)
  <2>1. PICK c \in Client : c \in Backlog /\ xps_session_create(c)
    BY <1>5 DEF Accept
  <2> QED
    BY <1>0, <2>1, AcceptStage, AcceptLocal, StageLocal DEF StageInv
<1>6. CASE PeerStep
  BY <1>0, <1>6, PeerStage DEF StageInv
<1> QED
  BY <1>1, <1>2, <1>3, <1>4, <1>5, <1>6
  DEF Next, xps_loop_run, handle_pipes, handle_epoll_events, Idle

-----------------------------------------------------------------------------
(***************************************************************************)
(* The turns of a session without a request.                               *)
(***************************************************************************)
\* No handler but the one that accepts makes a session, and none forgets a request.
GoesOn(c) ==
  /\ ses'[c].live => ses[c].live /\ (ses[c].req => ses'[c].req)
  /\ slot'[C2S(c)] = slot[C2S(c)] /\ slot'[S2C(c)] = slot[S2C(c)]

LEMMA CheckGoesOn ==
  ASSUME WorldOK, NEW c \in Client, NEW S, NEW K, NEW r, session_check_destroy(c, S, K, r),
         r.live = ses[c].live, r.req = ses[c].req
  PROVE  ses'[c] = r \/ ses'[c] = NoSession
BY States DEF session_check_destroy, xps_session_destroy

LEMMA SessionGoesOn ==
  ASSUME WorldOK, NEW c \in Client,
         \/ client_source_handler(c) \/ upstream_source_handler(c)
         \/ upstream_sink_handler(c) \/ file_sink_handler(c)
         \/ client_source_close_handler(c) \/ client_sink_close_handler(c)
         \/ upstream_source_close_handler(c) \/ upstream_sink_close_handler(c)
         \/ file_sink_close_handler(c)
  PROVE  GoesOn(c)
<1>0. ses[c] \in Session /\ ses \in [Client -> Session]
  BY States
<1>1. UnchangedList
  BY DEF client_source_handler, upstream_source_handler, upstream_sink_handler, file_sink_handler,
         client_source_close_handler, client_sink_close_handler, upstream_source_close_handler,
         upstream_sink_close_handler, file_sink_close_handler, CloseSessionEnd
<1>2. /\ [ses[c] EXCEPT !.to = <<>>].live = ses[c].live
      /\ [ses[c] EXCEPT !.to = <<>>].req = ses[c].req
      /\ AfterUpstreamWrite(c).live = ses[c].live /\ AfterUpstreamWrite(c).req = ses[c].req
      /\ MarkUpstreamError(c).live = ses[c].live /\ MarkUpstreamError(c).req = ses[c].req
  BY <1>0 DEF AfterUpstreamWrite, MarkUpstreamError, Session
<1>3. ses'[c].live => ses[c].live /\ (ses[c].req => ses'[c].req)
  <2>1. ASSUME NEW S, NEW K, NEW r, session_check_destroy(c, S, K, r),
               r.live = ses[c].live, r.req = ses[c].req
        PROVE  ses'[c].live => ses[c].live /\ (ses[c].req => ses'[c].req)
    BY <2>1, CheckGoesOn DEF NoSession
  <2>2. CASE client_source_handler(c) \/ upstream_source_handler(c)
    BY <1>2, <2>1, <2>2 DEF client_source_handler, upstream_source_handler
  <2>3. CASE upstream_sink_handler(c)
    BY <1>0, <2>3 DEF upstream_sink_handler, Session
  <2>4. CASE file_sink_handler(c)
    BY <1>0, <2>4 DEF file_sink_handler, Session
  <2>5. CASE \/ client_source_close_handler(c) \/ client_sink_close_handler(c)
             \/ upstream_source_close_handler(c) \/ upstream_sink_close_handler(c)
             \/ file_sink_close_handler(c)
    BY <1>2, <2>1, <2>5
    DEF client_source_close_handler, client_sink_close_handler, upstream_source_close_handler,
        upstream_sink_close_handler, file_sink_close_handler, CloseSessionEnd
  <2> QED
    BY <2>2, <2>3, <2>4, <2>5
<1> QED
  BY <1>1, <1>3 DEF GoesOn, UnchangedList

LEMMA RequestGoesOn ==
  ASSUME WorldOK, NEW c \in Client, client_sink_handler(c)
  PROVE  GoesOn(c) /\ (ses'[c].live /\ ~ses'[c].req => ses'[c].to # <<>>)
<1> USE Names, NamesDiffer
<1>0. ses[c] \in Session /\ ses \in [Client -> Session] /\ Head0 # <<>> /\ slot \in [Pipe -> Nat]
  BY States, Texts
<1>1. /\ slot'[C2S(c)] = slot[C2S(c)] /\ slot'[S2C(c)] = slot[S2C(c)]
  BY <1>0 DEF client_sink_handler, session_process_request, BadRequest, ReplyOnly, ServeFile,
     ReverseProxy, InvalidRoute, UnchangedList, PushPipe, PushPipes
<1>2. /\ Parsed(c).live = ses[c].live /\ Parsed(c).req
      /\ [Parsed(c) EXCEPT !.to = Head0].live = ses[c].live
      /\ [Parsed(c) EXCEPT !.to = Head0].req
  BY <1>0 DEF Parsed, Session
<1>3. CASE ses[c].req /\ ses' = [ses EXCEPT ![c].from = buf[C2S(c)]]
  BY <1>0, <1>1, <1>3 DEF GoesOn, Session
<1>4. CASE ~ses[c].req /\ BadRequest(c)
  BY <1>0, <1>1, <1>4 DEF GoesOn, BadRequest, Session
<1>5. CASE ReplyOnly(c) \/ ServeFile(c) \/ ReverseProxy(c)
  BY <1>0, <1>1, <1>2, <1>5 DEF GoesOn, ReplyOnly, ServeFile, ReverseProxy
<1>6. CASE InvalidRoute(c)
  BY <1>0, <1>1, <1>6 DEF GoesOn, InvalidRoute, xps_session_destroy, NoSession
<1> QED
  BY <1>3, <1>4, <1>5, <1>6 DEF client_sink_handler, session_process_request

LEMMA VisitGoesOn ==
  ASSUME WorldOK, NEW p \in Pipe, NEW c \in Client, p[2] = c,
         p \in {C2S(c), S2C(c), S2U(c), U2S(c), F2S(c)}, Visit(p)
  PROVE  GoesOn(c)
<1> USE Names
<1>1. ASSUME NEW k \in Conn,
             \/ connection_source_handler(k) \/ connection_sink_handler(k)
             \/ connection_source_close_handler(k) \/ connection_sink_close_handler(k)
      PROVE  GoesOn(c)
  <2>1. UnchangedList
    BY <1>1 DEF connection_source_handler, connection_sink_handler,
                connection_source_close_handler, connection_sink_close_handler
  <2> QED
    BY <1>1, <2>1, ConnectionEffect DEF GoesOn, UnchangedList
<1>2. CASE file_source_handler(c) \/ file_source_close_handler(c)
  BY <1>2 DEF file_source_handler, file_source_close_handler, GoesOn, UnchangedList
<1>3. CASE p = C2S(c)
  BY <1>1, <1>3, Dispatch, SessionGoesOn, RequestGoesOn DEF Visit
<1>4. CASE p = S2C(c) \/ p = S2U(c) \/ p = U2S(c)
  BY <1>1, <1>4, Dispatch, SessionGoesOn DEF Visit
<1>5. CASE p = F2S(c)
  BY <1>2, <1>5, Dispatch, SessionGoesOn DEF Visit
<1> QED
  BY <1>3, <1>4, <1>5

LEMMA TurnKept ==
  ASSUME WorldOK, WorldOK', EndsOwned, EndsOwned', Ordered, NEW c \in Client, TurnFor(c),
         ses'[c].live => ses[c].live,
         ses'[c].live /\ ~ses'[c].req /\ ses'[c].to # <<>> => Between(c)',
         ses'[c].live /\ ~ses'[c].req /\ ses'[c].to = <<>> /\ buf'[C2S(c)] # <<>> =>
           pc' = "sink" /\ idx' = slot'[C2S(c)] /\ ConnOpen(ClientConn(c))'
  PROVE  TurnFor(c)'
<1> SUFFICES ASSUME ses'[c].live PROVE slot'[C2S(c)] < slot'[S2C(c)]
  BY DEF TurnFor
<1> USE Names
<1>1. C2S(c) \in Listed /\ S2C(c) \in Listed
  BY DEF EndsOwned, Listed
<1>2. C2S(c) \in Listed' /\ S2C(c) \in Listed'
  BY DEF EndsOwned, Listed
<1> QED
  BY <1>1, <1>2 DEF Ordered, TurnFor

\* Where a session without a request stands, pipe by pipe.
LEMMA TurnMeans ==
  ASSUME WorldOK, EndsOwned, FlagsInv, StageInv, TurnInv, NEW c \in Client,
         ses[c].live, ~ses[c].req
  PROVE  /\ Own(c, src, snk, ses[c], Out(c)) /\ ses[c].from = <<>>
         /\ slot[C2S(c)] < slot[S2C(c)] /\ slot[C2S(c)] # 0 /\ slot[S2C(c)] # 0
         /\ slot[C2S(c)] \in Nat /\ slot[S2C(c)] \in Nat
         /\ ses[c].to # <<>> => Between(c) /\ SourceTurn(S2C(c))
         /\ ses[c].to = <<>> /\ buf[C2S(c)] # <<>> =>
              /\ pc = "sink" /\ idx = slot[C2S(c)] /\ ConnOpen(ClientConn(c))
              /\ SinkTurn(C2S(c))
<1> USE Names, NamesDiffer
<1>1. Own(c, src, snk, ses[c], Out(c)) /\ ses[c].from = <<>>
  BY LiveStage DEF StageInv, Own
<1>2. TurnFor(c) /\ Follows(c, src, snk, ses[c])
  BY DEF TurnInv, FlagsInv, FlagsFor
<1>3. src[S2C(c)].on /\ snk[C2S(c)].on /\ slot[C2S(c)] # 0 /\ slot[S2C(c)] # 0
  BY DEF EndsOwned
<1>4. buf[S2C(c)] = <<>>
  BY <1>1, StreamTexts, Texts, ZenonT(60) DEF Own, Out
<1>5. ses[c].to # <<>> => SourceTurn(S2C(c))
  <2>1. 0 < Thresh
    BY PipeAssumption
  <2> QED
    BY <1>2, <1>3, <1>4, <2>1 DEF Follows, SourceTurn, xps_pipe_is_writable
<1>6. ses[c].to = <<>> /\ buf[C2S(c)] # <<>> => SinkTurn(C2S(c))
  BY <1>1, <1>2, <1>3 DEF Follows, SinkTurn, xps_pipe_is_readable
<1> QED
  BY <1>1, <1>2, <1>3, <1>5, <1>6, States DEF TurnFor

\* A step that leaves c alone and does not take the loop out of its turn.
LEMMA QuietTurn ==
  ASSUME WorldOK, WorldOK', EndsOwned, EndsOwned', Ordered, NEW c \in Client, TurnFor(c),
         ses'[c] = ses[c], buf'[C2S(c)] = buf[C2S(c)],
         ConnOpen(ClientConn(c))' = ConnOpen(ClientConn(c)),
         ses[c].live => /\ Between(c) => Between(c)'
                        /\ pc = "sink" /\ idx = slot[C2S(c)] => pc' = "sink" /\ idx' = slot'[C2S(c)]
  PROVE  TurnFor(c)'
<1>1. ses'[c].live => ses[c].live
  OBVIOUS
<1>2. ses'[c].live /\ ~ses'[c].req /\ ses'[c].to # <<>> => Between(c)'
  BY DEF TurnFor
<1>3. ses'[c].live /\ ~ses'[c].req /\ ses'[c].to = <<>> /\ buf'[C2S(c)] # <<>> =>
        pc' = "sink" /\ idx' = slot'[C2S(c)] /\ ConnOpen(ClientConn(c))'
  BY DEF TurnFor
<1> QED
  BY <1>1, <1>2, <1>3, TurnKept

\* The loop goes from one pipe of the list to another, neither of them between
\* client and session of c.
LEMMA Passes ==
  ASSUME WorldOK, NEW c \in Client, Between(c), idx \in Nat,
         idx # slot[C2S(c)], idx # slot[S2C(c)],
         slot'[C2S(c)] = slot[C2S(c)], slot'[S2C(c)] = slot[S2C(c)],
         \/ pc' \in {"sink", "close"} /\ idx' = idx
         \/ pc' = "source" /\ idx' = idx + 1
  PROVE  Between(c)'
<1>1. slot[C2S(c)] \in Nat /\ slot[S2C(c)] \in Nat
  BY Names, States
<1>2. slot[C2S(c)] < idx /\ idx < slot[S2C(c)]
  BY DEF Between
<1> QED
  BY <1>1, <1>2 DEF Between

\* The pipe visited is not between client and session of c.
LEMMA OtherTurn ==
  ASSUME WorldOK, WorldOK', EndsOwned, EndsOwned', Ordered, PipeListConsistent, idx \in Nat \ {0},
         NEW c \in Client, TurnFor(c),
         NEW p \in Pipe, slot[p] = idx, p # C2S(c), p # S2C(c),
         ses'[c] = ses[c], buf'[C2S(c)] = buf[C2S(c)],
         slot'[C2S(c)] = slot[C2S(c)], slot'[S2C(c)] = slot[S2C(c)],
         ConnOpen(ClientConn(c))' = ConnOpen(ClientConn(c)),
         \/ pc' \in {"sink", "close"} /\ idx' = idx
         \/ pc' = "source" /\ idx' = idx + 1
  PROVE  TurnFor(c)'
<1>1. ASSUME ses[c].live
      PROVE  idx # slot[C2S(c)] /\ idx # slot[S2C(c)]
  <2>1. slot[C2S(c)] # 0 /\ slot[S2C(c)] # 0
    BY <1>1, Names DEF EndsOwned
  <2>2. C2S(c) \in Listed /\ S2C(c) \in Listed /\ p \in Listed
    BY <2>1, Names DEF Listed
  <2> QED
    BY <2>2 DEF PipeListConsistent
<1>2. ses[c].live /\ Between(c) => Between(c)'
  BY <1>1, Passes
<1> QED
  BY <1>1, <1>2, QuietTurn

\* The visit of the pipe from the client.
LEMMA TurnIn ==
  ASSUME TypeOK, WorldOK', EndsOwned, EndsOwned', Ordered, FlagsInv, StageInv, TurnInv,
         NEW c \in Client,
         SourceStep(C2S(c)) \/ SinkStep(C2S(c)) \/ CloseStep(C2S(c))
  PROVE  TurnFor(c)'
<1> DEFINE p == C2S(c)
           k == ClientConn(c)
<1> USE Names, NamesDiffer
<1>0. WorldOK /\ idx \in Nat \ {0} /\ idx = slot[p] /\ TurnFor(c) /\ p[2] = c
  BY TypeParts, Owners DEF TypeOK, SourceStep, SinkStep, CloseStep, At, TurnInv
<1>1. GoesOn(c)
  <2>1. CASE UnchangedWorld
    BY <2>1 DEF UnchangedWorld, pipeVars, sessionVars, GoesOn
  <2> QED
    BY <1>0, <2>1, StepVisits, VisitGoesOn
<1>2. SUFFICES ASSUME ses'[c].live, ~ses'[c].req
               PROVE  /\ ses'[c].to # <<>> => Between(c)'
                      /\ ses'[c].to = <<>> /\ buf'[p] # <<>> =>
                           pc' = "sink" /\ idx' = slot'[p] /\ ConnOpen(k)'
  BY <1>0, <1>1, TurnKept DEF GoesOn
<1>3. ses[c].live /\ ~ses[c].req /\ slot'[p] = slot[p] /\ slot'[S2C(c)] = slot[S2C(c)]
  BY <1>1, <1>2 DEF GoesOn
<1>4. /\ slot[p] < slot[S2C(c)] /\ slot[p] \in Nat /\ slot[S2C(c)] \in Nat
      /\ ses[c].to # <<>> => Between(c)
      /\ ses[c].to = <<>> /\ buf[p] # <<>> =>
           pc = "sink" /\ ConnOpen(k) /\ SinkTurn(p)
  BY <1>0, <1>3, TurnMeans
<1>5. CASE SourceStep(p)
  <2>1. pc = "source" /\ pc' = "sink" /\ idx' = idx
    BY <1>5 DEF SourceStep, At, GoTo
  <2>2. ses[c].to = <<>> /\ buf[p] = <<>>
    BY <1>0, <1>4, <2>1 DEF Between
  <2>3. CASE UnchangedWorld
    BY <2>2, <2>3 DEF UnchangedWorld, pipeVars, sessionVars
  <2>4. CASE SourceTurn(p) /\ SourceHandler(p)
    <3>1. connection_source_handler(k) /\ ConnOpen(k)
      BY <2>4, Dispatch, ConnPipes DEF SourceTurn, EndsOwned
    <3>2. ses'[c] = ses[c]
      BY <3>1 DEF connection_source_handler
    <3>3. buf'[p] # <<>> => sock'[k].st = sock[k].st
      BY <1>0, <2>2, <3>1, ConnectionEffect, ConnPipes
    <3> QED
      BY <1>0, <1>3, <2>1, <2>2, <3>1, <3>2, <3>3 DEF ConnOpen
  <2> QED
    BY <1>5, <2>3, <2>4 DEF SourceStep
<1>6. CASE SinkStep(p)
  <2>1. pc = "sink" /\ pc' = "close" /\ idx' = idx
    BY <1>6 DEF SinkStep, At, GoTo
  <2>2. ses[c].to = <<>> /\ Between(c)'
    BY <1>0, <1>3, <1>4, <2>1 DEF Between
  <2>3. CASE UnchangedWorld /\ ~SinkTurn(p)
    BY <1>4, <2>2, <2>3 DEF UnchangedWorld, pipeVars, sessionVars
  <2>4. CASE SinkTurn(p) /\ SinkHandler(p)
    <3>1. client_sink_handler(c)
      BY <2>4, Dispatch
    <3> QED
      BY <1>0, <1>2, <2>2, <3>1, RequestGoesOn
  <2> QED
    BY <1>6, <2>3, <2>4 DEF SinkStep
<1>7. CASE CloseStep(p)
  <2>1. pc = "close" /\ pc' = "source" /\ idx' = idx + 1
    BY <1>7 DEF CloseStep, At, NextPosition
  <2>2. Between(c)'
    BY <1>0, <1>3, <1>4, <2>1 DEF Between
  <2>3. buf' = buf /\ ses'[c].to = ses[c].to
    <3>1. CASE UnchangedWorld
      BY <3>1 DEF UnchangedWorld, pipeVars, sessionVars
    <3>2. CASE SourceCloseHandler(p)
      BY <3>2, Dispatch DEF connection_source_close_handler
    <3>3. CASE SinkCloseHandler(p)
      <4>1. client_sink_close_handler(c)
        BY <3>3, Dispatch
      <4>2. ses'[c] = ses[c] \/ ses'[c] = NoSession
        BY <1>0, <4>1, CheckGoesOn DEF client_sink_close_handler, CloseSessionEnd
      <4> QED
        BY <1>2, <4>1, <4>2 DEF client_sink_close_handler, CloseSessionEnd, NoSession
    <3> QED
      BY <1>7, <3>1, <3>2, <3>3 DEF CloseStep
  <2>4. ses[c].to = <<>> => buf[p] = <<>>
    BY <1>4, <2>1
  <2> QED
    BY <2>2, <2>3, <2>4
<1> QED
  BY <1>5, <1>6, <1>7

\* The visit of the pipe to the client.
LEMMA TurnOut ==
  ASSUME TypeOK, WorldOK', EndsOwned, EndsOwned', Ordered, FlagsInv, StageInv, TurnInv,
         NEW c \in Client,
         SourceStep(S2C(c)) \/ SinkStep(S2C(c)) \/ CloseStep(S2C(c))
  PROVE  TurnFor(c)'
<1> DEFINE p == S2C(c)
           k == ClientConn(c)
<1> USE Names, NamesDiffer
<1>0. WorldOK /\ idx \in Nat \ {0} /\ idx = slot[p] /\ TurnFor(c) /\ p[2] = c
  BY TypeParts, Owners DEF TypeOK, SourceStep, SinkStep, CloseStep, At, TurnInv
<1>1. GoesOn(c)
  <2>1. CASE UnchangedWorld
    BY <2>1 DEF UnchangedWorld, pipeVars, sessionVars, GoesOn
  <2>2. p \in Pipe /\ p \in {C2S(c), S2C(c), S2U(c), U2S(c), F2S(c)}
    OBVIOUS
  <2> QED
    BY <1>0, <2>1, <2>2, StepVisits, VisitGoesOn
<1>2. SUFFICES ASSUME ses'[c].live, ~ses'[c].req
               PROVE  ses'[c].to = <<>> /\ buf'[C2S(c)] = <<>>
  BY <1>0, <1>1, TurnKept DEF GoesOn
<1>3. ses[c].live /\ ~ses[c].req
  BY <1>1, <1>2 DEF GoesOn
<1>4. /\ Own(c, src, snk, ses[c], Out(c)) /\ ses[c].from = <<>>
      /\ slot[C2S(c)] < slot[p] /\ slot[p] \in Nat /\ slot[C2S(c)] \in Nat
      /\ ses[c].to # <<>> => Between(c) /\ SourceTurn(p)
      /\ ses[c].to = <<>> /\ buf[C2S(c)] # <<>> => idx = slot[C2S(c)]
  BY <1>0, <1>3, TurnMeans
<1>5. buf[C2S(c)] # <<>> => ses[c].to # <<>>
  BY <1>0, <1>4
<1>6. CASE SourceStep(p)
  <2>1. CASE ses[c].to = <<>>
    <3>1. ~SourceTurn(p)
      BY <1>3, <2>1 DEF FlagsInv, FlagsFor, Follows, SourceTurn
    <3> QED
      BY <1>5, <1>6, <2>1, <3>1 DEF SourceStep, UnchangedWorld, pipeVars, sessionVars
  <2>2. CASE ses[c].to # <<>>
    <3> DEFINE no == FALSE
               S == ToSources(src, c, no)
               K == ToSinks(snk, c, no)
               r == [ses[c] EXCEPT !.to = <<>>]
    <3>1. session_check_destroy(c, S, K, r)
      <4>1. SourceHandler(p)
        BY <1>4, <1>6, <2>2 DEF SourceStep
      <4> QED
        BY <4>1, Dispatch DEF client_source_handler
    <3>2. ~Flowing(c, S, K, r)
      <4>1. src \in Ends /\ snk \in Ends /\ no \in BOOLEAN /\ ses[c] \in Session
        BY <1>0, States
      <4>2. r.to = <<>> /\ r.from = <<>>
        BY <1>4, <4>1 DEF Session
      <4>3. /\ S[S2U(c)].active = src[S2U(c)].active
            /\ K[U2S(c)].active = snk[U2S(c)].active /\ K[F2S(c)].active = snk[F2S(c)].active
        <5> HIDE DEF no
        <5> QED
          BY <4>1, SettersKeep
      <4> HIDE DEF S, K, r
      <4> QED
        BY <1>4, <4>2, <4>3 DEF Flowing, Own, NoUpstreamEnds, NoFileEnds
    <3>3. ses'[c] = NoSession
      <4> HIDE DEF S, K, r
      <4> QED
        BY <1>0, <3>1, <3>2, States DEF session_check_destroy, xps_session_destroy
    <3> QED
      BY <1>2, <3>3 DEF NoSession
  <2> QED
    BY <2>1, <2>2
<1>7. CASE SinkStep(p) \/ CloseStep(p)
  <2>1. pc \in {"sink", "close"}
    BY <1>7 DEF SinkStep, CloseStep, At
  <2>2. ses[c].to = <<>> /\ buf[C2S(c)] = <<>>
    BY <1>0, <1>4, <1>5, <2>1 DEF Between
  <2>3. ses'[c].to = ses[c].to /\ buf'[C2S(c)] = buf[C2S(c)]
    <3>1. CASE UnchangedWorld
      BY <3>1 DEF UnchangedWorld, pipeVars, sessionVars
    <3>2. CASE SinkHandler(p)
      <4>1. connection_sink_handler(k)
        BY <3>2, Dispatch
      <4> QED
        BY <1>0, <4>1, ConnPipes, States DEF connection_sink_handler, xps_pipe_sink_clear
    <3>3. CASE SinkCloseHandler(p)
      BY <3>3, Dispatch DEF connection_sink_close_handler
    <3>4. CASE SourceCloseHandler(p)
      <4>1. client_source_close_handler(c)
        BY <3>4, Dispatch
      <4>2. ses'[c] = ses[c] \/ ses'[c] = NoSession
        BY <1>0, <4>1, CheckGoesOn DEF client_source_close_handler, CloseSessionEnd
      <4> QED
        BY <1>2, <4>1, <4>2 DEF client_source_close_handler, CloseSessionEnd, NoSession
    <3> QED
      BY <1>7, <3>1, <3>2, <3>3, <3>4 DEF SinkStep, CloseStep
  <2> QED
    BY <2>2, <2>3
<1> QED
  BY <1>6, <1>7

LEMMA TurnInit == Init => TurnInv
BY DEF Init, SessionInit, NoSession, TurnInv, TurnFor

\* The loop is not at the pipes of c: what the step changes of c does not matter
\* as long as session and pipe stay.
LEMMA AwayTurn ==
  ASSUME WorldOK, WorldOK', EndsOwned, EndsOwned', Ordered, NEW c \in Client, TurnFor(c),
         pc \notin {"source", "sink", "close"},
         ses'[c] = ses[c], buf'[C2S(c)] = buf[C2S(c)]
  PROVE  TurnFor(c)'
<1>1. ses[c].live /\ ~ses[c].req => ses[c].to = <<>> /\ buf[C2S(c)] = <<>>
  BY DEF TurnFor, Between
<1> QED
  BY <1>1, TurnKept

LEMMA VisitTurn ==
  ASSUME TypeOK, WorldOK', EndsOwned, EndsOwned', Ordered, FreshInv, PipeListConsistent,
         FlagsInv, StageInv, TurnInv,
         NEW p \in Pipe, SourceStep(p) \/ SinkStep(p) \/ CloseStep(p), NEW c \in Client
  PROVE  TurnFor(c)'
<1> USE Names, NamesDiffer
<1>0. WorldOK /\ idx \in Nat \ {0} /\ idx = slot[p] /\ TurnFor(c)
  BY TypeParts DEF TypeOK, SourceStep, SinkStep, CloseStep, At, TurnInv
<1>1. \/ pc' \in {"sink", "close"} /\ idx' = idx
      \/ pc' = "source" /\ idx' = idx + 1
  BY DEF SourceStep, SinkStep, CloseStep, GoTo, NextPosition
<1>2. PICK d \in Client : p \in {C2S(d), S2C(d), S2U(d), U2S(d), F2S(d)} /\ p[2] = d
  BY PipeCases
<1>3. CASE UnchangedWorld /\ p \notin {C2S(c), S2C(c)}
  BY <1>0, <1>1, <1>3, OtherTurn DEF UnchangedWorld, pipeVars, sockVars, sessionVars, ConnOpen
<1>4. CASE c # d /\ ~UnchangedWorld
  <2>1. Local(d)
    BY <1>0, <1>2, <1>4, StepVisits, HandlerLocal DEF Visit
  <2>2. C2S(c)[2] = c /\ S2C(c)[2] = c /\ ClientConn(c)[2] = c /\ p \notin {C2S(c), S2C(c)}
    BY <1>2, <1>4, Owners
  <2> QED
    BY <1>0, <1>1, <1>4, <2>1, <2>2, OtherTurn DEF Local, ConnOpen
<1>5. CASE c = d /\ ~UnchangedWorld /\ p \notin {C2S(c), S2C(c)}
  <2>1. GoesOn(c)
    BY <1>0, <1>2, <1>5, StepVisits, VisitGoesOn
  <2>2. slot[p] # 0
    BY <1>0
  <2>3. ~(ses[c].live /\ ~ses[c].req)
    BY <1>2, <1>5, <2>2 DEF FreshInv, FreshFor
  <2> QED
    BY <1>0, <2>1, <2>3, TurnKept DEF GoesOn
<1>6. CASE p = C2S(c)
  BY <1>6, TurnIn
<1>7. CASE p = S2C(c)
  BY <1>7, TurnOut
<1> QED
  BY <1>3, <1>4, <1>5, <1>6, <1>7

LEMMA AcceptTurn ==
  ASSUME TypeOK, WorldOK', EndsOwned, EndsOwned', Ordered, StageInv, TurnInv,
         NEW d \in Client, Accept(d), NEW c \in Client
  PROVE  TurnFor(c)'
<1> USE Names, NamesDiffer
<1>0. WorldOK /\ TurnFor(c) /\ d \in Backlog /\ xps_session_create(d) /\ pc = "accept"
  BY TypeParts DEF TypeOK, Accept, TurnInv
<1>1. CASE c # d
  <2>1. Local(d) /\ C2S(c)[2] = c
    BY <1>0, AcceptLocal, Owners
  <2> QED
    BY <1>0, <1>1, <2>1, AwayTurn DEF Local
<1>2. CASE c = d
  <2>1. Fresh(c) /\ slot \in [Pipe -> Nat] /\ pipes_length \in Nat /\ ses \in [Client -> Session]
    BY <1>0, <1>2, States DEF StageInv, Stage, Alive, Ended, Fresh, NotYet, Backlog, PipeTypeOK
  <2>2. slot'[C2S(c)] < slot'[S2C(c)]
    BY <1>0, <1>2, <2>1 DEF xps_session_create, PushPipes
  <2>3. ses'[c].to = <<>> /\ buf'[C2S(c)] = <<>>
    BY <1>0, <1>2, <2>1 DEF xps_session_create, NoSession, Fresh
  <2> QED
    BY <2>2, <2>3 DEF TurnFor
<1> QED
  BY <1>1, <1>2

LEMMA TurnStep ==
  TypeOK /\ EndsOwned /\ FreshInv /\ PipeListConsistent /\ FlagsInv /\ StageInv /\ TurnInv
    /\ [Next]_vars => TurnInv'
<1> SUFFICES ASSUME TypeOK, EndsOwned, FreshInv, PipeListConsistent, FlagsInv, StageInv, TurnInv,
                    [Next]_vars, NEW c \in Client
             PROVE  TurnFor(c)'
  BY DEF TurnInv
<1> USE Names, NamesDiffer
<1>0. /\ WorldOK /\ WorldOK' /\ EndsOwned' /\ Ordered /\ TurnFor(c)
      /\ idx \in Nat \ {0} /\ slot \in [Pipe -> Nat] /\ pipes_length \in Nat
  <2>1. TypeOK' /\ EndsOwned'
    BY TypeStep, OwnedStep
  <2>2. Ordered
    BY ListStep DEF ListKept
  <2> QED
    BY <2>1, <2>2, TypeParts, States DEF TypeOK, TurnInv, PipeTypeOK
<1>1. CASE UNCHANGED vars \/ PeerStep
  <2>1. UNCHANGED <<pipeVars, sessionVars, loopVars>> /\ ConnOpen(ClientConn(c))' = ConnOpen(ClientConn(c))
    <3>1. CASE UNCHANGED vars
      BY <3>1 DEF vars, sockVars, ConnOpen
    <3>2. CASE PeerStep
      BY <1>0, <3>2, PeerEffect DEF PeerStep
    <3> QED
      BY <1>1, <3>1, <3>2
  <2> QED
    BY <1>0, <2>1, QuietTurn DEF pipeVars, sessionVars, loopVars, Between
<1>2. CASE SkipNull \/ PassDone
  <2>1. ConnOpen(ClientConn(c))' = ConnOpen(ClientConn(c)) /\ UNCHANGED <<pipeVars, sessionVars>>
        /\ pc = "source"
    BY <1>2 DEF SkipNull, PassDone, UnchangedWorld, sockVars, ConnOpen
  <2>2. ASSUME ses[c].live, Between(c)
        PROVE  Between(c)'
    <3>1. C2S(c) \in Listed /\ S2C(c) \in Listed
      BY <2>2 DEF EndsOwned, Listed
    <3>2. slot[C2S(c)] <= pipes_length /\ slot[S2C(c)] <= pipes_length
          /\ slot[C2S(c)] \in Nat /\ slot[S2C(c)] \in Nat
      BY <1>0, <3>1 DEF PipeListConsistent
    <3>3. SkipNull
      BY <1>0, <1>2, <2>1, <2>2, <3>2 DEF PassDone, Between
    <3> QED
      BY <1>0, <2>1, <2>2, <3>3, Passes DEF SkipNull, NextPosition, pipeVars
  <2> QED
    BY <1>0, <2>1, <2>2, QuietTurn DEF pipeVars, sessionVars
<1>3. CASE \E p \in Pipe : DestroyDead(p)
  <2>1. PICK p \in Pipe : DestroyDead(p)
    BY <1>3
  <2>2. /\ pc = "source" /\ slot[p] = idx /\ Dead(p) /\ pc' = "source" /\ idx' = idx + 1
        /\ UNCHANGED <<sockVars, sessionVars>> /\ \A q \in Pipe : q # p => buf'[q] = buf[q] /\ slot'[q] = slot[q]
    BY <1>0, <2>1, States DEF DestroyDead, At, NextPosition, xps_pipe_destroy
  <2>3. CASE ses[c].live
    <3>1. p # C2S(c) /\ p # S2C(c)
      BY <2>2, <2>3 DEF Dead, EndsOwned
    <3> QED
      BY <1>0, <2>2, <3>1, OtherTurn DEF sockVars, sessionVars, ConnOpen
  <2>4. CASE ~ses[c].live
    BY <2>2, <2>4 DEF TurnFor, sessionVars
  <2> QED
    BY <2>3, <2>4
<1>4. CASE \E p \in Pipe : SourceStep(p) \/ SinkStep(p) \/ CloseStep(p)
  BY <1>0, <1>4, VisitTurn
<1>5. CASE \/ epoll_wait \/ ListenerEvent \/ AcceptDone \/ EventsDone
           \/ (\E e \in batch : HandleEvent(e)) \/ (\E k \in Conn : HandleOut(k))
  <2>1. pc \notin {"source", "sink", "close"} /\ UNCHANGED <<buf, ses>>
    BY <1>5 DEF epoll_wait, ListenerEvent, AcceptDone, EventsDone, HandleEvent, HandleOut,
                UnchangedWorld, filter_null_pipes, pipeVars, sessionVars
  <2> QED
    BY <1>0, <2>1, AwayTurn
<1>6. CASE \E d \in Client : Accept(d)
  BY <1>0, <1>6, AcceptTurn
<1> QED
  BY <1>1, <1>2, <1>3, <1>4, <1>5, <1>6
  DEF Next, xps_loop_run, handle_pipes, handle_epoll_events, Idle

-----------------------------------------------------------------------------
StreamInv == FlagsInv /\ StageInv /\ TurnInv

LEMMA StreamAlways == Spec => [](ListInv /\ StreamInv)
<1>1. Init => ListInv /\ StreamInv
  BY TypeInit, OwnedInit, ListInit, FlagsInit, StageInit, TurnInit DEF ListInv, StreamInv
<1>2. ListInv /\ StreamInv /\ [Next]_vars => ListInv' /\ StreamInv'
  BY TypeStep, OwnedStep, ListStep, FlagsStep, StageStep, TurnStep
  DEF ListInv, StreamInv, ListKept
<1> QED
  BY <1>1, <1>2, PTL DEF Spec

\* What the stages say to the client and of the two sides of the session.
LEMMA StageMeans ==
  ASSUME WorldOK, NEW c \in Client, Stage(c)
  PROVE  /\ Begins(ToClient(c), Response(c)) /\ ToClient(c) \in Text /\ Response(c) \in Text
         /\ ses[c].live /\ ServedByProxy(c) => Relayed(c, ToClient(c))
         /\ ses[c].live /\ ServedByFile(c) => Served(c, ToClient(c))
         /\ ~ses[c].live /\ sock[ClientConn(c)].st = "up" => Complete(c)
<1> DEFINE u == UpstreamConn(c)
           o == Out(c)
           to == ses[c].to
           said == Join(o, to)
<1> USE Names
<1>0. /\ ToClient(c) = said /\ (ses[c] = NoSession => said = o)
      /\ o \in Text /\ to \in Text /\ said \in Text
      /\ buf[F2S(c)] \in Text /\ buf[U2S(c)] \in Text /\ sock[u].in \in Text
  <2>1. o \in Text /\ to \in Text
    BY StreamTexts
  <2> QED
    BY <2>1, ToClientOut, StreamTexts, Texts
<1>1. Response(c) \in Text
  <2>1. From(1, FileSize) \in Text /\ From(1, fed[u]) \in Text
    BY StreamTexts
  <2>2. Head0 \in Text /\ Join(Head0, From(1, FileSize)) \in Text
    BY <2>1, Texts
  <2> QED
    BY <2>1, <2>2 DEF Response, Join
<1>2. CASE Fresh(c)
  <2>1. said = <<>> /\ ~ses[c].live
    BY <1>0, <1>2 DEF Fresh, NoSession
  <2> QED
    BY <1>0, <1>1, <1>2, <2>1, BeginsTrue DEF Fresh, NotYet
<1>3. CASE Own(c, src, snk, ses[c], o) /\ ses[c].live
  <2>1. Response(c) = Head0 /\ ~ServedByProxy(c) /\ ~ServedByFile(c)
    BY <1>3 DEF Own, NoUpstream, NoFile, Response, ServedByProxy, ServedByFile
  <2>2. said = to /\ to \in {<<>>, Head0}
    BY <1>0, <1>3, Texts DEF Own
  <2> QED
    BY <1>0, <1>1, <1>3, <2>1, <2>2, BeginsTrue
<1>4. CASE Serving(c, src, snk, ses[c], o) /\ ses[c].live
  <2> DEFINE w == From(1, FileSize - file[c].left)
             rest == From(1 + (FileSize - file[c].left), file[c].left)
             all == Join(Head0, w)
  <2>1. ~ServedByProxy(c) /\ Response(c) = Join(Head0, From(1, FileSize))
    BY <1>4 DEF Serving, NoUpstream, Served, Response, ServedByProxy, ServedByFile, Join
  <2>2. Served(c, said) /\ Join(said, buf[F2S(c)]) = all
    BY <1>4 DEF Serving, Served
  <2>3. w \in Text /\ rest \in Text /\ Join(w, rest) = From(1, FileSize)
    <3>1. /\ FileSize - file[c].left \in Nat /\ file[c].left \in Nat
          /\ (FileSize - file[c].left) + file[c].left = FileSize
      BY StreamTexts, SessionAssumption
    <3> QED
      BY <3>1, Rows
  <2>4. all \in Text /\ Response(c) = Join(all, rest)
    <3> HIDE DEF w, rest
    <3> QED
      BY <2>1, <2>3, Texts
  <2>5. Begins(said, Response(c))
    <3> HIDE DEF said, all, rest
    <3> QED
      BY <1>0, <2>2, <2>3, <2>4, BeginsTrue
  <2> QED
    BY <1>0, <1>1, <1>4, <2>1, <2>2, <2>5
<1>5. CASE Relaying(c, src, snk, ses[c], o) /\ ses[c].live
  <2>1. ServedByProxy(c) /\ ~ServedByFile(c) /\ Response(c) = From(1, fed[u])
    BY <1>5 DEF Relaying, Relayed, NoFile, Response, ServedByProxy, ServedByFile
  <2>2. Relayed(c, said) /\ Begins(Join(Join(said, buf[U2S(c)]), sock[u].in), Response(c))
    BY <1>5, <2>1 DEF Relaying, Relayed
  <2>3. Begins(said, Response(c))
    <3> HIDE DEF said
    <3>1. Join(said, buf[U2S(c)]) \in Text
      BY <1>0, Texts
    <3>2. Begins(Join(said, buf[U2S(c)]), Response(c))
      BY <1>0, <1>1, <2>2, <3>1, BeginsTrue
    <3> QED
      BY <1>0, <1>1, <3>2, BeginsTrue
  <2> QED
    BY <1>0, <1>1, <1>5, <2>1, <2>2, <2>3
<1>6. CASE Ended(c)
  BY <1>0, <1>1, <1>6 DEF Ended, NoSession
<1> QED
  BY <1>2, <1>3, <1>4, <1>5, <1>6 DEF Stage, Alive

LEMMA StreamMeans ==
  ListInv /\ StreamInv =>
    ResponseInOrder /\ ResponseNotLost /\ ResponseComplete /\ RequestFromLiveClient
<1> SUFFICES ASSUME ListInv, StreamInv
             PROVE  ResponseInOrder /\ ResponseNotLost /\ ResponseComplete /\ RequestFromLiveClient
  OBVIOUS
<1>0. WorldOK /\ EndsOwned /\ idx \in Nat \ {0} /\ \A c \in Client : Stage(c) /\ TurnFor(c)
  BY TypeParts DEF ListInv, StreamInv, TypeOK, StageInv, TurnInv
<1>1. ResponseInOrder
  BY <1>0, StageMeans, BeginsMeans DEF ResponseInOrder
<1>2. ASSUME NEW c \in Client, ses[c].live
      PROVE  LET u == UpstreamConn(c) IN
             /\ ServedByProxy(c) /\ ~sock[u].rst =>
                  ToClient(c) \o buf[U2S(c)] \o sock[u].in = Response(c)
             /\ ServedByFile(c) =>
                  ToClient(c) \o buf[F2S(c)] = Head0 \o From(1, FileSize - file[c].left)
  <2>1. /\ ServedByProxy(c) => Relayed(c, ToClient(c))
        /\ ServedByFile(c) => Served(c, ToClient(c))
    BY <1>0, <1>2, StageMeans
  <2> QED
    BY <2>1 DEF Relayed, Served, Response, Join
<1>3. ResponseNotLost
  BY <1>2 DEF ResponseNotLost
<1>4. ResponseComplete
  BY <1>0, StageMeans DEF ResponseComplete, Complete
<1>5. ASSUME NEW c \in Client, pc = "sink", slot[C2S(c)] = idx, SinkTurn(C2S(c)), ~ses[c].req
      PROVE  ConnOpen(ClientConn(c))
  <2>1. ses[c].live /\ buf[C2S(c)] # <<>>
    BY <1>0, <1>5 DEF SinkTurn, xps_pipe_is_readable, EndsOwned
  <2>2. ~Between(c)
    BY <1>0, <1>5 DEF Between
  <2> QED
    BY <1>0, <1>5, <2>1, <2>2 DEF TurnFor
<1>6. RequestFromLiveClient
  BY <1>5 DEF RequestFromLiveClient
<1> QED
  BY <1>1, <1>3, <1>4, <1>6

\* Nothing a client is sent is lost, repeated or out of order: through two
\* pipes and to_client_buff, whatever the sizes of buffers and sockets, it is a
\* beginning of what the upstream sent, of the file behind its head, or of the
\* program's own answer.
THEOREM ResponseArrivesInOrder == Spec => []ResponseInOrder
BY StreamAlways, StreamMeans, PTL

\* While client and session are there, every chunk of the response that was
\* read or received is in a pipe, in to_client_buff or sent.
THEOREM NoResponseIsLost == Spec => []ResponseNotLost
BY StreamAlways, StreamMeans, PTL

\* A session is destroyed only when its response is complete or cannot be
\* completed: session_check_destroy cuts no response short.
THEOREM ResponsesAreComplete == Spec => []ResponseComplete
BY StreamAlways, StreamMeans, PTL

\* A request is processed in the visit that read it, so session->client is
\* still there: the pointer nothing clears is never used after its connection.
THEOREM RequestsComeFromLiveClients == Spec => []RequestFromLiveClient
BY StreamAlways, StreamMeans, PTL

-----------------------------------------------------------------------------
(***************************************************************************)
(* The request.  What the client has sent and nobody has read, what has    *)
(* gone on to the upstream's socket or its pipe, and what the session has  *)
(* counted of it.                                                          *)
(***************************************************************************)
Rest(c) == Join(buf[C2S(c)], sock[ClientConn(c)].in)
Gone(c) == Join(sent[UpstreamConn(c)], buf[S2U(c)])

\* The client is there and its request has not been processed.
Waiting(c) == \/ NotYet(ClientConn(c))
              \/ sock[ClientConn(c)].st = "up" /\ ses[c].live /\ ~ses[c].req

\* x is the head and all chunks of the client behind its first h.
Sends(c, x, h) ==
  LET n == fed[ClientConn(c)]
  IN h \in 1..n /\ x = Join(Head0, From(h + 1, n - h))

Asked(c) ==
  LET k == ClientConn(c)
      u == UpstreamConn(c)
  IN /\ Waiting(c) => Rest(c) = From(1, fed[k])
     /\ sock[u].st = "none" => Gone(c) = <<>>
     /\ ses[c].live /\ sock[u].st # "none" /\ sock[k].st = "up" =>
          Sends(c, Join(Join(Gone(c), ses[c].from), Rest(c)), ses[c].head)

Counted(c) ==
  LET u == UpstreamConn(c)
  IN /\ ses[c].connected => sent[u] # <<>> \/ fed[u] > 0
     /\ ses[c].live /\ ~ses[c].connected => ses[c].write_bytes = Len(Gone(c))
     /\ ses[c].live /\ sock[u].st = "none" => ~ses[c].connected

AskedInv == \A c \in Client : Asked(c) /\ Counted(c)

-----------------------------------------------------------------------------
LEMMA Lengths ==
  /\ \A s \in Text : Len(s) \in Nat /\ (Len(s) = 0 <=> s = <<>>)
  /\ \A s, t \in Text : Len(Join(s, t)) = Len(s) + Len(t)
<1>1. \A s \in Text : Len(s) \in Nat /\ (Len(s) = 0 <=> s = <<>>)
  BY LenProperties, EmptySeq DEF Text
<1>2. \A s, t \in Text : Len(Join(s, t)) = Len(s) + Len(t)
  BY ConcatProperties DEF Text, Join
<1> QED
  BY <1>1, <1>2

\* What is left of a row when its beginning is taken.
LEMMA AfterHead ==
  ASSUME NEW s \in Text, NEW t \in Text, NEW n \in Nat, s # <<>>, Join(s, t) = From(1, n)
  PROVE  Len(s) \in 1..n /\ t = From(Len(s) + 1, n - Len(s))
<1> DEFINE m == Len(t)
           w == From(1, n)
           r == From(n - m + 1, m)
<1>1. /\ Len(s) \in Nat \ {0} /\ m \in Nat /\ Len(s) + m = Len(w)
  BY Lengths
<1>2. w \in Seq(Nat) /\ Len(w) = n /\ \A i \in 1..n : w[i] = i
  <2>1. 1 \in Nat \ {0}
    OBVIOUS
  <2>2. w \in Seq(Nat) /\ Len(w) = n /\ \A i \in 1..n : w[i] = 1 + i - 1
    BY <2>1, Row, Zenon
  <2> QED
    BY <2>2
<1> HIDE DEF w
<1>3. m \in 0..(n - 1) /\ n - m + 1 \in Nat \ {0}
  BY <1>1, <1>2
<1>4. r \in Seq(Nat) /\ Len(r) = m /\ \A i \in 1..m : r[i] = n - m + 1 + i - 1
  BY <1>1, <1>3, Row, Zenon
<1> HIDE DEF r
<1>5. /\ s \in Seq(Nat) /\ t \in Seq(Nat) /\ s \o t = w
      /\ \A i \in 1..(Len(s) + Len(t)) : (s \o t)[i] = IF i <= Len(s) THEN s[i] ELSE t[i - Len(s)]
  BY ConcatProperties DEF Text, Join, w
<1>6. ASSUME NEW i \in 1..m
      PROVE  t[i] = r[i]
  <2>1. n - m + i \in 1..n /\ n - m = Len(s) /\ ~(n - m + i <= Len(s)) /\ n - m + i - Len(s) = i
    BY <1>1, <1>2, <1>3
  <2>2. (s \o t)[n - m + i] = t[i]
    BY <1>1, <1>2, <1>5, <2>1
  <2>3. w[n - m + i] = n - m + i
    BY <1>2, <2>1
  <2> QED
    BY <1>3, <1>4, <1>5, <2>2, <2>3
<1>7. t = r
  <2>1. Len(t) = Len(r) /\ \A i \in 1..Len(t) : t[i] = r[i]
    BY <1>4, <1>6
  <2> QED
    BY <1>4, <1>5, <2>1, SeqEqual, Zenon
<1>8. Len(s) \in 1..n /\ n - m = Len(s) /\ m = n - Len(s)
  BY <1>1, <1>2
<1>9. t = From(n - m + 1, m)
  BY <1>7 DEF r
<1> HIDE DEF m
<1> QED
  BY <1>8, <1>9

\* The chunks behind the first h and the next one.
LEMMA NextOfLast ==
  ASSUME NEW n \in Nat, NEW h \in 1..n, NEW i \in Text, i = From(h + 1, n - h)
  PROVE  Join(i, <<n + 1>>) = From(h + 1, (n + 1) - h) /\ h \in 1..(n + 1)
<1>1. /\ h + 1 \in Nat \ {0} /\ n - h \in Nat /\ 1 \in Nat /\ h + 1 + (n - h) = n + 1
      /\ (n + 1) - h = n - h + 1 /\ h \in 1..(n + 1)
  OBVIOUS
<1>2. From(h + 1, n - h) \o From(h + 1 + (n - h), 1) = From(h + 1, n - h + 1)
  BY <1>1, RowsJoin, Zenon
<1>3. From(n + 1, 1) = <<n + 1>>
  BY DEF From
<1>4. Join(i, <<n + 1>>) = From(h + 1, n - h + 1)
  BY <1>1, <1>2, <1>3 DEF Join
<1> QED
  BY <1>1, <1>4

LEMMA RequestTexts ==
  ASSUME WorldOK, NEW c \in Client
  PROVE  /\ Gone(c) \in Text /\ Rest(c) \in Text
         /\ sent[UpstreamConn(c)] \in Text /\ buf[S2U(c)] \in Text
         /\ buf[C2S(c)] \in Text /\ sock[ClientConn(c)].in \in Text
         /\ ses[c].from \in Text /\ ses[c] \in Session
         /\ fed[ClientConn(c)] \in Nat /\ fed[UpstreamConn(c)] \in Nat
<1>1. /\ sent[UpstreamConn(c)] \in Text /\ buf[S2U(c)] \in Text
      /\ buf[C2S(c)] \in Text /\ sock[ClientConn(c)].in \in Text
  BY StreamTexts, Names
<1> QED
  BY <1>1, StreamTexts, States, Texts, Names DEF Gone, Rest

-----------------------------------------------------------------------------
\* The frames.
LEMMA AskedFrame ==
  ASSUME NEW c \in Client, Asked(c),
         ses'[c].live => /\ ses[c].live /\ ses'[c].req = ses[c].req
                         /\ ses'[c].head = ses[c].head /\ ses'[c].from = ses[c].from,
         NotYet(ClientConn(c))' => NotYet(ClientConn(c)),
         sock'[ClientConn(c)].st = "up" => sock[ClientConn(c)].st = "up",
         NotYet(ClientConn(c))' \/ sock'[ClientConn(c)].st = "up" => Rest(c)' = Rest(c),
         sock'[UpstreamConn(c)].st = "none" <=> sock[UpstreamConn(c)].st = "none",
         Gone(c)' = Gone(c), fed'[ClientConn(c)] = fed[ClientConn(c)]
  PROVE  Asked(c)'
<1>1. Waiting(c)' => Waiting(c) /\ Rest(c)' = Rest(c)
  BY DEF Waiting
<1>3. ASSUME ses'[c].live, sock'[UpstreamConn(c)].st # "none", sock'[ClientConn(c)].st = "up"
      PROVE  Sends(c, Join(Join(Gone(c), ses[c].from), Rest(c)), ses[c].head)'
  <2>1. Sends(c, Join(Join(Gone(c), ses[c].from), Rest(c)), ses[c].head)
    BY <1>3 DEF Asked
  <2>2. Rest(c)' = Rest(c) /\ ses'[c].from = ses[c].from /\ ses'[c].head = ses[c].head
    BY <1>3
  <2>3. Join(Join(Gone(c), ses[c].from), Rest(c))' = Join(Join(Gone(c), ses[c].from), Rest(c))
    BY <2>2 DEF Join
  <2> QED
    BY <2>1, <2>2, <2>3 DEF Sends
<1> QED
  BY <1>1, <1>3 DEF Asked

LEMMA CountedFrame ==
  ASSUME NEW c \in Client, Counted(c),
         ses'[c].live => ses[c].live /\ ses'[c].connected = ses[c].connected
                         /\ ses'[c].write_bytes = ses[c].write_bytes,
         ses'[c].connected => ses[c].connected,
         sock'[UpstreamConn(c)].st = "none" => sock[UpstreamConn(c)].st = "none",
         Gone(c)' = Gone(c), sent[UpstreamConn(c)] # <<>> => sent'[UpstreamConn(c)] # <<>>,
         fed[UpstreamConn(c)] > 0 => fed'[UpstreamConn(c)] > 0
  PROVE  Counted(c)'
BY DEF Counted

-----------------------------------------------------------------------------
(***************************************************************************)
(* The request through the handlers.                                       *)
(***************************************************************************)
LEMMA SentGrows ==
  ASSUME WorldOK, NEW k \in Conn,
         \/ connection_source_handler(k) \/ connection_sink_handler(k)
         \/ connection_source_close_handler(k) \/ connection_sink_close_handler(k)
  PROVE  sent[k] # <<>> => sent'[k] # <<>>
<1>1. CASE UNCHANGED sent
  BY <1>1
<1>2. CASE connection_sink_handler(k) /\ sent' # sent
  <2> DEFINE n == SendLen(k, Len(buf[SinkPipe(k)]))
             t == SubSeq(buf[SinkPipe(k)], 1, n)
  <2>1. sent'[k] = Join(sent[k], t)
    BY <1>2, States DEF connection_sink_handler, Join
  <2>2. t \in Text /\ sent[k] \in Text
    <3>1. buf[SinkPipe(k)] \in Text /\ Len(buf[SinkPipe(k)]) \in Nat /\ sent[k] \in Text
      BY States, ConnPipeTypes DEF Text
    <3>2. n \in Nat /\ n <= Len(buf[SinkPipe(k)])
      BY <3>1, SendRecvLen
    <3> QED
      BY <3>1, <3>2, Moved
  <2> HIDE DEF t
  <2> QED
    BY <2>1, <2>2, Texts
<1> QED
  BY <1>1, <1>2 DEF connection_source_handler, connection_source_close_handler,
                    connection_sink_close_handler

LEMMA ClientConnAsked ==
  ASSUME WorldOK, NEW c \in Client, Asked(c), Counted(c), ConnOpen(ClientConn(c)),
         \/ connection_source_handler(ClientConn(c)) \/ connection_sink_handler(ClientConn(c))
         \/ connection_source_close_handler(ClientConn(c))
         \/ connection_sink_close_handler(ClientConn(c))
  PROVE  Asked(c)' /\ Counted(c)'
<1> DEFINE k == ClientConn(c)
           u == UpstreamConn(c)
<1> USE Names, NamesDiffer, ConnPipes
<1>1. /\ UNCHANGED <<fed, ses>> /\ sock'[u] = sock[u] /\ sent'[u] = sent[u]
      /\ buf'[S2U(c)] = buf[S2U(c)] /\ sock'[k].st \in {sock[k].st, "closed"}
  BY ConnectionEffect
<1>2. sock'[k].st = "up" => Rest(c)' = Rest(c)
  <2>1. CASE sock'[k].in = sock[k].in /\ buf'[C2S(c)] = buf[C2S(c)]
    BY <2>1 DEF Rest
  <2>2. CASE \E n \in Nat : /\ n <= Len(sock[k].in)
                            /\ sock'[k].in = SubSeq(sock[k].in, n + 1, Len(sock[k].in))
                            /\ buf'[C2S(c)] = Join(buf[C2S(c)], SubSeq(sock[k].in, 1, n))
    <3>1. sock[k].in \in Text /\ buf[C2S(c)] \in Text
      BY RequestTexts
    <3> QED
      BY <2>2, <3>1, Moved DEF Rest
  <2> QED
    BY <2>1, <2>2, ConnectionEffect
<1>3. Gone(c)' = Gone(c)
  BY <1>1 DEF Gone
<1>4. ~NotYet(k)' /\ (sock'[k].st = "up" => sock[k].st = "up")
  BY <1>1 DEF NotYet, ConnOpen
<1> QED
  BY <1>1, <1>2, <1>3, <1>4, AskedFrame, CountedFrame

LEMMA UpstreamConnAsked ==
  ASSUME WorldOK, NEW c \in Client, Asked(c), Counted(c), ConnOpen(UpstreamConn(c)),
         \/ connection_source_handler(UpstreamConn(c)) \/ connection_sink_handler(UpstreamConn(c))
         \/ connection_source_close_handler(UpstreamConn(c))
         \/ connection_sink_close_handler(UpstreamConn(c))
  PROVE  Asked(c)' /\ Counted(c)'
<1> DEFINE k == ClientConn(c)
           u == UpstreamConn(c)
<1> USE Names, NamesDiffer, ConnPipes
<1>1. /\ UNCHANGED <<fed, ses>> /\ sock'[k] = sock[k] /\ buf'[C2S(c)] = buf[C2S(c)]
      /\ sock[u].st # "none" /\ sock'[u].st # "none"
      /\ Gone(c)' = Gone(c)
  BY ConnectionEffect DEF ConnOpen, Gone
<1>2. Rest(c)' = Rest(c) /\ (NotYet(k)' => NotYet(k))
  BY <1>1 DEF Rest, NotYet
<1>3. sent[u] # <<>> => sent'[u] # <<>>
  BY SentGrows
<1> QED
  BY <1>1, <1>2, <1>3, AskedFrame, CountedFrame

\* A session whose buffer to the client or whose error flag changes, or that ends.
LEMMA SessionAsked ==
  ASSUME WorldOK, NEW c \in Client, Asked(c), Counted(c), NEW r,
         r.live = ses[c].live, r.req = ses[c].req, r.head = ses[c].head, r.from = ses[c].from,
         r.connected = ses[c].connected, r.write_bytes = ses[c].write_bytes,
         ses'[c] = r \/ ses'[c] = NoSession,
         UNCHANGED <<sock, sent, fed>>,
         buf'[C2S(c)] = buf[C2S(c)], buf'[S2U(c)] = buf[S2U(c)]
  PROVE  Asked(c)' /\ Counted(c)'
<1>1. Rest(c)' = Rest(c) /\ Gone(c)' = Gone(c) /\ NotYet(ClientConn(c))' = NotYet(ClientConn(c))
  BY DEF Rest, Gone, NotYet
<1>2. ~NoSession.live /\ ~NoSession.connected
  BY DEF NoSession
<1> QED
  BY <1>1, <1>2, AskedFrame, CountedFrame

LEMMA PassedAsked ==
  ASSUME WorldOK, NEW c \in Client, Asked(c), Counted(c),
         \/ client_source_handler(c) \/ client_source_close_handler(c)
         \/ client_sink_close_handler(c) \/ upstream_source_close_handler(c)
         \/ upstream_sink_close_handler(c) \/ file_sink_close_handler(c)
         \/ file_sink_handler(c)
         \/ file_source_handler(c) \/ file_source_close_handler(c)
  PROVE  Asked(c)' /\ Counted(c)'
<1> USE Names, NamesDiffer
<1>0. ses[c] \in Session /\ ses \in [Client -> Session] /\ buf \in [Pipe -> Seq(Nat)]
  BY States
<1>1. PICK r \in {[ses[c] EXCEPT !.to = <<>>], [ses[c] EXCEPT !.to = buf[F2S(c)]], ses[c],
                  MarkUpstreamError(c)} :
         ses'[c] = r \/ ses'[c] = NoSession
  BY <1>0
  DEF client_source_handler, file_sink_handler, client_source_close_handler,
      client_sink_close_handler, upstream_source_close_handler, upstream_sink_close_handler,
      file_sink_close_handler, CloseSessionEnd, session_check_destroy, xps_session_destroy,
      file_source_handler, file_source_close_handler
<1>2. /\ r.live = ses[c].live /\ r.req = ses[c].req /\ r.head = ses[c].head
      /\ r.from = ses[c].from
      /\ r.connected = ses[c].connected /\ r.write_bytes = ses[c].write_bytes
  BY <1>0 DEF MarkUpstreamError, Session
<1>3. UNCHANGED <<sock, sent, fed>>
  BY DEF client_source_handler, file_sink_handler, client_source_close_handler,
         client_sink_close_handler, upstream_source_close_handler, upstream_sink_close_handler,
         file_sink_close_handler, CloseSessionEnd, file_source_handler, file_source_close_handler
<1>4. buf'[C2S(c)] = buf[C2S(c)] /\ buf'[S2U(c)] = buf[S2U(c)]
  <2>1. CASE client_source_handler(c)
    BY <1>0, <2>1 DEF client_source_handler, xps_pipe_source_write
  <2>2. CASE file_sink_handler(c)
    BY <1>0, <2>2 DEF file_sink_handler, xps_pipe_sink_clear
  <2>3. CASE file_source_handler(c)
    BY <1>0, <2>3 DEF file_source_handler, xps_pipe_source_write, FileDestroy
  <2>4. CASE \/ client_source_close_handler(c) \/ client_sink_close_handler(c)
             \/ upstream_source_close_handler(c) \/ upstream_sink_close_handler(c)
             \/ file_sink_close_handler(c) \/ file_source_close_handler(c)
    BY <2>4 DEF client_source_close_handler, client_sink_close_handler,
                upstream_source_close_handler, upstream_sink_close_handler,
                file_sink_close_handler, CloseSessionEnd, file_source_close_handler, FileDestroy
  <2> QED
    BY <2>1, <2>2, <2>3, <2>4
<1> QED
  BY <1>1, <1>2, <1>3, <1>4, SessionAsked

LEMMA UpstreamSourceAsked ==
  ASSUME WorldOK, NEW c \in Client, Asked(c), Counted(c), Stage(c), OwnedFor(c),
         SourceTurn(S2U(c)), upstream_source_handler(c)
  PROVE  Asked(c)' /\ Counted(c)'
<1> DEFINE k == ClientConn(c)
           u == UpstreamConn(c)
           from == ses[c].from
           r == AfterUpstreamWrite(c)
<1> USE Names, NamesDiffer
<1>1. /\ sock[u].st # "none" /\ ses[c].live /\ ses[c].req /\ ~NotYet(k)
      /\ UNCHANGED <<sock, sent, fed>>
      /\ buf'[C2S(c)] = buf[C2S(c)] /\ buf'[S2U(c)] = Join(buf[S2U(c)], from)
  BY LiveStage, States DEF SourceTurn, OwnedFor, Relaying, Relayed, Alive,
     upstream_source_handler, xps_pipe_source_write, Join
<1>2. ses'[c] = r \/ ses'[c] = NoSession
  BY States DEF upstream_source_handler, session_check_destroy, xps_session_destroy
<1>3. /\ Gone(c) \in Text /\ Rest(c) \in Text /\ sent[u] \in Text /\ buf[S2U(c)] \in Text
      /\ from \in Text /\ ses[c] \in Session
  BY RequestTexts
<1>4. Gone(c)' = Join(Gone(c), from) /\ Rest(c)' = Rest(c)
  <2>1. Gone(c)' = Join(sent[u], Join(buf[S2U(c)], from))
    BY <1>1 DEF Gone
  <2> DEFINE x == sent[u]
             y == buf[S2U(c)]
  <2>2. Gone(c) = Join(x, y) /\ x \in Text /\ y \in Text /\ from \in Text
        /\ Gone(c)' = Join(x, Join(y, from))
    BY <1>3, <2>1 DEF Gone
  <2> HIDE DEF x, y, from
  <2>3. Gone(c)' = Join(Gone(c), from)
    BY <2>2, Texts
  <2> QED
    BY <1>1, <2>3 DEF Rest
<1>5. /\ r.live = ses[c].live /\ r.req = ses[c].req /\ r.head = ses[c].head /\ r.from = <<>>
      /\ ses[c].connected => r.connected
      /\ ~ses[c].connected =>
           /\ r.write_bytes = ses[c].write_bytes + Len(from)
           /\ r.connected = (ses[c].write_bytes + Len(from) > Len(buf[S2U(c)]) + Len(from))
  BY <1>3 DEF AfterUpstreamWrite, Session
<1>6. Asked(c)'
  <2>1. CASE ses'[c] = NoSession
    BY <1>1, <2>1 DEF Asked, Waiting, NoSession, NotYet
  <2>2. CASE ses'[c] = r
    <3>1. ~Waiting(c)'
      BY <1>1, <1>5, <2>2 DEF Waiting, NotYet
    <3>2. sock[k].st = "up" => Sends(c, Join(Join(Gone(c), from), Rest(c)), ses[c].head)
      BY <1>1 DEF Asked
    <3>3. Join(Join(Gone(c), ses[c].from), Rest(c))' = Join(Join(Gone(c), from), Rest(c))
      <4>1. Join(Join(Gone(c), ses[c].from), Rest(c))'
              = Join(Join(Join(Gone(c), from), <<>>), Rest(c))
        BY <1>4, <1>5, <2>2
      <4> HIDE DEF from
      <4> QED
        BY <1>3, <4>1, Texts
    <3> QED
      BY <1>1, <1>5, <2>2, <3>1, <3>2, <3>3 DEF Asked, Sends
  <2> QED
    BY <1>2, <2>1, <2>2
<1>7. Counted(c)'
  <2>1. CASE ses'[c] = NoSession
    BY <2>1 DEF Counted, NoSession
  <2>2. CASE ses'[c] = r /\ ses[c].connected
    BY <1>1, <1>5, <2>2 DEF Counted
  <2>3. CASE ses'[c] = r /\ ~ses[c].connected
    <3>1. ses[c].write_bytes = Len(Gone(c))
      BY <1>1, <2>3 DEF Counted
    <3>2. /\ Len(Gone(c)) = Len(sent[u]) + Len(buf[S2U(c)])
          /\ Len(Gone(c)') = Len(Gone(c)) + Len(from)
          /\ Len(sent[u]) \in Nat /\ Len(buf[S2U(c)]) \in Nat /\ Len(from) \in Nat
          /\ (Len(sent[u]) = 0 <=> sent[u] = <<>>)
      <4>1. Len(Gone(c)) = Len(sent[u]) + Len(buf[S2U(c)])
        BY <1>3, Lengths DEF Gone
      <4>2. Len(Gone(c)') = Len(Gone(c)) + Len(from)
        <5> HIDE DEF from
        <5> QED
          BY <1>3, <1>4, Lengths
      <4> QED
        BY <1>3, <4>1, <4>2, Lengths
    <3>3. ASSUME r.connected PROVE sent[u] # <<>>
      <4>1. ses[c].write_bytes + Len(from) > Len(buf[S2U(c)]) + Len(from)
        BY <1>5, <2>3, <3>3
      <4>2. ses[c].write_bytes = Len(sent[u]) + Len(buf[S2U(c)])
        BY <3>1, <3>2
      <4>3. Len(sent[u]) # 0
        <5> DEFINE a == Len(sent[u])
                   b == Len(buf[S2U(c)])
                   d == Len(from)
        <5>1. a \in Nat /\ b \in Nat /\ d \in Nat /\ a + b + d > b + d
          BY <3>2, <4>1, <4>2
        <5> HIDE DEF a, b, d
        <5>2. a # 0
          BY <5>1
        <5> QED
          BY <5>2 DEF a
      <4> QED
        BY <3>2, <4>3
    <3>4. r.write_bytes = Len(Gone(c)')
      BY <1>5, <2>3, <3>1, <3>2
    <3> QED
      BY <1>1, <2>3, <3>3, <3>4 DEF Counted
  <2> QED
    BY <1>2, <2>1, <2>2, <2>3
<1> QED
  BY <1>6, <1>7

LEMMA UpstreamSinkAsked ==
  ASSUME WorldOK, NEW c \in Client, Asked(c), Counted(c), Stage(c), OwnedFor(c),
         SinkTurn(U2S(c)), upstream_sink_handler(c)
  PROVE  Asked(c)' /\ Counted(c)'
<1> DEFINE k == ClientConn(c)
           u == UpstreamConn(c)
           x == Join(Out(c), ses[c].to)
<1> USE Names, NamesDiffer
<1>0. /\ ses[c] \in Session /\ ses \in [Client -> Session] /\ buf \in [Pipe -> Seq(Nat)]
      /\ fed[u] \in Nat
  BY States
<1>1. /\ ses'[c].live = ses[c].live /\ ses'[c].req = ses[c].req
      /\ ses'[c].head = ses[c].head /\ ses'[c].from = ses[c].from
      /\ ses'[c].connected /\ UNCHANGED <<sock, sent, fed>>
      /\ buf'[C2S(c)] = buf[C2S(c)] /\ buf'[S2U(c)] = buf[S2U(c)]
  BY <1>0 DEF upstream_sink_handler, xps_pipe_sink_clear, Session
<1>2. Rest(c)' = Rest(c) /\ Gone(c)' = Gone(c) /\ NotYet(k)' = NotYet(k)
  BY <1>1 DEF Rest, Gone, NotYet
<1>3. /\ sock[u].st # "none" /\ buf[U2S(c)] # <<>>
      /\ Begins(Join(Join(x, buf[U2S(c)]), sock[u].in), From(1, fed[u]))
  BY LiveStage DEF SinkTurn, xps_pipe_is_readable, OwnedFor, Relaying, Relayed
<1>4. fed[u] # 0
  <2>1. SUFFICES ASSUME fed[u] = 0 PROVE FALSE
    OBVIOUS
  <2>2. PICK w \in Text : Join(Join(Join(x, buf[U2S(c)]), sock[u].in), w) = <<>>
    BY <1>3, <2>1, Rows DEF Begins
  <2>3. x \in Text /\ buf[U2S(c)] \in Text /\ sock[u].in \in Text
    BY StreamTexts, Texts
  <2>4. Join(x, buf[U2S(c)]) \in Text /\ Join(Join(x, buf[U2S(c)]), sock[u].in) \in Text
    BY <2>3, Texts
  <2>5. Join(x, buf[U2S(c)]) = <<>>
    BY <2>2, <2>3, <2>4, Texts, ZenonT(60)
  <2> QED
    BY <1>3, <2>3, <2>5, Texts
<1> QED
  BY <1>0, <1>1, <1>2, <1>3, <1>4, AskedFrame DEF Counted

LEMMA RequestAsked ==
  ASSUME WorldOK, NEW c \in Client, Asked(c), Counted(c), Stage(c), OwnedFor(c), FlagsFor(c),
         SinkTurn(C2S(c)), client_sink_handler(c)
  PROVE  Asked(c)' /\ Counted(c)'
<1> DEFINE k == ClientConn(c)
           u == UpstreamConn(c)
           in == sock[k].in
           asked == buf[C2S(c)]
<1> USE Names, NamesDiffer
<1>0. /\ ses[c] \in Session /\ ses \in [Client -> Session] /\ buf \in [Pipe -> Seq(Nat)]
      /\ sock \in [Conn -> Socket]
      /\ Gone(c) \in Text /\ Rest(c) \in Text /\ in \in Text /\ asked \in Text
      /\ fed[k] \in Nat /\ Head0 \in Text /\ <<>> \in Text
  BY RequestTexts, States, Texts
<1>1. /\ ses[c].live /\ ses[c].from = <<>> /\ asked # <<>> /\ ~NotYet(k)
      /\ UNCHANGED <<sent, fed>>
      /\ ~ses[c].req => Own(c, src, snk, ses[c], Out(c)) /\ sock[u].st = "none"
  BY LiveStage DEF SinkTurn, xps_pipe_is_readable, OwnedFor, FlagsFor, Follows, Alive,
     client_sink_handler, Own, NoUpstream
<1>2. ASSUME xps_pipe_sink_clear(C2S(c), Len(buf[C2S(c)]))
      PROVE  buf'[C2S(c)] = <<>> /\ buf'[S2U(c)] = buf[S2U(c)]
  BY <1>0, <1>2, Taken DEF xps_pipe_sink_clear
<1>3. CASE BadRequest(c)
  <2>1. ses'[c] = [ses[c] EXCEPT !.to = Head0] /\ UNCHANGED <<buf, sock>>
    BY <1>0, <1>3 DEF BadRequest
  <2> QED
    BY <1>0, <1>1, <2>1, SessionAsked DEF Session
<1>4. CASE ~ses[c].req /\ (ReplyOnly(c) \/ ServeFile(c) \/ InvalidRoute(c))
  <2>1. UNCHANGED sock /\ xps_pipe_sink_clear(C2S(c), Len(buf[C2S(c)]))
    BY <1>4 DEF ReplyOnly, ServeFile, InvalidRoute
  <2>2. \/ ses'[c] = [Parsed(c) EXCEPT !.to = Head0]
        \/ ses'[c] = NoSession
    BY <1>0, <1>4 DEF ReplyOnly, ServeFile, InvalidRoute, xps_session_destroy
  <2>3. /\ ses'[c].live => ses[c].live /\ ses'[c].req /\ ses'[c].connected = ses[c].connected
                           /\ ses'[c].write_bytes = ses[c].write_bytes
        /\ ses'[c].connected => ses[c].connected
    <3> DEFINE r == [Parsed(c) EXCEPT !.to = Head0]
    <3>1. Parsed(c) \in Session /\ Parsed(c).req
      BY <1>0, SessionFields DEF Parsed, Session
    <3>2. /\ Parsed(c).connected = ses[c].connected /\ Parsed(c).write_bytes = ses[c].write_bytes
      BY <1>0 DEF Parsed, Session
    <3>3. /\ r.req = Parsed(c).req /\ r.connected = Parsed(c).connected
          /\ r.write_bytes = Parsed(c).write_bytes
      BY <3>1 DEF Session
    <3>4. ~NoSession.live /\ ~NoSession.connected
      BY DEF NoSession
    <3> HIDE DEF r
    <3>5. CASE ses'[c] = r
      BY <1>1, <3>1, <3>2, <3>3, <3>5
    <3>6. CASE ses'[c] = NoSession
      BY <3>4, <3>6
    <3> QED
      BY <2>2, <3>5, <3>6 DEF r
  <2>4. Gone(c)' = Gone(c) /\ ~Waiting(c)' /\ sock'[u].st = "none"
    BY <1>1, <1>2, <1>4, <2>1, <2>3 DEF Gone, Waiting, NotYet
  <2> QED
    BY <1>1, <2>1, <2>3, <2>4, CountedFrame DEF Asked
<1>5. CASE ~ses[c].req /\ ReverseProxy(c)
  <2>1. /\ ses'[c].live /\ ses'[c].req /\ ses'[c].from = Head0 /\ ses'[c].head = Len(asked)
        /\ ses'[c].connected = ses[c].connected /\ ses'[c].write_bytes = ses[c].write_bytes
        /\ sock'[k] = sock[k] /\ sock'[u].st = "pending"
        /\ buf'[C2S(c)] = <<>> /\ buf'[S2U(c)] = buf[S2U(c)]
    <3>1. ses'[c] = Parsed(c) /\ sock' = [sock EXCEPT ![u] = ConnectingSocket]
      BY <1>0, <1>5 DEF ReverseProxy
    <3>2. Parsed(c).live /\ Parsed(c).req /\ Parsed(c).from = Head0 /\ Parsed(c).head = Len(asked)
          /\ Parsed(c).connected = ses[c].connected /\ Parsed(c).write_bytes = ses[c].write_bytes
      BY <1>0, <1>1 DEF Parsed, Session
    <3>3. ConnectingSocket.st = "pending"
      BY DEF ConnectingSocket, xps_loop_attach, NoSocket
    <3> QED
      BY <1>0, <1>2, <1>5, <3>1, <3>2, <3>3 DEF ReverseProxy
  <2>2. Gone(c) = <<>> /\ Gone(c)' = <<>> /\ Rest(c)' = in /\ ~Waiting(c)'
    <3>1. Gone(c) = <<>>
      BY <1>1, <1>5 DEF Asked
    <3>2. Gone(c)' = Gone(c)
      BY <1>1, <2>1 DEF Gone
    <3>3. Rest(c)' = Join(<<>>, in)
      BY <2>1 DEF Rest
    <3>4. Join(<<>>, in) = in
      <4> HIDE DEF in
      <4> QED
        BY <1>0, Texts
    <3> QED
      BY <1>1, <2>1, <3>1, <3>2, <3>3, <3>4 DEF Waiting, NotYet
  <2>3. sock[k].st = "up" => Sends(c, Join(Head0, in), Len(asked))
    <3>1. sock[k].st = "up" => Join(asked, in) = From(1, fed[k])
      BY <1>1, <1>5 DEF Asked, Waiting, Rest
    <3>2. sock[k].st = "up" => /\ Len(asked) \in 1..fed[k]
                                /\ in = From(Len(asked) + 1, fed[k] - Len(asked))
      <4> HIDE DEF in, asked
      <4> QED
        BY <1>0, <1>1, <3>1, AfterHead
    <3> QED
      BY <3>2 DEF Sends
  <2>4. Join(Join(Gone(c), ses[c].from), Rest(c))' = Join(Head0, in)
    <3>1. Join(Join(Gone(c), ses[c].from), Rest(c))' = Join(Join(<<>>, Head0), in)
      BY <2>1, <2>2
    <3> QED
      BY <1>0, <3>1, Texts
  <2>5. Asked(c)'
    BY <1>1, <2>1, <2>2, <2>3, <2>4 DEF Asked, Sends
  <2>6. Counted(c)'
    BY <1>1, <1>5, <2>1, <2>2 DEF Counted
  <2> QED
    BY <2>5, <2>6
<1>6. CASE /\ ses[c].req /\ ses' = [ses EXCEPT ![c].from = buf[C2S(c)]]
           /\ xps_pipe_sink_clear(C2S(c), Len(buf[C2S(c)])) /\ UNCHANGED sock
  <2>1. /\ ses'[c].live /\ ses'[c].req /\ ses'[c].from = asked /\ ses'[c].head = ses[c].head
        /\ ses'[c].connected = ses[c].connected /\ ses'[c].write_bytes = ses[c].write_bytes
        /\ buf'[C2S(c)] = <<>> /\ buf'[S2U(c)] = buf[S2U(c)]
    BY <1>0, <1>1, <1>2, <1>6 DEF Session
  <2>2. Gone(c)' = Gone(c) /\ Rest(c)' = Join(<<>>, in) /\ ~Waiting(c)'
    BY <1>1, <1>6, <2>1 DEF Gone, Rest, Waiting, NotYet
  <2>3. Join(Join(Gone(c), ses[c].from), Rest(c))' = Join(Join(Gone(c), ses[c].from), Rest(c))
    <3>1. Join(Join(Gone(c), ses[c].from), Rest(c))' = Join(Join(Gone(c), asked), Join(<<>>, in))
      BY <2>1, <2>2
    <3>2. Join(Join(Gone(c), ses[c].from), Rest(c)) = Join(Join(Gone(c), <<>>), Join(asked, in))
      BY <1>1 DEF Rest
    <3> DEFINE g == Gone(c)
    <3>3. g \in Text /\ asked \in Text /\ in \in Text
      BY <1>0
    <3>4. Join(Join(g, asked), Join(<<>>, in)) = Join(Join(g, <<>>), Join(asked, in))
      <4> HIDE DEF g, asked, in
      <4> QED
        BY <3>3, Texts
    <3> QED
      BY <3>1, <3>2, <3>4
  <2>4. Asked(c)'
    BY <1>1, <1>6, <2>1, <2>2, <2>3 DEF Asked, Sends
  <2>5. Counted(c)'
    BY <1>1, <1>6, <2>1, <2>2, CountedFrame
  <2> QED
    BY <2>4, <2>5
<1> QED
  BY <1>3, <1>4, <1>5, <1>6 DEF client_sink_handler, session_process_request

LEMMA AskedLocal ==
  ASSUME WorldOK, NEW d \in Client, Local(d), NEW c \in Client, c # d, Asked(c), Counted(c)
  PROVE  Asked(c)' /\ Counted(c)'
<1> USE Names, Owners
<1>1. /\ ses'[c] = ses[c]
      /\ \A k \in {ClientConn(c), UpstreamConn(c)} :
           sock'[k] = sock[k] /\ sent'[k] = sent[k] /\ fed'[k] = fed[k]
      /\ buf'[C2S(c)] = buf[C2S(c)] /\ buf'[S2U(c)] = buf[S2U(c)]
  BY DEF Local
<1>2. Rest(c)' = Rest(c) /\ Gone(c)' = Gone(c) /\ NotYet(ClientConn(c))' = NotYet(ClientConn(c))
  BY <1>1 DEF Rest, Gone, NotYet
<1> QED
  BY <1>1, <1>2, AskedFrame, CountedFrame

LEMMA VisitAsked ==
  ASSUME WorldOK, EndsOwned, FlagsInv, StageInv, AskedInv, NEW p \in Pipe, Visit(p)
  PROVE  AskedInv'
<1>1. PICK c \in Client : p \in {C2S(c), S2C(c), S2U(c), U2S(c), F2S(c)} /\ p[2] = c
  BY PipeCases
<1>2. Local(c)
  BY <1>1, HandlerLocal DEF Visit
<1>3. Stage(c) /\ OwnedFor(c) /\ FlagsFor(c) /\ Asked(c) /\ Counted(c)
  BY OwnedParts DEF StageInv, FlagsInv, AskedInv
<1>4. Asked(c)' /\ Counted(c)'
  <2>1. CASE p = C2S(c)
    <3>1. CASE SinkTurn(p) /\ SinkHandler(p)
      BY <1>3, <2>1, <3>1, Dispatch, RequestAsked
    <3>2. CASE SinkOrphan(p) /\ SinkCloseHandler(p)
      BY <1>3, <2>1, <3>2, Dispatch, PassedAsked
    <3>3. CASE (SourceTurn(p) /\ SourceHandler(p)) \/ (SourceOrphan(p) /\ SourceCloseHandler(p))
      <4>1. ConnOpen(ClientConn(c))
        BY <1>3, <2>1, <3>3 DEF SourceTurn, SourceOrphan, OwnedFor
      <4> QED
        BY <1>3, <2>1, <3>3, <4>1, Dispatch, ClientConnAsked
    <3> QED
      BY <3>1, <3>2, <3>3 DEF Visit
  <2>2. CASE p = S2C(c)
    <3>1. CASE (SourceTurn(p) /\ SourceHandler(p)) \/ (SourceOrphan(p) /\ SourceCloseHandler(p))
      BY <1>3, <2>2, <3>1, Dispatch, PassedAsked
    <3>2. CASE (SinkTurn(p) /\ SinkHandler(p)) \/ (SinkOrphan(p) /\ SinkCloseHandler(p))
      <4>1. ConnOpen(ClientConn(c))
        BY <1>3, <2>2, <3>2 DEF SinkTurn, SinkOrphan, OwnedFor
      <4> QED
        BY <1>3, <2>2, <3>2, <4>1, Dispatch, ClientConnAsked
    <3> QED
      BY <3>1, <3>2 DEF Visit
  <2>3. CASE p = S2U(c)
    <3>1. CASE SourceTurn(p) /\ SourceHandler(p)
      BY <1>3, <2>3, <3>1, Dispatch, UpstreamSourceAsked
    <3>2. CASE SourceOrphan(p) /\ SourceCloseHandler(p)
      BY <1>3, <2>3, <3>2, Dispatch, PassedAsked
    <3>3. CASE (SinkTurn(p) /\ SinkHandler(p)) \/ (SinkOrphan(p) /\ SinkCloseHandler(p))
      <4>1. ConnOpen(UpstreamConn(c))
        BY <1>3, <2>3, <3>3 DEF SinkTurn, SinkOrphan, OwnedFor
      <4> QED
        BY <1>3, <2>3, <3>3, <4>1, Dispatch, UpstreamConnAsked
    <3> QED
      BY <3>1, <3>2, <3>3 DEF Visit
  <2>4. CASE p = U2S(c)
    <3>1. CASE SinkTurn(p) /\ SinkHandler(p)
      BY <1>3, <2>4, <3>1, Dispatch, UpstreamSinkAsked
    <3>2. CASE SinkOrphan(p) /\ SinkCloseHandler(p)
      BY <1>3, <2>4, <3>2, Dispatch, PassedAsked
    <3>3. CASE (SourceTurn(p) /\ SourceHandler(p)) \/ (SourceOrphan(p) /\ SourceCloseHandler(p))
      <4>1. ConnOpen(UpstreamConn(c))
        BY <1>3, <2>4, <3>3 DEF SourceTurn, SourceOrphan, OwnedFor
      <4> QED
        BY <1>3, <2>4, <3>3, <4>1, Dispatch, UpstreamConnAsked
    <3> QED
      BY <3>1, <3>2, <3>3 DEF Visit
  <2>5. CASE p = F2S(c)
    BY <1>3, <2>5, Dispatch, PassedAsked DEF Visit
  <2> QED
    BY <1>1, <2>1, <2>2, <2>3, <2>4, <2>5
<1>5. \A d \in Client : d # c => Asked(d)' /\ Counted(d)'
  BY <1>2, AskedLocal DEF AskedInv
<1> QED
  BY <1>4, <1>5 DEF AskedInv

-----------------------------------------------------------------------------
\* A step of the loop that moves no chunk and leaves sessions as they are.
LEMMA QuietAsked ==
  ASSUME NEW c \in Client, Asked(c), Counted(c), UNCHANGED <<ses, buf, sent, fed>>,
         \A k \in Conn : sock'[k].st = sock[k].st /\ sock'[k].in = sock[k].in
  PROVE  Asked(c)' /\ Counted(c)'
<1> USE Names
<1>1. Rest(c)' = Rest(c) /\ Gone(c)' = Gone(c) /\ NotYet(ClientConn(c))' = NotYet(ClientConn(c))
  BY DEF Rest, Gone, NotYet
<1> QED
  BY <1>1, AskedFrame, CountedFrame

LEMMA EpollAsked ==
  ASSUME TypeOK, NEW c \in Client, Asked(c), Counted(c),
         \/ epoll_wait \/ (\E e \in batch : HandleEvent(e)) \/ (\E k \in Conn : HandleOut(k))
  PROVE  Asked(c)' /\ Counted(c)'
<1>0. batch \subseteq Event /\ sock \in [Conn -> Socket]
  BY TypeParts, States DEF TypeOK
<1>1. UNCHANGED <<ses, buf, sent, fed>>
  BY DEF epoll_wait, HandleEvent, HandleOut, pipeVars, sockVars, sessionVars
<1>2. \A k \in Conn : sock'[k].st = sock[k].st /\ sock'[k].in = sock[k].in
  <2>1. CASE epoll_wait
    <3>1. PICK K \in SUBSET ReadyConns :
            sock' = [k \in Conn |-> IF k \in K \/ ~PollAny(k)
                                    THEN [sock[k] EXCEPT !.edge = FALSE] ELSE sock[k]]
      BY <2>1 DEF epoll_wait
    <3> QED
      BY <1>0, <3>1 DEF Socket
  <2>2. CASE \E e \in batch : HandleEvent(e)
    <3>1. PICK e \in batch : HandleEvent(e)
      BY <2>2
    <3>2. e.k \in Conn
      BY <1>0 DEF Event
    <3>3. CASE sock' = [sock EXCEPT ![e.k] = xps_loop_detach(sock[e.k])]
      BY <1>0, <3>2, <3>3 DEF xps_loop_detach, Socket
    <3>4. CASE UNCHANGED sock
      BY <3>4
    <3> QED
      BY <3>1, <3>3, <3>4 DEF HandleEvent, OnHangup
  <2>3. CASE \E k \in Conn : HandleOut(k)
    BY <2>3 DEF HandleOut, sockVars
  <2> QED
    BY <2>1, <2>2, <2>3
<1> QED
  BY <1>1, <1>2, QuietAsked

LEMMA DestroyDeadAsked ==
  ASSUME WorldOK, NEW c \in Client, Stage(c), OwnedFor(c), Asked(c), Counted(c),
         NEW p \in Pipe, Dead(p), xps_pipe_destroy(p), UNCHANGED <<sockVars, sessionVars>>
  PROVE  Asked(c)' /\ Counted(c)'
<1> DEFINE k == ClientConn(c)
           u == UpstreamConn(c)
<1> USE Names, NamesDiffer
<1>1. /\ UNCHANGED <<sock, sent, fed, ses>>
      /\ buf'[p] = <<>> /\ \A q \in Pipe : q # p => buf'[q] = buf[q]
  BY States DEF xps_pipe_destroy, sockVars, sessionVars
<1>2. NotYet(k)' = NotYet(k)
  BY <1>1 DEF NotYet
<1>3. CASE ses[c].live
  <2>1. p # C2S(c)
    BY <1>3 DEF Dead, OwnedFor
  <2>2. CASE p # S2U(c)
    <3>1. Rest(c)' = Rest(c) /\ Gone(c)' = Gone(c)
      BY <1>1, <2>1, <2>2 DEF Rest, Gone
    <3> QED
      BY <1>1, <1>2, <3>1, AskedFrame, CountedFrame
  <2>3. CASE p = S2U(c)
    <3>1. sock[u].st = "none"
      BY <1>3, <2>3, LiveStage DEF Dead, Alive, Own, Serving, Relaying, NoUpstream
    <3>2. sent[u] = <<>> /\ buf[S2U(c)] = <<>>
      BY <3>1, RequestTexts, Texts DEF Asked, Gone
    <3>3. Rest(c)' = Rest(c) /\ Gone(c)' = Gone(c)
      BY <1>1, <2>1, <2>3, <3>2 DEF Rest, Gone
    <3> QED
      BY <1>1, <1>2, <3>3, AskedFrame, CountedFrame
  <2> QED
    BY <2>2, <2>3
<1>4. CASE ~ses[c].live
  <2>1. ses[c] = NoSession
    BY <1>4 DEF Stage, Fresh, Ended, Alive
  <2>2. NotYet(k) => Rest(c)' = Rest(c)
    BY <1>1, <1>4 DEF Stage, Fresh, Ended, Alive, Rest
  <2>3. sock[u].st = "none" => Gone(c)' = <<>>
    <3>1. ASSUME sock[u].st = "none" PROVE sent[u] = <<>> /\ buf[S2U(c)] = <<>>
      BY <3>1, RequestTexts, Texts DEF Asked, Gone
    <3>2. sock[u].st = "none" => Gone(c)' = Join(<<>>, <<>>)
      BY <1>1, <3>1 DEF Gone
    <3> QED
      BY <3>2, Texts
  <2>4. Asked(c)'
    BY <1>1, <1>2, <1>4, <2>2, <2>3 DEF Asked, Waiting
  <2>5. Counted(c)'
    BY <1>1, <1>4 DEF Counted
  <2> QED
    BY <2>4, <2>5
<1> QED
  BY <1>3, <1>4

LEMMA AcceptAsked ==
  ASSUME WorldOK, NEW c \in Client, Stage(c), Asked(c), Counted(c),
         c \in Backlog, xps_session_create(c)
  PROVE  Asked(c)' /\ Counted(c)'
<1> DEFINE k == ClientConn(c)
           u == UpstreamConn(c)
<1> USE Names, NamesDiffer
<1>1. Fresh(c) /\ NotYet(k) /\ sock[u].st = "none"
  BY DEF Backlog, Stage, Alive, Ended, NotYet, Fresh, NoUpstream
<1>2. /\ UNCHANGED <<buf, sent, fed>> /\ sock'[u] = sock[u]
      /\ sock'[k].st = "up" /\ sock'[k].in = sock[k].in
      /\ ses'[c].live /\ ~ses'[c].connected /\ ses'[c].write_bytes = 0
  <2>1. AcceptedSocket(k).st = "up" /\ AcceptedSocket(k).in = sock[k].in
    <3>1. sock[k] \in Socket
      BY States
    <3> QED
      BY <3>1 DEF AcceptedSocket, xps_loop_attach, Socket
  <2>2. sock' = [sock EXCEPT ![k] = AcceptedSocket(k)]
        /\ ses' = [ses EXCEPT ![c] = [NoSession EXCEPT !.live = TRUE]]
        /\ UNCHANGED <<buf, sent, fed>>
    BY DEF xps_session_create
  <2> QED
    BY <2>1, <2>2, States DEF NoSession
<1>3. Rest(c)' = Rest(c) /\ Gone(c)' = Gone(c) /\ Gone(c) = <<>>
  BY <1>1, <1>2 DEF Rest, Gone, Asked
<1>4. Rest(c) = From(1, fed[k])
  BY <1>1 DEF Asked, Waiting
<1>5. Asked(c)'
  BY <1>1, <1>2, <1>3, <1>4 DEF Asked
<1>6. Counted(c)'
  BY <1>1, <1>2, <1>3, Lengths, RequestTexts DEF Counted
<1> QED
  BY <1>5, <1>6

\* One more chunk from the client, behind what it has sent before.
LEMMA PeerAsked ==
  ASSUME WorldOK, NEW c \in Client, Asked(c), Counted(c), PeerStep
  PROVE  Asked(c)' /\ Counted(c)'
<1> DEFINE k == ClientConn(c)
           u == UpstreamConn(c)
           n == fed[k]
           g == Gone(c)
           x == Join(g, ses[c].from)
<1> USE Names, NamesDiffer
<1>1. UNCHANGED <<buf, ses, sent>>
  BY ZenonT(60)
  DEF PeerStep, pipeVars, sessionVars, Peers, Connect, Establish, Refuse, PeerSend, PeerFin,
      PeerReset, PeerDrain
<1>2. /\ NotYet(k)' = NotYet(k) /\ (sock'[k].st = "up" => sock[k].st = "up")
      /\ (sock'[u].st = "none" <=> sock[u].st = "none")
      /\ \/ sock'[k].in = sock[k].in /\ fed'[k] = fed[k]
         \/ sock'[k].in = Append(sock[k].in, fed[k] + 1) /\ fed'[k] = fed[k] + 1
      /\ fed[u] > 0 => fed'[u] > 0
  <2>1. fed[u] \in Nat
    BY States
  <2> QED
    BY <2>1, PeerEffect
<1>3. g \in Text /\ Gone(c)' = g /\ x \in Text /\ n \in Nat /\ Rest(c) \in Text
  BY <1>1, RequestTexts, Texts DEF Gone
<1>4. Counted(c)'
  BY <1>1, <1>2, <1>3, CountedFrame
<1>5. CASE sock'[k].in = sock[k].in /\ fed'[k] = fed[k]
  <2>1. Rest(c)' = Rest(c)
    BY <1>1, <1>5 DEF Rest
  <2> QED
    BY <1>1, <1>2, <1>3, <1>4, <1>5, <2>1, AskedFrame
<1>6. CASE sock'[k].in = Append(sock[k].in, fed[k] + 1) /\ fed'[k] = fed[k] + 1
  <2>1. Rest(c)' = Join(Rest(c), <<n + 1>>) /\ <<n + 1>> \in Text
    <3>1. Rest(c)' = Join(buf[C2S(c)], Append(sock[k].in, n + 1))
      BY <1>1, <1>6 DEF Rest
    <3>2. buf[C2S(c)] \in Text /\ sock[k].in \in Text
      BY RequestTexts
    <3> QED
      BY <1>3, <3>1, <3>2, Arrived DEF Rest
  <2>2. Waiting(c)' => Rest(c)' = From(1, fed'[k])
    <3>1. Waiting(c)' => Waiting(c)
      BY <1>1, <1>2 DEF Waiting
    <3>2. Join(From(1, n), <<n + 1>>) = From(1, n + 1)
      BY <1>3, NextRow
    <3> QED
      BY <1>6, <2>1, <3>1, <3>2 DEF Asked
  <2>3. ASSUME ses[c].live, sock[u].st # "none", sock[k].st = "up"
        PROVE  Sends(c, Join(Join(Gone(c), ses[c].from), Rest(c)), ses[c].head)'
    <3> DEFINE h == ses[c].head
               t == From(h + 1, n - h)
    <3>1. h \in 1..n /\ Join(x, Rest(c)) = Join(Head0, t)
      BY <2>3 DEF Asked, Sends
    <3>2. t \in Text
      <4>1. h + 1 \in Nat \ {0} /\ n - h \in Nat
        BY <1>3, <3>1
      <4> QED
        BY <4>1, Row, Zenon DEF Text
    <3>3. Join(t, <<n + 1>>) = From(h + 1, (n + 1) - h) /\ h \in 1..(n + 1)
      BY <1>3, <3>1, <3>2, NextOfLast
    <3>4. Join(x, Join(Rest(c), <<n + 1>>)) = Join(Head0, Join(t, <<n + 1>>))
      <4> DEFINE e == <<n + 1>>
                 y == Rest(c)
      <4>1. e \in Text /\ y \in Text /\ Join(x, y) = Join(Head0, t)
        BY <1>3, <2>1, <3>1
      <4> HIDE DEF e, y, t, x
      <4>2. Join(x, Join(y, e)) = Join(Join(x, y), e)
        BY <1>3, <4>1, Texts
      <4>3. Join(Join(Head0, t), e) = Join(Head0, Join(t, e))
        BY <3>2, <4>1, Texts
      <4>4. Join(x, Join(y, e)) = Join(Head0, Join(t, e))
        BY <4>1, <4>2, <4>3
      <4> QED
        BY <4>4 DEF e, y
    <3>5. Join(Join(Gone(c), ses[c].from), Rest(c))' = Join(Head0, From(h + 1, (n + 1) - h))
      BY <1>1, <1>3, <2>1, <3>3, <3>4
    <3> QED
      BY <1>1, <1>6, <3>3, <3>5 DEF Sends
  <2>4. sock[u].st = "none" => Gone(c)' = <<>>
    BY <1>3 DEF Asked
  <2>5. Asked(c)'
    BY <1>1, <1>2, <2>2, <2>3, <2>4 DEF Asked
  <2> QED
    BY <1>4, <2>5
<1> QED
  BY <1>2, <1>5, <1>6

LEMMA AskedInit == Init => AskedInv
<1> SUFFICES ASSUME Init, NEW c \in Client PROVE Asked(c) /\ Counted(c)
  BY DEF AskedInv
<1> USE Names
<1>1. /\ buf[C2S(c)] = <<>> /\ buf[S2U(c)] = <<>> /\ sent[UpstreamConn(c)] = <<>>
      /\ \A k \in Conn : sock[k] = NoSocket /\ fed[k] = 0
      /\ ses[c] = NoSession
  BY DEF Init, PipeInit, SocketInit, SessionInit
<1>2. Rest(c) = <<>> /\ Gone(c) = <<>>
  BY <1>1, Texts DEF Rest, Gone, NoSocket
<1>3. /\ sock[UpstreamConn(c)].st = "none" /\ ~ses[c].live /\ ~ses[c].connected
      /\ fed[ClientConn(c)] = 0
  BY <1>1 DEF NoSession, NoSocket
<1>4. Asked(c)
  BY <1>2, <1>3, Rows DEF Asked
<1>5. Counted(c)
  BY <1>3 DEF Counted
<1> QED
  BY <1>4, <1>5

LEMMA AskedStep ==
  TypeOK /\ EndsOwned /\ FlagsInv /\ TurnInv /\ StageInv /\ AskedInv /\ [Next]_vars => AskedInv'
<1> SUFFICES ASSUME TypeOK, EndsOwned, FlagsInv, TurnInv, StageInv, AskedInv, [Next]_vars
             PROVE  AskedInv'
  OBVIOUS
<1>0. WorldOK /\ \A c \in Client : Stage(c) /\ OwnedFor(c) /\ Asked(c) /\ Counted(c)
  BY TypeParts, OwnedParts DEF TypeOK, StageInv, AskedInv
<1>1. CASE \/ UNCHANGED vars \/ SkipNull \/ PassDone \/ ListenerEvent \/ AcceptDone
           \/ UnchangedWorld \/ EventsDone
  <2>1. UNCHANGED <<buf, sock, sent, fed, ses>>
    BY <1>1 DEF vars, SkipNull, PassDone, ListenerEvent, AcceptDone, UnchangedWorld, EventsDone,
                filter_null_pipes, pipeVars, sockVars, sessionVars
  <2> QED
    BY <1>0, <2>1, QuietAsked DEF AskedInv
<1>2. CASE \E p \in Pipe : DestroyDead(p)
  BY <1>0, <1>2, DestroyDeadAsked DEF AskedInv, DestroyDead
<1>3. CASE \E p \in Pipe : SourceStep(p) \/ SinkStep(p) \/ CloseStep(p)
  <2>1. PICK p \in Pipe : SourceStep(p) \/ SinkStep(p) \/ CloseStep(p)
    BY <1>3
  <2>2. CASE UnchangedWorld
    BY <1>1, <2>2
  <2> QED
    BY <1>0, <2>1, <2>2, VisitAsked, StepVisits
<1>4. CASE \/ epoll_wait \/ (\E e \in batch : HandleEvent(e)) \/ (\E k \in Conn : HandleOut(k))
  BY <1>0, <1>4, EpollAsked DEF AskedInv
<1>5. CASE \E c \in Client : Accept(c)
  <2>1. PICK c \in Client : c \in Backlog /\ xps_session_create(c)
    BY <1>5 DEF Accept
  <2> QED
    BY <1>0, <2>1, AcceptAsked, AcceptLocal, AskedLocal DEF AskedInv
<1>6. CASE PeerStep
  BY <1>0, <1>6, PeerAsked DEF AskedInv
<1> QED
  BY <1>1, <1>2, <1>3, <1>4, <1>5, <1>6
  DEF Next, xps_loop_run, handle_pipes, handle_epoll_events, Idle

-----------------------------------------------------------------------------
(***************************************************************************)
(* The connection attempt.  Until TCP has settled it, epoll reports no     *)
(* EPOLLOUT for it, so nothing makes the sink of its pipe ready.           *)
(***************************************************************************)
Connecting(c) == sock[UpstreamConn(c)].st = "pending" /\ ~sock[UpstreamConn(c)].rst

Unready(c) ==
  Connecting(c) => /\ ~snk[S2U(c)].ready
                   /\ UpstreamConn(c) \notin cur
                   /\ \A e \in batch : e.k = UpstreamConn(c) => ~e.out

UnreadyInv == \A c \in Client : Unready(c)

LEMMA UnreadyFrame ==
  ASSUME NEW c \in Client, Unready(c), UNCHANGED <<batch, cur>>, Connecting(c)' => Connecting(c),
         snk'[S2U(c)].ready => snk[S2U(c)].ready
  PROVE  Unready(c)'
BY DEF Unready

\* No handler of a session makes the sink of the upstream's connection ready.
LEMMA SessionUnready ==
  ASSUME WorldOK, NEW c \in Client, Unready(c), UNCHANGED <<batch, cur>>,
         \/ client_source_handler(c) \/ upstream_source_handler(c)
         \/ upstream_sink_handler(c) \/ file_sink_handler(c)
         \/ client_source_close_handler(c) \/ client_sink_close_handler(c)
         \/ upstream_source_close_handler(c) \/ upstream_sink_close_handler(c)
         \/ file_sink_close_handler(c)
  PROVE  Unready(c)'
<1> USE Names, NamesDiffer, States
<1>1. UNCHANGED sock
  BY DEF client_source_handler, upstream_source_handler, upstream_sink_handler, file_sink_handler,
         client_source_close_handler, client_sink_close_handler, upstream_source_close_handler,
         upstream_sink_close_handler, file_sink_close_handler, CloseSessionEnd
<1>2. ASSUME NEW K \in Ends, NEW b \in BOOLEAN
      PROVE  /\ ToSinks(K, c, b)[S2U(c)] = K[S2U(c)]
             /\ FromSinks(K, c, b)[S2U(c)] = K[S2U(c)]
             /\ SinksWithout(K, c)[S2U(c)] = K[S2U(c)]
             /\ ToSinks(K, c, b) \in Ends /\ FromSinks(K, c, b) \in Ends
  BY <1>2, FlagTypes DEF ToSinks, FromSinks, SinksWithout, Ends
<1>3. ASSUME NEW p \in {C2S(c), U2S(c), F2S(c)}
      PROVE  SinkInactive(p) \in Ends /\ SinkInactive(p)[S2U(c)] = snk[S2U(c)]
  <2>1. p \in Pipe /\ p # S2U(c)
    BY <1>3
  <2>2. SinkInactive(p) \in Ends
    BY <2>1, EndsUpdate DEF SinkInactive
  <2> QED
    BY <2>1, <2>2 DEF SinkInactive
<1>4. ASSUME NEW S, NEW K \in Ends, NEW r, session_check_destroy(c, S, K, r), K[S2U(c)] = snk[S2U(c)]
      PROVE  snk'[S2U(c)] = snk[S2U(c)]
  BY <1>2, <1>4 DEF session_check_destroy, xps_session_destroy
<1>5. snk'[S2U(c)] = snk[S2U(c)]
  <2> DEFINE no == FALSE
             yes == TRUE
  <2>0. no \in BOOLEAN /\ yes \in BOOLEAN
    OBVIOUS
  <2>1. CASE client_source_handler(c) \/ upstream_source_handler(c)
    <3>1. (\E S, r : session_check_destroy(c, S, ToSinks(snk, c, no), r))
          \/ (\E S, r : session_check_destroy(c, S, FromSinks(snk, c, no), r))
      <4>1. CASE client_source_handler(c)
        BY <4>1 DEF client_source_handler
      <4>2. CASE upstream_source_handler(c)
        BY <4>2 DEF upstream_source_handler
      <4> QED
        BY <2>1, <4>1, <4>2
    <3> HIDE DEF no
    <3> QED
      BY <1>2, <1>4, <2>0, <3>1
  <2>2. CASE upstream_sink_handler(c) \/ file_sink_handler(c)
    <3>1. snk' = ToSinks(snk, c, yes)
      BY <2>2 DEF upstream_sink_handler, file_sink_handler
    <3> HIDE DEF yes
    <3> QED
      BY <1>2, <2>0, <3>1
  <2>3. CASE client_source_close_handler(c) \/ upstream_source_close_handler(c)
    <3>1. PICK S, r : session_check_destroy(c, S, snk, r)
      BY <2>3 DEF client_source_close_handler, upstream_source_close_handler, CloseSessionEnd
    <3> QED
      BY <1>4, <3>1
  <2>4. CASE client_sink_close_handler(c) \/ upstream_sink_close_handler(c) \/ file_sink_close_handler(c)
    <3>1. PICK p \in {C2S(c), U2S(c), F2S(c)} :
            \E r : session_check_destroy(c, src, SinkInactive(p), r)
      BY <2>4 DEF client_sink_close_handler, upstream_sink_close_handler, file_sink_close_handler,
                  CloseSessionEnd
    <3> QED
      BY <1>3, <1>4, <3>1
  <2> QED
    BY <2>1, <2>2, <2>3, <2>4
<1> QED
  BY <1>1, <1>5, UnreadyFrame DEF Connecting

LEMMA RequestUnready ==
  ASSUME WorldOK, NEW c \in Client, Unready(c), batch = {}, cur = {}, UNCHANGED <<batch, cur>>,
         client_sink_handler(c)
  PROVE  Unready(c)'
<1> USE Names, NamesDiffer, States
<1> DEFINE yes == TRUE
<1>0. yes \in BOOLEAN
  OBVIOUS
<1>1. ASSUME NEW K \in Ends, NEW b \in BOOLEAN
      PROVE  /\ ToSinks(K, c, b)[S2U(c)] = K[S2U(c)]
             /\ FromSinks(K, c, b)[S2U(c)] = K[S2U(c)]
             /\ SinksWithout(K, c)[S2U(c)] = K[S2U(c)]
             /\ ToSinks(K, c, b) \in Ends /\ FromSinks(K, c, b) \in Ends
  BY <1>1, FlagTypes DEF ToSinks, FromSinks, SinksWithout, Ends
<1>2. /\ ParsedSinks(c) \in Ends /\ ParsedSinks(c)[S2U(c)] = snk[S2U(c)]
      /\ ToSinks(ParsedSinks(c), c, yes) \in Ends
      /\ ToSinks(ParsedSinks(c), c, yes)[S2U(c)] = snk[S2U(c)]
      /\ ToSinks(snk, c, yes)[S2U(c)] = snk[S2U(c)]
      /\ FromSinks(snk, c, yes)[S2U(c)] = snk[S2U(c)]
      /\ SinksWithout(snk, c)[S2U(c)] = snk[S2U(c)]
  <2>1. ParsedSinks(c) = FromSinks(snk, c, yes)
    BY DEF ParsedSinks
  <2> HIDE DEF yes
  <2> QED
    BY <1>0, <1>1, <2>1
<1>3. ASSUME UNCHANGED sock, snk'[S2U(c)] = snk[S2U(c)]
      PROVE  Unready(c)'
  BY <1>3, UnreadyFrame DEF Connecting
<1>4. CASE ReverseProxy(c)
  <2>1. snk'[S2U(c)] = Attached(FreedEnd)
    BY <1>2, <1>4 DEF ReverseProxy, Ends
  <2>2. ~Attached(FreedEnd).ready
    BY DEF Attached, FreedEnd
  <2> QED
    BY <2>1, <2>2 DEF Unready
<1>5. CASE ServeFile(c)
  <2>1. snk'[S2U(c)] = snk[S2U(c)]
    BY <1>2, <1>5 DEF ServeFile, Ends
  <2> QED
    BY <1>3, <1>5, <2>1 DEF ServeFile
<1>6. CASE BadRequest(c) \/ ReplyOnly(c) \/ InvalidRoute(c)
  <2>1. snk'[S2U(c)] = snk[S2U(c)]
    BY <1>2, <1>6 DEF BadRequest, ReplyOnly, InvalidRoute, xps_session_destroy
  <2> QED
    BY <1>3, <1>6, <2>1 DEF BadRequest, ReplyOnly, InvalidRoute
<1>7. CASE ses[c].req /\ snk' = FromSinks(snk, c, yes) /\ UNCHANGED sock
  BY <1>2, <1>3, <1>7
<1> QED
  BY <1>4, <1>5, <1>6, <1>7 DEF client_sink_handler, session_process_request

\* A connection's handlers make none of their ends ready.
LEMMA ConnectionUnready ==
  ASSUME WorldOK, NEW c \in Client, Unready(c), UNCHANGED <<batch, cur>>,
         NEW k \in {ClientConn(c), UpstreamConn(c)},
         \/ connection_source_handler(k) \/ connection_sink_handler(k)
         \/ connection_source_close_handler(k) \/ connection_sink_close_handler(k)
  PROVE  Unready(c)'
<1> DEFINE u == UpstreamConn(c)
<1> USE Names, NamesDiffer, ConnPipes
<1>1. CASE k = ClientConn(c)
  <2>1. sock'[u] = sock[u] /\ snk'[S2U(c)] = snk[S2U(c)]
    BY <1>1, ConnectionEffect
  <2> QED
    BY <2>1, UnreadyFrame DEF Connecting
<1>2. CASE k = u
  <2>1. /\ sock'[u].rst = sock[u].rst /\ sock'[u].st \in {sock[u].st, "closed"}
        /\ u \in Conn /\ SinkPipe(u) = S2U(c) /\ sock \in [Conn -> Socket]
        /\ snk \in [Pipe -> End] /\ S2U(c) \in Pipe
    BY <1>2, ConnectionEffect, States
  <2>2. CASE connection_close(u)
    <3>1. sock'[u].st = "closed"
      BY <2>1, <2>2, ClosedSocketType, ZenonT(60)
      DEF connection_close, ClosedSocket, xps_loop_detach, Socket
    <3> QED
      BY <3>1 DEF Unready, Connecting
  <2>3. CASE \/ UNCHANGED snk \/ snk' = [snk EXCEPT ![S2U(c)].ready = FALSE]
             \/ snk' = [snk EXCEPT ![S2U(c)].active = FALSE]
    <3>1. snk'[S2U(c)].ready => snk[S2U(c)].ready
      BY <2>1, <2>3 DEF End
    <3> QED
      BY <2>1, <3>1, UnreadyFrame DEF Connecting
  <2> QED
    BY <1>2, <2>1, <2>2, <2>3
    DEF connection_source_handler, connection_sink_handler, connection_source_close_handler,
        connection_sink_close_handler
<1> QED
  BY <1>1, <1>2

LEMMA VisitUnready ==
  ASSUME WorldOK, UnreadyInv, batch = {}, cur = {}, UNCHANGED <<batch, cur>>,
         NEW p \in Pipe, Visit(p), NEW c \in Client
  PROVE  Unready(c)'
<1>1. PICK d \in Client : p \in {C2S(d), S2C(d), S2U(d), U2S(d), F2S(d)} /\ p[2] = d
  BY PipeCases
<1>2. Unready(c) /\ Local(d)
  BY <1>1, HandlerLocal DEF Visit, UnreadyInv
<1>3. CASE c # d
  <2>1. sock'[UpstreamConn(c)] = sock[UpstreamConn(c)] /\ snk'[S2U(c)] = snk[S2U(c)]
    BY <1>2, <1>3, Names, Owners DEF Local
  <2> QED
    BY <1>2, <2>1, UnreadyFrame DEF Connecting
<1>4. CASE c = d
  <2>1. CASE file_source_handler(c) \/ file_source_close_handler(c)
    <3>1. UNCHANGED <<sock, snk>>
      BY <2>1 DEF file_source_handler, file_source_close_handler, FileDestroy
    <3> QED
      BY <1>2, <3>1, UnreadyFrame DEF Connecting
  <2>2. CASE p = C2S(c)
    BY <1>2, <2>2, Dispatch, ConnectionUnready, RequestUnready, SessionUnready DEF Visit
  <2>3. CASE p \in {S2C(c), S2U(c), U2S(c)}
    BY <1>2, <2>3, Dispatch, ConnectionUnready, SessionUnready DEF Visit
  <2>4. CASE p = F2S(c)
    BY <1>2, <2>1, <2>4, Dispatch, SessionUnready DEF Visit
  <2> QED
    BY <1>1, <1>4, <2>2, <2>3, <2>4
<1> QED
  BY <1>3, <1>4

LEMMA EpollUnready ==
  ASSUME TypeOK, EventInv, NEW c \in Client, Unready(c),
         \/ epoll_wait \/ (\E e \in batch : HandleEvent(e)) \/ (\E k \in Conn : HandleOut(k))
  PROVE  Unready(c)'
<1> DEFINE u == UpstreamConn(c)
<1> USE Names, ConnPipes
<1>0. /\ batch \subseteq Event /\ sock \in [Conn -> Socket] /\ snk \in [Pipe -> End]
      /\ u \in Conn /\ S2U(c) \in Pipe /\ SinkPipe(u) = S2U(c)
  BY TypeParts, States DEF TypeOK
<1>1. CASE epoll_wait
  <2>1. PICK K \in SUBSET ReadyConns :
          /\ batch' = {EventOf(k) : k \in K}
          /\ sock' = [k \in Conn |-> IF k \in K \/ ~PollAny(k)
                                     THEN [sock[k] EXCEPT !.edge = FALSE] ELSE sock[k]]
    BY <1>1 DEF epoll_wait
  <2>2. sock'[u].st = sock[u].st /\ sock'[u].rst = sock[u].rst /\ UNCHANGED <<snk, cur>>
    BY <1>0, <1>1, <2>1 DEF Socket, epoll_wait, pipeVars
  <2>3. \A e \in batch' : e.k = u => e.out = PollOut(u)
    BY <2>1 DEF EventOf
  <2>4. Connecting(c) => ~PollOut(u)
    BY DEF Connecting, PollOut
  <2> QED
    BY <2>2, <2>3, <2>4 DEF Unready, Connecting
<1>2. CASE \E e \in batch : HandleEvent(e)
  <2>1. PICK e \in batch : HandleEvent(e)
    BY <1>2
  <2>2. e.k \in Conn /\ batch' = batch \ {e} /\ UNCHANGED snk
        /\ (e.out => cur' = {e.k}) /\ (~e.out => cur' = cur)
    BY <1>0, <2>1 DEF Event, HandleEvent
  <2>3. sock'[u].st = sock[u].st /\ sock'[u].rst = sock[u].rst
    <3>1. CASE sock' = [sock EXCEPT ![e.k] = xps_loop_detach(sock[e.k])]
      BY <1>0, <2>2, <3>1 DEF xps_loop_detach, Socket
    <3>2. CASE UNCHANGED sock
      BY <3>2
    <3> QED
      BY <2>1, <3>1, <3>2 DEF HandleEvent, OnHangup
  <2> QED
    BY <2>1, <2>2, <2>3 DEF Unready, Connecting
<1>3. CASE \E k \in Conn : HandleOut(k)
  <2>1. PICK k \in Conn : HandleOut(k)
    BY <1>3
  <2>2. k \in cur /\ cur' = {} /\ UNCHANGED <<batch, sock>> /\ SinkPipe(k) \in Pipe
        /\ (UNCHANGED snk \/ snk' = [snk EXCEPT ![SinkPipe(k)].ready = TRUE])
    BY <2>1, ConnPipeTypes DEF HandleOut, sockVars
  <2>3. CASE k = u
    BY <2>2, <2>3 DEF Unready, Connecting
  <2>4. CASE k # u
    <3>1. SinkPipe(k) # S2U(c)
      BY <1>0, <2>4, ConnPipesDiffer
    <3>2. snk'[S2U(c)] = snk[S2U(c)]
      BY <1>0, <2>2, <3>1
    <3> QED
      BY <2>2, <3>2 DEF Unready, Connecting
  <2> QED
    BY <2>3, <2>4
<1> QED
  BY <1>1, <1>2, <1>3

LEMMA UnreadyInit == Init => UnreadyInv
<1> SUFFICES ASSUME Init, NEW c \in Client PROVE ~Connecting(c)
  BY DEF UnreadyInv, Unready
<1> QED
  BY Names DEF Init, SocketInit, NoSocket, Connecting

LEMMA UnreadyStep ==
  TypeOK /\ EndsOwned /\ EventInv /\ TurnInv /\ UnreadyInv /\ [Next]_vars => UnreadyInv'
<1> SUFFICES ASSUME TypeOK, EndsOwned, EventInv, TurnInv, UnreadyInv, [Next]_vars, NEW c \in Client
             PROVE  Unready(c)'
  BY DEF UnreadyInv
<1> DEFINE u == UpstreamConn(c)
<1> USE Names, NamesDiffer
<1>0. WorldOK /\ Unready(c)
  BY TypeParts DEF TypeOK, UnreadyInv
<1>1. ASSUME UNCHANGED <<sock, snk, batch, cur>>
      PROVE  Unready(c)'
  BY <1>0, <1>1, UnreadyFrame DEF Connecting
<1>2. CASE \/ UNCHANGED vars \/ SkipNull \/ PassDone \/ ListenerEvent \/ AcceptDone \/ EventsDone
           \/ (\E p \in Pipe : DestroyDead(p))
  BY <1>1, <1>2
  DEF vars, SkipNull, PassDone, ListenerEvent, AcceptDone, UnchangedWorld, EventsDone, GoTo,
      NextPosition, filter_null_pipes, DestroyDead, xps_pipe_destroy, pipeVars, sockVars,
      sessionVars, loopVars
<1>3. CASE \E p \in Pipe : SourceStep(p) \/ SinkStep(p) \/ CloseStep(p)
  <2>1. PICK p \in Pipe : SourceStep(p) \/ SinkStep(p) \/ CloseStep(p)
    BY <1>3
  <2>2. batch = {} /\ cur = {} /\ UNCHANGED <<batch, cur>>
    BY <2>1 DEF EventInv, BatchInv, SourceStep, SinkStep, CloseStep, At, GoTo, NextPosition
  <2>3. CASE UnchangedWorld
    BY <1>1, <2>2, <2>3 DEF UnchangedWorld, pipeVars, sockVars
  <2> QED
    BY <1>0, <2>1, <2>2, <2>3, VisitUnready, StepVisits
<1>4. CASE \/ epoll_wait \/ (\E e \in batch : HandleEvent(e)) \/ (\E k \in Conn : HandleOut(k))
  BY <1>0, <1>4, EpollUnready
<1>5. CASE \E d \in Client : Accept(d)
  <2>1. PICK d \in Client : xps_session_create(d) /\ UNCHANGED <<batch, cur>>
    BY <1>5 DEF Accept, loopVars
  <2>2. sock'[u] = sock[u]
    BY <1>0, <2>1, States DEF xps_session_create
  <2>3. S2U(c) \notin {C2S(d), S2C(d), U2S(d), F2S(d)}
    BY DEF S2U, C2S, S2C, U2S, F2S
  <2>4. snk'[S2U(c)] = snk[S2U(c)]
    BY <1>0, <2>1, <2>3, States DEF xps_session_create
  <2> QED
    BY <1>0, <2>1, <2>2, <2>4, UnreadyFrame DEF Connecting
<1>6. CASE PeerStep
  <2>1. UNCHANGED <<snk, batch, cur>>
    BY <1>6 DEF PeerStep, pipeVars, loopVars
  <2>2. Connecting(c)' => Connecting(c)
    <3>1. (sock'[u].st = "pending" => sock[u].st = "pending") /\ (sock[u].rst => sock'[u].rst)
      BY <1>0, <1>6, PeerEffect
    <3> QED
      BY <3>1 DEF Connecting
  <2> QED
    BY <1>0, <2>1, <2>2, UnreadyFrame
<1> QED
  BY <1>2, <1>3, <1>4, <1>5, <1>6
  DEF Next, xps_loop_run, handle_pipes, handle_epoll_events, Idle

-----------------------------------------------------------------------------
RequestInv == EventInv /\ AskedInv /\ UnreadyInv

LEMMA RequestAlways == Spec => [](ListInv /\ StreamInv /\ RequestInv)
<1>1. Init => ListInv /\ StreamInv /\ RequestInv
  BY TypeInit, OwnedInit, ListInit, FlagsInit, StageInit, TurnInit, EventInit, AskedInit, UnreadyInit
  DEF ListInv, StreamInv, RequestInv
<1>2. ListInv /\ StreamInv /\ RequestInv /\ [Next]_vars => ListInv' /\ StreamInv' /\ RequestInv'
  BY TypeStep, OwnedStep, ListStep, FlagsStep, StageStep, TurnStep, EventStep, AskedStep, UnreadyStep
  DEF ListInv, StreamInv, RequestInv, ListKept
<1> QED
  BY <1>1, <1>2, PTL DEF Spec

LEMMA RequestMeans ==
  ListInv /\ StreamInv /\ RequestInv => RequestNotLost /\ UpstreamConnectedIsReal
<1> SUFFICES ASSUME ListInv, StreamInv, RequestInv
             PROVE  RequestNotLost /\ UpstreamConnectedIsReal
  OBVIOUS
<1>0. WorldOK /\ \A c \in Client : Asked(c) /\ Counted(c) /\ Unready(c)
  BY TypeParts DEF ListInv, RequestInv, TypeOK, AskedInv, UnreadyInv
<1>1. ASSUME NEW c \in Client, ses[c].live, ServedByProxy(c), sock[ClientConn(c)].st = "up"
      PROVE  LET k == ClientConn(c)
                 s == sent[UpstreamConn(c)] \o buf[S2U(c)] \o ses[c].from \o buf[C2S(c)] \o sock[k].in
             IN /\ ses[c].head \in 1..fed[k]
                /\ s = Head0 \o From(ses[c].head + 1, fed[k] - ses[c].head)
  <2> DEFINE k == ClientConn(c)
             f == Join(Gone(c), ses[c].from)
             b == buf[C2S(c)]
             i == sock[k].in
             h == ses[c].head
  <2>1. h \in 1..fed[k] /\ Join(f, Join(b, i)) = Join(Head0, From(h + 1, fed[k] - h))
    BY <1>0, <1>1 DEF Asked, Sends, ServedByProxy, Rest
  <2>2. f \in Text /\ b \in Text /\ i \in Text
    BY <1>0, RequestTexts, Texts
  <2>3. Join(Join(f, b), i) = Join(f, Join(b, i))
    <3> HIDE DEF f, b, i
    <3> QED
      BY <2>2, Texts
  <2>4. Join(Join(f, b), i) = Head0 \o From(h + 1, fed[k] - h)
    BY <2>1, <2>3 DEF Join
  <2> QED
    BY <2>1, <2>4 DEF Join, Gone
<1>2. RequestNotLost
  BY <1>1 DEF RequestNotLost
<1>3. UpstreamConnectedIsReal
  BY <1>0 DEF UpstreamConnectedIsReal, Counted, Unready, Connecting
<1> QED
  BY <1>2, <1>3

\* The upstream gets the serialised head of the request and then, without a
\* gap and in order, every chunk behind the ses[c].head chunks that the read which
\* completed the head took: behind it nothing is lost between two pipes and
\* from_client_buff, for any sizes.
THEOREM NoRequestIsLost == Spec => []RequestNotLost
BY RequestAlways, RequestMeans, PTL

\* upstream_connected, inferred from counts of bytes, is never set for an
\* upstream that took nothing and sent nothing, and no byte is offered to an
\* upstream whose connection is not settled.
THEOREM ConnectedUpstreamsAreReal == Spec => []UpstreamConnectedIsReal
BY RequestAlways, RequestMeans, PTL

=============================================================================
