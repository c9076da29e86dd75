# A TLA+ verification of eXpServer

eXpServer (`src/src`) is a single-threaded HTTP server in C. It serves files and
directory pages, redirects, and forwards requests to upstream servers, driving
every transfer from one edge-triggered epoll loop. This directory holds TLA+
models of it, the TLC configurations that check them on small instances, and
theorems checked by TLAPS.

## 1. The system

| Component | Source | State | Operations |
|---|---|---|---|
| core | `core/xps_core.c` | lists of listeners, connections, pipes, sessions; a count of NULLs for each | create, destroy (SIGINT), start |
| event loop | `core/xps_loop.c` | registered events, the position in `core->pipes`, the events epoll returned | attach, detach, `handle_pipes`, `handle_epoll_events`, `filter_nulls`, run |
| pipes | `core/xps_pipe.c` | a buffer list, a threshold, a source and a sink with `ready` and `active` flags | create, destroy, attach and detach ends, write, read, clear |
| connections | `network/xps_connection.c` | a socket, one source, one sink | create, destroy, two epoll callbacks, two pipe handlers, two close handlers |
| sessions | `core/xps_session.c` | the parsed request, two buffers, up to five pipe ends, three upstream fields | create, destroy, one handler per end, one close handler per end, `session_process_request`, `session_check_destroy` |
| listeners | `network/xps_listener.c` | a listening socket | create, destroy, accept |
| upstreams | `network/xps_upstream.c` | none of their own | a non-blocking connect that yields a connection |
| files | `disk/xps_file.c` | a `FILE*`, a source | create, destroy, source handler, close handler |
| buffers | `utils/xps_buffer.c` | a list of byte arrays and their total length | append, read, clear |
| HTTP | `http/*.c` | parser state, request, response | parse request line and headers, serialise |
| configuration | `config/xps_config.c` | servers with their addresses, host names and routes; the merged addresses | create from JSON, merge the addresses, look a request up |
| directory | `disk/xps_directory.c` | the page in its fixed buffer | one call: head, an entry at a time, end |
| MIME, utilities | `disk/xps_mime.c`, `utils/xps_utils.c` | none | pure functions |
| main | `main.c` | the global core | start, SIGINT |

### How the parts interact

A **pipe** joins a *source* owned by one object to a *sink* owned by another. For
one client the pipes are

```
 client connection ==c2s==> session ==s2u==> upstream connection
 client connection <==s2c== session <==u2s== upstream connection
                            session <==f2s== file
```

The loop repeats: walk all pipes; for each call the source's handler if it is
ready and the pipe has room, then the sink's handler if it is ready and the pipe
holds something, then the close handler of an end whose partner is gone. Then
`epoll_wait`, without a timeout unless some pipe has work left. The events set the
`ready` flags of the connections' ends. A handler clears the flag when `recv` or
`send` would block. Then the lists are compacted when they hold too many NULLs.

A **session** has two one-buffer slots: `to_client_buff`, filled by the upstream's
or the file's sink and emptied by the session's source towards the client, and
`from_client_buff`, filled by the client's sink and emptied towards the upstream.
The slots' states determine the `ready` flags of the session's five ends.
Destruction is by `active` flags: a close handler marks its end inactive, and the
owner goes when nothing can flow any more.

### What is hard

* **Ordering with the kernel.** Peers act between any two steps. Readiness is
  announced once. A flag cleared after the announcement and not set again is a
  connection that hangs.
* **Dangling pointers.** Connections, files, sessions, pipes and loop events are
  freed from inside handlers, during a walk over the pipes or over a batch of
  events, and others point to them.
* **Partial failure.** A peer closes, resets or stops reading at any point; `send`
  takes a part; a connect fails later; a read of the file fails.
* **Ending.** Sessions must go when nothing can flow, and never before the last
  byte has been handed on.
* **Bounded memory.** A slow client must stop the upstream; lists whose positions turn
  NULL must be compacted.
* **Files change.** A request looks at the file system up to a dozen times before
  its answer is settled, and other processes change files in between.
* **Ending the process.** SIGINT takes everything down from whatever state the loop
  is in, list by list, and each destructor reaches into objects of other lists.

### What makes each component correct

* event loop: no lost wakeup; events only reach live connections; what is left to
  do is never forgotten before a blocking `epoll_wait`; a hung-up connection is
  closed.
* pipes: the ends a pipe points to exist; a pipe is freed only when it has none;
  NULLs are counted exactly; order of service is kept; the content is bounded.
* connections: bytes go out in order and once, whatever `send` takes.
* sessions: buffers are never overwritten; the response is complete and in order;
  nothing of the request is lost behind the read that completed its head; the session ends.
* buffers: a list is a queue of bytes, however reads and clears fall on the borders
  of its buffers; the length kept beside it is exact.
* HTTP parser: every string is cut from a well-formed pair of pointers; the parts of a
  request line are in order; headers follow one another without a gap; parsing ends.
* configuration: every address of every server is listened on, each once; the first
  server that matches answers, with the longest route that covers the path.
* files and directories: the answer is the one that the file system calls for; while
  it changes, nothing is served that never was there to be read; a page stays in its buffer and
  misses nothing that was there throughout.
* core: its lists hold exactly the objects that exist; a shutdown reaches them all, and
  sessions let go of their pipes while these exist. (Connections do not: finding 5.)

## 2. Modules

| Module | Models | Extends |
|---|---|---|
| `XpsPipe` | pipes, `core->pipes` with its holes and compaction | - |
| `XpsSocket` | the kernel's side: sockets, peers, the epoll ready list; attach, detach, accept, connect | `XpsPipe` |
| `XpsSession` | every handler of sessions, connections and files | `XpsSocket` |
| `XpsLoop` | the loop; `Spec` and `FairSpec` of the whole | `XpsSession` |
| `XpsLoopProperties` | the properties | `XpsLoop` |
| `MCXpsLoop` | the constants for TLC | `XpsLoopProperties` |
| `XpsLoopProofs` | proofs: types, owned ends, events and readiness of connections | `XpsLoopProperties` |
| `XpsSessionProofs` | proofs: readiness of sessions, backpressure, `core->pipes` | `XpsLoopProofs` |
| `XpsStreamProofs` | proofs: what reaches the client and the upstream | `XpsSessionProofs` |
| `XpsCore` | the lists of events, connections and sessions under the loop's handlers, `filter_nulls`, `xps_core_destroy` | `XpsLoopProperties` |
| `MCXpsCore` | the constants for TLC | `XpsCore` |
| `XpsCoreProofs` | proofs: the lists, the shutdown | `XpsCore`, `XpsLoopProofs` |
| `XpsConfig` | from the configuration file to listening sockets | - |
| `XpsRequest` | `session_process_request` with route lookup, file opening and directory pages, while files change | `XpsConfig` |
| `MCXpsRequest` | configurations, file systems and requests for TLC | `XpsRequest` |
| `XpsRequestProofs` | proofs: start-up, routes, files and pages | `XpsRequest`, `StepwiseInduction` |
| `ByteQueue` | what a buffer list promises: a queue of bytes | - |
| `XpsBuffer` | the buffer list, byte by byte, and its refinement of `ByteQueue` | - |
| `MCXpsBuffer` | an instance for TLC | `XpsBuffer` |
| `XpsBufferProofs` | proofs: the list is a queue of bytes | `XpsBuffer`, `StepwiseInduction` |
| `XpsHttpParser` | the parser of a request's head and the strings made from it | - |
| `MCXpsHttpParser` | the constants for TLC | `XpsHttpParser` |
| `XpsHttpParserProofs` | proofs: the parser's pointers | `XpsHttpParser` |
| `StepwiseInduction` | lemmas about numbers and functions defined place by place | - |

`XpsPipe` to `XpsLoop` are layers of one state machine rather than separate ones because the C code
composes by direct call: a handler of a session writes into a pipe, and may
destroy a connection, within one step of the loop.

### How the state corresponds to the code

* `slot[p]` is the position of pipe `p` in `core->pipes`, 0 when it is not there;
  `pipes_length` and `n_null_pipes` are the vector's length and `core->n_null_pipes`.
* `src[p]`, `snk[p]` are the `xps_pipe_source_t` and `xps_pipe_sink_t` of the pipe:
  `on` says that the pipe points to it, `ready` and `active` are its fields. An end
  feeds one pipe in its life, so it is named by the pipe. The session's upstream and
  file sinks exist, `ready`, before they are attached.
* `buf[p]` is the `buff_list`: a sequence of chunks. A chunk is an arbitrary unit of
  bytes; `RecvMax`, `Room` and `Thresh` count chunks.
* `sock[k]` is the kernel's socket and its epoll registration: `reg` says that the
  loop holds a `loop_event_t` for it (`xps_loop_attach` adds it, `xps_loop_detach`
  frees it), `edge` that epoll's ready list holds it.
* `ses[c]` is `xps_session_t`: `to` and `from` are the two buffers (empty for NULL),
  `req` says `http_req` is set, the rest are the `upstream_*` fields.
* `file[c]` is `xps_file_t`, `left` what `fread` has not returned yet.
* `pc`, `idx` say where the loop is; `batch`, `lsn`, `cur` are the events returned by
  `epoll_wait` and not handled yet.
* `sent[k]` and `fed[k]` record what `send` has taken and how much a peer has sent.
  `sent` is history. `fed` bounds the peers. `ses[c].head` is history too: how much of the client's
  stream the pipe held when `http_req` was set from it, the head and what the same read had behind it.

### How the actions correspond

`handle_pipes` is `DestroyDead`, `SourceStep`, `SinkStep` and `CloseStep` for the pipe
at `idx` (`SkipNull` for a hole, `PassDone` at the end of the vector). Each runs one
whole handler with everything it calls, including `session_check_destroy` and the
destructions this brings. `epoll_wait` returns any `MaxEvents` of the ready
descriptors, in any order. `HandleEvent` runs the check that the event exists (whose
outcome is the invariant `EventsOfLiveConnections`), the read callback and the
detaching on hangup; `HandleOut` the write callback. `ListenerEvent`, `Accept` and `AcceptDone` are
`listener_connection_handler`; `EventsDone` is the end of the iteration with
`filter_nulls`. `Peers` are the clients and the upstreams: they connect, send,
close, reset, read what they were sent, accept or refuse. They may act between any
two steps, even between the read callback and the write callback of one event.

A step of `handle_pipes` is finer than the C loop needs (nothing else of the
program runs in between), so that the world can change between the handlers of one
pipe, as it can in reality.

### The buffer list and the parser

`XpsBuffer` has the vector of buffers (`list`), each with its bytes, and `len`, the
total beside it. `Copied` and `Kept` are the loops of `xps_buffer_list_read` and
`xps_buffer_list_clear` as recursive functions of one step per buffer (`CopyFrom`, `KeepFrom`); a byte is
its number in the stream.
`ByteQueue` holds the concatenation of the buffers, and `ImplementsQueue` is the
refinement. This justifies that `XpsPipe` takes a list for the sequence it holds: the loop's
model never depends on where buffers end.

`XpsHttpParser` has the parser's state, its place in the buffer and the pointers of
`xps_http_req_t` as positions (`f`, 0 for NULL). There is one operator for each case of
the two `switch`es, named after it; one step consumes one character, except that
`RL_LF` and `H_LF` leave theirs (`ahead`). `LineCutShort` and `HeadersCutShort` are
the ends of the two loops when the buffer ends first. `result` is `undefined` where
the code reads behind the buffer and what it then does depends on what is there.

### The core

`XpsCore` runs `XpsLoop` and keeps the vectors beside it. `ListsFollow` does in the
same step what the handlers' constructors and destructors do to the lists:
`xps_loop_attach` and `xps_loop_detach` to `events`, `xps_connection_create` and
`xps_connection_destroy` to `connections`, `xps_session_create` and
`xps_session_destroy` to `sessions`, with the counters of NULLs that the code has (there is
none that counts a closed connection). The step that ends an iteration is `filter_nulls`.
What is new at one step is one object at most, except in `ReverseProxy`, where it is one
per list. `sigint_handler` may come between any two steps; `DestroySessions` to
`DestroyLoop` are the sweeps of `xps_core_destroy`, each over the list as it then stands, in the
order `Order`. `core->listeners` is one listener, whose event is in `events`; `core->pipes` is
`XpsPipe`'s.

The pipes are freed before the connections, and the destructors of a connection's ends then write NULL into the pipes
these were attached to (`core/xps_pipe.c:165-167`, `236-238`). That is undefined behaviour, and the
model has both of its outcomes: the process dies (`Fault`), there or at a later call of the allocator, or the sweeps go
on. `wild` is the history of the objects whose destructor has made such a write, `atSignal` that of the connections open
when the signal came. Going on leaves the rest of the state as it is, because nothing is allocated
between the freeing of the pipes and the exit: the memory written to belongs to no other object.

### Configuration and requests

`XpsConfig` starts with what the JSON parser makes of a file (`Documents`). `MergeListener`
and `NextServer` are the two loops of `parse_all_listener` at `si` and `li`;
`BindListener` is one `xps_listener_create`, with its assertions and the addresses that
cannot be bound. `phase` says which loop runs, or that the process has ended (`exited`,
or `aborted` by an assertion or a NULL).

`XpsRequest` spells out what `XpsSession` reduces to an outcome. In the program it is one
call. Here `step` and `pos` say where in it the call is, and each look at the file system
(`stat`, `realpath`, `fopen`, `opendir`, one entry's `stat`) is an action, with `Change`
between any two. `sv` and `rt` are the chosen server and route, `target` the path in
question (`resource_path`, then `file_path` or `dir_path`), `left`, `rows` and `used` the
directory's entries to come, those on the page and the bytes of the page, `answer` the
response's status and kind of body. `seen` is history: the states of the
file system since the request arrived. A path is a sequence of characters;
`Canonical` and `KindIn` are the kernel's reading of it, external to the code.
A status comes from the code path that sets it, so that the error codes of
`xps_file_create` that collapse into 500 do so here.

`Expected` is the reference definition: what a file-serving route must answer, in one look.

### Abstractions

* **Data.** Chunk 0 is whatever the program composes itself: a response of any
  status, the 200 head of a file, the serialised head of a request. What a file or a
  peer contributes is numbered, so that loss, duplication and reordering show.
* **Requests.** In `XpsLoop`, parsing and route lookup are reduced to `Outcomes`:
  `bad` (400, the parse failed), `reply` (one response and nothing else: redirect,
  directory page, 403, 404, 500, also a connect that fails at once), `file`,
  `proxy`, `invalid` (a route of unknown type: the session is destroyed at once, and
  its 500 with it).
* **Reading a freed event.** On a hangup the loop detaches the socket, which frees
  the `loop_event_t`, and then reads `write_cb` and `ptr` from it when EPOLLOUT was
  reported too. What is read is undefined. `FreedReads` lists the outcomes: the old
  contents (`callback`), or NULL (`nothing`). With the C library that `build.sh`
  links, the allocator writes only the first 16 bytes of a freed block, and
  `write_cb` is behind them, so it is `callback` there. Any other value would be a
  jump to an arbitrary address and is not modelled: finding 1 is about the read
  itself. All safety runs allow both.
* **Allocation.** `malloc` always succeeds. A freed address is never given out again
  while an event of the batch still refers to it: this is shown not to matter, since
  `EventsOfLiveConnections` says no event of the batch has been freed.
* **Descriptors.** `accept` may stop early (as it does when descriptors run out);
  `epoll_wait` and `epoll_ctl` do not fail.
* **Each client connects once.** Names of connections and sessions are not reused;
  positions in `core->pipes` are.

## 3. Runs

Runs of `MCXpsLoop` and `MCXpsCore` have one process for the loop and the peers as environment. Bounds: `PeerSends`
(from `ClientSends` and `UpstreamSends`) is how much each peer sends, `FileSize` the
length of the file, `Room` the send buffer, `RecvMax` one `recv`, `Thresh` a pipe's threshold,
`MaxEvents` the size of `epoll_wait`'s array, `NullsThresh` that of the NULLs. All data
bounds are small multiples of one another so that the interesting relations occur:
pipes fill up, `send` takes a part, a batch leaves events behind.

| Run | Instance | Shows |
|---|---|---|
| `proxy_faults` | 1 client, proxy, the client sends 1 and the upstream 6, both may close or reset at any step; RecvMax 2, Room 1, Thresh 2, MaxEvents 2 | `TypeOK`, `EndsOwned`, `NoLostWakeup`, `EventsOfLiveConnections`; the response is in order, not lost, complete, and bounded on its way (1,168,242 states) |
| `all_outcomes` | 1 client that sends 4 and may reset, all five outcomes, RecvMax 2, a file of 6, an upstream that sends 1 | the response, also from files and of the session's own, is not lost and complete; `ReadyFollowsBuffers`, `UpstreamConnectedIsReal`; the request behind the read that completed its head is not lost; `session->client` is never read after it is freed (975,970 states) |
| `two_clients` | `MCXpsCore`: 2 clients (symmetric), files, the client may reset, NullsThresh 1, MaxEvents 1, SIGINT at any step | the core's lists, their compaction and how a shutdown ends; the list of pipes and its order (1,001,411 states) |
| `liveness` | 1 client, proxy, Thresh 1, both may reset, `FairSpec` | sessions and connections end, hangups close, responses arrive (53,222 states) |
| `request_handling` | `MCXpsRequest`: 4 configurations, 3 file systems of 7 paths, 6 paths, 2 hosts, `MaxChanges` 2, `RequestFairSpec` | addresses, lookup, answers, what is served while files change, that calls end (383,471 states) |
| `buffer_list` | 6 bytes in buffers of up to 4 | `LengthInStep`, `NoEmptyBuffer`, `ImplementsQueue` (3,422 states) |
| `http_requests` | texts of up to 22 characters, `MaxRun` 1, `FairSpec` | `StringsWellFormed`, `PartsInOrder`, `HeaderBeginsItsLine`, `ParseEnds` (223,572 states) |
| `freed_event` | 1 client, proxy, both peers send 1 and may reset | **violated**: finding 1 |
| `incomplete_head` | texts of up to 18 characters | **violated**: finding 2 |
| `connection_nulls` | as `two_clients` | **violated**: finding 3 |
| `access_lists` | as `request_handling` | **violated**: finding 4 |
| `shutdown_order` | `MCXpsCore`: 1 client, files | **violated**: finding 5 |

One client is enough for most properties, because sessions share only the lists
and the array of events, and `two_clients` has the lists and `MaxEvents` 1 and 2
the array. `NullsThresh` 1 is passed by the two NULLs that the first client to go leaves behind, so
lists are compacted while the second client's objects are in them. Six chunks, two to a `recv`, are more than the stages between two peers hold at
`Thresh` 2, so that a stream overshoots a pipe and backs up to its source. With two to a `recv` the head of
`all_outcomes`' request comes alone or with a chunk of the body behind it, and up to three more follow. There the
client's later chunks and its reset come before and after every step of the connection to the upstream;
in `proxy_faults` the upstream's chunks and either side's reset do.

The configurations of `request_handling` hold: equal addresses in one server and in two,
a missing host next to a given one, a port that is none; routes of which several cover a path,
short ones before and after long ones, equal ones, one that ends with a slash and one
whose name goes on without one; index files of which the first is missing; routes
with missing fields and access lists. The file systems hold a directory
whose name continues that of `public`, both places of `public`, a private file, an entry too
long for the page. Two changes are what it takes to hide and restore a file between two looks, or to
put a file in the place of another; `PageRoom` 9 holds two short entries or a long one, and the head and
the end once, so every `append_html` can fail.

Six bytes in buffers of up to four give lists of one to six buffers and every place
of a request's end in them. The parser's `MaxRun` bounds how many characters more
than it needs a part has; what is skipped only moves pointers, so one is enough
for every relation between two of them. 22 characters hold an absolute URI and a header
or two headers behind a short path.

`CHECK_DEADLOCK` stays on. `Idle` stands for an `epoll_wait` that blocks for ever
because the peers have nothing more to do. It requires that no pipe has work left, so a loop
that cannot move with work left would be reported as a deadlock. `Exited` in `XpsCore` and
`Stopped` in `XpsRequest` are the end of the process (or a server that could bind nothing,
which waits for ever).

### Fairness

In `XpsLoop`, `WF(xps_loop_run)`: the thread runs while it is not blocked in `epoll_wait`; nothing
weaker could make any progress, and the code has one thread and no locks.
`WF(PeerDrain)`: a peer that is alive reads what it was sent; without it a response
cannot arrive, and no timeout in the code stands in for it. `WF(Establish \/ Refuse)`:
TCP settles a connection attempt, at the latest by its own timeout. No fairness is
assumed of peers' sending, closing or resetting. Nothing obliges a client to close,
and the code has no idle timeout, so nothing is claimed of clients that stay. In `XpsHttpParser`, `WF(xps_http_req_create)`,
and in `XpsRequest`, `WF(session_process_request)`: a call of the one thread runs to its end.
`Change` has no fairness and is bounded, as it would have to be for a call that
finds the files changed at each look; but nothing in the code looks twice in a loop.

### What liveness depends on

`liveness` assumes `FreedReads = {"callback"}`. With `nothing` allowed,
`ConnectionsEndWithSession` and `HangupCloses` are false at `Thresh` 1: a connection
whose pipe is full is hung up, its event is detached, its sink is not made ready,
its source is ready but its pipe is full too, so nothing ever calls `recv` or
`send` on it, and it leaks. In other words the closing of a hung-up connection
rests on the undefined read that finding 1 names.

## 4. Proofs

`XpsLoopProofs`, `XpsSessionProofs` and `XpsStreamProofs` are about `XpsLoop`, for every finite set of clients
and all values of the other constants that satisfy the modules' assumptions. `XpsLoopProofs` proves:

* `TypeCorrect == Spec => []TypeOK`. `TypeOK` is inductive. `TypeInit` and `TypeStep`
  are the two halves; one lemma per handler shows that it keeps the types.
* `EndsAreOwned == Spec => []EndsOwned`: no dangling pipe end. `EndsOwned` is
  inductive together with `TypeOK`. The argument: an end is attached only with its
  owner's creation (`xps_session_create`, `ServeFile`, `ReverseProxy`) and detached only
  with its destruction, and `DestroyDead` frees a pipe only when neither end
  is attached. The delicate steps are compaction, where `RankPositive` shows that a
  listed pipe keeps a position, and creation, where `PushListed` shows that appending
  leaves the other pipes listed.
* `NoWakeupIsLost == Spec => []NoLostWakeup` and
  `EventsAreLive == Spec => []EventsOfLiveConnections`, from one inductive invariant, `EventInv`.
  `NoLostWakeup` is not inductive: a peer that drains a full send buffer raises an event
  only if a `send` has met the full buffer before (`nospace`), and nothing in the property says
  it has. `WakeInv` adds that, and that only a reset takes an open connection out
  of epoll. `BatchInv` adds that a connection has one event at most in the batch and that
  the batch is empty while pipes are walked: handlers of pipes may destroy any connection, handlers of
  events only the one of the event in hand, which has left the batch.

`XpsSessionProofs`:

* `ReadinessFollows == Spec => []ReadyFollowsBuffers`. `FlagsInv` adds that a new session is
  made for a client that has none, so that its source towards the upstream is a fresh one, which is
  not ready. That a client connects once rests on `Onward`: a socket that the program
  has taken on never goes back to the listener.
* `PipesStayBounded == Spec => []Backpressure`. `BoundInv` gives each pipe its own bound:
  one read above the threshold for those that a connection or a file fills, a whole such pipe above it
  for those that a session fills, and one such pipe for the session's two buffers.
* `PipeListIsConsistent == Spec => []PipeListConsistent`. `FreshInv` adds that `xps_pipe_create` is
  only reached for pipes that are not listed. The counting is by cardinality:
  `RankGrows` and `RankBounded` say that compaction maps listed pipes one to one onto
  `1 .. pipes_length`; `OnePushed`, `TwoPushed`, `OneDestroyed` and `Filtered` are the
  changes of the list.
* `PipeOrderIsKept == Spec => PipesKeepOrder`, an action property, from the same
  invariant: creation appends, and ranks are monotonic.

`XpsStreamProofs`, on top of all of these:

* `ResponseArrivesInOrder`, `NoResponseIsLost`, `ResponsesAreComplete`,
  `RequestsComeFromLiveClients`: `ResponseInOrder`, `ResponseNotLost`, `ResponseComplete`
  and `RequestFromLiveClient`, from one invariant, `StreamInv`. None of these
  properties is inductive: each speaks of the two ends of a chain and the proof needs what lies between.
  `StageInv` says, for each client, where in its life its session is: not begun (`Fresh`),
  answering by itself (`Own`), from a file (`Serving`) or from an upstream (`Relaying`), or
  `Ended`; and for each stage what the stations of the response, taken together in their order,
  spell. In `Relaying` it is: what the client's socket took, the client's pipe, `to`, the upstream's
  pipe and the upstream's socket are the beginning of what the upstream sent, all of it unless it
  reset. A handler moves a piece from one station to the next, and the concatenation
  stays. `TurnInv` is about the moment between a session's reading of its request and its first
  answer: the pipe from the client precedes the pipe to it in `core->pipes`, so both happen within one
  pass over the pipes, and nothing else of that client runs in between (`Between`). Without it a second read
  could process a request again and overwrite the answer. `FlagsInv` is
  `XpsSessionProofs`' invariant.
* `NoRequestIsLost == Spec => []RequestNotLost` and
  `ConnectedUpstreamsAreReal == Spec => []UpstreamConnectedIsReal`, from `RequestInv`.
  `AskedInv` follows the request as `StageInv` follows the response (`Sends`: the serialised head,
  then every chunk of the client's from `head + 1` on), and relates `upstream_write_bytes` to what was
  written (`Counted`). `UnreadyInv` is the reason why a connection attempt that has not
  been settled is not taken for a connection: epoll reports no EPOLLOUT for it, so neither the
  batch nor a flag lets the sink of its pipe run.

`XpsCoreProofs` is about `XpsCore`, under the same assumptions:

* `ListsAreExact`, `NullsAreBounded`, `SessionsGoFirst` and `ShutdownEnds`:
  `ListsHoldTheLiving`, `NullsFiltered`, `SessionsDetachFromLivePipes` and `ShutdownOutcome` hold in every state of
  `CoreSpec`. While the server runs, the invariant is `RunInv`: each object that exists stands at exactly one
  position of its list and nothing else does (`Holding`), the counters are the numbers of
  NULLs, and the loop's own `EventInv` and `EndsOwned`, since a list follows what the
  handlers create and destroy. `Compact` is defined by ranks, like the compaction of
  `core->pipes`, and `CompactHolds` shows that it keeps what a list holds.
  From SIGINT on it is `SweepInv`: what each sweep finds, by phase. Sessions are destroyed first because
  `EndsOwned` still holds then; the sweep of the connections reaches every open socket because
  `connections` holds exactly these, and each of them writes into a freed pipe, its ends being attached throughout its life.
  So `ShutdownOutcome` says both what the exit leaves (nothing) and what the way there is: every connection open
  at the signal has made an undefined write, and only such a write can end the process earlier.

`XpsHttpParserProofs`, for every text and any number of characters in a part:

* `ParserTypesHold == Spec => []TypeOK`, `StringsAreWellFormed == Spec => []StringsWellFormed`,
  `PartsLieInOrder == Spec => []PartsInOrder` and
  `HeadersBeginLines == Spec => []HeaderBeginsItsLine`. The invariant is `PointersInv`, which
  says for every state of the two `switch`es which parts have been read, in which order they
  lie, and which pointers are still NULL (`FromMethod`, `FromTarget`, ...). The latter is
  what makes the former provable: `RL_PATH` may be reached with or without a schema and a host, and the
  strings are cut from whatever pointers are set. `EndInv` says where the last line end is when
  the next line begins.

`XpsBufferProofs`, for any number of bytes and any size of a buffer:

* `BufferTypesHold == Spec => []TypeOK`, `LengthIsExact == Spec => []LengthInStep`,
  `BuffersAreNotEmpty == Spec => []NoEmptyBuffer`, from `BufferInv`, their conjunction with
  `len <= appended`; and `ListIsAQueue == Spec => ImplementsQueue`, the refinement: every append, read
  and clear of the list is that of a `ByteQueue`, and nothing else is.
  What the loops compute for a list of any length needs induction over its buffers, and so over
  numbers. The library's induction takes an operator; `StepwiseInduction` does it with sets:
  `Least` gets the least member of a set of numbers from the well-foundedness of `<`, and `Upward`
  that a set that holds 0 and is closed under successor holds all of them. `Walk` says that a function
  defined place by place exists. `Chain` says that `h[i]` is what the first `i` buffers hold together; with it
  `CopiedIsFront` shows that a read returns the front of the flattened list, and
  `KeptIsBehind` that a clear leaves what is behind it and no empty buffer. The latter holds
  only where there is none before, which is why `NoEmptyBuffer` belongs to the invariant of the refinement.

`XpsRequestProofs` proves, for every configuration, file system, public directory, page
size and request, and any number of changes of files:

* `ConfigTypesHold == RequestSpec => []ConfigTypeOK` and
  `OneListener == RequestSpec => []OneListenerPerAddress`. `ListenerInv` adds to the property
  how far the two loops are: the addresses before `si` and `li` are merged, each address bound
  lies before `li` among the merged ones. Without the progress part the claim that all
  addresses are merged at the end does not follow from one step.
* `RequestTypesHold == RequestSpec => []RequestTypeOK`, which says that `sv` and `rt`
  name a server and a route wherever a step reads them, and that a page stays below its
  buffer's size. `RequestTypeInv` adds the range of `pos`, that a chosen server and route are
  those of the configuration, and that no request is there while this can still change.
* `DeepestRouteHolds == RequestSpec => []DeepestRouteAnswers`. `LookupInv` says the same of the servers and
  routes tried so far. `StartsWithCovers` is the lemma about `str_starts_with`:
  for a prefix that is not empty it decides `Covers`, wherever slashes are. An empty
  `req_path` is a prefix of nothing that is chosen, because its length never beats 0.
* `NothingIsMadeUp == RequestSpec => []NothingMadeUp`. `SeenInv` says that the file system of now is in `seen`,
  that once the permission is checked some state of `seen` had it, and that the entries
  still to be read were those of some state.
* `PagesMissNothing == RequestSpec => []PageMissesNothing`. `PageInv` says that the page that is being
  written holds a row for each entry it lists and the head before them, counted as the
  cardinality of `RowBytes`; `OneMoreRow` is what one entry adds. An entry that does not fit shows that the
  directory's rows together do not either (`FitsLess`).
* `QuietAnswersAreExpected == RequestSpec => []QuietAnswerIsExpected`. `QuietInv` says, for each
  step of the call, what is known of the path in hand while all of `seen` is the one file system, and what
  `Expected` comes to given that (`QuietAt`). The call resolves a path and then looks
  at the result, joins it with names and resolves again; `Expected` looks at the path as it was asked
  for. `AlikeResolved` and `FileResolved` say that these come to the same. They rest on what `Canonical` does for
  every path, proved by induction on the characters read (`StepwiseInduction`): its result is in the form it gives
  (`CanonicalClean`, `CleanIsCanonical`), and a path joined with a name is read as the one and
  then the other (`CanonicalConcat`). Only the root has no name left to look at, and
  `ResolvedHasName` shows that no file and no relative path is the root. `InsideIsCovered` says that
  `strncmp` and the next character decide whether a file lies in `public`.

Assumptions are the modules' `ASSUME`s (positive thresholds and sizes, a finite set of
clients; paths that are sequences of characters, fields of the right kind, finitely many nodes, an absolute
working directory, and as `public` a path that has a name and does not end with a slash, as `realpath` gives it); every run evaluates
those of its modules.

Every invariant that a passing run checks, the order of `core->pipes` and the refinement of `ByteQueue` are
proved. Only model-checked is liveness (`ParseEnds`, `EveryRequestEnds` and the properties of run
`liveness`), which is out of the prover's reach. The findings are shown by TLC's counterexamples.

## 5. Findings

1. `handle_epoll_events` reads `curr_event->write_cb` and `curr_event->ptr`
   (`core/xps_loop.c:291-298`) after `xps_loop_detach` (`:284-289`) has freed
   `curr_event`, when EPOLLOUT is reported together with EPOLLERR or EPOLLHUP, as it
   is for every reset connection. The comment at `core/xps_loop.c:261` ("Check if event
   still exists. Could have been destroyed due to prev event") shows that the loop means to
   avoid this. Run `freed_event`.
2. A head that the first read cuts short is answered with 400 or parsed on behind the end
   of the buffer (`http/xps_http_req.c:158-164`, `http/xps_http.c:332-336`), where the comment at
   `core/xps_session.c:224` means to wait for more. Run `incomplete_head`.
3. `xps_connection_destroy` never counts the NULL it leaves in `core->connections`
   (`network/xps_connection.c:98-104`), so `filter_nulls` never compacts that list, which
   the comment at `core/xps_loop.c:227` names among those that are. It grows with every connection
   served. Run `connection_nulls`.
4. `xps_config_lookup` leaves `ip_whitelist` and `ip_blacklist` of the lookup empty
   (`config/xps_config.c:197-198`), and `session_process_request` checks those
   (`core/xps_session.c:486-526`), so a route's access lists have no effect. Run `access_lists`.
5. `xps_core_destroy` frees the pipes (`core/xps_core.c:50-57`) before the connections (`:60-67`), whose
   ends then write into them (`core/xps_pipe.c:165-167`, `236-238`). The comment at `core/xps_core.c:40` puts sessions
   first because "they depend on pipes", as connections do; the one at `:35` says "SEG FAULT HERE". Run
   `shutdown_order`; `ShutdownOutcome` says what comes of it.

Places met while modelling that have no run of their own:

* parser: a URI that ends with its host leaves `path_end` and `pathname_end` unset
  (`http/xps_http.c:136-143`, the comment at `:122`); the request has no path and is answered
  with 400. `request_line_end` is set behind the line
  end (`http/xps_http.c:312-315`), so `request_line` holds it, and an empty line precedes the
  headers sent upstream; `pathname_end` is set again behind the query
  (`http/xps_http.c:203-206`, the comment at `:201`); characters other than `/` are
  skipped between `:` and `//` (`http/xps_http.c:103-116`, the comment at `:104`).
* sessions: once the head is parsed the client's pipe is cleared whole (`core/xps_session.c:231-234`), and only the head goes
  upstream: the part of a body that came in the same read is lost. `RequestNotLost` is about what comes
  behind that read.
* configuration: the vectors of a route's access lists are pushed to without being
  initialised (`config/xps_config.c:479-506`; the outcome `aborted` of `xps_config_create`); a
  listener without a host is merged (`config/xps_config.c:389`) and then fails the assertion of
  `xps_listener_create` (`network/xps_listener.c:8`); the path that is compared with
  `req_path` has the query in it (`config/xps_config.c:90`), so `/api?x` is not covered by `/api`.
* files: a directory that becomes a file between `is_file` and `is_dir` is answered with 404; a file put in the place of
  another between `stat` and `fopen` is served with the permission of the other (`disk/xps_file.c:116`), which `NothingMadeUp`
  allows.

## 6. Not modelled, and the plan

Not modelled:

* formatting of pages and responses, serialising a request, header lookup, MIME types, logging and the command
  line: pure functions of text whose state is local to the call.
* reading JSON, `vendored` code (`lib/`), the exercises in `phase_0` and the load generator `sender.c`:
  third-party code or separate programs that are not linked into the server.
* round robin: the code reads only the first upstream of a route (`config/xps_config.c:270-274`).
* paths with `..` or symbolic links, which `realpath` resolves before anything is
  compared; `readdir` sees the names there are when the directory is opened.
* paths longer than 1023 bytes: the page passes over an entry whose path is (`disk/xps_directory.c:90`).
* a signal in the middle of a handler: `XpsCore` has it between two steps of the loop,
  where each step is a whole handler. Within one, the objects it works on are freed under it, and
  what then happens is undefined.
* allocation failures.

Planned, in this order:

1. `XpsRelay`: an abstract session, two FIFO channels that may end, with `XpsLoop`
   shown to implement it.
2. The rest of HTTP: serialising a request and a response, and header lookup.
