----------------------------- MODULE XpsRequest -----------------------------
(***************************************************************************)
(* How a request is decided: session_process_request (core/xps_session.c)  *)
(* with the lookup of its server and route (config/xps_config.c), the      *)
(* opening of a file (disk/xps_file.c) and the page made of a directory    *)
(* (disk/xps_directory.c).  XpsSession reduces all of this to an outcome.  *)
(*                                                                         *)
(* To the program it is one call.  The files change in between: each look  *)
(* at the file system is a step of its own.  A path is a sequence of       *)
(* characters, none of whose names is "." or ".."; there are no links.     *)
(***************************************************************************)
EXTENDS XpsConfig

SequenceOps == INSTANCE SequencesExt

CONSTANTS
  Cwd,          \* the working directory, an absolute path
  Public,       \* where realpath looks for "public", then for "../public"
  Nodes,        \* the paths at which there may be files and directories
  FileSystems,  \* what may be there when a request arrives
  MaxChanges,   \* how often that changes during a run
  Paths,        \* what http_req->path may be, NULL when there is no request
  RequestHosts, \* what the Host header may be
  ClientIPs,    \* whom requests may come from
  PageRoom, HeadSize, FootSize,  \* a page's buffer, its first part, its last,
  RowSize       \* and what an entry takes

(***************************************************************************)
(* What is at a path: "private" is a file without read permission for      *)
(* others, "locked" one that fopen may not open.                           *)
(***************************************************************************)
Kinds == {"none", "dir", "file", "private", "locked"}
RegularFiles == {"file", "private", "locked"}

ASSUME RequestAssumption ==
  /\ MaxChanges \in Nat /\ PageRoom \in Nat \ {0}
  /\ HeadSize \in Nat /\ FootSize \in Nat /\ RowSize \in [Nodes -> Nat]
  /\ Paths \subseteq Text \cup {NULL} /\ FileSystems \subseteq [Nodes -> Kinds]
  /\ IsFiniteSet(Nodes)
  /\ Cwd \in Seq(Character) /\ Cwd # <<>> /\ Cwd[1] = "/"
  /\ Public \in Seq(Seq(Character))
  /\ \A i \in DOMAIN Public : Public[i] # <<>> /\ Public[i][Len(Public[i])] # "/"

VARIABLES
  fs,       \* the file system
  changes,  \* how often it has changed
  seen,     \* ghost: what it has been since the request arrived
  req,      \* the request: the port it came to, its host and path, its client
  step,     \* where its handling is
  pos,      \* the position in the loop of that step
  sv, rt,   \* the chosen server and route, 0 for none
  target,   \* the path in question: resource_path, file_path, dir_path
  left,     \* the directory's entries that are still to be read
  rows,     \* those on the page
  used,     \* the bytes of the page
  answer    \* the response

requestVars == <<req, step, pos, sv, rt, target, left, rows, used, answer>>
allVars == <<configVars, fs, changes, seen, requestVars>>

Steps == {"idle", "server", "route", "locate", "is_file", "is_dir", "index", "other",
          "page", "readdir", "file", "public", "stat", "fopen", "answered"}

NoRequest == [port |-> 0, host |-> NULL, path |-> NULL, ip |-> NULL]
Answers == [status: Nat, body: {"none", "file", "page", "upstream", "location", "lost"}]
NoAnswer == [status |-> 0, body |-> "none"]

RequestTypeOK ==
  /\ ConfigTypeOK
  /\ fs \in [Nodes -> Kinds] /\ changes \in 0..MaxChanges
  /\ step \in Steps /\ answer \in Answers
  /\ step = "server" => sv = 0 /\ pos <= Len(servers) + 1
  /\ step \in Steps \ {"idle", "server", "answered"} => sv \in DOMAIN servers
  /\ step \in Steps \ {"idle", "server", "route", "answered"} => rt \in DOMAIN servers[sv].routes
  /\ rows \subseteq Nodes /\ left \subseteq Nodes
  /\ used < PageRoom  \* the assertion of append_html

RequestInit ==
  /\ ConfigInit
  /\ fs \in FileSystems /\ changes = 0 /\ seen = {}
  /\ req = NoRequest
  /\ step = "idle" /\ pos = 1 /\ sv = 0 /\ rt = 0 /\ target = <<>>
  /\ left = {} /\ rows = {} /\ used = 0 /\ answer = NoAnswer

-----------------------------------------------------------------------------
(***************************************************************************)
(* Paths.                                                                  *)
(***************************************************************************)
path_join(a, b) == a \o <<"/">> \o b
is_abs_path(path) == path # <<>> /\ path[1] = "/"
EndsWithSlash(path) == path # <<>> /\ path[Len(path)] = "/"

\* The prefix must end where a name does.
str_starts_with(str, prefix) ==
  /\ SequenceOps!IsPrefix(prefix, str)
  /\ \/ EndsWithSlash(prefix)
     \/ Len(str) = Len(prefix)
     \/ str[Len(prefix) + 1] = "/"

\* As the kernel reads a path: a slash counts once, and not at the end.
Counts(path, i) == path[i] # "/" \/ (i < Len(path) /\ path[i + 1] # "/")

Canonical(path) ==
  LET read[i \in 0..Len(path)] ==
        IF i = 0 THEN <<>>
        ELSE IF Counts(path, i) THEN Append(read[i - 1], path[i]) ELSE read[i - 1]
  IN read[Len(path)]

Absolute(path) == IF is_abs_path(path) THEN path ELSE path_join(Cwd, path)

\* What stat finds; a file has no name that ends with a slash.
KindIn(f, path) ==
  LET node == Canonical(Absolute(path)) IN
  IF node \notin Nodes \/ (EndsWithSlash(path) /\ f[node] \in RegularFiles) THEN "none"
  ELSE f[node]

\* A path that goes on below a file is another error than a missing one.
BelowFile(f, path) ==
  \E n \in Nodes : f[n] \in RegularFiles
                   /\ SequenceOps!IsPrefix(path_join(n, <<>>), Absolute(path))

ParentOf(node) ==
  LET i == CHOOSE i \in DOMAIN node : node[i] = "/" /\ \A j \in (i + 1)..Len(node) : node[j] # "/"
  IN SubSeq(node, 1, i - 1)

Children(f, dir) ==
  {n \in Nodes : f[n] # "none" /\ n # <<>> /\ ParentOf(n) = Canonical(Absolute(dir))}

\* Whatever there is lies in a directory, or in a part of the tree that is fixed.
WellFormed(f) ==
  \A n \in Nodes : f[n] # "none" /\ ParentOf(n) \in Nodes => f[ParentOf(n)] = "dir"

is_file(path) == KindIn(fs, path) \in RegularFiles
is_dir(path) == KindIn(fs, path) = "dir"

-----------------------------------------------------------------------------
(***************************************************************************)
(* The request, and the files that change while it is handled.             *)
(***************************************************************************)
Go(to, at) == step' = to /\ pos' = at
Continue(to, at) == Go(to, at) /\ UNCHANGED <<phase, answer>>

UnchangedWorld == UNCHANGED <<servers, all_listeners, listeners, si, li, fs, changes, seen, req>>
UnchangedPage == UNCHANGED <<left, rows, used>>

Answer(status, body) ==
  /\ answer' = [status |-> status, body |-> body]
  /\ Go("answered", 1)
  /\ UNCHANGED phase

\* An assertion fails, or NULL is read: the process ends.
Abort ==
  /\ phase' = "aborted" /\ Go("answered", 1)
  /\ UNCHANGED answer

\* The first thing checked: without a request, or a path in it, 400.
Arrive ==
  /\ phase = "serving" /\ step = "idle"
  /\ \E a \in DOMAIN listeners, h \in RequestHosts, p \in Paths, ip \in ClientIPs :
       /\ req' = [port |-> listeners[a].port, host |-> h, path |-> p, ip |-> ip]
       /\ IF p = NULL THEN Answer(400, "none") ELSE Continue("server", 1)
  /\ seen' = {fs}
  /\ UNCHANGED <<servers, all_listeners, listeners, si, li, fs, changes, sv, rt, target>>
  /\ UnchangedPage

\* The response is on its way; the next request finds nothing of this one.
Finish ==
  /\ phase = "serving" /\ step = "answered"
  /\ req' = NoRequest /\ Go("idle", 1) /\ sv' = 0 /\ rt' = 0 /\ target' = <<>>
  /\ left' = {} /\ rows' = {} /\ used' = 0 /\ answer' = NoAnswer /\ seen' = {}
  /\ UNCHANGED <<configVars, fs, changes>>

\* Before the first look at the files a change is none to the request.
Change ==
  /\ step \notin {"idle", "server", "route", "other", "answered"} /\ changes < MaxChanges
  /\ \E n \in Nodes, kind \in Kinds : kind # fs[n] /\ fs' = [fs EXCEPT ![n] = kind]
  /\ WellFormed(fs')
  /\ changes' = changes + 1 /\ seen' = seen \cup {fs'}
  /\ UNCHANGED <<configVars, requestVars>>

-----------------------------------------------------------------------------
(***************************************************************************)
(* xps_config_lookup: the server, its route, the file or directory.        *)
(***************************************************************************)
ServesPort(i) == \E j \in DOMAIN servers[i].listeners : servers[i].listeners[j].port = req.port
ServesHost(i) ==
  \/ servers[i].hostnames = <<>>
  \/ \E j \in DOMAIN servers[i].hostnames : req.host \in {NULL, servers[i].hostnames[j]}
MatchingServer(i) == ServesPort(i) /\ ServesHost(i)

FindServer ==
  /\ step = "server"
  /\ \/ pos > Len(servers) /\ Answer(404, "none") /\ UNCHANGED sv
     \/ pos \in DOMAIN servers /\ MatchingServer(pos) /\ Continue("route", 1) /\ sv' = pos
     \/ pos \in DOMAIN servers /\ ~MatchingServer(pos) /\ Continue("server", pos + 1) /\ UNCHANGED sv
  /\ UNCHANGED <<rt, target>> /\ UnchangedPage /\ UnchangedWorld

Routes == servers[sv].routes
route == Routes[rt]

best_match_len == IF rt = 0 THEN 0 ELSE Len(route.req_path)

\* Mutant: of two routes of the same length the later one is taken.
Better_OrEqual(r) == Len(Routes[r].req_path) >= best_match_len

Better(r) == Len(Routes[r].req_path) > best_match_len

FindRoute ==
  /\ step = "route" /\ pos <= Len(Routes)
  /\ rt' = IF str_starts_with(req.path, Routes[pos].req_path) /\ Better(pos) THEN pos ELSE rt
  /\ Continue("route", pos + 1)
  /\ UNCHANGED <<sv, target>> /\ UnchangedPage /\ UnchangedWorld

RouteFound ==
  /\ step = "route" /\ pos > Len(Routes)
  /\ \/ rt = 0 /\ Answer(404, "none")
     \/ /\ rt # 0
        /\ \/ route.type = "file_serve" /\ route.dir_path = NULL
           \/ route.type = "redirect" /\ route.redirect_url = NULL
        /\ Abort
     \/ rt # 0 /\ route.type = "file_serve" /\ route.dir_path # NULL /\ Continue("locate", 1)
     \/ rt # 0 /\ route.type \in {"reverse_proxy", "other"} /\ Continue("other", 1)
     \/ rt # 0 /\ route.type = "redirect" /\ route.redirect_url # NULL /\ Continue("other", 1)
  /\ UNCHANGED <<sv, rt, target>> /\ UnchangedPage /\ UnchangedWorld

\* A relative path is resolved, and must exist for that.
Locate ==
  /\ step = "locate"
  /\ LET resource_path == path_join(route.dir_path, req.path) IN
     \/ is_abs_path(resource_path) /\ target' = resource_path /\ Continue("is_file", 1)
     \/ /\ ~is_abs_path(resource_path) /\ KindIn(fs, resource_path) # "none"
        /\ target' = Canonical(Absolute(resource_path)) /\ Continue("is_file", 1)
     \/ /\ ~is_abs_path(resource_path) /\ KindIn(fs, resource_path) = "none"
        /\ Answer(404, "none") /\ UNCHANGED target
  /\ UNCHANGED <<sv, rt>> /\ UnchangedPage /\ UnchangedWorld

(***************************************************************************)
(* The lookup found, session_process_request compares the client with the  *)
(* lists in it, which xps_config_lookup leaves empty (memset).             *)
(***************************************************************************)
LookupWhitelist == {}
LookupBlacklist == {}
Barred == \/ LookupWhitelist # {} /\ req.ip \notin LookupWhitelist
          \/ req.ip \in LookupBlacklist

Dispatch(to) == IF Barred THEN Answer(403, "none") ELSE Continue(to, 1)

IsFile ==
  /\ step = "is_file"
  /\ IF is_file(target) THEN Dispatch("file") ELSE Continue("is_dir", 1)
  /\ UNCHANGED <<sv, rt, target>> /\ UnchangedPage /\ UnchangedWorld

IsDir ==
  /\ step = "is_dir"
  /\ IF is_dir(target) THEN Continue("index", 1) ELSE Answer(404, "none")
  /\ UNCHANGED <<sv, rt, target>> /\ UnchangedPage /\ UnchangedWorld

\* Mutant: the same index file is tried again.
NextIndex_Same(i) == i
NextIndex(i) == i + 1

FindIndex ==
  /\ step = "index"
  /\ \/ pos > Len(route.index) /\ Dispatch("page") /\ UNCHANGED target
     \/ /\ pos \in DOMAIN route.index
        /\ LET index_path == path_join(target, route.index[pos]) IN
           \/ is_file(index_path) /\ target' = index_path /\ Dispatch("file")
           \/ ~is_file(index_path) /\ Continue("index", NextIndex(pos)) /\ UNCHANGED target
  /\ UNCHANGED <<sv, rt>> /\ UnchangedPage /\ UnchangedWorld

-----------------------------------------------------------------------------
(***************************************************************************)
(* xps_file_create.                                                        *)
(***************************************************************************)
NotThere == IF BelowFile(fs, target) THEN Answer(500, "none") ELSE Answer(404, "none")

ResolveFile ==
  /\ step = "file"
  /\ IF KindIn(fs, target) = "none"
     THEN Answer(404, "none") /\ UNCHANGED target
     ELSE Continue("public", 1) /\ target' = Canonical(Absolute(target))
  /\ UNCHANGED <<sv, rt>> /\ UnchangedPage /\ UnchangedWorld

\* Mutant: the directory's name may go on.
inside_public_NoBoundary(resolved_public, path) == SequenceOps!IsPrefix(resolved_public, path)

inside_public(resolved_public, path) ==
  /\ SequenceOps!IsPrefix(resolved_public, path)
  /\ Len(path) > Len(resolved_public) => path[Len(resolved_public) + 1] = "/"

ResolvePublic ==
  /\ step = "public"
  /\ \/ pos > Len(Public) /\ Answer(500, "none")
     \/ /\ pos \in DOMAIN Public /\ KindIn(fs, Public[pos]) = "none"
        /\ Continue("public", pos + 1)
     \/ /\ pos \in DOMAIN Public /\ KindIn(fs, Public[pos]) # "none"
        /\ IF inside_public(Public[pos], target) THEN Continue("stat", 1)
           ELSE Answer(403, "none")
  /\ UNCHANGED <<sv, rt, target>> /\ UnchangedPage /\ UnchangedWorld

\* Mutant: the permission is not looked at.
ReadableByOthers_Always(path) == TRUE
ReadableByOthers(path) == KindIn(fs, path) # "private"

Stat ==
  /\ step = "stat"
  /\ \/ KindIn(fs, target) = "none" /\ NotThere
     \/ KindIn(fs, target) # "none" /\ ~ReadableByOthers(target) /\ Answer(403, "none")
     \/ KindIn(fs, target) # "none" /\ ReadableByOthers(target) /\ Continue("fopen", 1)
  /\ UNCHANGED <<sv, rt, target>> /\ UnchangedPage /\ UnchangedWorld

\* A directory can be opened too; reading it fails later.
Open ==
  /\ step = "fopen"
  /\ \/ KindIn(fs, target) = "none" /\ NotThere
     \/ KindIn(fs, target) = "locked" /\ Answer(403, "none")
     \/ KindIn(fs, target) \notin {"none", "locked"} /\ Answer(200, "file")
  /\ UNCHANGED <<sv, rt, target>> /\ UnchangedPage /\ UnchangedWorld

-----------------------------------------------------------------------------
(***************************************************************************)
(* xps_directory_browsing.                                                 *)
(***************************************************************************)
\* Mutant: no room is kept for the terminating zero.
Fits_Exactly(n) == used + n <= PageRoom

\* append_html
Fits(n) == used + n < PageRoom

OpenDirectory ==
  /\ step = "page"
  /\ IF Fits(HeadSize) /\ is_dir(target)
     THEN /\ Continue("readdir", 1)
          /\ used' = HeadSize /\ left' = Children(fs, target)
     ELSE Answer(500, "none") /\ UNCHANGED <<used, left>>
  /\ UNCHANGED <<sv, rt, target, rows>> /\ UnchangedWorld

\* Mutant: directories are passed over.
Listable_FilesOnly(n) == fs[n] \in RegularFiles
Listable(n) == fs[n] # "none"

\* An entry that is gone is passed over; the first that does not fit ends the page.
ReadDirectory ==
  /\ step = "readdir" /\ left # {}
  /\ \E n \in left :
       \/ /\ ~Listable(n)
          /\ left' = left \ {n} /\ UNCHANGED <<rows, used>>
       \/ /\ Listable(n) /\ Fits(RowSize[n])
          /\ left' = left \ {n} /\ rows' = rows \cup {n} /\ used' = used + RowSize[n]
       \/ /\ Listable(n) /\ ~Fits(RowSize[n])
          /\ left' = {} /\ UNCHANGED <<rows, used>>
  /\ Continue("readdir", 1)
  /\ UNCHANGED <<sv, rt, target>> /\ UnchangedWorld

EndPage ==
  /\ step = "readdir" /\ left = {}
  /\ IF Fits(FootSize) THEN Answer(200, "page") /\ used' = used + FootSize
     ELSE Answer(500, "none") /\ UNCHANGED used
  /\ UNCHANGED <<sv, rt, target, left, rows>> /\ UnchangedWorld

(***************************************************************************)
(* The other types of route: no file is looked at.                         *)
(***************************************************************************)
\* The session is destroyed with its response when the type is unknown.
OtherRoutes ==
  /\ step = "other"
  /\ IF Barred THEN Answer(403, "none") ELSE
       \/ route.type = "reverse_proxy" /\ route.upstreams = <<>> /\ Abort
       \/ /\ route.type = "reverse_proxy" /\ route.upstreams # <<>>
          /\ Answer(0, "upstream") \/ Answer(500, "none")
       \/ route.type = "redirect" /\ Answer(route.http_status_code, "location")
       \/ route.type = "other" /\ Answer(500, "lost")
  /\ UNCHANGED <<sv, rt, target>> /\ UnchangedPage /\ UnchangedWorld

-----------------------------------------------------------------------------
xps_config_lookup == FindServer \/ FindRoute \/ RouteFound \/ Locate \/ IsFile \/ IsDir \/ FindIndex
xps_file_create == ResolveFile \/ ResolvePublic \/ Stat \/ Open
xps_directory_browsing == OpenDirectory \/ ReadDirectory \/ EndPage
session_process_request ==
  phase = "serving" /\ (xps_config_lookup \/ xps_file_create \/ xps_directory_browsing \/ OtherRoutes)

Start == StartStep /\ UNCHANGED <<fs, changes, seen, requestVars>>

\* The process has ended; or nothing could be bound, and epoll_wait blocks.
Stopped ==
  /\ phase \in {"exited", "aborted"} \/ (phase = "serving" /\ listeners = <<>>)
  /\ UNCHANGED allVars

RequestNext == Start \/ Arrive \/ session_process_request \/ Finish \/ Change \/ Stopped
RequestSpec == RequestInit /\ [][RequestNext]_allVars

\* A call runs to its end.
RequestFairSpec == RequestSpec /\ WF_allVars(session_process_request)

-----------------------------------------------------------------------------
(***************************************************************************)
(* What the answer must be.                                                *)
(***************************************************************************)
\* A route's req_path covers a path that is the same or goes on below it.
Covers(req_path, path) ==
  \/ req_path = path
  \/ SequenceOps!IsPrefix(IF EndsWithSlash(req_path) THEN req_path ELSE Append(req_path, "/"), path)

Serves(r) == Covers(Routes[r].req_path, req.path) /\ Routes[r].req_path # <<>>

\* The first server of the file that listens on the request's port and has its
\* host, or has no hosts, handles a request.
FirstServerAnswers ==
  /\ step = "server" => \A i \in 1..(pos - 1) : ~MatchingServer(i)
  /\ sv # 0 => MatchingServer(sv) /\ \A i \in 1..(sv - 1) : ~MatchingServer(i)
  /\ step = "answered" /\ sv = 0 /\ req.path # NULL =>
       \A i \in DOMAIN servers : ~MatchingServer(i)

\* "We want them to take precedence" (xps_config.c:163): of the routes that
\* cover the path the longest is chosen, the first of equal ones, wherever they
\* stand in the file; and a path that is covered is never without a route.
DeepestRoute ==
  LET tried == IF step = "route" THEN 1..(pos - 1) ELSE DOMAIN Routes IN
  sv # 0 =>
    /\ rt # 0 => Serves(rt)
    /\ \A r \in tried : Serves(r) =>
         /\ rt # 0
         /\ \/ Len(Routes[r].req_path) < Len(route.req_path)
            \/ Len(Routes[r].req_path) = Len(route.req_path) /\ rt <= r

DeepestRouteAnswers == FirstServerAnswers /\ DeepestRoute

Plain(status) == [status |-> status, body |-> "none"]
FirstOf(S) == CHOOSE i \in S : \A j \in S : i <= j
RowBytes(N) == UNION {{n} \X (1..RowSize[n]) : n \in N}
PageFits(N) == HeadSize + Cardinality(RowBytes(N)) + FootSize < PageRoom

\* What file system f has for a path that names a file, and for any path: the
\* answers of file_serve in one step.
ExpectedFile(f, path) ==
  LET found == {i \in DOMAIN Public : KindIn(f, Public[i]) # "none"}
      public == Public[FirstOf(found)]
  IN IF found = {} THEN Plain(500)
     ELSE IF ~Covers(public, path) THEN Plain(403)
     ELSE IF KindIn(f, path) # "file" THEN Plain(403)
     ELSE [status |-> 200, body |-> "file"]

Expected(f, path) ==
  LET index == {i \in DOMAIN route.index : KindIn(f, path_join(path, route.index[i])) \in RegularFiles}
      page == [status |-> 200, body |-> "page"]
  IN CASE KindIn(f, path) \in RegularFiles -> {ExpectedFile(f, Canonical(Absolute(path)))}
       [] KindIn(f, path) = "none" -> {Plain(404)}
       [] KindIn(f, path) = "dir" /\ index # {} ->
            {ExpectedFile(f, Canonical(Absolute(path_join(path, route.index[FirstOf(index)]))))}
       [] OTHER -> IF PageFits(Children(f, path)) THEN {page} ELSE {page, Plain(500)}

\* While the files stay as they are, the dozen separate looks at them in
\* xps_config_lookup and xps_file_create, with their error codes on the way,
\* come to the answer that looking once gives.
QuietAnswerIsExpected ==
  step = "answered" /\ phase = "serving" /\ Cardinality(seen) = 1 /\ rt # 0
  /\ route.type = "file_serve" => answer \in Expected(fs, path_join(route.dir_path, req.path))

\* When files change under the request, a file that is served was there at some
\* moment of it, others could read it at one and the program open it at one; what
\* a page lists was there at some moment.
NothingMadeUp ==
  step = "answered" =>
    /\ answer.body = "file" =>
         /\ \E f \in seen : KindIn(f, target) \notin {"none", "private"}
         /\ \E f \in seen : KindIn(f, target) \notin {"none", "locked"}
    /\ answer.body = "page" => \A n \in rows : \E f \in seen : n \in Children(f, target)

\* A page with room for all lists what was there throughout.
PageMissesNothing ==
  step = "answered" /\ answer.body = "page"
  /\ PageFits(UNION {Children(f, target) : f \in seen}) =>
       \A n \in Nodes : (\A f \in seen : n \in Children(f, target)) => n \in rows

\* "check whitelist exist", "check in blacklist" (xps_session.c:486, 509): a
\* client that the route's lists keep out gets 403.
AccessFollowsLists ==
  step = "answered" /\ phase = "serving" /\ rt # 0
  /\ \/ route.ip_whitelist # {} /\ req.ip \notin route.ip_whitelist
     \/ req.ip \in route.ip_blacklist
    => answer.status = 403

\* Every request is answered, unless it ends the process: none of the loops over
\* servers, routes, index files, directory entries goes on for ever.
EveryRequestEnds == (step # "idle") ~> (step = "answered")
=============================================================================
