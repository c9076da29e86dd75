--------------------------- MODULE XpsRequestProofs ---------------------------
(***************************************************************************)
(* Proofs about starting up and about deciding a request: the addresses    *)
(* that are listened on, the server and route that answer, the pages of    *)
(* directories, and the answers while the files stay as they are.          *)
(***************************************************************************)
EXTENDS XpsRequest, StepwiseInduction, FiniteSetTheorems, SequenceTheorems

(***************************************************************************)
(* Sequences and records.                                                  *)
(***************************************************************************)
LEMMA Element ==
  ASSUME NEW S, NEW s \in Seq(S), NEW i \in Nat \ {0}, i <= Len(s)
  PROVE  i \in DOMAIN s /\ s[i] \in S
OBVIOUS

LEMMA ServerFields ==
  ASSUME NEW s \in Server
  PROVE  s.listeners \in Seq(Address) /\ s.routes \in Seq(Route) /\ s.hostnames \in Seq(Host)
<1> HIDE DEF Address, Route
<1> QED
  BY DEF Server

LEMMA ServerAt ==
  ASSUME ConfigTypeOK, NEW i \in DOMAIN servers
  PROVE  servers[i] \in Server /\ servers[i].listeners \in Seq(Address)
         /\ servers[i].routes \in Seq(Route)
<1>1. servers[i] \in Server
  BY DEF ConfigTypeOK
<1> QED
  BY <1>1, ServerFields

LEMMA SameIsEqual ==
  ASSUME NEW a \in Address, NEW b \in Address
  PROVE  SameAddress(a, b) <=> a = b
BY DEF SameAddress, Address

LEMMA PrefixMeans ==
  ASSUME NEW S, NEW s \in Seq(S), NEW t \in Seq(S)
  PROVE  SequenceOps!IsPrefix(s, t) <=> Len(s) <= Len(t) /\ \A i \in 1..Len(s) : s[i] = t[i]
<1>1. CASE Len(s) <= Len(t)
  <2>1. SubSeq(s, 1, Len(s)) = s
    OBVIOUS
  <2>2. /\ SubSeq(t, 1, Len(s)) \in Seq(S) /\ Len(SubSeq(t, 1, Len(s))) = Len(s)
        /\ \A i \in 1..Len(s) : SubSeq(t, 1, Len(s))[i] = t[i]
    BY <1>1
  <2> QED
    BY <1>1, <2>1, <2>2 DEF SequenceOps!IsPrefix
<1> QED
  BY <1>1 DEF SequenceOps!IsPrefix

LEMMA StartsWithCovers ==
  ASSUME NEW path \in Seq(Character), NEW prefix \in Seq(Character), prefix # <<>>
  PROVE  str_starts_with(path, prefix) <=> Covers(prefix, path)
<1> DEFINE longer == Append(prefix, "/")
<1>1. longer \in Seq(Character)
  BY ConfigAssumption
<1>2. SequenceOps!IsPrefix(prefix, path) <=>
        Len(prefix) <= Len(path) /\ \A i \in 1..Len(prefix) : prefix[i] = path[i]
  BY <1>1, PrefixMeans
<1>3. SequenceOps!IsPrefix(longer, path) <=>
        /\ Len(prefix) + 1 <= Len(path) /\ path[Len(prefix) + 1] = "/"
        /\ \A i \in 1..Len(prefix) : prefix[i] = path[i]
  <2>1. Len(longer) = Len(prefix) + 1 /\ longer[Len(prefix) + 1] = "/"
        /\ \A i \in 1..Len(prefix) : longer[i] = prefix[i]
    BY <1>1
  <2>2. SequenceOps!IsPrefix(longer, path) <=>
          Len(longer) <= Len(path) /\ \A i \in 1..Len(longer) : longer[i] = path[i]
    <3> HIDE DEF longer
    <3> QED
      BY <1>1, PrefixMeans
  <2>3. \A i \in 1..Len(longer) : i = Len(prefix) + 1 \/ i \in 1..Len(prefix)
    BY <1>1, <2>1
  <2>4. Len(prefix) + 1 \in 1..Len(longer) /\ \A i \in 1..Len(prefix) : i \in 1..Len(longer)
    BY <1>1, <2>1
  <2> QED
    BY <2>1, <2>2, <2>3, <2>4
<1>4. prefix = path <=> Len(prefix) = Len(path) /\ \A i \in 1..Len(prefix) : prefix[i] = path[i]
  BY <1>1
<1>5. CASE EndsWithSlash(prefix)
  <2>1. prefix = path => SequenceOps!IsPrefix(prefix, path)
    BY <1>1, <1>2
  <2> QED
    BY <1>5, <2>1 DEF str_starts_with, Covers
<1>6. CASE ~EndsWithSlash(prefix)
  <2>1. Len(prefix) \in Nat /\ Len(path) \in Nat
    BY <1>1
  <2> HIDE DEF longer
  <2>2. str_starts_with(path, prefix) <=>
          SequenceOps!IsPrefix(prefix, path) /\ (Len(path) = Len(prefix) \/ path[Len(prefix) + 1] = "/")
    BY <1>6 DEF str_starts_with
  <2>3. Covers(prefix, path) <=> prefix = path \/ SequenceOps!IsPrefix(longer, path)
    BY <1>6 DEF Covers, longer
  <2>4. CASE Len(path) = Len(prefix)
    BY <1>2, <1>3, <1>4, <2>1, <2>2, <2>3, <2>4
  <2>5. CASE Len(path) # Len(prefix)
    BY <1>2, <1>3, <1>4, <2>1, <2>2, <2>3, <2>5
  <2> QED
    BY <2>4, <2>5
<1> QED
  BY <1>5, <1>6

(***************************************************************************)
(* What a request leaves alone.                                            *)
(***************************************************************************)
ConfigKept == UNCHANGED <<servers, all_listeners, listeners, si, li>>

LEMMA RequestFrame ==
  ASSUME Arrive \/ session_process_request \/ Finish \/ Change
  PROVE  ConfigKept /\ phase' \in {phase, "aborted"}
<1>1. CASE Arrive \/ Finish \/ Change
  BY <1>1 DEF Arrive, Finish, Change, ConfigKept, configVars, Continue, Answer
<1>2. CASE xps_config_lookup
  <2>1. CASE FindServer \/ FindRoute \/ RouteFound
    BY <2>1 DEF FindServer, FindRoute, RouteFound, UnchangedWorld, ConfigKept, Continue,
                Answer, Abort
  <2>2. CASE Locate \/ IsFile \/ IsDir \/ FindIndex
    BY <2>2 DEF Locate, IsFile, IsDir, FindIndex, Dispatch, UnchangedWorld, ConfigKept, Continue,
                Answer
  <2> QED
    BY <1>2, <2>1, <2>2 DEF xps_config_lookup
<1>3. CASE xps_file_create
  BY <1>3 DEF xps_file_create, ResolveFile, ResolvePublic, Stat, Open, NotThere, UnchangedWorld,
              ConfigKept, Continue, Answer
<1>4. CASE xps_directory_browsing \/ OtherRoutes
  BY <1>4 DEF xps_directory_browsing, OpenDirectory, ReadDirectory, EndPage, OtherRoutes,
              UnchangedWorld, ConfigKept, Continue, Answer, Abort
<1> QED
  BY <1>1, <1>2, <1>3, <1>4 DEF session_process_request

-----------------------------------------------------------------------------
(***************************************************************************)
(* Starting up.                                                            *)
(***************************************************************************)
LEMMA ConfigTypeInit == RequestInit => ConfigTypeOK
BY DEF RequestInit, ConfigInit, ConfigTypeOK

LEMMA MergedAddress ==
  ASSUME ConfigTypeOK, MergeListener
  PROVE  si \in DOMAIN servers /\ servers[si].listeners[li] \in Address
<1>1. si \in DOMAIN servers /\ li \in Nat \ {0} /\ li <= Len(servers[si].listeners)
  BY DEF MergeListener, ConfigTypeOK
<1>2. servers[si].listeners \in Seq(Address)
  BY <1>1, ServerAt
<1> QED
  BY <1>1, <1>2, Element

LEMMA BoundAddress ==
  ASSUME ConfigTypeOK, BindListener
  PROVE  li \in DOMAIN all_listeners /\ all_listeners[li] \in Address
BY Element DEF BindListener, ConfigTypeOK

LEMMA ConfigTypeStep == ConfigTypeOK /\ [RequestNext]_allVars => ConfigTypeOK'
<1> SUFFICES ASSUME ConfigTypeOK, [RequestNext]_allVars PROVE ConfigTypeOK'
  OBVIOUS
<1>1. CASE UNCHANGED allVars
  BY <1>1 DEF allVars, configVars, ConfigTypeOK
<1>2. CASE Arrive \/ session_process_request \/ Finish \/ Change
  BY <1>2, RequestFrame DEF ConfigTypeOK, ConfigKept
<1>3. CASE xps_config_create \/ UnreadableFile
  BY <1>3, ConfigAssumption DEF xps_config_create, UnreadableFile, ConfigTypeOK
<1>4. CASE MergeListener
  <2> DEFINE a == servers[si].listeners[li]
  <2>1. a \in Address
    BY <1>4, MergedAddress
  <2>2. all_listeners' \in {all_listeners, Append(all_listeners, a)}
    BY <1>4 DEF MergeListener
  <2> QED
    BY <1>4, <2>1, <2>2 DEF MergeListener, ConfigTypeOK
<1>5. CASE NextServer \/ AllMerged \/ AllBound
  BY <1>5 DEF NextServer, AllMerged, AllBound, ConfigTypeOK
<1>6. CASE BindListener
  <2>1. all_listeners[li] \in Address
    BY <1>6, BoundAddress
  <2>2. \/ listeners' = listeners
        \/ listeners' = Append(listeners, all_listeners[li])
    BY <1>6 DEF BindListener
  <2>3. phase' \in {phase, "aborted"} /\ li' \in {li, li + 1}
        /\ UNCHANGED <<servers, all_listeners, si>>
    BY <1>6 DEF BindListener
  <2>4. listeners' \in Seq(Address)
    BY <2>1, <2>2 DEF ConfigTypeOK
  <2> QED
    BY <2>3, <2>4 DEF ConfigTypeOK
<1> QED
  BY <1>1, <1>2, <1>3, <1>4, <1>5, <1>6 DEF RequestNext, Start, StartStep, Stopped

-----------------------------------------------------------------------------
(***************************************************************************)
(* OneListenerPerAddress.  While servers are merged, what has been passed  *)
(* is in the list; while addresses are bound, what is bound stands before  *)
(* the next one in the list of different addresses.                        *)
(***************************************************************************)
Different(s) == \A m, n \in DOMAIN s : s[m] = s[n] => m = n
IsMerged(i, j) == \E n \in DOMAIN all_listeners : all_listeners[n] = servers[i].listeners[j]

ListenerInv ==
  /\ Different(all_listeners) /\ Different(listeners)
  /\ phase = "parsing" => si = 1 /\ li = 1
  /\ phase \in {"parsing", "merging"} => listeners = <<>>
  /\ phase = "merging" =>
       /\ \A i \in 1..(si - 1) : i \in DOMAIN servers =>
            \A j \in DOMAIN servers[i].listeners : IsMerged(i, j)
       /\ si \in DOMAIN servers => \A j \in 1..(li - 1) : IsMerged(si, j)
  /\ phase \in {"binding", "serving"} =>
       \A i \in DOMAIN servers : \A j \in DOMAIN servers[i].listeners : IsMerged(i, j)
  /\ \A m \in DOMAIN listeners : \E n \in DOMAIN all_listeners :
       /\ listeners[m] = all_listeners[n]
       /\ phase = "binding" => n < li

LEMMA ListenerInit == RequestInit => ListenerInv
BY DEF RequestInit, ConfigInit, ListenerInv, Different

LEMMA AppendDifferent ==
  ASSUME NEW S, NEW s \in Seq(S), NEW x \in S, Different(s), \A n \in DOMAIN s : s[n] # x
  PROVE  Different(Append(s, x))
BY DEF Different

LEMMA MergeKeeps ==
  ASSUME ConfigTypeOK, ListenerInv, MergeListener
  PROVE  ListenerInv'
<1> DEFINE a == servers[si].listeners[li]
<1>1. /\ phase = "merging" /\ phase' = "merging" /\ UNCHANGED <<servers, listeners, si>>
      /\ li' = li + 1 /\ si \in DOMAIN servers
      /\ all_listeners \in Seq(Address) /\ servers \in Seq(Server) /\ si \in Nat /\ li \in Nat \ {0}
  BY DEF MergeListener, ConfigTypeOK
<1>2. a \in Address
  BY MergedAddress
<1>3. \/ all_listeners' = all_listeners /\ \E n \in DOMAIN all_listeners : all_listeners[n] = a
      \/ all_listeners' = Append(all_listeners, a) /\ \A n \in DOMAIN all_listeners : all_listeners[n] # a
  <2>1. \A n \in DOMAIN all_listeners : SameAddress(all_listeners[n], a) <=> all_listeners[n] = a
    BY <1>1, <1>2, SameIsEqual, Element
  <2> QED
    BY <2>1 DEF MergeListener, IsDuplicate
<1>4. Different(all_listeners')
  <2>1. CASE all_listeners' = all_listeners
    BY <2>1 DEF ListenerInv
  <2>2. CASE all_listeners' = Append(all_listeners, a) /\ \A n \in DOMAIN all_listeners : all_listeners[n] # a
    BY <1>1, <1>2, <2>2, AppendDifferent DEF ListenerInv
  <2> QED
    BY <1>3, <2>1, <2>2
<1>5. \A n \in DOMAIN all_listeners : n \in DOMAIN all_listeners' /\ all_listeners'[n] = all_listeners[n]
  BY <1>1, <1>2, <1>3
<1>6. \E n \in DOMAIN all_listeners' : all_listeners'[n] = a
  BY <1>1, <1>2, <1>3
<1>7. \A i, j : IsMerged(i, j) => IsMerged(i, j)'
  BY <1>1, <1>5 DEF IsMerged
<1>8. \E n \in DOMAIN all_listeners' : all_listeners'[n] = servers'[si].listeners[li]
  BY <1>1, <1>6
<1>9. listeners' = <<>> /\ Different(listeners')
  BY <1>1 DEF ListenerInv, Different
<1>10. \A j \in 1..(li' - 1) : \E n \in DOMAIN all_listeners' : all_listeners'[n] = servers'[si'].listeners[j]
  <2> SUFFICES ASSUME NEW j \in 1..(li' - 1)
               PROVE  \E n \in DOMAIN all_listeners' : all_listeners'[n] = servers'[si'].listeners[j]
    OBVIOUS
  <2>1. CASE j = li
    BY <1>1, <1>8, <2>1
  <2>2. CASE j \in 1..(li - 1)
    BY <1>1, <1>5, <2>2 DEF ListenerInv, IsMerged
  <2> QED
    BY <1>1, <2>1, <2>2
<1>11. \A i \in 1..(si' - 1) : i \in DOMAIN servers' =>
            \A j \in DOMAIN servers'[i].listeners : IsMerged(i, j)'
  BY <1>1, <1>7 DEF ListenerInv
<1> QED
  BY <1>1, <1>4, <1>9, <1>10, <1>11 DEF ListenerInv, Different, IsMerged

LEMMA NextServerKeeps ==
  ASSUME ConfigTypeOK, ListenerInv, NextServer \/ AllMerged
  PROVE  ListenerInv'
<1>1. servers \in Seq(Server) /\ si \in Nat \ {0} /\ li \in Nat \ {0} /\ phase = "merging"
      /\ UNCHANGED <<servers, all_listeners, listeners>>
  BY DEF NextServer, AllMerged, ConfigTypeOK
<1>2. \A i, j : IsMerged(i, j)' <=> IsMerged(i, j)
  BY <1>1 DEF IsMerged
<1>3. listeners' = <<>>
  BY <1>1 DEF ListenerInv
<1>4. CASE NextServer
  <2>1. si' = si + 1 /\ li' = 1 /\ phase' = "merging" /\ si \in DOMAIN servers
        /\ li > Len(servers[si].listeners)
    BY <1>1, <1>4 DEF NextServer
  <2>2. \A j \in DOMAIN servers[si].listeners : IsMerged(si, j)
    <3>1. servers[si].listeners \in Seq(Address)
      BY <2>1, ServerAt
    <3>2. \A j \in DOMAIN servers[si].listeners : j \in 1..(li - 1)
      BY <1>1, <2>1, <3>1
    <3> QED
      BY <1>1, <2>1, <3>2 DEF ListenerInv
  <2>3. \A i \in 1..(si' - 1) : i = si \/ i \in 1..(si - 1)
    BY <1>1, <2>1
  <2> QED
    BY <1>1, <1>2, <1>3, <2>1, <2>2, <2>3 DEF ListenerInv, Different
<1>5. CASE AllMerged
  <2>1. phase' = "binding" /\ \A i \in DOMAIN servers : i \in 1..(si - 1)
    BY <1>1, <1>5 DEF AllMerged
  <2> QED
    BY <1>1, <1>2, <1>3, <2>1 DEF ListenerInv, Different
<1> QED
  BY <1>4, <1>5

LEMMA BindKeeps ==
  ASSUME ConfigTypeOK, ListenerInv, BindListener
  PROVE  ListenerInv'
<1> DEFINE a == all_listeners[li]
<1>1. /\ phase = "binding" /\ phase' \in {"binding", "aborted"}
      /\ UNCHANGED <<servers, all_listeners, si>>
      /\ all_listeners \in Seq(Address) /\ listeners \in Seq(Address) /\ li \in Nat \ {0}
      /\ li \in DOMAIN all_listeners /\ a \in Address
  BY BoundAddress DEF BindListener, ConfigTypeOK
<1>2. \A i, j : IsMerged(i, j)' <=> IsMerged(i, j)
  BY <1>1 DEF IsMerged
<1>3. \A m \in DOMAIN listeners : \E n \in DOMAIN all_listeners :
        listeners[m] = all_listeners[n] /\ n < li
  BY <1>1 DEF ListenerInv
<1>4. \A m \in DOMAIN listeners : listeners[m] # a
  BY <1>1, <1>3 DEF ListenerInv, Different
<1>5. CASE listeners' = listeners /\ li' \in {li, li + 1}
  <2>1. \A m \in DOMAIN listeners' : \E n \in DOMAIN all_listeners' :
          listeners'[m] = all_listeners'[n] /\ n < li'
    BY <1>1, <1>3, <1>5
  <2> QED
    BY <1>1, <1>2, <1>5, <2>1 DEF ListenerInv, Different
<1>6. CASE listeners' = Append(listeners, a) /\ li' = li + 1
  <2>1. Different(listeners')
    BY <1>1, <1>4, <1>6, AppendDifferent DEF ListenerInv
  <2>2. \A m \in DOMAIN listeners' : \E n \in DOMAIN all_listeners' :
          listeners'[m] = all_listeners'[n] /\ n < li'
    <3> SUFFICES ASSUME NEW m \in DOMAIN listeners'
                 PROVE  \E n \in DOMAIN all_listeners : listeners'[m] = all_listeners[n] /\ n < li + 1
      BY <1>1, <1>6
    <3>1. CASE m \in DOMAIN listeners
      <4>1. listeners'[m] = listeners[m]
        BY <1>1, <1>6, <3>1
      <4> QED
        BY <1>1, <1>3, <3>1, <4>1
    <3>2. CASE m \notin DOMAIN listeners
      <4>1. listeners'[m] = a
        BY <1>1, <1>6, <3>2
      <4> QED
        BY <1>1, <4>1
    <3> QED
      BY <3>1, <3>2
  <2> QED
    BY <1>1, <1>2, <2>1, <2>2 DEF ListenerInv, Different
<1>7. \/ listeners' = listeners /\ li' \in {li, li + 1}
      \/ listeners' = Append(listeners, a) /\ li' = li + 1
  BY DEF BindListener
<1> QED
  BY <1>5, <1>6, <1>7

LEMMA ListenerStep == ConfigTypeOK /\ ListenerInv /\ [RequestNext]_allVars => ListenerInv'
<1> SUFFICES ASSUME ConfigTypeOK, ListenerInv, [RequestNext]_allVars PROVE ListenerInv'
  OBVIOUS
<1>1. CASE UNCHANGED allVars
  BY <1>1 DEF allVars, configVars, ListenerInv, Different, IsMerged
<1>2. CASE Arrive \/ session_process_request \/ Finish \/ Change
  <2>1. ConfigKept /\ phase' \in {phase, "aborted"}
    BY <1>2, RequestFrame
  <2> QED
    BY <2>1 DEF ConfigKept, ListenerInv, Different, IsMerged
<1>3. CASE xps_config_create \/ UnreadableFile
  <2>1. /\ UNCHANGED <<all_listeners, listeners, si, li>>
        /\ si = 1 /\ li = 1 /\ listeners = <<>>
        /\ phase' \in {"merging", "aborted", "exited"}
    BY <1>3 DEF xps_config_create, UnreadableFile, ListenerInv
  <2>2. (\A i \in 1..(si' - 1) : FALSE) /\ (\A j \in 1..(li' - 1) : FALSE)
    BY <2>1
  <2> QED
    BY <2>1, <2>2 DEF ListenerInv, Different
<1>4. CASE AllBound
  BY <1>4 DEF AllBound, ListenerInv, Different, IsMerged
<1> QED
  BY <1>1, <1>2, <1>3, <1>4, MergeKeeps, NextServerKeeps, BindKeeps
  DEF RequestNext, Start, StartStep, Stopped

(***************************************************************************)
(* The lists of servers and addresses, and the positions of the loops over *)
(* them, have their types (xps_config_create, core_create).                *)
(***************************************************************************)
THEOREM ConfigTypesHold == RequestSpec => []ConfigTypeOK
BY ConfigTypeInit, ConfigTypeStep, PTL DEF RequestSpec

(***************************************************************************)
(* No address is merged or bound twice, and every server's address is      *)
(* merged (parse_all_listener, core_create): for any configuration file.   *)
(***************************************************************************)
THEOREM OneListener == RequestSpec => []OneListenerPerAddress
<1>1. ConfigTypeOK /\ ListenerInv => OneListenerPerAddress
  BY DEF ListenerInv, Different, IsMerged, OneListenerPerAddress
<1>2. RequestSpec => []ListenerInv
  BY ListenerInit, ListenerStep, ConfigTypesHold, PTL DEF RequestSpec
<1> QED
  BY <1>1, <1>2, ConfigTypesHold, PTL

-----------------------------------------------------------------------------
(***************************************************************************)
(* The types of the variables of a request.                                *)
(***************************************************************************)
RequestTypeInv ==
  /\ RequestTypeOK
  /\ pos \in Nat \ {0} /\ used \in Nat
  /\ sv = 0 => rt = 0
  /\ sv # 0 => sv \in DOMAIN servers /\ rt \in {0} \cup DOMAIN servers[sv].routes
  /\ step = "idle" => sv = 0
  /\ phase = "parsing" => step = "idle"
  /\ step = "server" \/ sv # 0 => req.path \in Text

LEMMA RequestTypeInit == RequestInit => RequestTypeInv
<1> SUFFICES ASSUME RequestInit PROVE RequestTypeInv
  OBVIOUS
<1>1. ConfigTypeOK
  BY ConfigTypeInit
<1>2. fs \in [Nodes -> Kinds] /\ changes \in 0..MaxChanges /\ PageRoom \in Nat \ {0}
  BY RequestAssumption DEF RequestInit
<1>3. answer \in Answers
  BY DEF RequestInit, NoAnswer, Answers
<1> QED
  BY <1>1, <1>2, <1>3 DEF RequestInit, RequestTypeInv, RequestTypeOK, Steps

\* The server and the route are chosen: what is left to do with them.
LEMMA ChosenKeeps ==
  ASSUME RequestTypeInv, sv # 0, UNCHANGED <<servers, all_listeners, listeners, si, li, fs, changes, req, sv, rt>>,
         phase # "parsing", phase' \in {phase, "aborted"},
         step' \in Steps \ {"idle", "server", "route"}, step' # "answered" => rt # 0,
         pos' \in Nat \ {0}, answer' \in Answers,
         left' \subseteq Nodes, rows' \subseteq Nodes, used' \in Nat, used' < PageRoom
  PROVE  RequestTypeInv'
<1>1. ConfigTypeOK'
  BY DEF RequestTypeInv, RequestTypeOK, ConfigTypeOK
<1>2. RequestTypeOK'
  BY <1>1 DEF RequestTypeInv, RequestTypeOK
<1> QED
  BY <1>2 DEF RequestTypeInv

LEMMA AnswerTyped ==
  ASSUME NEW status \in Nat, NEW body \in {"none", "file", "page", "upstream", "location", "lost"},
         Answer(status, body)
  PROVE  answer' \in Answers /\ step' = "answered" /\ pos' = 1 /\ phase' = phase
BY DEF Answer, Answers, Go

LEMMA RouteTyped ==
  ASSUME RequestTypeInv, rt # 0
  PROVE  /\ sv \in DOMAIN servers /\ rt \in DOMAIN Routes /\ Routes \in Seq(Route)
         /\ route \in Route /\ route.http_status_code \in Nat /\ route.index \in Seq(Text)
         /\ route.req_path \in Text
<1>1. sv \in DOMAIN servers /\ rt \in DOMAIN Routes /\ ConfigTypeOK
  BY DEF RequestTypeInv, RequestTypeOK, Routes
<1>2. Routes \in Seq(Route)
  BY <1>1, ServerAt DEF Routes
<1>3. route \in Route
  BY <1>1, <1>2 DEF route
<1> HIDE DEF route
<1> QED
  BY <1>1, <1>2, <1>3 DEF Route

LEMMA ServerChosen ==
  ASSUME RequestTypeInv, FindServer, phase = "serving"
  PROVE  RequestTypeInv'
<1>1. /\ step = "server" /\ sv = 0 /\ rt = 0 /\ ConfigTypeOK /\ answer \in Answers
      /\ pos \in Nat \ {0} /\ pos <= Len(servers) + 1 /\ req.path \in Text
  BY DEF FindServer, RequestTypeInv, RequestTypeOK
<1>2. /\ UNCHANGED <<servers, all_listeners, listeners, si, li, fs, changes, req, rt, left, rows, used>>
      /\ phase' = phase /\ answer' \in Answers
      /\ \/ step' = "answered" /\ sv' = sv /\ pos' = 1
         \/ step' = "route" /\ sv' \in DOMAIN servers /\ pos' = 1
         \/ step' = "server" /\ sv' = sv /\ pos' = pos + 1 /\ pos \in DOMAIN servers
  BY <1>1, AnswerTyped DEF FindServer, Continue, Go, UnchangedWorld, UnchangedPage
<1>3. ConfigTypeOK'
  BY <1>1, <1>2 DEF ConfigTypeOK
<1>4. servers \in Seq(Server)
  BY <1>1 DEF ConfigTypeOK
<1> QED
  BY <1>1, <1>2, <1>3, <1>4 DEF RequestTypeInv, RequestTypeOK, Steps

LEMMA RouteChosen ==
  ASSUME RequestTypeInv, FindRoute, phase = "serving"
  PROVE  RequestTypeInv'
<1>1. /\ step = "route" /\ sv \in DOMAIN servers /\ ConfigTypeOK /\ answer \in Answers
      /\ pos \in Nat \ {0} /\ pos <= Len(servers[sv].routes) /\ rt \in {0} \cup DOMAIN servers[sv].routes
      /\ sv # 0
  BY DEF FindRoute, RequestTypeInv, RequestTypeOK, Steps, Routes, ConfigTypeOK
<1>2. servers[sv].routes \in Seq(Route)
  BY <1>1, ServerAt
<1>3. pos \in DOMAIN servers[sv].routes
  BY <1>1, <1>2
<1>4. /\ UNCHANGED <<servers, all_listeners, listeners, si, li, fs, changes, req, sv, left, rows, used, phase, answer>>
      /\ rt' \in {pos, rt} /\ step' = "route" /\ pos' = pos + 1
  BY <1>1 DEF FindRoute, Continue, Go, UnchangedWorld, UnchangedPage
<1>5. ConfigTypeOK'
  BY <1>1, <1>4 DEF ConfigTypeOK
<1>6. RequestTypeOK'
  BY <1>1, <1>4, <1>5 DEF RequestTypeInv, RequestTypeOK, Steps
<1> QED
  BY <1>1, <1>3, <1>4, <1>6 DEF RequestTypeInv

LEMMA ChosenMoves ==
  ASSUME RequestTypeInv,
         \/ RouteFound \/ Locate \/ IsFile \/ IsDir \/ FindIndex
         \/ xps_file_create \/ xps_directory_browsing \/ OtherRoutes
  PROVE  /\ UNCHANGED <<servers, req, sv, rt>> /\ step' \notin {"server", "route"} /\ sv # 0
         /\ step = "route" => pos > Len(Routes)
<1>1. step \in Steps \ {"idle", "server", "answered"}
  BY DEF Steps, RouteFound, Locate, IsFile, IsDir, FindIndex,
         xps_file_create, ResolveFile, ResolvePublic, Stat, Open, OtherRoutes,
         xps_directory_browsing, OpenDirectory, ReadDirectory, EndPage
<1>2. sv # 0
  <2>1. sv \in DOMAIN servers /\ servers \in Seq(Server)
    BY <1>1 DEF RequestTypeInv, RequestTypeOK, ConfigTypeOK
  <2> QED
    BY <2>1
<1>3. CASE RouteFound
  BY <1>2, <1>3 DEF RouteFound, UnchangedWorld, Continue, Answer, Abort, Go
<1>4. CASE Locate \/ IsFile \/ IsDir \/ FindIndex
  BY <1>2, <1>4 DEF Locate, IsFile, IsDir, FindIndex, Dispatch, UnchangedWorld, Continue, Answer, Go
<1>5. CASE xps_file_create
  BY <1>2, <1>5 DEF xps_file_create, ResolveFile, ResolvePublic, Stat, Open, NotThere, UnchangedWorld,
                    Continue, Answer, Go
<1>6. CASE xps_directory_browsing \/ OtherRoutes
  BY <1>2, <1>6 DEF xps_directory_browsing, OpenDirectory, ReadDirectory, EndPage, OtherRoutes,
                    UnchangedWorld, Continue, Answer, Abort, Go
<1> QED
  BY <1>3, <1>4, <1>5, <1>6

LEMMA ChosenHandled ==
  ASSUME RequestTypeInv, phase = "serving",
         \/ RouteFound \/ Locate \/ IsFile \/ IsDir \/ FindIndex
         \/ xps_file_create \/ xps_directory_browsing \/ OtherRoutes
  PROVE  RequestTypeInv'
<1> DEFINE Kept == UNCHANGED <<servers, all_listeners, listeners, si, li, fs, changes, req, sv, rt>>
           Page == left' \subseteq Nodes /\ rows' \subseteq Nodes /\ used' \in Nat /\ used' < PageRoom
           Went == \/ step' = "answered" /\ pos' = 1 /\ answer' \in Answers
                   \/ /\ step' \in Steps \ {"idle", "server", "route"} /\ rt # 0
                      /\ pos' \in Nat \ {0} /\ answer' = answer
<1>1. /\ answer \in Answers /\ pos \in Nat \ {0} /\ used \in Nat /\ used < PageRoom
      /\ left \subseteq Nodes /\ rows \subseteq Nodes
  BY DEF RequestTypeInv, RequestTypeOK
<1>2. sv # 0 /\ (step # "route" => rt # 0)
  <2>1. step \in Steps \ {"idle", "server", "answered"}
    BY DEF Steps, RouteFound, Locate, IsFile, IsDir, FindIndex,
           xps_file_create, ResolveFile, ResolvePublic, Stat, Open, OtherRoutes,
           xps_directory_browsing, OpenDirectory, ReadDirectory, EndPage
  <2>2. sv \in DOMAIN servers /\ ConfigTypeOK /\ servers \in Seq(Server)
    BY <2>1 DEF RequestTypeInv, RequestTypeOK, ConfigTypeOK
  <2>3. servers[sv].routes \in Seq(Route)
    BY <2>2, ServerAt
  <2>4. step # "route" => rt \in DOMAIN servers[sv].routes
    BY <2>1 DEF RequestTypeInv, RequestTypeOK
  <2> QED
    BY <2>2, <2>3, <2>4
<1>3. CASE RouteFound
  <2>1. Kept /\ UNCHANGED <<left, rows, used>> /\ phase' \in {phase, "aborted"}
    BY <1>3 DEF RouteFound, UnchangedWorld, UnchangedPage, Continue, Answer, Abort
  <2>2. Went
    BY <1>1, <1>3, AnswerTyped DEF RouteFound, Continue, Abort, Go, Steps
  <2> QED
    BY <1>1, <1>2, <2>1, <2>2, ChosenKeeps DEF Steps
<1>4. CASE Locate \/ IsFile \/ IsDir \/ FindIndex
  <2>1. Kept /\ UNCHANGED <<left, rows, used>> /\ phase' = phase
    BY <1>4 DEF Locate, IsFile, IsDir, FindIndex, Dispatch, UnchangedWorld, UnchangedPage, Continue, Answer
  <2>2. rt # 0
    BY <1>2, <1>4 DEF Locate, IsFile, IsDir, FindIndex
  <2>3. Went
    BY <1>1, <1>4, <2>2, AnswerTyped
    DEF Locate, IsFile, IsDir, FindIndex, Dispatch, NextIndex, Continue, Go, Steps
  <2> QED
    BY <1>1, <1>2, <2>1, <2>3, ChosenKeeps DEF Steps
<1>5. CASE xps_file_create
  <2>1. Kept /\ UNCHANGED <<left, rows, used>> /\ phase' = phase
    BY <1>5 DEF xps_file_create, ResolveFile, ResolvePublic, Stat, Open, NotThere,
                UnchangedWorld, UnchangedPage, Continue, Answer
  <2>2. rt # 0
    BY <1>2, <1>5 DEF xps_file_create, ResolveFile, ResolvePublic, Stat, Open
  <2>3. CASE ResolveFile \/ ResolvePublic
    <3>1. Went
      BY <1>1, <2>2, <2>3, AnswerTyped DEF ResolveFile, ResolvePublic, Continue, Go, Steps
    <3> QED
      BY <1>1, <1>2, <2>1, <3>1, ChosenKeeps DEF Steps
  <2>4. CASE Stat \/ Open
    <3>1. Went
      BY <1>1, <2>2, <2>4, AnswerTyped DEF Stat, Open, NotThere, Continue, Go, Steps
    <3> QED
      BY <1>1, <1>2, <2>1, <3>1, ChosenKeeps DEF Steps
  <2> QED
    BY <1>5, <2>3, <2>4 DEF xps_file_create
<1>6. CASE OpenDirectory
  <2>1. Kept /\ phase' = phase /\ Went /\ UNCHANGED rows
    BY <1>1, <1>2, <1>6, AnswerTyped DEF OpenDirectory, UnchangedWorld, Continue, Go, Answer, Steps
  <2>2. Page
    BY <1>1, <1>6, RequestAssumption DEF OpenDirectory, Fits, Children
  <2> QED
    BY <1>1, <1>2, <2>1, <2>2, ChosenKeeps DEF Steps
<1>7. CASE ReadDirectory
  <2>1. Kept /\ phase' = phase /\ Went
    BY <1>1, <1>2, <1>7 DEF ReadDirectory, UnchangedWorld, Continue, Go, Steps
  <2>2. PICK n \in left :
          \/ left' = left \ {n} /\ UNCHANGED <<rows, used>>
          \/ Fits(RowSize[n]) /\ left' = left \ {n} /\ rows' = rows \cup {n} /\ used' = used + RowSize[n]
          \/ left' = {} /\ UNCHANGED <<rows, used>>
    BY <1>7 DEF ReadDirectory
  <2>3. n \in Nodes /\ RowSize[n] \in Nat
    BY <1>1, RequestAssumption
  <2>4. Page
    BY <1>1, <2>2, <2>3 DEF Fits
  <2> QED
    BY <1>1, <1>2, <2>1, <2>4, ChosenKeeps DEF Steps
<1>8. CASE EndPage
  <2>1. Kept /\ phase' = phase /\ Went /\ UNCHANGED <<left, rows>>
    BY <1>1, <1>2, <1>8, AnswerTyped DEF EndPage, UnchangedWorld
  <2>2. Page
    BY <1>1, <1>8, <2>1, RequestAssumption DEF EndPage, Fits
  <2> QED
    BY <1>1, <1>2, <2>1, <2>2, ChosenKeeps DEF Steps
<1>9. CASE OtherRoutes
  <2>1. Kept /\ UNCHANGED <<left, rows, used>> /\ phase' \in {phase, "aborted"}
    BY <1>9 DEF OtherRoutes, UnchangedWorld, UnchangedPage, Answer, Abort
  <2>2. route.http_status_code \in Nat
    BY <1>2, <1>9, RouteTyped DEF OtherRoutes
  <2>3. Went
    BY <1>1, <1>9, <2>2, AnswerTyped DEF OtherRoutes, Abort, Go
  <2> QED
    BY <1>1, <1>2, <2>1, <2>3, ChosenKeeps DEF Steps
<1> QED
  BY <1>3, <1>4, <1>5, <1>6, <1>7, <1>8, <1>9 DEF xps_directory_browsing

LEMMA RequestTypeStep == RequestTypeInv /\ [RequestNext]_allVars => RequestTypeInv'
<1> SUFFICES ASSUME RequestTypeInv, [RequestNext]_allVars PROVE RequestTypeInv'
  OBVIOUS
<1>1. ConfigTypeOK'
  BY ConfigTypeStep DEF RequestTypeInv, RequestTypeOK
<1>2. CASE UNCHANGED allVars
  BY <1>2 DEF allVars, configVars, requestVars, RequestTypeInv, RequestTypeOK, ConfigTypeOK
<1>3. CASE Start
  <2>1. UNCHANGED <<fs, changes, seen, requestVars>>
    BY <1>3 DEF Start
  <2>2. CASE phase = "parsing"
    <3>1. step = "idle" /\ sv = 0 /\ rt = 0
      BY <2>2 DEF RequestTypeInv
    <3> QED
      BY <1>1, <2>1, <3>1 DEF requestVars, RequestTypeInv, RequestTypeOK
  <2>3. CASE phase # "parsing"
    <3>1. UNCHANGED servers /\ phase' # "parsing"
      BY <1>3, <2>3 DEF Start, StartStep, xps_config_create, UnreadableFile, MergeListener, NextServer,
                        AllMerged, BindListener, AllBound
    <3> QED
      BY <1>1, <2>1, <3>1 DEF requestVars, RequestTypeInv, RequestTypeOK
  <2> QED
    BY <2>2, <2>3
<1>4. CASE Arrive
  <2>1. /\ UNCHANGED <<servers, fs, changes, sv, rt, left, rows, used, phase>>
        /\ step = "idle" /\ sv = 0 /\ rt = 0 /\ phase # "parsing"
        /\ pos' = 1
    BY <1>4 DEF Arrive, UnchangedPage, Answer, Continue, Go, RequestTypeInv
  <2>2. \/ step' = "answered" /\ answer' \in Answers
        \/ step' = "server" /\ answer' = answer /\ req'.path \in Text
    BY <1>4, AnswerTyped, RequestAssumption DEF Arrive, Continue, Go
  <2>3. servers \in Seq(Server)
    BY DEF RequestTypeInv, RequestTypeOK, ConfigTypeOK
  <2> QED
    BY <1>1, <2>1, <2>2, <2>3 DEF RequestTypeInv, RequestTypeOK, Steps
<1>5. CASE phase = "serving" /\ session_process_request
  BY <1>5, ServerChosen, RouteChosen, ChosenHandled DEF session_process_request, xps_config_lookup
<1>6. CASE Finish
  <2>1. NoAnswer \in Answers /\ PageRoom > 0
    BY RequestAssumption DEF NoAnswer, Answers
  <2> QED
    BY <1>1, <1>6, <2>1 DEF Finish, Go, configVars, RequestTypeInv, RequestTypeOK, Steps
<1>7. CASE Change
  <2>1. fs' \in [Nodes -> Kinds] /\ changes' \in 0..MaxChanges
    BY <1>7, RequestAssumption DEF Change, RequestTypeInv, RequestTypeOK
  <2> QED
    BY <1>1, <1>7, <2>1 DEF Change, configVars, requestVars, RequestTypeInv, RequestTypeOK
<1> QED
  BY <1>2, <1>3, <1>4, <1>5, <1>6, <1>7 DEF RequestNext, Stopped, session_process_request

(***************************************************************************)
(* The types of a request's variables: what the later steps read of the    *)
(* server and route is there, and a page never reaches the end of its      *)
(* buffer (xps_directory.c), whatever the sizes and the files.             *)
(***************************************************************************)
THEOREM RequestTypesHold == RequestSpec => []RequestTypeOK
<1>1. RequestSpec => []RequestTypeInv
  BY RequestTypeInit, RequestTypeStep, PTL DEF RequestSpec
<1>2. RequestTypeInv => RequestTypeOK
  BY DEF RequestTypeInv
<1> QED
  BY <1>1, <1>2, PTL

-----------------------------------------------------------------------------
(***************************************************************************)
(* DeepestRouteAnswers.  In the search the best route so far is one that   *)
(* has been passed.                                                        *)
(***************************************************************************)
LookupInv ==
  /\ FirstServerAnswers /\ DeepestRoute
  /\ step = "route" => rt < pos

LEMMA LookupInit == RequestInit => LookupInv
BY DEF RequestInit, LookupInv, FirstServerAnswers, DeepestRoute

\* A step that leaves the request, the servers and the choice as they are.
LEMMA LookupUntouched ==
  ASSUME LookupInv, UNCHANGED <<servers, req, sv, rt>>,
         \/ UNCHANGED <<step, pos>>
         \/ /\ step' \notin {"server", "route"} /\ sv # 0
            /\ step = "route" => DOMAIN Routes \subseteq 1..(pos - 1)
  PROVE  LookupInv'
<1>1. \A i : MatchingServer(i)' <=> MatchingServer(i)
  BY DEF MatchingServer, ServesPort, ServesHost
<1>2. /\ UNCHANGED <<Routes, route>>
      /\ \A r : Serves(r)' <=> Serves(r)
  BY DEF Serves, Routes, route
<1>3. FirstServerAnswers'
  BY <1>1 DEF LookupInv, FirstServerAnswers
<1>4. DeepestRoute'
  BY <1>2 DEF LookupInv, DeepestRoute
<1> QED
  BY <1>3, <1>4 DEF LookupInv

LEMMA LookupServer ==
  ASSUME RequestTypeInv, LookupInv, FindServer
  PROVE  LookupInv'
<1>1. /\ step = "server" /\ sv = 0 /\ rt = 0 /\ pos \in Nat \ {0}
      /\ UNCHANGED <<servers, req, rt>> /\ servers \in Seq(Server)
  BY DEF FindServer, RequestTypeInv, RequestTypeOK, ConfigTypeOK, UnchangedWorld
<1>2. \A i : MatchingServer(i)' <=> MatchingServer(i)
  BY <1>1 DEF MatchingServer, ServesPort, ServesHost
<1>3. \A i \in 1..(pos - 1) : ~MatchingServer(i)
  BY <1>1 DEF LookupInv, FirstServerAnswers
<1>4. CASE pos > Len(servers) /\ step' = "answered" /\ sv' = 0
  BY <1>1, <1>2, <1>3, <1>4 DEF LookupInv, FirstServerAnswers, DeepestRoute
<1>5. CASE pos \in DOMAIN servers /\ MatchingServer(pos) /\ step' = "route" /\ pos' = 1 /\ sv' = pos
  <2>1. FirstServerAnswers'
    BY <1>1, <1>2, <1>3, <1>5 DEF FirstServerAnswers
  <2>2. 1..(pos' - 1) = {} /\ rt' = 0
    BY <1>1, <1>5
  <2> QED
    BY <1>5, <2>1, <2>2 DEF LookupInv, DeepestRoute
<1>6. CASE pos \in DOMAIN servers /\ ~MatchingServer(pos) /\ step' = "server" /\ pos' = pos + 1 /\ sv' = 0
  <2>1. \A i \in 1..(pos' - 1) : i = pos \/ i \in 1..(pos - 1)
    BY <1>1, <1>6
  <2> QED
    BY <1>2, <1>3, <1>6, <2>1 DEF LookupInv, FirstServerAnswers, DeepestRoute
<1> QED
  BY <1>1, <1>4, <1>5, <1>6 DEF FindServer, Answer, Continue, Go

LEMMA LookupRoute ==
  ASSUME RequestTypeInv, LookupInv, FindRoute
  PROVE  LookupInv'
<1> DEFINE L(r) == Len(Routes[r].req_path)
<1>1. /\ step = "route" /\ sv # 0 /\ pos \in Nat \ {0} /\ pos \in DOMAIN Routes
      /\ Routes \in Seq(Route) /\ rt \in {0} \cup DOMAIN Routes /\ req.path \in Text
      /\ rt < pos /\ rt \in Nat
  <2>1. step = "route" /\ sv \in DOMAIN servers /\ ConfigTypeOK /\ sv # 0
    BY DEF FindRoute, RequestTypeInv, RequestTypeOK, ConfigTypeOK, Steps
  <2>2. Routes \in Seq(Route)
    BY <2>1, ServerAt DEF Routes
  <2> QED
    BY <2>1, <2>2 DEF FindRoute, RequestTypeInv, LookupInv, Routes
<1>2. \A r \in DOMAIN Routes : Routes[r].req_path \in Text /\ L(r) \in Nat
                             /\ (L(r) = 0 <=> Routes[r].req_path = <<>>)
  <2> SUFFICES ASSUME NEW r \in DOMAIN Routes
               PROVE  Routes[r].req_path \in Text /\ L(r) \in Nat
                      /\ (L(r) = 0 <=> Routes[r].req_path = <<>>)
    OBVIOUS
  <2>1. Routes[r] \in Route
    BY <1>1
  <2>2. Routes[r].req_path \in Text
    BY <2>1 DEF Route
  <2>3. Routes[r].req_path \in Seq(Character)
    BY <2>2, ConfigAssumption
  <2> QED
    BY <2>2, <2>3
<1>3. /\ UNCHANGED <<servers, req, sv>> /\ step' = "route" /\ pos' = pos + 1
      /\ UNCHANGED Routes
  BY <1>1 DEF FindRoute, Continue, Go, UnchangedWorld, Routes
<1>4. \A r : Serves(r)' <=> Serves(r)
  BY <1>3 DEF Serves
<1>5. FirstServerAnswers'
  <2>1. \A i : MatchingServer(i)' <=> MatchingServer(i)
    BY <1>3 DEF MatchingServer, ServesPort, ServesHost
  <2> QED
    BY <1>1, <1>3, <2>1 DEF LookupInv, FirstServerAnswers
<1>6. \A r \in 1..(pos' - 1) : r = pos \/ r \in 1..(pos - 1)
  BY <1>1, <1>3
<1>7. Serves(pos) <=> str_starts_with(req.path, Routes[pos].req_path) /\ L(pos) > 0
  <2>1. Routes[pos].req_path # <<>> =>
          (str_starts_with(req.path, Routes[pos].req_path) <=> Covers(Routes[pos].req_path, req.path))
    BY <1>1, <1>2, ConfigAssumption, StartsWithCovers
  <2> QED
    BY <1>1, <1>2, <2>1 DEF Serves
<1>8. /\ rt # 0 => Serves(rt) /\ best_match_len = L(rt)
      /\ rt = 0 => best_match_len = 0
      /\ \A r \in 1..(pos - 1) : Serves(r) =>
           rt # 0 /\ (L(r) < L(rt) \/ (L(r) = L(rt) /\ rt <= r))
  BY <1>1 DEF LookupInv, DeepestRoute, best_match_len, route
<1>9. CASE rt' = pos /\ str_starts_with(req.path, Routes[pos].req_path) /\ L(pos) > best_match_len
  <2>1. Serves(pos) /\ L(pos) \in Nat
    BY <1>1, <1>2, <1>7, <1>8, <1>9
  <2>2. \A r \in 1..(pos - 1) : Serves(r) => L(r) < L(pos)
    <3> SUFFICES ASSUME NEW r \in 1..(pos - 1), Serves(r) PROVE L(r) < L(pos)
      OBVIOUS
    <3>1. rt # 0 /\ (L(r) < L(rt) \/ L(r) = L(rt))
      BY <1>8
    <3>2. best_match_len = L(rt)
      BY <1>8, <3>1
    <3>3. L(rt) < L(pos)
      BY <1>9, <3>2
    <3>4. r \in DOMAIN Routes /\ rt \in DOMAIN Routes
      BY <1>1, <3>1
    <3>5. L(r) \in Nat /\ L(rt) \in Nat /\ L(pos) \in Nat
      BY <1>1, <1>2, <3>4
    <3> HIDE DEF L
    <3> QED
      BY <3>1, <3>3, <3>5
  <2>3. route' = Routes[pos]
    BY <1>3, <1>9 DEF route
  <2>4. pos # 0 /\ pos <= pos
    BY <1>1
  <2> QED
    BY <1>1, <1>3, <1>4, <1>5, <1>6, <1>9, <2>1, <2>2, <2>3, <2>4 DEF LookupInv, DeepestRoute
<1>10. CASE rt' = rt /\ ~(str_starts_with(req.path, Routes[pos].req_path) /\ L(pos) > best_match_len)
  <2>1. Serves(pos) => rt # 0 /\ L(pos) <= L(rt)
    BY <1>1, <1>2, <1>7, <1>8, <1>10
  <2>2. rt # 0 => L(rt) \in Nat /\ L(pos) \in Nat
    BY <1>1, <1>2
  <2>3. Serves(pos) => rt # 0 /\ (L(pos) < L(rt) \/ (L(pos) = L(rt) /\ rt <= pos))
    BY <1>1, <2>1, <2>2
  <2>4. route' = Routes[rt]
    BY <1>3, <1>10 DEF route
  <2>5. rt' < pos'
    BY <1>1, <1>3, <1>10
  <2> QED
    BY <1>3, <1>4, <1>5, <1>6, <1>8, <1>10, <2>3, <2>4, <2>5 DEF LookupInv, DeepestRoute
<1> QED
  BY <1>9, <1>10 DEF FindRoute, Better

LEMMA LookupStep == RequestTypeInv /\ LookupInv /\ [RequestNext]_allVars => LookupInv'
<1> SUFFICES ASSUME RequestTypeInv, LookupInv, [RequestNext]_allVars PROVE LookupInv'
  OBVIOUS
<1>1. CASE UNCHANGED allVars
  BY <1>1, LookupUntouched DEF allVars, configVars, requestVars
<1>2. CASE Start
  <2>1. UNCHANGED requestVars
    BY <1>2 DEF Start
  <2>2. CASE phase = "parsing"
    <3>1. step = "idle" /\ sv = 0
      BY <2>2 DEF RequestTypeInv
    <3> QED
      BY <2>1, <3>1 DEF requestVars, LookupInv, FirstServerAnswers, DeepestRoute
  <2>3. CASE phase # "parsing"
    <3>1. UNCHANGED servers
      BY <1>2, <2>3 DEF Start, StartStep, xps_config_create, UnreadableFile, MergeListener, NextServer,
                        AllMerged, BindListener, AllBound
    <3> QED
      BY <2>1, <3>1, LookupUntouched DEF requestVars
  <2> QED
    BY <2>2, <2>3
<1>3. CASE Arrive
  <2>1. /\ sv' = 0
        /\ \/ step' = "answered" /\ req'.path = NULL
           \/ step' = "server" /\ pos' = 1
    BY <1>3 DEF Arrive, Answer, Continue, Go, RequestTypeInv
  <2>2. pos' = 1 => \A i \in 1..(pos' - 1) : FALSE
    OBVIOUS
  <2> QED
    BY <2>1, <2>2 DEF LookupInv, FirstServerAnswers, DeepestRoute
<1>4. CASE Finish
  BY <1>4 DEF Finish, Go, LookupInv, FirstServerAnswers, DeepestRoute
<1>5. CASE Change
  BY <1>5, LookupUntouched DEF Change, configVars, requestVars
<1>6. CASE phase = "serving" /\ session_process_request
  <2>1. CASE RouteFound \/ Locate \/ IsFile \/ IsDir \/ FindIndex
             \/ xps_file_create \/ xps_directory_browsing \/ OtherRoutes
    <3>1. UNCHANGED <<servers, req, sv, rt>> /\ step' \notin {"server", "route"} /\ sv # 0
          /\ (step = "route" => pos > Len(Routes))
      BY <2>1, ChosenMoves
    <3>2. pos \in Nat /\ (step = "route" => Routes \in Seq(Route))
      <4>1. step = "route" => sv \in DOMAIN servers /\ ConfigTypeOK
        BY DEF RequestTypeInv, RequestTypeOK, Steps
      <4> QED
        BY <4>1, ServerAt DEF RequestTypeInv, Routes
    <3>3. step = "route" => DOMAIN Routes \subseteq 1..(pos - 1)
      BY <3>1, <3>2
    <3> QED
      BY <3>1, <3>3, LookupUntouched
  <2> QED
    BY <1>6, <2>1, LookupServer, LookupRoute DEF session_process_request, xps_config_lookup
<1> QED
  BY <1>1, <1>2, <1>3, <1>4, <1>5, <1>6 DEF RequestNext, Stopped, session_process_request

(***************************************************************************)
(* The first matching server answers, with the first of its longest routes *)
(* that cover the path (xps_config_lookup, str_starts_with): for any       *)
(* configuration file and any request.                                     *)
(***************************************************************************)
THEOREM DeepestRouteHolds == RequestSpec => []DeepestRouteAnswers
<1>1. RequestSpec => []RequestTypeInv
  BY RequestTypeInit, RequestTypeStep, PTL DEF RequestSpec
<1>2. RequestSpec => []LookupInv
  BY <1>1, LookupInit, LookupStep, PTL DEF RequestSpec
<1>3. LookupInv => DeepestRouteAnswers
  BY DEF LookupInv, DeepestRouteAnswers
<1> QED
  BY <1>2, <1>3, PTL

-----------------------------------------------------------------------------
(***************************************************************************)
(* NothingMadeUp.  What the last look found is in the set of what has been *)
(* seen, which only grows until the request is answered.                   *)
(***************************************************************************)
Listed(n) == \E f \in seen : n \in Children(f, target)

SeenInv ==
  /\ NothingMadeUp
  /\ step # "idle" => fs \in seen
  /\ step # "answered" => answer = NoAnswer
  /\ step \notin {"readdir", "answered"} => rows = {}
  /\ step = "fopen" => \E f \in seen : KindIn(f, target) \notin {"none", "private"}
  /\ step = "readdir" => \A n \in left \cup rows : Listed(n)

LEMMA SeenInit == RequestInit => SeenInv
BY DEF RequestInit, SeenInv, NothingMadeUp

\* A step that answers without a body, or goes on, to no file and no page.
LEMMA SeenPlain ==
  ASSUME SeenInv, step # "answered", UNCHANGED <<fs, seen, rows>>, step # "idle",
         \/ step' = "answered" /\ answer'.body \notin {"file", "page"}
         \/ /\ step' \notin {"answered", "readdir", "fopen"} /\ answer' = answer
            /\ step # "readdir"
  PROVE  SeenInv'
BY DEF SeenInv, NothingMadeUp

LEMMA AnswerIs ==
  ASSUME NEW status, NEW body, Answer(status, body)
  PROVE  answer' = [status |-> status, body |-> body] /\ answer'.body = body /\ step' = "answered"
BY DEF Answer, Go

LEMMA SeenRequest ==
  ASSUME SeenInv, session_process_request
  PROVE  SeenInv'
<1>1. step # "idle" /\ fs \in seen
  BY DEF SeenInv, session_process_request, xps_config_lookup, FindServer, FindRoute, RouteFound, Locate,
         IsFile, IsDir, FindIndex, xps_file_create, ResolveFile, ResolvePublic, Stat, Open,
         OtherRoutes, xps_directory_browsing, OpenDirectory, ReadDirectory, EndPage
<1>2. step # "answered" /\ answer = NoAnswer /\ answer.body = "none"
  BY DEF SeenInv, NoAnswer, session_process_request, xps_config_lookup, FindServer, FindRoute, RouteFound,
         Locate, IsFile, IsDir, FindIndex, xps_file_create, ResolveFile, ResolvePublic, Stat, Open,
         OtherRoutes, xps_directory_browsing, OpenDirectory, ReadDirectory, EndPage
<1>3. CASE FindServer \/ FindRoute \/ RouteFound
  BY <1>1, <1>2, <1>3, AnswerIs, SeenPlain
  DEF FindServer, FindRoute, RouteFound, UnchangedWorld, UnchangedPage, Continue, Abort, Go
<1>4. CASE Locate \/ IsFile \/ IsDir \/ FindIndex
  BY <1>1, <1>2, <1>4, AnswerIs, SeenPlain
  DEF Locate, IsFile, IsDir, FindIndex, Dispatch, UnchangedWorld, UnchangedPage, Continue, Go
<1>5. CASE ResolveFile \/ ResolvePublic
  BY <1>1, <1>2, <1>5, AnswerIs, SeenPlain
  DEF ResolveFile, ResolvePublic, UnchangedWorld, UnchangedPage, Continue, Go
<1>6. CASE Stat
  <2>1. UNCHANGED <<fs, seen, rows, target>> /\ step = "stat"
    BY <1>6 DEF Stat, UnchangedWorld, UnchangedPage
  <2>2. CASE step' = "answered" /\ answer'.body = "none"
    BY <1>1, <1>2, <2>1, <2>2, SeenPlain
  <2>3. CASE step' = "fopen" /\ KindIn(fs, target) \notin {"none", "private"} /\ answer' = answer
    BY <1>1, <1>2, <2>1, <2>3 DEF SeenInv, NothingMadeUp
  <2> QED
    BY <1>6, <2>2, <2>3, AnswerIs DEF Stat, NotThere, ReadableByOthers, Continue, Go
<1>7. CASE Open
  <2>1. UNCHANGED <<fs, seen, rows, target>> /\ step = "fopen"
    BY <1>7 DEF Open, UnchangedWorld, UnchangedPage
  <2>2. CASE step' = "answered" /\ answer'.body = "none"
    BY <1>1, <1>2, <2>1, <2>2, SeenPlain
  <2>3. CASE step' = "answered" /\ KindIn(fs, target) \notin {"none", "locked"} /\ answer'.body = "file"
    BY <1>1, <1>2, <2>1, <2>3 DEF SeenInv, NothingMadeUp
  <2> QED
    BY <1>7, <2>2, <2>3, AnswerIs DEF Open, NotThere
<1>8. CASE OpenDirectory
  <2>1. UNCHANGED <<fs, seen, rows, target>> /\ step = "page" /\ rows = {}
    BY <1>8 DEF OpenDirectory, UnchangedWorld, SeenInv
  <2>2. CASE step' = "answered" /\ answer'.body = "none"
    BY <1>1, <1>2, <2>1, <2>2, SeenPlain
  <2>3. CASE step' = "readdir" /\ left' = Children(fs, target) /\ answer' = answer
    BY <1>1, <1>2, <2>1, <2>3 DEF SeenInv, NothingMadeUp, Listed
  <2> QED
    BY <1>8, <2>2, <2>3, AnswerIs DEF OpenDirectory, Continue, Go
<1>9. CASE ReadDirectory
  <2>1. /\ UNCHANGED <<fs, seen, target, answer>> /\ step = "readdir" /\ step' = "readdir"
        /\ left' \cup rows' \subseteq left \cup rows
    BY <1>9 DEF ReadDirectory, UnchangedWorld, Continue, Go
  <2> QED
    BY <1>1, <1>2, <2>1 DEF SeenInv, NothingMadeUp, Listed
<1>10. CASE EndPage
  <2>1. UNCHANGED <<fs, seen, rows, left, target>> /\ step = "readdir"
    BY <1>10 DEF EndPage, UnchangedWorld
  <2>2. step' = "answered" /\ answer'.body \in {"none", "page"}
    BY <1>10, AnswerIs DEF EndPage
  <2> QED
    BY <1>1, <1>2, <2>1, <2>2 DEF SeenInv, NothingMadeUp, Listed
<1>11. CASE OtherRoutes
  BY <1>1, <1>2, <1>11, AnswerIs, SeenPlain
  DEF OtherRoutes, UnchangedWorld, UnchangedPage, Abort, Go
<1> QED
  BY <1>3, <1>4, <1>5, <1>6, <1>7, <1>8, <1>9, <1>10, <1>11
  DEF session_process_request, xps_config_lookup, xps_file_create, xps_directory_browsing

LEMMA SeenStep == SeenInv /\ [RequestNext]_allVars => SeenInv'
<1> SUFFICES ASSUME SeenInv, [RequestNext]_allVars PROVE SeenInv'
  OBVIOUS
<1>1. CASE UNCHANGED allVars
  BY <1>1 DEF allVars, configVars, requestVars, SeenInv, NothingMadeUp, Listed
<1>2. CASE Start
  BY <1>2 DEF Start, requestVars, SeenInv, NothingMadeUp, Listed
<1>3. CASE Arrive
  <2>1. /\ step = "idle" /\ rows = {} /\ answer.body = "none" /\ answer = NoAnswer
        /\ UNCHANGED <<fs, rows>> /\ seen' = {fs}
    BY <1>3 DEF Arrive, UnchangedPage, SeenInv, NoAnswer
  <2>2. \/ step' = "answered" /\ answer'.body = "none"
        \/ step' = "server" /\ answer' = answer
    BY <1>3, AnswerIs DEF Arrive, Continue, Go
  <2> QED
    BY <2>1, <2>2 DEF SeenInv, NothingMadeUp
<1>4. CASE Finish
  BY <1>4 DEF Finish, Go, SeenInv, NothingMadeUp
<1>5. CASE Change
  <2>1. /\ UNCHANGED <<step, target, rows, left, answer>> /\ step # "answered"
        /\ seen \subseteq seen' /\ fs' \in seen'
    BY <1>5 DEF Change, requestVars
  <2> QED
    BY <2>1 DEF SeenInv, NothingMadeUp, Listed
<1> QED
  BY <1>1, <1>2, <1>3, <1>4, <1>5, SeenRequest DEF RequestNext, Stopped

(***************************************************************************)
(* However the files change between the looks that the code takes at them  *)
(* (xps_file_create, xps_directory_browsing), no file is served that was   *)
(* never there to be read, and no page lists what never was there.         *)
(***************************************************************************)
THEOREM NothingIsMadeUp == RequestSpec => []NothingMadeUp
<1>1. RequestSpec => []SeenInv
  BY SeenInit, SeenStep, PTL DEF RequestSpec
<1>2. SeenInv => NothingMadeUp
  BY DEF SeenInv
<1> QED
  BY <1>1, <1>2, PTL

-----------------------------------------------------------------------------
(***************************************************************************)
(* PageMissesNothing.  What the page has used is its head and a row for    *)
(* each entry on it, so the first entry that does not fit shows that not   *)
(* all of the directory does.                                              *)
(***************************************************************************)
LEMMA RowsFinite ==
  ASSUME NEW N, N \subseteq Nodes
  PROVE  IsFiniteSet(RowBytes(N)) /\ Cardinality(RowBytes(N)) \in Nat
<1> DEFINE row == [n \in N |-> {n} \X (1..RowSize[n])]
           rowSet == {{n} \X (1..RowSize[n]) : n \in N}
<1>1. IsFiniteSet(N)
  <2>1. N \in SUBSET Nodes /\ IsFiniteSet(Nodes)
    BY RequestAssumption
  <2> QED
    BY <2>1, FS_Subset
<1>2. row \in Surjection(N, rowSet)
  <2>1. row \in [N -> rowSet]
    OBVIOUS
  <2>2. \A y \in rowSet : \E n \in N : row[n] = y
    OBVIOUS
  <2> HIDE DEF row, rowSet
  <2> QED
    BY <2>1, <2>2 DEF Surjection
<1>3. IsFiniteSet(rowSet)
  <2> HIDE DEF row, rowSet
  <2> QED
    BY <1>1, <1>2, FS_Surjection
<1>4. \A T \in rowSet : IsFiniteSet(T)
  <2> SUFFICES ASSUME NEW n \in N PROVE IsFiniteSet({n} \X (1..RowSize[n]))
    OBVIOUS
  <2>1. RowSize[n] \in Int
    BY RequestAssumption
  <2>2. IsFiniteSet(1..RowSize[n])
    BY <2>1, FS_Interval
  <2>3. IsFiniteSet({n})
    BY FS_Singleton
  <2> QED
    BY <2>2, <2>3, FS_Product
<1>5. IsFiniteSet(UNION rowSet)
  <2> HIDE DEF rowSet
  <2> QED
    BY <1>3, <1>4, FS_UNION
<1> QED
  BY <1>5, FS_CardinalityType DEF RowBytes

LEMMA RowsOfMore ==
  ASSUME NEW N, NEW M, N \subseteq M, M \subseteq Nodes
  PROVE  Cardinality(RowBytes(N)) <= Cardinality(RowBytes(M))
<1>1. RowBytes(N) \in SUBSET RowBytes(M)
  BY DEF RowBytes
<1>2. IsFiniteSet(RowBytes(M))
  BY RowsFinite
<1> QED
  BY <1>1, <1>2, FS_Subset

LEMMA OneMoreRow ==
  ASSUME NEW N, N \subseteq Nodes, NEW n \in Nodes, n \notin N
  PROVE  Cardinality(RowBytes(N \cup {n})) = Cardinality(RowBytes(N)) + RowSize[n]
<1> DEFINE R == RowBytes(N)
           r == {n} \X (1..RowSize[n])
<1>1. RowBytes(N \cup {n}) = R \cup r /\ R \cap r = {}
  BY DEF RowBytes
<1>2. IsFiniteSet(R) /\ Cardinality(R) \in Nat
  BY RowsFinite
<1>3. IsFiniteSet(r) /\ Cardinality(r) = RowSize[n]
  <2>1. RowSize[n] \in Nat
    BY RequestAssumption
  <2>2. IsFiniteSet(1..RowSize[n]) /\ Cardinality(1..RowSize[n]) = RowSize[n]
    BY <2>1, FS_Interval
  <2>3. IsFiniteSet({n}) /\ Cardinality({n}) = 1
    BY FS_Singleton
  <2> DEFINE c == 1..RowSize[n]
  <2>4. IsFiniteSet(r) /\ Cardinality(r) = Cardinality({n}) * Cardinality(c)
    <3> HIDE DEF c
    <3>1. IsFiniteSet({n}) /\ IsFiniteSet(c)
      BY <2>2, <2>3 DEF c
    <3>2. IsFiniteSet({n} \X c) /\ Cardinality({n} \X c) = Cardinality({n}) * Cardinality(c)
      BY <3>1, FS_Product, Zenon
    <3> QED
      BY <3>2, Zenon DEF c
  <2>5. Cardinality(r) = 1 * RowSize[n]
    BY <2>2, <2>3, <2>4, Zenon
  <2>6. 1 * RowSize[n] = RowSize[n]
    BY <2>1
  <2> QED
    BY <2>4, <2>5, <2>6, Zenon
<1> HIDE DEF R, r
<1>4. Cardinality(R \cup r) = Cardinality(R) + Cardinality(r) - Cardinality(R \cap r)
  BY <1>2, <1>3, FS_Union
<1>5. Cardinality(R \cap r) = 0
  BY <1>1, FS_EmptySet
<1>6. RowSize[n] \in Nat
  BY RequestAssumption
<1>7. Cardinality(R \cup r) = Cardinality(R) + RowSize[n]
  BY <1>2, <1>3, <1>4, <1>5, <1>6
<1> QED
  BY <1>1, <1>7, Zenon DEF R

LEMMA NoRows == Cardinality(RowBytes({})) = 0
BY FS_EmptySet DEF RowBytes

\* What has been in the directory at some moment, and what at every one.
Ever == UNION {Children(f, target) : f \in seen}
Always(n) == \A f \in seen : n \in Children(f, target)

PageInv ==
  /\ PageMissesNothing
  /\ step = "readdir" =>
       /\ rows \cap left = {}
       /\ used = HeadSize + Cardinality(RowBytes(rows))
       /\ PageFits(Ever) => \A n \in Nodes : Always(n) => n \in rows \cup left

LEMMA EverNodes == Ever \subseteq Nodes
BY DEF Ever, Children

LEMMA FitsLess ==
  ASSUME NEW N, NEW M, N \subseteq M, M \subseteq Nodes, PageFits(M)
  PROVE  HeadSize + Cardinality(RowBytes(N)) < PageRoom
<1>1. Cardinality(RowBytes(N)) \in Nat /\ Cardinality(RowBytes(M)) \in Nat
  BY RowsFinite
<1>2. Cardinality(RowBytes(N)) <= Cardinality(RowBytes(M))
  BY RowsOfMore
<1>3. HeadSize \in Nat /\ FootSize \in Nat /\ PageRoom \in Nat
  BY RequestAssumption
<1>4. HeadSize + Cardinality(RowBytes(M)) + FootSize < PageRoom
  BY DEF PageFits
<1> QED
  BY <1>1, <1>2, <1>3, <1>4

LEMMA FitsFewer ==
  ASSUME NEW N, NEW M, N \subseteq M, M \subseteq Nodes, PageFits(M)
  PROVE  PageFits(N)
<1>1. Cardinality(RowBytes(N)) \in Nat /\ Cardinality(RowBytes(M)) \in Nat
  BY RowsFinite
<1>2. Cardinality(RowBytes(N)) <= Cardinality(RowBytes(M))
  BY RowsOfMore
<1>3. HeadSize \in Nat /\ FootSize \in Nat /\ PageRoom \in Nat
  BY RequestAssumption
<1>4. HeadSize + Cardinality(RowBytes(M)) + FootSize < PageRoom
  BY DEF PageFits
<1>5. HeadSize + Cardinality(RowBytes(N)) + FootSize < PageRoom
  BY <1>1, <1>2, <1>3, <1>4
<1> QED
  BY <1>5 DEF PageFits

LEMMA PageInit == RequestInit => PageInv
BY DEF RequestInit, PageInv, PageMissesNothing

\* A step that neither is on a page nor answers with one.
LEMMA PagePlain ==
  ASSUME step' # "readdir", step' = "answered" => answer'.body # "page"
  PROVE  PageInv'
BY DEF PageInv, PageMissesNothing

LEMMA PageRead ==
  ASSUME RequestTypeInv, SeenInv, PageInv, ReadDirectory
  PROVE  PageInv'
<1>1. /\ step = "readdir" /\ step' = "readdir" /\ UNCHANGED <<fs, seen, target>>
      /\ fs \in seen /\ rows \subseteq Nodes /\ left \subseteq Nodes
      /\ rows \cup left \subseteq Ever
  BY DEF ReadDirectory, Continue, Go, UnchangedWorld, SeenInv, RequestTypeInv, RequestTypeOK, Listed, Ever
<1>2. /\ rows \cap left = {}
      /\ used = HeadSize + Cardinality(RowBytes(rows))
      /\ PageFits(Ever) => \A n \in Nodes : Always(n) => n \in rows \cup left
  BY <1>1 DEF PageInv
<1>3. PICK n \in left :
       \/ /\ ~Listable(n)
          /\ left' = left \ {n} /\ UNCHANGED <<rows, used>>
       \/ /\ Listable(n) /\ Fits(RowSize[n])
          /\ left' = left \ {n} /\ rows' = rows \cup {n} /\ used' = used + RowSize[n]
       \/ /\ Listable(n) /\ ~Fits(RowSize[n])
          /\ left' = {} /\ UNCHANGED <<rows, used>>
  BY DEF ReadDirectory
<1>4. n \in Nodes /\ n \notin rows /\ RowSize[n] \in Nat
  BY <1>1, <1>2, RequestAssumption
<1>5. Ever' = Ever /\ \A m : Always(m)' <=> Always(m)
  BY <1>1 DEF Ever, Always
<1>6. PageFits(Ever)' <=> PageFits(Ever)
  BY <1>5 DEF PageFits
<1>7. Cardinality(RowBytes(rows \cup {n})) = Cardinality(RowBytes(rows)) + RowSize[n]
  BY <1>1, <1>4, OneMoreRow
<1>8. Cardinality(RowBytes(rows)) \in Nat /\ HeadSize \in Nat
  BY <1>1, RowsFinite, RequestAssumption
<1>9. CASE ~Listable(n) /\ left' = left \ {n} /\ UNCHANGED <<rows, used>>
  <2>1. ~Always(n)
    BY <1>1, <1>9 DEF Always, Children, Listable
  <2>2. PageFits(Ever)' => \A m \in Nodes : Always(m)' => m \in rows' \cup left'
    BY <1>2, <1>5, <1>6, <1>9, <2>1
  <2>3. rows' \cap left' = {} /\ used' = HeadSize + Cardinality(RowBytes(rows'))
    BY <1>2, <1>9
  <2> QED
    BY <1>1, <2>2, <2>3 DEF PageInv, PageMissesNothing
<1>10. CASE left' = left \ {n} /\ rows' = rows \cup {n} /\ used' = used + RowSize[n]
  <2>1. used' = HeadSize + Cardinality(RowBytes(rows'))
    BY <1>2, <1>4, <1>7, <1>8, <1>10
  <2>2. PageFits(Ever)' => \A m \in Nodes : Always(m)' => m \in rows' \cup left'
    BY <1>2, <1>5, <1>6, <1>10
  <2>3. rows' \cap left' = {}
    BY <1>2, <1>10
  <2> QED
    BY <1>1, <2>1, <2>2, <2>3 DEF PageInv, PageMissesNothing
<1>11. CASE ~Fits(RowSize[n]) /\ left' = {} /\ UNCHANGED <<rows, used>>
  <2>1. ~PageFits(Ever)
    <3> SUFFICES ASSUME PageFits(Ever) PROVE FALSE
      OBVIOUS
    <3>1. rows \cup {n} \subseteq Ever
      BY <1>1
    <3>2. HeadSize + Cardinality(RowBytes(rows \cup {n})) < PageRoom
      BY <3>1, EverNodes, FitsLess
    <3>3. used + RowSize[n] < PageRoom
      BY <1>2, <1>4, <1>7, <1>8, <3>2
    <3> QED
      BY <1>11, <3>3 DEF Fits
  <2>2. rows' \cap left' = {} /\ used' = HeadSize + Cardinality(RowBytes(rows'))
    BY <1>2, <1>11
  <2> QED
    BY <1>1, <1>6, <2>1, <2>2 DEF PageInv, PageMissesNothing
<1> QED
  BY <1>3, <1>9, <1>10, <1>11

LEMMA PageRequest ==
  ASSUME RequestTypeInv, SeenInv, PageInv, session_process_request
  PROVE  PageInv'
<1>1. step # "answered"
  BY DEF session_process_request, xps_config_lookup, FindServer, FindRoute, RouteFound,
         Locate, IsFile, IsDir, FindIndex, xps_file_create, ResolveFile, ResolvePublic, Stat, Open,
         OtherRoutes, xps_directory_browsing, OpenDirectory, ReadDirectory, EndPage
<1>2. answer.body = "none"
  BY <1>1 DEF SeenInv, NoAnswer
<1>3. CASE FindServer \/ FindRoute \/ RouteFound
  BY <1>2, <1>3, AnswerIs, PagePlain DEF FindServer, FindRoute, RouteFound, Continue, Abort, Go
<1>4. CASE Locate \/ IsFile \/ IsDir \/ FindIndex
  BY <1>2, <1>4, AnswerIs, PagePlain DEF Locate, IsFile, IsDir, FindIndex, Dispatch, Continue, Go
<1>5. CASE xps_file_create
  BY <1>2, <1>5, AnswerIs, PagePlain
  DEF xps_file_create, ResolveFile, ResolvePublic, Stat, Open, NotThere, Continue, Go
<1>6. CASE OtherRoutes
  BY <1>2, <1>6, AnswerIs, PagePlain DEF OtherRoutes, Abort, Go
<1>7. CASE OpenDirectory
  <2>1. CASE step' = "answered" /\ answer'.body = "none"
    BY <2>1, PagePlain
  <2>2. CASE /\ step' = "readdir" /\ used' = HeadSize /\ left' = Children(fs, target)
             /\ UNCHANGED <<fs, seen, target, rows>> /\ step = "page"
    <3>1. rows = {} /\ fs \in seen
      BY <2>2 DEF SeenInv
    <3>2. rows' = {} /\ Cardinality(RowBytes(rows')) = 0
      BY <2>2, <3>1, NoRows
    <3>3. used' = HeadSize + Cardinality(RowBytes(rows'))
      BY <2>2, <3>2, RequestAssumption
    <3>4. \A n \in Nodes : Always(n)' => n \in left'
      BY <2>2, <3>1 DEF Always
    <3> QED
      BY <2>2, <3>2, <3>3, <3>4 DEF PageInv, PageMissesNothing
  <2> QED
    BY <1>7, <2>1, <2>2, AnswerIs DEF OpenDirectory, UnchangedWorld, Continue, Go
<1>8. CASE EndPage
  <2>1. UNCHANGED <<fs, seen, target, left, rows>> /\ step = "readdir" /\ left = {}
        /\ step' = "answered"
    BY <1>8, AnswerIs DEF EndPage, UnchangedWorld
  <2>2. PageFits(Ever) => \A n \in Nodes : Always(n) => n \in rows
    BY <2>1 DEF PageInv
  <2>3. PageFits(UNION {Children(f, target) : f \in seen}) =>
          \A n \in Nodes : (\A f \in seen : n \in Children(f, target)) => n \in rows
    BY <2>2 DEF Ever, Always
  <2>4. PageMissesNothing'
    BY <2>1, <2>3 DEF PageMissesNothing, PageFits
  <2> QED
    BY <2>1, <2>4 DEF PageInv
<1> QED
  BY <1>3, <1>4, <1>5, <1>6, <1>7, <1>8, PageRead
  DEF session_process_request, xps_config_lookup, xps_directory_browsing

LEMMA PageStep == RequestTypeInv /\ SeenInv /\ PageInv /\ [RequestNext]_allVars => PageInv'
<1> SUFFICES ASSUME RequestTypeInv, SeenInv, PageInv, [RequestNext]_allVars PROVE PageInv'
  OBVIOUS
<1>1. CASE UNCHANGED <<seen, requestVars>>
  BY <1>1 DEF requestVars, PageInv, PageMissesNothing, Ever, Always, PageFits
<1>2. CASE UNCHANGED allVars \/ Start
  BY <1>1, <1>2 DEF allVars, Start
<1>3. CASE Arrive
  BY <1>3, AnswerIs, PagePlain DEF Arrive, Continue, Go
<1>4. CASE Finish
  BY <1>4, PagePlain DEF Finish, Go
<1>5. CASE Change
  <2>1. /\ UNCHANGED <<step, target, rows, left, used, answer>> /\ step # "answered"
        /\ seen \subseteq seen' /\ seen' \subseteq seen \cup {fs'}
    BY <1>5 DEF Change, requestVars
  <2>2. Ever \subseteq Ever' /\ \A n : Always(n)' => Always(n)
    BY <2>1 DEF Ever, Always
  <2>3. Ever' \subseteq Nodes
    BY DEF Ever, Children
  <2>4. PageFits(Ever') => PageFits(Ever)
    BY <2>2, <2>3, FitsFewer
  <2>5. PageFits(Ever)' <=> PageFits(Ever')
    BY DEF PageFits
  <2> QED
    BY <2>1, <2>2, <2>4, <2>5 DEF PageInv, PageMissesNothing
<1> QED
  BY <1>2, <1>3, <1>4, <1>5, PageRequest DEF RequestNext, Stopped

(***************************************************************************)
(* Whatever changes while xps_directory_browsing reads a directory, an     *)
(* entry that is there all the time is on the page, if the page has room   *)
(* for everything that was there at some moment.                           *)
(***************************************************************************)
THEOREM PagesMissNothing == RequestSpec => []PageMissesNothing
<1>1. RequestSpec => []RequestTypeInv
  BY RequestTypeInit, RequestTypeStep, PTL DEF RequestSpec
<1>2. RequestSpec => []SeenInv
  BY SeenInit, SeenStep, PTL DEF RequestSpec
<1>3. RequestSpec => []PageInv
  BY <1>1, <1>2, PageInit, PageStep, PTL DEF RequestSpec
<1>4. PageInv => PageMissesNothing
  BY DEF PageInv
<1> QED
  BY <1>3, <1>4, PTL

-----------------------------------------------------------------------------
(***************************************************************************)
(* Paths.  Canonical walks over the characters of a path; what it makes of *)
(* them is proved by induction on how many have been read.                 *)
(***************************************************************************)
\* c holds what is read of the first characters of p, for every number of them.
Reads(c, p) ==
  /\ c[0] = <<>>
  /\ \A i \in 0..(Len(p) - 1) : c[i + 1] = IF Counts(p, i + 1) THEN Append(c[i], p[i + 1]) ELSE c[i]

LEMMA CanonicalSteps ==
  ASSUME NEW p \in Seq(Character)
  PROVE  \E c \in [0..Len(p) -> Seq(Character)] : Reads(c, p) /\ Canonical(p) = c[Len(p)]
<1> DEFINE N == Len(p)
           D == Seq(Character)
           e == <<>>
           More(s, i) == IF Counts(p, i) THEN Append(s, p[i]) ELSE s
           F == [x \in D \X (1..N) |-> More(x[1], x[2])]
<1>1. N \in Nat /\ e \in D
  BY EmptySeq
<1>2. \A s \in D, i \in 1..N : More(s, i) \in D
  OBVIOUS
<1>3. \A i \in 0..(N - 1) : i \in 0..N /\ i + 1 \in 1..N
  BY <1>1
<1> HIDE DEF More, D, N, e
<1>4. F \in [D \X (1..N) -> D]
  BY <1>2
<1>5. \A s \in D, i \in 1..N : F[<<s, i>>] = More(s, i)
  OBVIOUS
<1> HIDE DEF F
<1>6. PICK g : IsWalk(g, N, D, e, F)
  BY <1>1, <1>4, Walk, Zenon
<1>7. g \in [0..N -> D] /\ g[0] = e /\ \A i \in 0..(N - 1) : g[i + 1] = F[<<g[i], i + 1>>]
  BY <1>6 DEF IsWalk
<1>8. \A i \in 0..(N - 1) : g[i] \in D /\ i + 1 \in 1..N
  BY <1>3, <1>7
<1>9. \A i \in 0..(N - 1) : g[i + 1] = More(g[i], i + 1)
  BY <1>5, <1>7, <1>8, Zenon
<1> DEFINE read[i \in 0..Len(p)] ==
             IF i = 0 THEN <<>> ELSE IF Counts(p, i) THEN Append(read[i - 1], p[i]) ELSE read[i - 1]
           Body(f) == [i \in 0..Len(p) |->
             IF i = 0 THEN <<>> ELSE IF Counts(p, i) THEN Append(f[i - 1], p[i]) ELSE f[i - 1]]
<1>11. Canonical(p) = read[Len(p)]
  BY DEF Canonical
<1>12. read = CHOOSE f : f = Body(f)
  OBVIOUS
<1> HIDE DEF read
<1>13. g = Body(g)
  <2>1. \A i \in 0..N : g[i] = IF i = 0 THEN e ELSE More(g[i - 1], i)
    <3> SUFFICES ASSUME NEW i \in 0..N, i # 0 PROVE g[i] = More(g[i - 1], i)
      BY <1>7
    <3>1. i - 1 \in 0..(N - 1) /\ (i - 1) + 1 = i
      BY <1>1
    <3> QED
      BY <1>9, <3>1, Zenon
  <2>2. g = [i \in 0..N |-> IF i = 0 THEN e ELSE More(g[i - 1], i)]
    <3>1. g = [i \in 0..N |-> g[i]]
      BY <1>7, Zenon
    <3> QED
      BY <2>1, <3>1, Zenon
  <2> QED
    BY <2>2, Zenon DEF N, e, More
<1>14. read = Body(read)
  <2> HIDE DEF Body
  <2> QED
    BY <1>12, <1>13, Zenon
<1>15. /\ read \in [0..N -> D] /\ Reads(read, p)
  <2>1. \A i \in 0..N : read[i] = IF i = 0 THEN e ELSE More(read[i - 1], i)
    BY <1>14, Zenon DEF N, e, More
  <2>2. \A i \in 0..(N - 1) : read[i + 1] = More(read[i], i + 1)
    <3> SUFFICES ASSUME NEW i \in 0..(N - 1) PROVE read[i + 1] = More(read[i], i + 1)
      OBVIOUS
    <3>1. i + 1 \in 0..N /\ i + 1 # 0 /\ (i + 1) - 1 = i
      BY <1>1, <1>3
    <3> QED
      BY <2>1, <3>1, Zenon
  <2>3. read[0] = e
    <3>1. 0 \in 0..N
      BY <1>1
    <3> QED
      BY <2>1, <3>1, Zenon
  <2> DEFINE T == {i \in 0..N : read[i] \in D}
  <2>4. 0 \in T
    BY <1>1, <2>3
  <2>5. \A i \in 0..(N - 1) : i \in T => i + 1 \in T
    <3> SUFFICES ASSUME NEW i \in 0..(N - 1), i \in T PROVE i + 1 \in T
      OBVIOUS
    <3>1. i + 1 \in 0..N /\ i + 1 \in 1..N
      BY <1>3, <1>1
    <3>2. read[i + 1] \in D
      BY <1>2, <2>2, <3>1, Zenon
    <3> QED
      BY <3>1, <3>2
  <2> HIDE DEF T
  <2>6. \A i \in 0..N : i \in T
    BY <1>1, <2>4, <2>5, Upward
  <2>7. \A i \in 0..N : read[i] \in D
    BY <2>6 DEF T
  <2>8. read \in [0..N -> D]
    <3>1. read = [i \in 0..N |-> read[i]]
      <4>1. DOMAIN Body(read) = 0..N
        BY Zenon DEF N
      <4>2. Body(read) = [i \in 0..N |-> Body(read)[i]]
        BY Zenon DEF N
      <4> QED
        BY <1>14, <4>2, Zenon
    <3> QED
      BY <2>7, <3>1, Zenon
  <2> QED
    BY <2>2, <2>3, <2>8, Zenon DEF Reads, N, e, More
<1> QED
  BY <1>11, <1>15, Zenon DEF D, N

LEMMA Shape ==
  ASSUME NEW p \in Seq(Character)
  PROVE  /\ Len(p) \in Nat /\ DOMAIN p = 1..Len(p)
         /\ \A i \in 1..Len(p) : p[i] \in Character
         /\ \A i \in 0..(Len(p) - 1) : i \in 0..Len(p) /\ i + 1 \in 1..Len(p)
OBVIOUS

LEMMA CanonicalType ==
  ASSUME NEW p \in Seq(Character)
  PROVE  Canonical(p) \in Seq(Character)
<1>1. PICK c \in [0..Len(p) -> Seq(Character)] : Reads(c, p) /\ Canonical(p) = c[Len(p)]
  BY CanonicalSteps
<1>2. Len(p) \in 0..Len(p)
  BY Shape
<1> QED
  BY <1>1, <1>2

\* A path that is written as the kernel reads it: each of its characters counts.
Clean(p) == \A i \in 1..Len(p) : Counts(p, i)

LEMMA CleanIsCanonical ==
  ASSUME NEW p \in Seq(Character), Clean(p)
  PROVE  Canonical(p) = p
<1>1. PICK c \in [0..Len(p) -> Seq(Character)] : Reads(c, p) /\ Canonical(p) = c[Len(p)]
  BY CanonicalSteps
<1>2. c[0] = <<>> /\ \A i \in 0..(Len(p) - 1) : c[i + 1] = Append(c[i], p[i + 1])
  BY <1>1, Shape DEF Reads, Clean
<1> DEFINE T == {i \in 0..Len(p) : c[i] = SubSeq(p, 1, i)}
<1>3. 0 \in T
  BY <1>2, Shape
<1>4. ASSUME NEW i \in 0..(Len(p) - 1), i \in T PROVE i + 1 \in T
  <2>1. c[i] = SubSeq(p, 1, i) /\ i + 1 \in 1..Len(p)
    BY <1>4, Shape
  <2>2. Append(SubSeq(p, 1, i), p[i + 1]) = SubSeq(p, 1, i + 1)
    BY <2>1
  <2>3. c[i + 1] = SubSeq(p, 1, i + 1)
    BY <1>2, <2>1, <2>2, Zenon
  <2>4. i + 1 \in 0..Len(p)
    BY Shape
  <2> QED
    BY <2>3, <2>4, Zenon
<1> HIDE DEF T
<1>5. Len(p) \in T
  BY <1>3, <1>4, Shape, Upward
<1>6. SubSeq(p, 1, Len(p)) = p
  OBVIOUS
<1> QED
  BY <1>1, <1>5, <1>6 DEF T

\* What has been read of p does not end with a slash, unless a name goes on
\* there, and two slashes do not follow each other in it.
ReadWell(s, p, i) ==
  /\ s # <<>> /\ s[Len(s)] = "/" => i < Len(p) /\ p[i + 1] # "/"
  /\ \A j \in 1..(Len(s) - 1) : s[j] = "/" => s[j + 1] # "/"

LEMMA ReadsWell ==
  ASSUME NEW p \in Seq(Character), NEW i \in 0..(Len(p) - 1), NEW s \in Seq(Character),
         ReadWell(s, p, i)
  PROVE  ReadWell(IF Counts(p, i + 1) THEN Append(s, p[i + 1]) ELSE s, p, i + 1)
<1>1. CASE Counts(p, i + 1)
  <2> DEFINE t == Append(s, p[i + 1])
  <2>1. Len(t) = Len(s) + 1 /\ t[Len(t)] = p[i + 1] /\ \A j \in 1..Len(s) : t[j] = s[j]
    BY Shape
  <2>2. t[Len(t)] = "/" => i + 1 < Len(p) /\ p[(i + 1) + 1] # "/"
    BY <1>1, <2>1 DEF Counts
  <2>3. s # <<>> => Len(s) \in Nat \ {0}
    OBVIOUS
  <2> HIDE DEF t
  <2>4. \A j \in 1..(Len(t) - 1) : t[j] = "/" => t[j + 1] # "/"
    <3> SUFFICES ASSUME NEW j \in 1..(Len(t) - 1), t[j] = "/" PROVE t[j + 1] # "/"
      OBVIOUS
    <3>1. j \in 1..Len(s) /\ s[j] = "/"
      BY <2>1
    <3>2. CASE j = Len(s)
      BY <2>1, <3>1, <3>2 DEF ReadWell
    <3>3. CASE j \in 1..(Len(s) - 1)
      <4>1. s[j + 1] # "/" /\ j + 1 \in 1..Len(s)
        BY <3>1, <3>3 DEF ReadWell
      <4> QED
        BY <2>1, <4>1
    <3> QED
      BY <3>1, <3>2, <3>3
  <2>5. ReadWell(t, p, i + 1)
    BY <2>2, <2>4 DEF ReadWell
  <2> QED
    BY <1>1, <2>5 DEF t
<1>2. CASE ~Counts(p, i + 1)
  <2>1. p[i + 1] = "/"
    BY <1>2 DEF Counts
  <2>2. ~(s # <<>> /\ s[Len(s)] = "/")
    BY <2>1 DEF ReadWell
  <2> QED
    BY <1>2, <2>2 DEF ReadWell
<1> QED
  BY <1>1, <1>2

LEMMA CanonicalClean ==
  ASSUME NEW p \in Seq(Character)
  PROVE  Clean(Canonical(p))
<1>1. PICK c \in [0..Len(p) -> Seq(Character)] : Reads(c, p) /\ Canonical(p) = c[Len(p)]
  BY CanonicalSteps
<1>2. c[0] = <<>> /\ \A i \in 0..(Len(p) - 1) :
        c[i + 1] = IF Counts(p, i + 1) THEN Append(c[i], p[i + 1]) ELSE c[i]
  BY <1>1 DEF Reads
<1> DEFINE T == {i \in 0..Len(p) : ReadWell(c[i], p, i)}
<1>3. 0 \in T
  BY <1>2, Shape DEF ReadWell
<1>4. ASSUME NEW i \in 0..(Len(p) - 1), i \in T PROVE i + 1 \in T
  <2>1. c[i] \in Seq(Character) /\ i + 1 \in 0..Len(p)
    BY Shape
  <2>2. ReadWell(c[i + 1], p, i + 1)
    BY <1>2, <1>4, <2>1, ReadsWell
  <2> QED
    BY <2>1, <2>2
<1> HIDE DEF T
<1>5. Len(p) \in T
  BY <1>3, <1>4, Shape, Upward
<1> DEFINE s == Canonical(p)
<1>6. ReadWell(s, p, Len(p)) /\ s \in Seq(Character)
  BY <1>1, <1>5, CanonicalType DEF T
<1> HIDE DEF s
<1>7. Clean(s)
  <2> SUFFICES ASSUME NEW i \in 1..Len(s) PROVE Counts(s, i)
    BY DEF Clean
  <2>1. CASE i = Len(s)
    BY <1>6, <2>1, Shape DEF Counts, ReadWell
  <2>2. CASE i \in 1..(Len(s) - 1)
    BY <1>6, <2>2 DEF Counts, ReadWell
  <2> QED
    BY <1>6, <2>1, <2>2
<1> QED
  BY <1>7 DEF s

\* An absolute path is read as one, unless it has no names: the root.
LEMMA CanonicalAbsolute ==
  ASSUME NEW p \in Seq(Character), p # <<>>, p[1] = "/"
  PROVE  /\ Canonical(p) # <<>> => Canonical(p)[1] = "/"
         /\ (\E i \in 1..Len(p) : p[i] # "/") => Canonical(p) # <<>>
<1>1. PICK c \in [0..Len(p) -> Seq(Character)] : Reads(c, p) /\ Canonical(p) = c[Len(p)]
  BY CanonicalSteps
<1>2. c[0] = <<>> /\ \A i \in 0..(Len(p) - 1) :
        c[i + 1] = IF Counts(p, i + 1) THEN Append(c[i], p[i + 1]) ELSE c[i]
  BY <1>1 DEF Reads
<1> DEFINE Begun(i) == \/ c[i] = <<>> /\ \A j \in 1..i : ~Counts(p, j)
                       \/ c[i] # <<>> /\ c[i][1] = "/"
           T == {i \in 0..Len(p) : Begun(i)}
<1>3. 0 \in T
  BY <1>2, Shape
<1>4. ASSUME NEW i \in 0..(Len(p) - 1), i \in T PROVE i + 1 \in T
  <2>1. c[i] \in Seq(Character) /\ i + 1 \in 0..Len(p) /\ i + 1 \in 1..Len(p) /\ Begun(i)
    BY <1>4, Shape
  <2>2. CASE c[i] # <<>> /\ c[i][1] = "/"
    <3>1. Append(c[i], p[i + 1]) # <<>> /\ Append(c[i], p[i + 1])[1] = "/"
      BY <2>1, <2>2, Shape
    <3>2. c[i + 1] # <<>> /\ c[i + 1][1] = "/"
      BY <1>2, <2>2, <3>1
    <3> QED
      BY <2>1, <3>2
  <2>3. CASE c[i] = <<>> /\ \A j \in 1..i : ~Counts(p, j)
    <3>1. CASE ~Counts(p, i + 1)
      BY <1>2, <2>1, <2>3, <3>1
    <3>2. CASE Counts(p, i + 1)
      <4>1. p[i + 1] = "/"
        <5>1. CASE i = 0
          BY <5>1
        <5>2. CASE i # 0
          <6>1. ~Counts(p, i) /\ i < Len(p)
            BY <2>3, <5>2
          <6> QED
            BY <6>1 DEF Counts
        <5> QED
          BY <5>1, <5>2
      <4>2. c[i + 1] = Append(<<>>, "/")
        BY <1>2, <2>3, <3>2, <4>1
      <4> QED
        BY <2>1, <4>2
    <3> QED
      BY <3>1, <3>2
  <2> QED
    BY <2>1, <2>2, <2>3
<1> HIDE DEF T
<1>5. Len(p) \in T
  BY <1>3, <1>4, Shape, Upward
<1>6. Begun(Len(p))
  BY <1>5 DEF T
<1>7. (\A j \in 1..Len(p) : ~Counts(p, j)) => \A j \in 1..Len(p) : p[j] = "/"
  BY DEF Counts
<1> QED
  BY <1>1, <1>6, <1>7

LEMMA CanonicalConcat ==
  ASSUME NEW a \in Seq(Character), NEW b \in Seq(Character), b # <<>>, b[1] = "/"
  PROVE  Canonical(a \o b) = Canonical(a) \o Canonical(b)
<1> DEFINE q == a \o b
<1>1. /\ q \in Seq(Character) /\ Len(q) = Len(a) + Len(b)
      /\ \A i \in 1..Len(a) : q[i] = a[i]
      /\ \A i \in 1..Len(b) : q[Len(a) + i] = b[i]
  OBVIOUS
<1>2. Len(a) \in Nat /\ Len(b) \in Nat \ {0}
  OBVIOUS
<1> HIDE DEF q
<1>3. PICK cq \in [0..Len(q) -> Seq(Character)] : Reads(cq, q) /\ Canonical(q) = cq[Len(q)]
  BY <1>1, CanonicalSteps
<1>4. PICK ca \in [0..Len(a) -> Seq(Character)] : Reads(ca, a) /\ Canonical(a) = ca[Len(a)]
  BY CanonicalSteps
<1>5. PICK cb \in [0..Len(b) -> Seq(Character)] : Reads(cb, b) /\ Canonical(b) = cb[Len(b)]
  BY CanonicalSteps
<1>6. \A i \in 1..Len(a) : Counts(q, i) <=> Counts(a, i)
  <2> SUFFICES ASSUME NEW i \in 1..Len(a) PROVE Counts(q, i) <=> Counts(a, i)
    OBVIOUS
  <2>1. CASE i < Len(a)
    <3>0. i + 1 \in 1..Len(a) /\ i < Len(q)
      BY <1>1, <1>2, <2>1
    <3>1. q[i] = a[i] /\ q[i + 1] = a[i + 1] /\ i < Len(q)
      BY <1>1, <3>0, Zenon
    <3> QED
      BY <2>1, <3>1 DEF Counts
  <2>2. CASE i = Len(a)
    <3>1. q[i] = a[i] /\ q[i + 1] = "/" /\ ~(i < Len(a))
      BY <1>1, <1>2, <2>2
    <3> QED
      BY <3>1 DEF Counts
  <2> QED
    BY <1>2, <2>1, <2>2
<1>7. \A i \in 1..Len(b) : Counts(q, Len(a) + i) <=> Counts(b, i)
  <2> SUFFICES ASSUME NEW i \in 1..Len(b) PROVE Counts(q, Len(a) + i) <=> Counts(b, i)
    OBVIOUS
  <2>1. q[Len(a) + i] = b[i] /\ (Len(a) + i < Len(q) <=> i < Len(b))
    BY <1>1, <1>2
  <2>2. i < Len(b) => q[(Len(a) + i) + 1] = b[i + 1]
    <3>1. i < Len(b) => i + 1 \in 1..Len(b) /\ Len(a) + (i + 1) = (Len(a) + i) + 1
      BY <1>2
    <3> QED
      BY <1>1, <3>1
  <2> QED
    BY <2>1, <2>2 DEF Counts
<1> DEFINE S == {i \in 0..Len(a) : cq[i] = ca[i]}
           T == {i \in 0..Len(b) : cq[Len(a) + i] = ca[Len(a)] \o cb[i]}
<1>8. Len(a) \in S
  <2>1. 0 \in S
    BY <1>2, <1>3, <1>4 DEF Reads
  <2>2. ASSUME NEW i \in 0..(Len(a) - 1), i \in S PROVE i + 1 \in S
    <3>1. i + 1 \in 1..Len(a) /\ i + 1 \in 0..Len(a) /\ i \in 0..(Len(q) - 1)
      BY <1>1, <1>2
    <3>2. cq[i + 1] = IF Counts(q, i + 1) THEN Append(cq[i], q[i + 1]) ELSE cq[i]
      BY <1>3, <3>1, Zenon DEF Reads
    <3>3. ca[i + 1] = IF Counts(a, i + 1) THEN Append(ca[i], a[i + 1]) ELSE ca[i]
      BY <1>4, Zenon DEF Reads
    <3>4. cq[i] = ca[i] /\ q[i + 1] = a[i + 1] /\ (Counts(q, i + 1) <=> Counts(a, i + 1))
      BY <1>1, <1>6, <2>2, <3>1, Zenon
    <3>5. cq[i + 1] = ca[i + 1]
      BY <3>2, <3>3, <3>4, Zenon
    <3> QED
      BY <3>1, <3>5
  <2> HIDE DEF S
  <2>3. \A i \in 0..Len(a) : i \in S
    BY <1>2, <2>1, <2>2, Upward
  <2> QED
    BY <1>2, <2>3
<1>9. cq[Len(a)] = ca[Len(a)] /\ ca[Len(a)] \in Seq(Character)
  BY <1>2, <1>8
<1>10. Len(b) \in T
  <2>1. 0 \in T
    <3>1. cb[0] = <<>> /\ Len(a) + 0 = Len(a)
      BY <1>2, <1>5 DEF Reads
    <3>2. ca[Len(a)] \o <<>> = ca[Len(a)]
      BY <1>9
    <3>3. cq[Len(a) + 0] = ca[Len(a)] \o cb[0]
      BY <1>9, <3>1, <3>2, Zenon
    <3> QED
      BY <1>2, <3>3
  <2>2. ASSUME NEW i \in 0..(Len(b) - 1), i \in T PROVE i + 1 \in T
    <3> DEFINE k == Len(a) + i
    <3>1. /\ i + 1 \in 1..Len(b) /\ i + 1 \in 0..Len(b) /\ i \in 0..Len(b) /\ k \in 0..(Len(q) - 1)
          /\ Len(a) + (i + 1) = k + 1
      BY <1>1, <1>2
    <3> HIDE DEF k
    <3>2. cq[k + 1] = IF Counts(q, k + 1) THEN Append(cq[k], q[k + 1]) ELSE cq[k]
      BY <1>3, <3>1, Zenon DEF Reads
    <3>3. cb[i + 1] = IF Counts(b, i + 1) THEN Append(cb[i], b[i + 1]) ELSE cb[i]
      BY <1>5, Zenon DEF Reads
    <3>4. q[Len(a) + (i + 1)] = b[i + 1] /\ (Counts(q, Len(a) + (i + 1)) <=> Counts(b, i + 1))
      BY <1>1, <1>7, <3>1, Zenon
    <3>5. q[k + 1] = b[i + 1] /\ (Counts(q, k + 1) <=> Counts(b, i + 1))
      BY <3>1, <3>4, Zenon
    <3>6. cq[k] = ca[Len(a)] \o cb[i]
      BY <2>2 DEF k
    <3>7. cb[i] \in Seq(Character) /\ b[i + 1] \in Character
      BY <3>1
    <3>8. Append(ca[Len(a)] \o cb[i], b[i + 1]) = ca[Len(a)] \o Append(cb[i], b[i + 1])
      <4> DEFINE x == ca[Len(a)]
                 y == cb[i]
                 d == b[i + 1]
                 e == <<d>>
      <4>1. x \in Seq(Character) /\ y \in Seq(Character) /\ d \in Character /\ e \in Seq(Character)
        BY <1>9, <3>7
      <4>2. x \o y \in Seq(Character)
        BY <4>1, ConcatProperties
      <4> HIDE DEF x, y, d, S, T
      <4>3. Append(x \o y, d) = (x \o y) \o e /\ Append(y, d) = y \o e
        BY <4>1, <4>2, AppendIsConcat
      <4> HIDE DEF e
      <4>4. (x \o y) \o e = x \o (y \o e)
        BY <4>1
      <4>5. Append(x \o y, d) = x \o Append(y, d)
        BY <4>3, <4>4, Zenon
      <4> QED
        BY <4>5 DEF x, y, d
    <3>9. cq[k + 1] = ca[Len(a)] \o cb[i + 1]
      BY <3>2, <3>3, <3>5, <3>6, <3>8, Zenon
    <3>10. cq[Len(a) + (i + 1)] = ca[Len(a)] \o cb[i + 1]
      BY <3>1, <3>9, Zenon
    <3> QED
      BY <3>1, <3>10
  <2> HIDE DEF T
  <2>3. \A i \in 0..Len(b) : i \in T
    BY <1>2, <2>1, <2>2, Upward
  <2> QED
    BY <1>2, <2>3
<1> QED
  BY <1>1, <1>3, <1>4, <1>5, <1>10 DEF q, T

-----------------------------------------------------------------------------
\* What realpath makes of a path that it finds.
Resolved(p) == Canonical(Absolute(p))

LEMMA AbsolutePath ==
  ASSUME NEW p \in Seq(Character)
  PROVE  /\ Absolute(p) \in Seq(Character) /\ Absolute(p) # <<>> /\ Absolute(p)[1] = "/"
         /\ p # <<>> => Absolute(p)[Len(Absolute(p))] = p[Len(p)]
         /\ p # <<>> => \E i \in 1..Len(Absolute(p)) : Absolute(p)[i] = p[1]
<1>1. Cwd \in Seq(Character) /\ Cwd # <<>> /\ Cwd[1] = "/" /\ "/" \in Character
  BY RequestAssumption, ConfigAssumption
<1>2. CASE is_abs_path(p)
  <2>1. Absolute(p) = p /\ p # <<>> /\ p[1] = "/"
    BY <1>2 DEF Absolute, is_abs_path
  <2>2. 1 \in 1..Len(p)
    BY <2>1
  <2> QED
    BY <2>1, <2>2
<1>3. CASE ~is_abs_path(p)
  <2> DEFINE s == (Cwd \o <<"/">>) \o p
  <2>1. Absolute(p) = s
    BY <1>3 DEF Absolute, path_join
  <2>2. s \in Seq(Character) /\ s # <<>> /\ s[1] = "/" /\ Len(s) = Len(Cwd) + 1 + Len(p)
    BY <1>1
  <2>3. \A i \in 1..Len(p) : s[Len(Cwd) + 1 + i] = p[i]
    BY <1>1
  <2>4. p # <<>> => Len(p) \in 1..Len(p) /\ 1 \in 1..Len(p) /\ Len(Cwd) + 1 + 1 \in 1..Len(s)
    BY <1>1, <2>2
  <2> HIDE DEF s
  <2> QED
    BY <2>1, <2>2, <2>3, <2>4
<1> QED
  BY <1>2, <1>3

LEMMA ResolvedType ==
  ASSUME NEW p \in Seq(Character)
  PROVE  /\ Resolved(p) \in Seq(Character) /\ Clean(Resolved(p))
         /\ Resolved(p) # <<>> => Resolved(p)[1] = "/"
BY AbsolutePath, CanonicalType, CanonicalClean, CanonicalAbsolute DEF Resolved

LEMMA CleanEnds ==
  ASSUME NEW p \in Seq(Character), Clean(p)
  PROVE  ~EndsWithSlash(p)
<1>1. p # <<>> => Len(p) \in 1..Len(p) /\ ~(Len(p) < Len(p))
  OBVIOUS
<1> QED
  BY <1>1 DEF Clean, Counts, EndsWithSlash

\* Only the root has no name.
LEMMA ResolvedHasName ==
  ASSUME NEW p \in Seq(Character), p # <<>>, ~EndsWithSlash(p) \/ ~is_abs_path(p)
  PROVE  Resolved(p) # <<>>
<1> DEFINE a == Absolute(p)
<1>1. /\ a \in Seq(Character) /\ a # <<>> /\ a[1] = "/"
      /\ a[Len(a)] = p[Len(p)] /\ \E i \in 1..Len(a) : a[i] = p[1]
  BY AbsolutePath
<1> HIDE DEF a
<1>2. \E i \in 1..Len(a) : a[i] # "/"
  <2>1. CASE ~EndsWithSlash(p)
    <3>1. Len(a) \in 1..Len(a) /\ a[Len(a)] # "/"
      BY <1>1, <2>1 DEF EndsWithSlash
    <3> QED
      BY <3>1
  <2>2. CASE ~is_abs_path(p)
    BY <1>1, <2>2 DEF is_abs_path
  <2> QED
    BY <2>1, <2>2
<1>3. Canonical(a) # <<>>
  BY <1>1, <1>2, CanonicalAbsolute
<1> QED
  BY <1>3 DEF a, Resolved

LEMMA ResolvedTwice ==
  ASSUME NEW p \in Seq(Character), Resolved(p) # <<>>
  PROVE  Absolute(Resolved(p)) = Resolved(p) /\ Resolved(Resolved(p)) = Resolved(p)
<1>1. Resolved(p) \in Seq(Character) /\ Clean(Resolved(p)) /\ Resolved(p)[1] = "/"
  BY ResolvedType
<1>2. Absolute(Resolved(p)) = Resolved(p)
  BY <1>1 DEF Absolute, is_abs_path
<1>3. Canonical(Resolved(p)) = Resolved(p)
  BY <1>1, CleanIsCanonical
<1>4. Resolved(Resolved(p)) = Canonical(Absolute(Resolved(p)))
  BY Zenon DEF Resolved
<1> QED
  BY <1>2, <1>3, <1>4, Zenon

LEMMA JoinAbsolute ==
  ASSUME NEW p \in Seq(Character), p # <<>>, NEW x \in Seq(Character)
  PROVE  Absolute(path_join(p, x)) = Absolute(p) \o (<<"/">> \o x)
<1>1. Cwd \in Seq(Character) /\ "/" \in Character
  BY RequestAssumption, ConfigAssumption
<1> DEFINE y == <<"/">> \o x
<1>2. y \in Seq(Character) /\ path_join(p, x) = p \o y
  BY <1>1 DEF path_join
<1> HIDE DEF y
<1>3. p \o y # <<>> /\ (p \o y)[1] = p[1]
  BY <1>2
<1>4. is_abs_path(p \o y) <=> is_abs_path(p)
  BY <1>3 DEF is_abs_path
<1>5. Absolute(p \o y) = Absolute(p) \o y
  <2>1. (Cwd \o <<"/">>) \o (p \o y) = ((Cwd \o <<"/">>) \o p) \o y
    BY <1>1, <1>2
  <2> QED
    BY <1>4, <2>1 DEF Absolute, path_join
<1> QED
  BY <1>2, <1>5 DEF y

LEMMA JoinResolved ==
  ASSUME NEW p \in Seq(Character), p # <<>>, NEW x \in Seq(Character)
  PROVE  Resolved(path_join(p, x)) = Resolved(p) \o Canonical(<<"/">> \o x)
<1> DEFINE y == <<"/">> \o x
<1>1. y \in Seq(Character) /\ y # <<>> /\ y[1] = "/"
  BY ConfigAssumption
<1>2. Absolute(path_join(p, x)) = Absolute(p) \o y
  BY JoinAbsolute
<1> HIDE DEF y
<1>3. Canonical(Absolute(p) \o y) = Canonical(Absolute(p)) \o Canonical(y)
  BY <1>1, AbsolutePath, CanonicalConcat
<1> QED
  BY <1>2, <1>3, Zenon DEF Resolved, y

-----------------------------------------------------------------------------
(***************************************************************************)
(* QuietAnswerIsExpected.  The call resolves a path step by step, and      *)
(* looks at the result; the expectation looks at the path as it was asked  *)
(* for.  So most of the work is that resolving changes no later look.      *)
(***************************************************************************)
LEMMA InsideIsCovered ==
  ASSUME NEW path \in Seq(Character), NEW prefix \in Seq(Character), prefix # <<>>, ~EndsWithSlash(prefix)
  PROVE  inside_public(prefix, path) <=> Covers(prefix, path)
<1>1. SequenceOps!IsPrefix(prefix, path) => Len(prefix) <= Len(path)
  BY PrefixMeans
<1>2. inside_public(prefix, path) <=> str_starts_with(path, prefix)
  BY <1>1 DEF inside_public, str_starts_with
<1> QED
  BY <1>2, StartsWithCovers

-----------------------------------------------------------------------------
LEMMA KindInKinds ==
  ASSUME NEW f \in [Nodes -> Kinds], NEW p
  PROVE  KindIn(f, p) \in Kinds
BY DEF KindIn, Kinds

LEMMA KindOf ==
  ASSUME NEW f, NEW p
  PROVE  KindIn(f, p) = IF Resolved(p) \notin Nodes \/ (EndsWithSlash(p) /\ f[Resolved(p)] \in RegularFiles)
                        THEN "none" ELSE f[Resolved(p)]
BY DEF KindIn, Resolved

\* A file's path does not end with a slash, so realpath's result names it too.
LEMMA FileResolved ==
  ASSUME NEW f, NEW p \in Seq(Character), p # <<>>, KindIn(f, p) \in RegularFiles
  PROVE  /\ Resolved(p) # <<>> /\ Resolved(Resolved(p)) = Resolved(p)
         /\ KindIn(f, Resolved(p)) = KindIn(f, p)
<1>1. ~EndsWithSlash(p)
  BY KindOf DEF RegularFiles
<1>2. Resolved(p) # <<>>
  BY <1>1, ResolvedHasName
<1>3. Resolved(Resolved(p)) = Resolved(p) /\ ~EndsWithSlash(Resolved(p))
  BY <1>2, ResolvedTwice, ResolvedType, CleanEnds
<1> QED
  BY <1>1, <1>2, <1>3, KindOf

\* To every look at the files a and b are the same path.
Alike(f, a, b) ==
  /\ Resolved(a) = Resolved(b) /\ KindIn(f, a) = KindIn(f, b)
  /\ \A x \in Seq(Character) : /\ Resolved(path_join(a, x)) = Resolved(path_join(b, x))
                               /\ KindIn(f, path_join(a, x)) = KindIn(f, path_join(b, x))

LEMMA AlikeItself ==
  ASSUME NEW f, NEW p
  PROVE  Alike(f, p, p)
BY DEF Alike

LEMMA JoinType ==
  ASSUME NEW p \in Seq(Character), NEW x \in Seq(Character)
  PROVE  path_join(p, x) \in Seq(Character) /\ path_join(p, x) # <<>>
BY ConfigAssumption DEF path_join

LEMMA JoinEnds ==
  ASSUME NEW p \in Seq(Character), NEW x \in Seq(Character)
  PROVE  EndsWithSlash(path_join(p, x)) <=> x = <<>> \/ EndsWithSlash(x)
<1> DEFINE s == (p \o <<"/">>) \o x
<1>1. "/" \in Character
  BY ConfigAssumption
<1>2. s \in Seq(Character) /\ s # <<>> /\ Len(s) = Len(p) + 1 + Len(x)
  BY <1>1
<1>3. x = <<>> => s[Len(s)] = "/"
  BY <1>1
<1>4. x # <<>> => s[Len(s)] = x[Len(x)]
  BY <1>1
<1>5. path_join(p, x) = s
  BY DEF path_join
<1> HIDE DEF s
<1> QED
  BY <1>2, <1>3, <1>4, <1>5 DEF EndsWithSlash

\* A path that is not absolute, or that names a file, may be resolved first.
LEMMA AlikeResolved ==
  ASSUME NEW f, NEW p \in Seq(Character), p # <<>>, Resolved(p) # <<>>, KindIn(f, p) # "none"
  PROVE  Alike(f, Resolved(p), p)
<1> DEFINE r == Resolved(p)
<1>1. r \in Seq(Character) /\ Clean(r) /\ ~EndsWithSlash(r)
  BY ResolvedType, CleanEnds
<1>2. Resolved(r) = r
  BY ResolvedTwice
<1> HIDE DEF r
<1>3. KindIn(f, r) = KindIn(f, p)
  BY <1>1, <1>2, KindOf DEF r
<1>4. ASSUME NEW x \in Seq(Character)
      PROVE  /\ Resolved(path_join(r, x)) = Resolved(path_join(p, x))
             /\ KindIn(f, path_join(r, x)) = KindIn(f, path_join(p, x))
  <2>1. Resolved(path_join(r, x)) = Resolved(r) \o Canonical(<<"/">> \o x)
    BY <1>1, JoinResolved DEF r
  <2>2. Resolved(path_join(p, x)) = Resolved(p) \o Canonical(<<"/">> \o x)
    BY JoinResolved
  <2>3. Resolved(path_join(r, x)) = Resolved(path_join(p, x))
    BY <1>2, <2>1, <2>2, Zenon DEF r
  <2>4. EndsWithSlash(path_join(r, x)) <=> EndsWithSlash(path_join(p, x))
    BY <1>1, JoinEnds
  <2> QED
    BY <2>3, <2>4, KindOf
<1> QED
  BY <1>2, <1>3, <1>4 DEF Alike, r

LEMMA ChildrenAlike ==
  ASSUME NEW f, NEW a, NEW b, Resolved(a) = Resolved(b)
  PROVE  Children(f, a) = Children(f, b)
BY DEF Children, Resolved

-----------------------------------------------------------------------------
(***************************************************************************)
(* What is expected, in the order in which the code finds it out.          *)
(***************************************************************************)
FoundAt(f) == {i \in DOMAIN Public : KindIn(f, Public[i]) # "none"}
FileServed(f, path) == IF KindIn(f, path) # "file" THEN Plain(403) ELSE [status |-> 200, body |-> "file"]
IndexAt(f, path, names) == {i \in DOMAIN names : KindIn(f, path_join(path, names[i])) \in RegularFiles}
ExpectedPage(f, path) == LET page == [status |-> 200, body |-> "page"] IN
                           IF PageFits(Children(f, path)) THEN {page} ELSE {page, Plain(500)}

\* Expected, for a route with these names of index files.
ExpectedOf(f, path, names) ==
  IF KindIn(f, path) \in RegularFiles THEN {ExpectedFile(f, Resolved(path))}
  ELSE IF KindIn(f, path) = "none" THEN {Plain(404)}
  ELSE IF IndexAt(f, path, names) # {}
       THEN {ExpectedFile(f, Resolved(path_join(path, names[FirstOf(IndexAt(f, path, names))])))}
       ELSE ExpectedPage(f, path)

LEMMA ExpectedIs ==
  ASSUME NEW f \in [Nodes -> Kinds], NEW path
  PROVE  Expected(f, path) = ExpectedOf(f, path, route.index)
<1>1. KindIn(f, path) \in Kinds
  BY KindInKinds
<1>2. "none" \notin RegularFiles /\ "dir" \notin RegularFiles /\ Kinds = RegularFiles \cup {"none", "dir"}
  BY DEF Kinds, RegularFiles
<1>3. CASE KindIn(f, path) \in RegularFiles
  BY <1>2, <1>3 DEF Expected, ExpectedOf, Resolved
<1>4. CASE KindIn(f, path) = "none"
  BY <1>2, <1>4 DEF Expected, ExpectedOf
<1>5. CASE KindIn(f, path) = "dir"
  <2>1. CASE IndexAt(f, path, route.index) # {}
    BY <1>2, <1>5, <2>1 DEF Expected, ExpectedOf, IndexAt, Resolved
  <2>2. CASE IndexAt(f, path, route.index) = {}
    BY <1>2, <1>5, <2>2 DEF Expected, ExpectedOf, IndexAt, ExpectedPage
  <2> QED
    BY <2>1, <2>2
<1> QED
  BY <1>1, <1>2, <1>3, <1>4, <1>5

LEMMA FirstIs ==
  ASSUME NEW S, S \subseteq Nat, NEW n \in S, \A m \in S : n <= m
  PROVE  FirstOf(S) = n
<1> DEFINE i == FirstOf(S)
<1>1. i \in S /\ \A j \in S : i <= j
  BY DEF FirstOf
<1> HIDE DEF i
<1>2. i \in Nat /\ n \in Nat /\ i <= n /\ n <= i
  BY <1>1
<1>3. i = n
  BY <1>2
<1> QED
  BY <1>3 DEF i

LEMMA PublicAt ==
  ASSUME NEW i \in DOMAIN Public
  PROVE  /\ i \in Nat \ {0} /\ i <= Len(Public)
         /\ Public[i] \in Seq(Character) /\ Public[i] # <<>> /\ ~EndsWithSlash(Public[i])
<1> DEFINE D == Seq(Character)
<1>1. Public \in Seq(D) /\ Public[i] # <<>> /\ Public[i][Len(Public[i])] # "/"
  BY RequestAssumption
<1> HIDE DEF D
<1>2. i \in Nat \ {0} /\ i <= Len(Public) /\ Public[i] \in D
  BY <1>1
<1> QED
  BY <1>1, <1>2 DEF D, EndsWithSlash

LEMMA IndexName ==
  ASSUME NEW names \in Seq(Text), NEW i \in DOMAIN names
  PROVE  i \in Nat \ {0} /\ i <= Len(names) /\ names[i] \in Seq(Character)
<1>1. i \in Nat \ {0} /\ i <= Len(names) /\ names[i] \in Text
  OBVIOUS
<1> QED
  BY <1>1, ConfigAssumption

\* Of paths that are alike the same is expected.
LEMMA AlikeExpected ==
  ASSUME NEW f, NEW a, NEW b, NEW names \in Seq(Text), Alike(f, a, b)
  PROVE  ExpectedOf(f, a, names) = ExpectedOf(f, b, names)
<1>1. \A i \in DOMAIN names : names[i] \in Seq(Character)
  BY IndexName
<1>2. IndexAt(f, a, names) = IndexAt(f, b, names)
  BY <1>1 DEF Alike, IndexAt
<1>3. IndexAt(f, a, names) # {} => FirstOf(IndexAt(f, a, names)) \in DOMAIN names
  <2> DEFINE S == IndexAt(f, a, names)
  <2>1. S \subseteq Nat /\ S \subseteq DOMAIN names
    BY IndexName DEF IndexAt
  <2> HIDE DEF S
  <2>2. S # {} => \E i \in S : \A j \in S : i <= j
    BY <2>1, Least
  <2>3. S # {} => FirstOf(S) \in S
    BY <2>2 DEF FirstOf
  <2> QED
    BY <2>1, <2>3 DEF S
<1>4. Resolved(a) = Resolved(b) /\ KindIn(f, a) = KindIn(f, b) /\ Children(f, a) = Children(f, b)
  BY ChildrenAlike DEF Alike
<1>5. CASE IndexAt(f, a, names) = {}
  BY <1>2, <1>4, <1>5 DEF ExpectedOf, ExpectedPage
<1>6. CASE IndexAt(f, a, names) # {}
  <2> DEFINE n == FirstOf(IndexAt(f, a, names))
             x == names[n]
  <2>1. x \in Seq(Character)
    BY <1>1, <1>3, <1>6
  <2>2. Resolved(path_join(a, x)) = Resolved(path_join(b, x))
    BY <2>1, Zenon DEF Alike
  <2> QED
    BY <1>2, <1>4, <1>6, <2>2, Zenon DEF ExpectedOf
<1> QED
  BY <1>5, <1>6

LEMMA ExpectedFileMiss ==
  ASSUME NEW f, NEW path, FoundAt(f) = {}
  PROVE  ExpectedFile(f, path) = Plain(500)
BY DEF ExpectedFile, FoundAt

LEMMA ExpectedFileHit ==
  ASSUME NEW f, NEW path \in Seq(Character), NEW n \in FoundAt(f), \A m \in FoundAt(f) : n <= m
  PROVE  ExpectedFile(f, path) = IF inside_public(Public[n], path) THEN FileServed(f, path) ELSE Plain(403)
<1>1. FoundAt(f) \subseteq Nat
  BY PublicAt DEF FoundAt
<1>2. FirstOf(FoundAt(f)) = n
  BY <1>1, FirstIs
<1>3. inside_public(Public[n], path) <=> Covers(Public[n], path)
  BY PublicAt, InsideIsCovered DEF FoundAt
<1> QED
  BY <1>2, <1>3 DEF ExpectedFile, FoundAt, FileServed

-----------------------------------------------------------------------------
(***************************************************************************)
(* While the files stay as they are.                                       *)
(***************************************************************************)
Quiet == phase = "serving" /\ rt # 0 /\ route.type = "file_serve" /\ \A f \in seen : f = fs
Asked == path_join(route.dir_path, req.path)
Wanted == ExpectedOf(fs, Asked, route.index)

Looking == {"is_file", "is_dir", "index", "page", "readdir"}
Opening == {"file", "public", "stat", "fopen"}

\* What is known so far, and what is still expected, at each step.
QuietAt ==
  /\ step = "locate" => route.dir_path # NULL
  /\ step \in Looking \cup Opening => target \in Seq(Character) /\ target # <<>>
  /\ step \in Looking => Wanted = ExpectedOf(fs, target, route.index)
  /\ step = "is_dir" => KindIn(fs, target) \notin RegularFiles
  /\ step \in {"index", "page", "readdir"} => KindIn(fs, target) = "dir"
  /\ step = "index" => \A i \in IndexAt(fs, target, route.index) : pos <= i
  /\ step \in {"page", "readdir"} => IndexAt(fs, target, route.index) = {}
  /\ step \in Opening => KindIn(fs, target) \in RegularFiles
  /\ step = "file" => Wanted = {ExpectedFile(fs, Resolved(target))}
  /\ step = "public" => Wanted = {ExpectedFile(fs, target)} /\ \A i \in FoundAt(fs) : pos <= i
  /\ step \in {"stat", "fopen"} => Wanted = {FileServed(fs, target)}
  /\ step = "fopen" => KindIn(fs, target) # "private"
  /\ step = "answered" => answer \in Wanted

Starting == {"parsing", "merging", "binding"}

QuietInv ==
  /\ step = "other" => route.type # "file_serve"
  /\ step \notin {"readdir", "answered"} => used = 0
  /\ IsFiniteSet(seen)
  /\ phase \in Starting => step = "idle"
  /\ Quiet => QuietAt

LEMMA QuietMeans ==
  ASSUME RequestTypeInv, SeenInv, QuietInv
  PROVE  QuietAnswerIsExpected
<1> SUFFICES ASSUME step = "answered", phase = "serving", Cardinality(seen) = 1, rt # 0,
                    route.type = "file_serve"
             PROVE  answer \in Expected(fs, Asked)
  BY DEF QuietAnswerIsExpected, Asked
<1>1. PICK f : seen = {f}
  BY FS_Singleton DEF QuietInv
<1>2. \A g \in seen : g = fs
  BY <1>1 DEF SeenInv
<1>3. answer \in Wanted
  BY <1>2 DEF QuietInv, Quiet, QuietAt
<1>4. fs \in [Nodes -> Kinds]
  BY DEF RequestTypeInv, RequestTypeOK
<1> QED
  BY <1>3, <1>4, ExpectedIs DEF Wanted

LEMMA QuietInit == RequestInit => QuietInv
<1> SUFFICES ASSUME RequestInit PROVE QuietInv
  OBVIOUS
<1>1. step = "idle" /\ used = 0 /\ seen = {} /\ rt = 0
  BY DEF RequestInit
<1> QED
  BY <1>1, FS_EmptySet DEF QuietInv, Quiet

LEMMA CallPhase ==
  ASSUME session_process_request
  PROVE  phase = "serving" /\ phase' \notin Starting
<1>1. phase = "serving"
  BY DEF session_process_request
<1>2. phase' \in {phase, "aborted"}
  BY DEF session_process_request, xps_config_lookup, FindServer, FindRoute, RouteFound, Locate, IsFile, IsDir,
         FindIndex, xps_file_create, ResolveFile, ResolvePublic, Stat, Open, xps_directory_browsing, OpenDirectory,
         ReadDirectory, EndPage, OtherRoutes, Dispatch, NotThere, Continue, Answer, Abort
<1> QED
  BY <1>1, <1>2 DEF Starting

\* A step of the call that looks at a file leaves what is asked and expected.
LEMMA QuietMoves ==
  ASSUME RequestTypeInv, QuietInv, session_process_request, UnchangedWorld, UNCHANGED <<sv, rt>>,
         step' # "other", step' \notin {"readdir", "answered"} => used' = 0,
         /\ Quiet /\ Quiet' /\ phase' = phase /\ QuietAt => QuietAt'
  PROVE  QuietInv'
<1>1. UNCHANGED <<servers, sv, rt, req, fs, seen>> /\ phase = "serving"
  BY DEF UnchangedWorld, session_process_request
<1>2. route' = route
  BY <1>1 DEF route, Routes
<1>3. Quiet' => Quiet /\ phase' = phase
  BY <1>1, <1>2 DEF Quiet
<1> QED
  BY <1>1, <1>3, CallPhase DEF QuietInv

LEMMA QuietFrame ==
  ASSUME UnchangedWorld, UNCHANGED <<sv, rt>>
  PROVE  fs' = fs /\ route' = route /\ Wanted' = Wanted
<1>1. UNCHANGED <<servers, sv, rt, req, fs>>
  BY DEF UnchangedWorld
<1>2. route' = route /\ Asked' = Asked
  BY <1>1 DEF route, Routes, Asked
<1> QED
  BY <1>1, <1>2 DEF Wanted

\* An answer that is expected.
LEMMA QuietAnswer ==
  ASSUME UnchangedWorld, UNCHANGED <<sv, rt>>, NEW status, NEW body, Answer(status, body),
         [status |-> status, body |-> body] \in Wanted
  PROVE  QuietAt'
BY QuietFrame, AnswerIs DEF QuietAt, Looking, Opening

LEMMA AskedPath ==
  ASSUME RequestTypeInv, rt # 0, route.dir_path # NULL
  PROVE  /\ Asked \in Seq(Character) /\ Asked # <<>> /\ route.index \in Seq(Text)
<1>1. route \in Route /\ route.index \in Seq(Text)
  BY RouteTyped
<1>2. route.dir_path \in Text /\ req.path \in Text
  <2>1. route.dir_path \in Text \cup {NULL}
    <3> HIDE DEF route
    <3> QED
      BY <1>1 DEF Route
  <2> QED
    BY <2>1 DEF RequestTypeInv
<1>3. route.dir_path \in Seq(Character) /\ req.path \in Seq(Character) /\ "/" \in Character
  BY <1>2, ConfigAssumption
<1> QED
  BY <1>1, <1>3, JoinType DEF Asked

LEMMA QuietLocate ==
  ASSUME RequestTypeInv, Quiet, QuietAt, Locate
  PROVE  QuietAt'
<1>1. /\ step = "locate" /\ UnchangedWorld /\ UNCHANGED <<sv, rt>>
      /\ route.dir_path # NULL /\ rt # 0
  BY DEF Locate, Quiet, QuietAt
<1>2. Asked \in Seq(Character) /\ Asked # <<>> /\ route.index \in Seq(Text)
  BY <1>1, AskedPath
<1>3. \/ target' = Asked /\ step' = "is_file"
      \/ /\ ~is_abs_path(Asked) /\ KindIn(fs, Asked) # "none"
         /\ target' = Resolved(Asked) /\ step' = "is_file"
      \/ KindIn(fs, Asked) = "none" /\ Answer(404, "none")
  BY DEF Locate, Asked, Resolved, Continue, Go
<1>4. ASSUME step' = "is_file", Alike(fs, target', Asked), target' \in Seq(Character), target' # <<>>
      PROVE  QuietAt'
  <2>1. ExpectedOf(fs, target', route.index) = Wanted
    BY <1>2, <1>4, AlikeExpected DEF Wanted
  <2> QED
    BY <1>1, <1>4, <2>1, QuietFrame DEF QuietAt, Looking, Opening
<1>5. CASE target' = Asked /\ step' = "is_file"
  BY <1>2, <1>4, <1>5, AlikeItself
<1>6. CASE /\ ~is_abs_path(Asked) /\ KindIn(fs, Asked) # "none"
           /\ target' = Resolved(Asked) /\ step' = "is_file"
  <2>1. Resolved(Asked) # <<>> /\ Resolved(Asked) \in Seq(Character)
    BY <1>2, <1>6, ResolvedHasName, ResolvedType
  <2>2. Alike(fs, Resolved(Asked), Asked)
    BY <1>2, <1>6, <2>1, AlikeResolved
  <2> QED
    BY <1>4, <1>6, <2>1, <2>2
<1>7. CASE KindIn(fs, Asked) = "none" /\ Answer(404, "none")
  <2>1. Wanted = {Plain(404)}
    BY <1>7 DEF Wanted, ExpectedOf, RegularFiles
  <2> QED
    BY <1>1, <1>7, <2>1, QuietAnswer DEF Plain
<1> QED
  BY <1>3, <1>5, <1>6, <1>7

LEMMA NotBarred == ~Barred
BY DEF Barred, LookupWhitelist, LookupBlacklist

LEMMA QuietIsFile ==
  ASSUME RequestTypeInv, Quiet, QuietAt, IsFile
  PROVE  QuietAt'
<1>1. /\ step = "is_file" /\ UnchangedWorld /\ UNCHANGED <<sv, rt, target>>
      /\ target \in Seq(Character) /\ target # <<>>
      /\ Wanted = ExpectedOf(fs, target, route.index)
  BY DEF IsFile, QuietAt, Looking
<1>2. CASE is_file(target)
  <2>1. KindIn(fs, target) \in RegularFiles /\ step' = "file"
    BY <1>2, NotBarred DEF IsFile, is_file, Dispatch, Continue, Go
  <2>2. Wanted = {ExpectedFile(fs, Resolved(target))}
    BY <1>1, <2>1 DEF ExpectedOf
  <2> QED
    BY <1>1, <2>1, <2>2, QuietFrame DEF QuietAt, Looking, Opening
<1>3. CASE ~is_file(target)
  <2>1. KindIn(fs, target) \notin RegularFiles /\ step' = "is_dir"
    BY <1>3 DEF IsFile, is_file, Continue, Go
  <2> QED
    BY <1>1, <2>1, QuietFrame DEF QuietAt, Looking, Opening
<1> QED
  BY <1>2, <1>3

LEMMA QuietIsDir ==
  ASSUME RequestTypeInv, Quiet, QuietAt, IsDir
  PROVE  QuietAt'
<1>1. /\ step = "is_dir" /\ UnchangedWorld /\ UNCHANGED <<sv, rt, target>>
      /\ target \in Seq(Character) /\ target # <<>>
      /\ Wanted = ExpectedOf(fs, target, route.index) /\ KindIn(fs, target) \notin RegularFiles
  BY DEF IsDir, QuietAt, Looking
<1>2. CASE is_dir(target)
  <2>1. KindIn(fs, target) = "dir" /\ step' = "index" /\ pos' = 1
    BY <1>2 DEF IsDir, is_dir, Continue, Go
  <2>2. \A i \in IndexAt(fs, target, route.index) : 1 <= i
    <3>1. route.index \in Seq(Text)
      BY RouteTyped DEF Quiet
    <3> QED
      BY <3>1, IndexName DEF IndexAt
  <2> QED
    BY <1>1, <2>1, <2>2, QuietFrame DEF QuietAt, Looking, Opening
<1>3. CASE ~is_dir(target)
  <2>1. KindIn(fs, target) \in Kinds
    BY KindInKinds DEF RequestTypeInv, RequestTypeOK
  <2>2. KindIn(fs, target) = "none" /\ Answer(404, "none")
    BY <1>1, <1>3, <2>1 DEF IsDir, is_dir, Kinds, RegularFiles
  <2>3. Wanted = {Plain(404)}
    BY <1>1, <2>2 DEF ExpectedOf
  <2> QED
    BY <1>1, <2>2, <2>3, QuietAnswer DEF Plain
<1> QED
  BY <1>2, <1>3

LEMMA QuietFindIndex ==
  ASSUME RequestTypeInv, Quiet, QuietAt, FindIndex
  PROVE  QuietAt'
<1> DEFINE At == IndexAt(fs, target, route.index)
<1>1. /\ step = "index" /\ UnchangedWorld /\ UNCHANGED <<sv, rt>>
      /\ target \in Seq(Character) /\ target # <<>>
      /\ Wanted = ExpectedOf(fs, target, route.index) /\ KindIn(fs, target) = "dir"
      /\ \A i \in At : pos <= i
  BY DEF FindIndex, QuietAt, Looking
<1>2. route.index \in Seq(Text) /\ pos \in Nat \ {0}
  BY RouteTyped DEF Quiet, RequestTypeInv
<1>3. At \subseteq Nat /\ \A i \in At : i \in DOMAIN route.index /\ i <= Len(route.index)
  BY <1>2, IndexName DEF IndexAt
<1>4. Wanted = IF At # {} THEN {ExpectedFile(fs, Resolved(path_join(target, route.index[FirstOf(At)])))}
               ELSE ExpectedPage(fs, target)
  BY <1>1 DEF ExpectedOf, RegularFiles
<1>5. CASE pos > Len(route.index) /\ Dispatch("page") /\ UNCHANGED target
  <2>1. At = {}
    BY <1>1, <1>2, <1>3, <1>5
  <2>2. step' = "page" /\ used' = used
    BY <1>5, NotBarred DEF FindIndex, UnchangedPage, Dispatch, Continue, Go
  <2> QED
    BY <1>1, <1>5, <2>1, <2>2, QuietFrame DEF QuietAt, Looking, Opening
<1>6. CASE /\ pos \in DOMAIN route.index /\ is_file(path_join(target, route.index[pos]))
           /\ target' = path_join(target, route.index[pos]) /\ Dispatch("file")
  <2>1. pos \in At
    BY <1>6 DEF IndexAt, is_file
  <2>2. FirstOf(At) = pos
    BY <1>1, <1>3, <2>1, FirstIs
  <2>3. Wanted = {ExpectedFile(fs, Resolved(target'))}
    BY <1>4, <1>6, <2>1, <2>2
  <2>4. target' \in Seq(Character) /\ target' # <<>>
    BY <1>1, <1>2, <1>6, IndexName, JoinType
  <2>5. KindIn(fs, target') \in RegularFiles /\ step' = "file"
    BY <1>6, NotBarred DEF is_file, Dispatch, Continue, Go
  <2> QED
    BY <1>1, <2>3, <2>4, <2>5, QuietFrame DEF QuietAt, Looking, Opening
<1>7. CASE /\ pos \in DOMAIN route.index /\ ~is_file(path_join(target, route.index[pos]))
           /\ Continue("index", pos + 1) /\ UNCHANGED target
  <2>1. pos \notin At
    BY <1>7 DEF IndexAt, is_file
  <2>2. \A i \in At : pos + 1 <= i
    BY <1>1, <1>2, <1>3, <2>1
  <2>3. step' = "index" /\ pos' = pos + 1
    BY <1>7 DEF Continue, Go
  <2> QED
    BY <1>1, <1>7, <2>2, <2>3, QuietFrame DEF QuietAt, Looking, Opening
<1> QED
  BY <1>5, <1>6, <1>7 DEF FindIndex, NextIndex

LEMMA QuietResolveFile ==
  ASSUME RequestTypeInv, Quiet, QuietAt, ResolveFile
  PROVE  QuietAt'
<1>1. /\ step = "file" /\ UnchangedWorld /\ UNCHANGED <<sv, rt>>
      /\ target \in Seq(Character) /\ target # <<>> /\ KindIn(fs, target) \in RegularFiles
      /\ Wanted = {ExpectedFile(fs, Resolved(target))}
  BY DEF ResolveFile, QuietAt, Opening
<1>2. KindIn(fs, target) # "none"
  BY <1>1 DEF RegularFiles
<1>3. target' = Resolved(target) /\ step' = "public" /\ pos' = 1
  BY <1>2 DEF ResolveFile, Resolved, Continue, Go
<1>4. KindIn(fs, target') \in RegularFiles /\ target' # <<>> /\ target' \in Seq(Character)
  BY <1>1, <1>3, FileResolved, ResolvedType
<1>5. \A i \in FoundAt(fs) : 1 <= i
  BY PublicAt DEF FoundAt
<1> QED
  BY <1>1, <1>3, <1>4, <1>5, QuietFrame DEF QuietAt, Looking, Opening

LEMMA QuietResolvePublic ==
  ASSUME RequestTypeInv, Quiet, QuietAt, ResolvePublic
  PROVE  QuietAt'
<1>1. /\ step = "public" /\ UnchangedWorld /\ UNCHANGED <<sv, rt, target>>
      /\ target \in Seq(Character) /\ target # <<>> /\ KindIn(fs, target) \in RegularFiles
      /\ Wanted = {ExpectedFile(fs, target)} /\ \A i \in FoundAt(fs) : pos <= i
      /\ pos \in Nat \ {0}
  BY DEF ResolvePublic, QuietAt, Opening, RequestTypeInv
<1>2. \A i \in FoundAt(fs) : i \in Nat /\ i \in DOMAIN Public /\ i <= Len(Public)
  BY PublicAt DEF FoundAt
<1>3. CASE pos > Len(Public) /\ Answer(500, "none")
  <2>1. FoundAt(fs) = {}
    <3> SUFFICES ASSUME NEW i \in FoundAt(fs) PROVE FALSE
      OBVIOUS
    <3>1. Len(Public) \in Nat
      BY RequestAssumption
    <3> QED
      BY <1>1, <1>2, <1>3, <3>1
  <2>2. Wanted = {Plain(500)}
    BY <1>1, <2>1, ExpectedFileMiss
  <2> QED
    BY <1>1, <1>3, <2>2, QuietAnswer DEF Plain
<1>4. CASE pos \in DOMAIN Public /\ KindIn(fs, Public[pos]) = "none" /\ Continue("public", pos + 1)
  <2>1. pos \notin FoundAt(fs)
    BY <1>4 DEF FoundAt
  <2>2. \A i \in FoundAt(fs) : pos + 1 <= i
    BY <1>1, <1>2, <2>1
  <2>3. step' = "public" /\ pos' = pos + 1
    BY <1>4 DEF Continue, Go
  <2> QED
    BY <1>1, <2>2, <2>3, QuietFrame DEF QuietAt, Looking, Opening
<1>5. CASE pos \in DOMAIN Public /\ KindIn(fs, Public[pos]) # "none"
  <2>1. pos \in FoundAt(fs)
    BY <1>5 DEF FoundAt
  <2>2. ExpectedFile(fs, target) =
          IF inside_public(Public[pos], target) THEN FileServed(fs, target) ELSE Plain(403)
    BY <1>1, <2>1, ExpectedFileHit
  <2>3. CASE inside_public(Public[pos], target)
    <3>1. step' = "stat" /\ Wanted = {FileServed(fs, target)}
      BY <1>1, <1>2, <1>5, <2>1, <2>2, <2>3 DEF ResolvePublic, Continue, Go
    <3> QED
      BY <1>1, <3>1, QuietFrame DEF QuietAt, Looking, Opening
  <2>4. CASE ~inside_public(Public[pos], target)
    <3>1. Answer(403, "none") /\ Wanted = {Plain(403)}
      <4>1. ~(pos > Len(Public))
        BY <1>1, <1>2, <2>1, RequestAssumption
      <4> QED
        BY <1>1, <1>5, <2>2, <2>4, <4>1 DEF ResolvePublic
    <3> QED
      BY <1>1, <3>1, QuietAnswer DEF Plain
  <2> QED
    BY <2>3, <2>4
<1> QED
  BY <1>3, <1>4, <1>5 DEF ResolvePublic

LEMMA QuietStat ==
  ASSUME RequestTypeInv, Quiet, QuietAt, Stat
  PROVE  QuietAt'
<1>1. /\ step = "stat" /\ UnchangedWorld /\ UNCHANGED <<sv, rt, target>>
      /\ target \in Seq(Character) /\ target # <<>> /\ KindIn(fs, target) \in RegularFiles
      /\ Wanted = {FileServed(fs, target)}
  BY DEF Stat, QuietAt, Opening
<1>2. CASE KindIn(fs, target) = "private"
  <2>1. Answer(403, "none") /\ Wanted = {Plain(403)}
    BY <1>1, <1>2 DEF Stat, ReadableByOthers, FileServed
  <2> QED
    BY <1>1, <2>1, QuietAnswer DEF Plain
<1>3. CASE KindIn(fs, target) # "private"
  <2>1. step' = "fopen"
    BY <1>1, <1>3 DEF Stat, ReadableByOthers, RegularFiles, Continue, Go
  <2> QED
    BY <1>1, <1>3, <2>1, QuietFrame DEF QuietAt, Looking, Opening
<1> QED
  BY <1>2, <1>3

LEMMA QuietOpen ==
  ASSUME RequestTypeInv, Quiet, QuietAt, Open
  PROVE  QuietAt'
<1>1. /\ step = "fopen" /\ UnchangedWorld /\ UNCHANGED <<sv, rt, target>>
      /\ KindIn(fs, target) \in RegularFiles /\ KindIn(fs, target) # "private"
      /\ Wanted = {FileServed(fs, target)}
  BY DEF Open, QuietAt, Opening
<1>2. CASE KindIn(fs, target) = "locked"
  <2>1. Answer(403, "none") /\ Wanted = {Plain(403)}
    BY <1>1, <1>2 DEF Open, FileServed
  <2> QED
    BY <1>1, <2>1, QuietAnswer DEF Plain
<1>3. CASE KindIn(fs, target) # "locked"
  <2>1. KindIn(fs, target) = "file"
    BY <1>1, <1>3 DEF RegularFiles
  <2>2. Answer(200, "file") /\ Wanted = {[status |-> 200, body |-> "file"]}
    BY <1>1, <2>1 DEF Open, FileServed
  <2> QED
    BY <1>1, <2>2, QuietAnswer
<1> QED
  BY <1>2, <1>3

LEMMA QuietPage ==
  ASSUME Quiet, QuietAt, step \in {"page", "readdir"}
  PROVE  Wanted = ExpectedPage(fs, target)
BY DEF QuietAt, Looking, ExpectedOf, RegularFiles

LEMMA ChildrenNodes ==
  ASSUME NEW f, NEW p
  PROVE  Children(f, p) \subseteq Nodes
BY DEF Children

LEMMA QuietOpenDirectory ==
  ASSUME RequestTypeInv, QuietInv, Quiet, OpenDirectory
  PROVE  QuietAt'
<1>1. /\ step = "page" /\ UnchangedWorld /\ UNCHANGED <<sv, rt, target>>
      /\ QuietAt /\ used = 0 /\ is_dir(target)
      /\ target \in Seq(Character) /\ target # <<>> /\ KindIn(fs, target) = "dir"
      /\ Wanted = ExpectedOf(fs, target, route.index) /\ IndexAt(fs, target, route.index) = {}
  BY DEF OpenDirectory, QuietInv, QuietAt, Looking, is_dir
<1>2. CASE Fits(HeadSize)
  <2>1. step' = "readdir"
    BY <1>1, <1>2 DEF OpenDirectory, Continue, Go
  <2> QED
    BY <1>1, <2>1, QuietFrame DEF QuietAt, Looking, Opening
<1>3. CASE ~Fits(HeadSize)
  <2>1. Answer(500, "none")
    BY <1>3 DEF OpenDirectory
  <2>2. ~PageFits(Children(fs, target))
    <3> SUFFICES ASSUME PageFits(Children(fs, target)) PROVE FALSE
      OBVIOUS
    <3>1. HeadSize + Cardinality(RowBytes({})) < PageRoom
      BY ChildrenNodes, FitsLess
    <3>2. used + HeadSize < PageRoom
      BY <1>1, <3>1, NoRows, RequestAssumption
    <3> QED
      BY <1>3, <3>2 DEF Fits
  <2>3. Plain(500) \in Wanted
    BY <1>1, <2>2, QuietPage DEF ExpectedPage
  <2> QED
    BY <1>1, <2>1, <2>3, QuietAnswer DEF Plain
<1> QED
  BY <1>2, <1>3

LEMMA QuietEndPage ==
  ASSUME RequestTypeInv, SeenInv, PageInv, Quiet, QuietAt, EndPage
  PROVE  QuietAt'
<1>1. step = "readdir" /\ UnchangedWorld /\ UNCHANGED <<sv, rt>> /\ Wanted = ExpectedPage(fs, target)
  BY QuietPage DEF EndPage
<1>2. CASE Fits(FootSize)
  <2>1. Answer(200, "page")
    BY <1>2 DEF EndPage
  <2>2. [status |-> 200, body |-> "page"] \in Wanted
    BY <1>1 DEF ExpectedPage
  <2> QED
    BY <1>1, <2>1, <2>2, QuietAnswer
<1>3. CASE ~Fits(FootSize)
  <2>1. Answer(500, "none")
    BY <1>3 DEF EndPage
  <2>2. ~PageFits(Children(fs, target))
    <3> SUFFICES ASSUME PageFits(Children(fs, target)) PROVE FALSE
      OBVIOUS
    <3>1. rows \subseteq Children(fs, target)
      BY <1>1 DEF SeenInv, Listed, Quiet
    <3>2. PageFits(rows)
      BY <3>1, ChildrenNodes, FitsFewer
    <3>3. used = HeadSize + Cardinality(RowBytes(rows))
      BY <1>1 DEF PageInv
    <3>4. used + FootSize < PageRoom
      BY <3>2, <3>3 DEF PageFits
    <3> QED
      BY <1>3, <3>4 DEF Fits
  <2>3. Plain(500) \in Wanted
    BY <1>1, <2>2 DEF ExpectedPage
  <2> QED
    BY <1>1, <2>1, <2>3, QuietAnswer DEF Plain
<1> QED
  BY <1>2, <1>3

LEMMA QuietReadDirectory ==
  ASSUME RequestTypeInv, Quiet, QuietAt, ReadDirectory
  PROVE  QuietAt'
<1>1. /\ step = "readdir" /\ step' = "readdir" /\ UnchangedWorld /\ UNCHANGED <<sv, rt, target>>
  BY DEF ReadDirectory, Continue, Go
<1> QED
  BY <1>1, QuietFrame DEF QuietAt, Looking, Opening

LEMMA QuietLooks ==
  ASSUME RequestTypeInv, SeenInv, PageInv, QuietInv, session_process_request,
         Locate \/ IsFile \/ IsDir \/ FindIndex \/ xps_file_create \/ xps_directory_browsing
  PROVE  QuietInv'
<1>1. UnchangedWorld /\ UNCHANGED <<sv, rt>>
  BY DEF Locate, IsFile, IsDir, FindIndex, xps_file_create, ResolveFile, ResolvePublic, Stat, Open,
         xps_directory_browsing, OpenDirectory, ReadDirectory, EndPage
<1>2. step' # "other"
  BY NotBarred, AnswerIs DEF Locate, IsFile, IsDir, FindIndex, xps_file_create, ResolveFile, ResolvePublic, Stat, Open,
         xps_directory_browsing, OpenDirectory, ReadDirectory, EndPage, Dispatch, NotThere, Continue, Go
<1>3. step' \notin {"readdir", "answered"} => used' = 0
  BY AnswerIs DEF QuietInv, Locate, IsFile, IsDir, FindIndex, xps_file_create, ResolveFile, ResolvePublic, Stat,
         Open, xps_directory_browsing, OpenDirectory, ReadDirectory, EndPage, UnchangedPage, Continue, Go
<1>4. Quiet /\ QuietAt => QuietAt'
  BY QuietLocate, QuietIsFile, QuietIsDir, QuietFindIndex, QuietResolveFile, QuietResolvePublic, QuietStat,
     QuietOpen, QuietOpenDirectory, QuietReadDirectory, QuietEndPage
  DEF xps_file_create, xps_directory_browsing
<1> QED
  BY <1>1, <1>2, <1>3, <1>4, QuietMoves

LEMMA QuietChooses ==
  ASSUME RequestTypeInv, QuietInv, session_process_request,
         FindServer \/ FindRoute \/ RouteFound \/ OtherRoutes
  PROVE  QuietInv'
<1>1. UnchangedWorld /\ UnchangedPage /\ phase = "serving"
  BY DEF session_process_request, FindServer, FindRoute, RouteFound, OtherRoutes
<1>2. IsFiniteSet(seen)' /\ used' = used /\ phase' \notin Starting
  BY <1>1, CallPhase DEF UnchangedWorld, UnchangedPage, QuietInv
<1>3. step \notin {"readdir", "answered"}
  BY DEF FindServer, FindRoute, RouteFound, OtherRoutes
<1>4. used' = 0
  BY <1>2, <1>3 DEF QuietInv
<1>5. CASE FindServer
  <2>1. step' # "other" /\ rt' = 0
    BY <1>5, AnswerIs DEF FindServer, RequestTypeInv, RequestTypeOK, Continue, Go
  <2> QED
    BY <1>2, <1>4, <2>1 DEF QuietInv, Quiet
<1>6. CASE FindRoute
  <2>1. step' = "route"
    BY <1>6 DEF FindRoute, Continue, Go
  <2> QED
    BY <1>2, <1>4, <2>1 DEF QuietInv, QuietAt, Looking, Opening
<1>7. CASE RouteFound
  <2>1. UNCHANGED <<sv, rt>> /\ route' = route
    BY <1>1, <1>7, QuietFrame DEF RouteFound
  <2>2. CASE step' = "answered" /\ (rt = 0 \/ phase' = "aborted")
    BY <1>2, <2>1, <2>2 DEF QuietInv, Quiet
  <2>3. CASE step' = "locate" /\ route.dir_path # NULL
    BY <1>2, <1>4, <2>1, <2>3 DEF QuietInv, QuietAt, Looking, Opening
  <2>4. CASE step' = "other" /\ route.type # "file_serve"
    BY <1>2, <1>4, <2>1, <2>4 DEF QuietInv, Quiet
  <2> QED
    BY <1>7, <2>2, <2>3, <2>4, AnswerIs DEF RouteFound, Abort, Continue, Go
<1>8. CASE OtherRoutes
  <2>1. step' = "answered" /\ route.type # "file_serve" /\ route' = route
    BY <1>1, <1>8, AnswerIs, QuietFrame DEF OtherRoutes, Abort, Go, QuietInv
  <2> QED
    BY <1>2, <2>1 DEF QuietInv, Quiet
<1> QED
  BY <1>5, <1>6, <1>7, <1>8

LEMMA QuietStep ==
  RequestTypeInv /\ SeenInv /\ PageInv /\ QuietInv /\ [RequestNext]_allVars => QuietInv'
<1> SUFFICES ASSUME RequestTypeInv, SeenInv, PageInv, QuietInv, [RequestNext]_allVars PROVE QuietInv'
  OBVIOUS
<1>1. CASE UNCHANGED allVars
  <2>1. UNCHANGED <<servers, phase, fs, seen, req, step, pos, sv, rt, target, used, answer>>
    BY <1>1 DEF allVars, configVars, requestVars
  <2>2. route' = route /\ Wanted' = Wanted
    BY <2>1 DEF route, Routes, Wanted, Asked
  <2>3. QuietAt => QuietAt'
    BY <2>1, <2>2 DEF QuietAt
  <2> QED
    BY <2>1, <2>2, <2>3 DEF QuietInv, Quiet
<1>2. CASE Start
  <2>1. UNCHANGED <<seen, step, rt, used>>
    BY <1>2 DEF Start, requestVars
  <2>2. phase \in Starting
    BY <1>2 DEF Start, StartStep, xps_config_create, UnreadableFile, MergeListener, NextServer, AllMerged,
                BindListener, AllBound, Starting
  <2>3. step = "idle" /\ rt = 0
    BY <2>2 DEF QuietInv, RequestTypeInv
  <2> QED
    BY <2>1, <2>3 DEF QuietInv, Quiet
<1>3. CASE Arrive
  <2>0. phase' \notin Starting
    BY <1>3 DEF Arrive, Continue, Answer, Starting
  <2>1. step = "idle" /\ rt = 0 /\ UNCHANGED <<rt, used>> /\ seen' = {fs} /\ step' \in {"answered", "server"}
    BY <1>3, AnswerIs DEF Arrive, UnchangedPage, Continue, Go, RequestTypeInv
  <2>2. used' = 0 /\ IsFiniteSet(seen')
    BY <2>1, FS_Singleton DEF QuietInv
  <2> QED
    BY <2>0, <2>1, <2>2 DEF QuietInv, Quiet
<1>4. CASE Finish
  BY <1>4, FS_EmptySet DEF Finish, Go, configVars, QuietInv, Quiet
<1>5. CASE Change
  <2>1. /\ UNCHANGED <<step, rt, used, phase>> /\ step # "other"
        /\ fs \in seen' /\ fs' # fs /\ seen' = seen \cup {fs'}
    <3>1. PICK n \in Nodes, kind \in Kinds : kind # fs[n] /\ fs' = [fs EXCEPT ![n] = kind]
      BY <1>5 DEF Change
    <3>2. fs' # fs
      BY <3>1 DEF RequestTypeInv, RequestTypeOK
    <3> QED
      BY <1>5, <3>2 DEF Change, requestVars, configVars, SeenInv
  <2>2. IsFiniteSet(seen')
    BY <2>1, FS_AddElement DEF QuietInv
  <2>3. ~Quiet'
    BY <2>1 DEF Quiet
  <2> QED
    BY <2>1, <2>2, <2>3 DEF QuietInv
<1>6. CASE session_process_request
  BY <1>6, QuietLooks, QuietChooses DEF session_process_request, xps_config_lookup
<1> QED
  BY <1>1, <1>2, <1>3, <1>4, <1>5, <1>6 DEF RequestNext, Stopped

(***************************************************************************)
(* While no file changes under a request, the separate looks of            *)
(* xps_config_lookup, xps_file_create and xps_directory_browsing come to   *)
(* the answer that one look at the files gives: for every route of files,  *)
(* every path, however it is written, and every file system.               *)
(***************************************************************************)
THEOREM QuietAnswersAreExpected == RequestSpec => []QuietAnswerIsExpected
<1>1. RequestSpec => []RequestTypeInv
  BY RequestTypeInit, RequestTypeStep, PTL DEF RequestSpec
<1>2. RequestSpec => []SeenInv
  BY SeenInit, SeenStep, PTL DEF RequestSpec
<1>3. RequestSpec => []PageInv
  BY <1>1, <1>2, PageInit, PageStep, PTL DEF RequestSpec
<1>4. RequestSpec => []QuietInv
  BY <1>1, <1>2, <1>3, QuietInit, QuietStep, PTL DEF RequestSpec
<1> QED
  BY <1>1, <1>2, <1>4, QuietMeans, PTL
=============================================================================
