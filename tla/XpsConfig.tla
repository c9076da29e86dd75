------------------------------ MODULE XpsConfig ------------------------------
(***************************************************************************)
(* From the configuration file to listening sockets (config/xps_config.c,  *)
(* main.c): the servers of the file name addresses to listen on, often the *)
(* same ones; parse_all_listener merges them, core_create opens each once. *)
(*                                                                         *)
(* The file is what the JSON parser makes of it: a sequence of servers.    *)
(* Every route has a req_path and a type; the other fields may be missing. *)
(***************************************************************************)
EXTENDS Integers, Sequences, FiniteSets

CONSTANTS NULL,       \* a field that the file does not have
          Host,       \* host names and addresses
          Character,  \* what paths are made of
          Text,       \* paths
          Documents   \* the configuration files of this run

MaxPort == 65535

Address == [host: Host \cup {NULL}, port: Nat]
Route == [req_path: Text, type: {"file_serve", "reverse_proxy", "redirect", "other"},
          dir_path: Text \cup {NULL}, index: Seq(Text), upstreams: Seq(Host),
          redirect_url: Host \cup {NULL}, http_status_code: Nat,
          ip_whitelist: SUBSET Host, ip_blacklist: SUBSET Host]
Server == [listeners: Seq(Address), hostnames: Seq(Host), routes: Seq(Route)]

ASSUME ConfigAssumption ==
  /\ NULL \notin Host /\ NULL \notin Text
  /\ Text \subseteq Seq(Character) /\ "/" \in Character
  /\ Documents \subseteq Seq(Server)

VARIABLES
  servers,        \* config->servers
  all_listeners,  \* config->_all_listeners
  listeners,      \* core->listeners: the addresses that are listened on
  phase,          \* "parsing", "merging", "binding", "serving", "exited", "aborted"
  si, li          \* where the loops over servers and listeners are

configVars == <<servers, all_listeners, listeners, phase, si, li>>

ConfigTypeOK ==
  /\ servers \in Seq(Server)
  /\ all_listeners \in Seq(Address)
  /\ listeners \in Seq(Address)
  /\ phase \in {"parsing", "merging", "binding", "serving", "exited", "aborted"}
  /\ si \in Nat \ {0} /\ li \in Nat \ {0}

ConfigInit ==
  /\ servers = <<>> /\ all_listeners = <<>> /\ listeners = <<>>
  /\ phase = "parsing" /\ si = 1 /\ li = 1

-----------------------------------------------------------------------------
HasAccessList(d) ==
  \E i \in DOMAIN d : \E r \in DOMAIN d[i].routes :
    d[i].routes[r].ip_whitelist \cup d[i].routes[r].ip_blacklist # {}

\* The vectors of the access lists are never initialised: pushing onto one that
\* malloc did not happen to give as zeroes may end the process.
xps_config_create ==
  /\ phase = "parsing"
  /\ \E d \in Documents :
       \/ servers' = d /\ phase' = "merging"
       \/ HasAccessList(d) /\ phase' = "aborted" /\ UNCHANGED servers
  /\ UNCHANGED <<all_listeners, listeners, si, li>>

\* json_parse_file fails: main exits.
UnreadableFile ==
  /\ phase = "parsing" /\ phase' = "exited"
  /\ UNCHANGED <<servers, all_listeners, listeners, si, li>>

\* Mutant: only the ports are compared.
SameAddress_PortOnly(a, b) == a.port = b.port

\* Two missing hosts match, a missing one and a given one do not.
SameAddress(a, b) == a.port = b.port /\ a.host = b.host

IsDuplicate(a) == \E k \in DOMAIN all_listeners : SameAddress(all_listeners[k], a)

\* parse_all_listener
MergeListener ==
  /\ phase = "merging" /\ si <= Len(servers) /\ li <= Len(servers[si].listeners)
  /\ LET a == servers[si].listeners[li] IN
     all_listeners' = IF IsDuplicate(a) THEN all_listeners ELSE Append(all_listeners, a)
  /\ li' = li + 1
  /\ UNCHANGED <<servers, listeners, phase, si>>

NextServer ==
  /\ phase = "merging" /\ si <= Len(servers) /\ li > Len(servers[si].listeners)
  /\ si' = si + 1 /\ li' = 1
  /\ UNCHANGED <<servers, all_listeners, listeners, phase>>

AllMerged ==
  /\ phase = "merging" /\ si > Len(servers)
  /\ phase' = "binding" /\ li' = 1
  /\ UNCHANGED <<servers, all_listeners, listeners, si>>

\* core_create and xps_listener_create, which asserts that there is a host and
\* that the port is valid.  An address that cannot be bound is left out.
BindListener ==
  /\ phase = "binding" /\ li <= Len(all_listeners)
  /\ LET a == all_listeners[li] IN
     IF a.host = NULL \/ a.port > MaxPort
     THEN phase' = "aborted" /\ UNCHANGED <<listeners, li>>
     ELSE /\ listeners' \in {Append(listeners, a), listeners}
          /\ li' = li + 1
          /\ UNCHANGED phase
  /\ UNCHANGED <<servers, all_listeners, si>>

AllBound ==
  /\ phase = "binding" /\ li > Len(all_listeners)
  /\ phase' = "serving"
  /\ UNCHANGED <<servers, all_listeners, listeners, si, li>>

StartStep == \/ xps_config_create \/ UnreadableFile
             \/ MergeListener \/ NextServer \/ AllMerged
             \/ BindListener \/ AllBound

-----------------------------------------------------------------------------
(***************************************************************************)
(* What the merging must give.                                             *)
(***************************************************************************)
\* No address is merged, and so bound, twice (the second bind would fail, and
\* with a second listener the first would miss connections); and a server's
\* address is never taken for another's.  It holds in the middle of the loops
\* too.
OneListenerPerAddress ==
  /\ \A k, m \in DOMAIN all_listeners : all_listeners[k] = all_listeners[m] => k = m
  /\ \A k, m \in DOMAIN listeners : listeners[k] = listeners[m] => k = m
  /\ \A k \in DOMAIN listeners : \E m \in DOMAIN all_listeners : listeners[k] = all_listeners[m]
  /\ phase \in {"binding", "serving"} =>
       \A i \in DOMAIN servers : \A j \in DOMAIN servers[i].listeners :
         \E k \in DOMAIN all_listeners : all_listeners[k] = servers[i].listeners[j]
=============================================================================
