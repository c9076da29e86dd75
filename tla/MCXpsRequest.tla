---------------------------- MODULE MCXpsRequest ----------------------------
(***************************************************************************)
(* An instance of XpsRequest for TLC.  The two documents after the first   *)
(* have what is wrong in a file: addresses that cannot be opened, missing  *)
(* fields; and access lists.                                               *)
(***************************************************************************)
EXTENDS XpsRequest

Root == <<"/">>
P == <<"/", "p">>
PA == <<"/", "p", "/", "a">>
PB == <<"/", "p", "/", "b">>
PAI == <<"/", "p", "/", "a", "/", "i">>
X == <<"/", "p", "x">>
XI == <<"/", "p", "x", "/", "i">>
S == <<"/", "s", "/", "p">>

MCHost == {"any", "local", "h1", "h2", "url", "ip1", "ip2"}
MCPublic == <<S, P>>
MCCwd == <<"/", "s">>
MCNodes == {P, PA, PB, PAI, X, XI, S}
MCRowSize == [n \in MCNodes |-> IF n = PB THEN 4 ELSE 2]
MCPaths == {Root, <<"/", "a">>, <<"/", "a", "/">>, <<"/", "a", "i">>, <<"/", "i">>, NULL}

Tree(dirs, files) ==
  [n \in MCNodes |-> IF n \in dirs THEN "dir" ELSE IF n \in files THEN "file" ELSE "none"]
MCFileSystems == {Tree({P, PA, X}, {PAI, XI}), Tree({P, S}, {PA, PB}),
                  [Tree({P, PA, X}, {PAI}) EXCEPT ![XI] = "private"]}

\* A route with nothing but its path and type; and one for files.
Bare(path, type) ==
  [req_path |-> path, type |-> type, dir_path |-> NULL, index |-> <<>>, upstreams |-> <<>>,
   redirect_url |-> NULL, http_status_code |-> 0, ip_whitelist |-> {}, ip_blacklist |-> {}]
Files(path, dir, index) ==
  [Bare(path, "file_serve") EXCEPT !.dir_path = dir, !.index = index]
Redirect(path) == [Bare(path, "redirect") EXCEPT !.redirect_url = "url", !.http_status_code = 302]
Proxy(path) == [Bare(path, "reverse_proxy") EXCEPT !.upstreams = <<"url">>]

At(host, port) == [host |-> host, port |-> port]

MCDocuments == {
  << [listeners |-> <<At("any", 1), At("any", 1)>>, hostnames |-> <<"h1">>,
      routes |-> <<Files(Root, P, <<<<"b">>, <<"i">>>>)>>],
     [listeners |-> <<At("any", 2), At("any", 1)>>, hostnames |-> <<>>,
      routes |-> <<Files(Root, <<"p">>, <<>>), Proxy(<<"/", "a", "/">>), Files(<<"/", "i">>, X, <<>>),
                   Redirect(<<"/", "a">>), Bare(<<"/", "a">>, "other")>>] >>,
  << [listeners |-> <<At("any", 1), At("local", 1), At(NULL, 1), At(NULL, 1)>>, hostnames |-> <<>>,
      routes |-> <<>>] >>,
  << [listeners |-> <<At("any", 1)>>, hostnames |-> <<>>,
      routes |-> <<Bare(<<"/", "a">>, "file_serve"), Bare(<<"/", "a", "i">>, "reverse_proxy"), Bare(<<"/", "i">>, "other"),
                   [Bare(Root, "redirect") EXCEPT !.ip_whitelist = {"ip1"}]>>],
     [listeners |-> <<At("any", 70000)>>, hostnames |-> <<>>, routes |-> <<>>] >>,
  << [listeners |-> <<At("any", 1)>>, hostnames |-> <<"h1">>,
      routes |-> <<[Redirect(Root) EXCEPT !.ip_whitelist = {"ip1"}],
                   Bare(<<"/", "a">>, "file_serve"), Bare(<<"/", "a", "i">>, "reverse_proxy"),
                   Bare(<<"/", "a", "/">>, "redirect"), Bare(<<"/", "i">>, "other")>>] >> }

MCText == {Root, <<"/", "a">>, <<"/", "a", "/">>, <<"/", "a", "i">>, <<"/", "i">>, <<"i">>, <<"b">>, <<"p">>, P, X}
=============================================================================
