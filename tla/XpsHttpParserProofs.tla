------------------------- MODULE XpsHttpParserProofs -------------------------
(***************************************************************************)
(* Proofs about the parser of requests: for every buffer, the pointers it  *)
(* leaves delimit well-formed parts in their order.                        *)
(***************************************************************************)
EXTENDS XpsHttpParser, TLAPS

\* The pointers that are still NULL at each stage of the request line, the last
\* stage first.
HeaderFields == {"header_key_start", "header_key_end", "header_val_start", "header_val_end"}
FromEnd      == HeaderFields \cup {"request_line_end"}
FromMinor    == FromEnd \cup {"http_minor"}
FromVersion  == FromMinor \cup {"http_major"}
FromPathname == FromVersion \cup {"uri_end", "path_end"}
FromPath     == FromPathname \cup {"pathname_end"}
FromPort     == FromPath \cup {"path_start", "pathname_start", "port_end"}
FromHost     == FromPort \cup {"host_end", "port_start"}
FromSlash    == FromHost \cup {"host_start"}
FromSchema   == FromSlash \cup {"schema_end"}
FromTarget   == FromSchema \cup {"schema_start", "uri_start"}
FromMethod   == FromTarget \cup {"method_end"}

Server == {"schema_start", "schema_end", "host_start", "host_end", "port_start", "port_end"}

Null(S) == \A x \in S : f[x] = 0

\* What is known of the parts that have been read.
BeginRead == /\ 0 < f["request_line_start"] /\ f["request_line_start"] < p
             /\ f["method_start"] = f["request_line_start"]
MethodRead == BeginRead /\ f["method_start"] < f["method_end"] /\ f["method_end"] < p
UriBegun == MethodRead /\ f["method_end"] < f["uri_start"] /\ f["uri_start"] < p
SchemaBegun == UriBegun /\ f["schema_start"] = f["uri_start"]
SchemaRead == SchemaBegun /\ f["schema_start"] <= f["schema_end"] /\ f["schema_end"] < p
HostBegun == SchemaRead /\ f["schema_end"] < f["host_start"] /\ f["host_start"] <= p
HostRead == /\ HostBegun /\ f["host_start"] <= f["host_end"] /\ f["host_end"] < p
            /\ f["port_start"] = f["host_end"] + 1
ServerRead ==
  /\ HostBegun /\ f["host_start"] <= f["host_end"]
  /\ f["host_end"] <= f["port_end"] /\ f["port_end"] <= f["path_start"]
  /\ f["port_start"] # 0 =>
       f["port_start"] = f["host_end"] + 1 /\ f["port_start"] <= f["port_end"]
PathBegun ==
  /\ UriBegun /\ (Null(Server) \/ ServerRead)
  /\ f["uri_start"] <= f["path_start"] /\ f["path_start"] <= p
  /\ f["pathname_start"] = f["path_start"]
PathnameRead == PathBegun /\ f["path_start"] <= f["pathname_end"] /\ f["pathname_end"] < p
UriRead ==
  /\ PathBegun
  /\ f["path_start"] <= f["uri_end"] /\ f["uri_end"] < p
  /\ f["path_end"] \in {0, f["uri_end"]}
  /\ f["pathname_end"] # 0 => f["path_start"] <= f["pathname_end"]
MajorRead == UriRead /\ f["uri_end"] < f["http_major"] /\ f["http_major"] < p
MinorRead == MajorRead /\ f["http_major"] < f["http_minor"] /\ f["http_minor"] < p
LineRead == MinorRead /\ f["request_line_start"] < f["request_line_end"]

EarlyVersion == {"RL_VERSION_START", "RL_VERSION_H", "RL_VERSION_HT", "RL_VERSION_HTT",
                 "RL_VERSION_HTTP", "RL_VERSION_HTTP_SLASH"}

\* The pointers, state by state of the request line.
LineInv ==
  /\ st = "RL_START" => Null(Field)
  /\ st = "RL_METHOD" => BeginRead /\ Null(FromMethod)
  /\ st = "RL_SP_AFTER_METHOD" => MethodRead /\ Null(FromTarget)
  /\ st = "RL_SCHEMA" => SchemaBegun /\ Null(FromSchema)
  /\ st \in {"RL_SCHEMA_SLASH", "RL_SCHEMA_SLASH_SLASH"} => SchemaRead /\ Null(FromSlash)
  /\ st = "RL_HOST" => HostBegun /\ Null(FromHost)
  /\ st = "RL_PORT" => HostRead /\ Null(FromPort)
  /\ st = "RL_PATH" => PathBegun /\ Null(FromPath)
  /\ st = "RL_PATHNAME" => PathnameRead /\ Null(FromPathname)
  /\ st \in EarlyVersion => UriRead /\ Null(FromVersion)
  /\ st \in {"RL_VERSION_MAJOR", "RL_VERSION_DOT"} => MajorRead /\ Null(FromMinor)
  /\ st \in {"RL_VERSION_MINOR", "RL_CR", "RL_LF"} => MinorRead /\ Null(FromEnd)
  /\ st \in HeaderState => LineRead

\* The same of a header line; the pointers of the line before it remain.
HeaderInv ==
  /\ st \in HeaderState \ {"H_NAME"} =>
       (f["header_key_start"] # 0 /\ f["header_key_end"] # 0
          => f["header_key_start"] <= f["header_key_end"])
  /\ st = "H_NAME" => 0 < f["header_key_start"] /\ f["header_key_start"] < p
  /\ st = "H_VAL" => 0 < f["header_val_start"] /\ f["header_val_start"] < p
  /\ st \in {"H_CR", "H_LF", "H_LF_LF", "H_LF_CR"} =>
       0 < f["header_val_start"] /\ f["header_val_start"] <= f["header_val_end"]

\* The last line end, where the next line is about to begin.
EndInv ==
  result = "parsing" =>
    /\ st \in {"RL_LF", "H_LF"} => eol = p - 1
    /\ st = "H_START" => eol = p - 1 \/ ahead \in LineEnd
    /\ st = "H_NAME" => f["header_key_start"] = eol + 1

PointersInv == LineInv /\ HeaderInv

-----------------------------------------------------------------------------
(***************************************************************************)
(* Types, and a step that marks nothing.                                   *)
(***************************************************************************)
LEMMA Fields ==
  /\ FromMethod \subseteq Field /\ Server \subseteq Field /\ HeaderFields \subseteq Field
  /\ FromTarget \subseteq FromMethod /\ FromSchema \subseteq FromTarget
  /\ FromSlash \subseteq FromSchema /\ FromHost \subseteq FromSlash
  /\ FromPort \subseteq FromHost /\ FromPath \subseteq FromPort
  /\ FromPathname \subseteq FromPath /\ FromVersion \subseteq FromPathname
  /\ FromMinor \subseteq FromVersion /\ FromEnd \subseteq FromMinor
  /\ HeaderFields \subseteq FromEnd
BY DEF Field, FromMethod, FromTarget, FromSchema, FromSlash, FromHost, FromPort, FromPath,
       FromPathname, FromVersion, FromMinor, FromEnd, HeaderFields, Server

LEMMA PointerTypes ==
  ASSUME TypeOK
  PROVE  /\ p \in Nat /\ p > 0 /\ f \in [Field -> Nat]
         /\ \A x \in Field : f[x] \in Nat /\ f[x] <= p
BY DEF TypeOK

LEMMA Marked ==
  ASSUME TypeOK, NEW S, NEW T, Marks(S, T)
  PROVE  \A x \in Field : f'[x] = IF x \in S THEN p ELSE IF x \in T THEN p + 1 ELSE f[x]
BY DEF Marks

\* A part that has been read stays read as the parser goes on.
LEMMA LaterOnly ==
  ASSUME TypeOK, UNCHANGED f, p' \in Nat, p <= p'
  PROVE  /\ (BeginRead => BeginRead') /\ (MethodRead => MethodRead') /\ (UriBegun => UriBegun')
         /\ (SchemaBegun => SchemaBegun') /\ (SchemaRead => SchemaRead')
         /\ (HostBegun => HostBegun') /\ (HostRead => HostRead') /\ (ServerRead => ServerRead')
         /\ (PathBegun => PathBegun') /\ (PathnameRead => PathnameRead')
         /\ (UriRead => UriRead') /\ (MajorRead => MajorRead') /\ (MinorRead => MinorRead')
         /\ (LineRead => LineRead')
<1> USE PointerTypes DEF Field
<1>1. (BeginRead => BeginRead') /\ (MethodRead => MethodRead') /\ (UriBegun => UriBegun')
  BY DEF BeginRead, MethodRead, UriBegun
<1>2. (SchemaBegun => SchemaBegun') /\ (SchemaRead => SchemaRead') /\ (HostBegun => HostBegun')
  BY <1>1 DEF SchemaBegun, SchemaRead, HostBegun
<1>3. (HostRead => HostRead') /\ (ServerRead => ServerRead')
  BY <1>2 DEF HostRead, ServerRead
<1>4. (PathBegun => PathBegun') /\ (PathnameRead => PathnameRead')
  BY <1>1, <1>3 DEF PathBegun, PathnameRead, Null
<1>5. (UriRead => UriRead') /\ (MajorRead => MajorRead')
  BY <1>4 DEF UriRead, MajorRead
<1>6. (MinorRead => MinorRead') /\ (LineRead => LineRead')
  BY <1>5 DEF MinorRead, LineRead
<1> QED
  BY <1>1, <1>2, <1>3, <1>4, <1>5, <1>6

LEMMA NullKept ==
  ASSUME UNCHANGED f, NEW S
  PROVE  Null(S) => Null(S)'
BY DEF Null

\* A step that marks nothing and does not go back keeps what is known.
LEMMA Kept ==
  ASSUME TypeOK, PointersInv, UNCHANGED <<st, f>>, p' \in Nat, p <= p'
  PROVE  PointersInv'
<1>1. LineInv'
  BY LaterOnly, NullKept DEF PointersInv, LineInv
<1>2. HeaderInv'
  BY PointerTypes DEF PointersInv, HeaderInv, Field
<1> QED
  BY <1>1, <1>2 DEF PointersInv

LEMMA NullMarked ==
  ASSUME TypeOK, NEW S, NEW T, Marks(S, T), NEW U, U \subseteq Field,
         \A x \in U : x \notin S /\ x \notin T, Null(U)
  PROVE  Null(U)'
BY Marked DEF Null

LEMMA NullLess ==
  ASSUME NEW S, NEW T, T \subseteq S, Null(S)
  PROVE  Null(T)
BY DEF Null

-----------------------------------------------------------------------------
(***************************************************************************)
(* The states of the request line.                                         *)
(***************************************************************************)
LEMMA InStart ==
  ASSUME TypeOK, PointersInv, NEW ch, st = "RL_START", RL_START(ch)
  PROVE  PointersInv'
<1>1. CASE Skip \/ Fail
  BY <1>1, Kept, PointerTypes DEF Skip, Go, Fail
<1>2. CASE Go("RL_METHOD") /\ Mark({"request_line_start", "method_start"})
  <2>1. \A x \in Field : f'[x] = IF x \in {"request_line_start", "method_start"} THEN p ELSE f[x]
    BY <1>2 DEF Mark, Marks
  <2>2. BeginRead'
    BY <1>2, <2>1, PointerTypes DEF BeginRead, Go, Field
  <2>3. Null(FromMethod)
    BY Fields, NullLess DEF PointersInv, LineInv
  <2>4. Null(FromMethod)'
    BY <1>2, <2>3, Fields, NullMarked
    DEF Mark, FromMethod, FromTarget, FromSchema, FromSlash, FromHost, FromPort, FromPath,
        FromPathname, FromVersion, FromMinor, FromEnd, HeaderFields
  <2> QED
    BY <1>2, <2>2, <2>4 DEF PointersInv, LineInv, HeaderInv, HeaderState, EarlyVersion, Go
<1> QED
  BY <1>1, <1>2 DEF RL_START

LEMMA InMethod ==
  ASSUME TypeOK, PointersInv, NEW ch, st = "RL_METHOD", RL_METHOD(ch)
  PROVE  PointersInv'
<1>1. CASE Skip \/ Fail
  BY <1>1, Kept, PointerTypes DEF Skip, Go, Fail
<1>2. CASE Go("RL_SP_AFTER_METHOD") /\ Mark({"method_end"})
  <2>1. \A x \in Field : f'[x] = IF x \in {"method_end"} THEN p ELSE f[x]
    BY <1>2 DEF Mark, Marks
  <2>2. MethodRead'
    BY <1>2, <2>1, PointerTypes DEF PointersInv, LineInv, BeginRead, MethodRead, Go, Field
  <2>3. Null(FromTarget)
    BY Fields, NullLess DEF PointersInv, LineInv
  <2>4. Null(FromTarget)'
    BY <1>2, <2>3, Fields, NullMarked
    DEF Mark, FromTarget, FromSchema, FromSlash, FromHost, FromPort, FromPath,
        FromPathname, FromVersion, FromMinor, FromEnd, HeaderFields
  <2> QED
    BY <1>2, <2>2, <2>4 DEF PointersInv, LineInv, HeaderInv, HeaderState, EarlyVersion, Go
<1> QED
  BY <1>1, <1>2 DEF RL_METHOD

LEMMA InSpace ==
  ASSUME TypeOK, PointersInv, NEW ch, st = "RL_SP_AFTER_METHOD", RL_SP_AFTER_METHOD(ch)
  PROVE  PointersInv'
<1>1. CASE Skip \/ Fail
  BY <1>1, Kept, PointerTypes DEF Skip, Go, Fail
<1>2. CASE Go("RL_PATH") /\ Mark({"uri_start", "path_start", "pathname_start"})
  <2>1. \A x \in Field : f'[x] = IF x \in {"uri_start", "path_start", "pathname_start"}
                        THEN p ELSE f[x]
    BY <1>2 DEF Mark, Marks
  <2>2. PathBegun'
    BY <1>2, <2>1, PointerTypes
    DEF PointersInv, LineInv, BeginRead, MethodRead, UriBegun, PathBegun, Null, Server,
        FromTarget, FromSchema, FromSlash, FromHost, FromPort, Go, Field
  <2>3. Null(FromPath)
    BY Fields, NullLess DEF PointersInv, LineInv, EarlyVersion
  <2>4. Null(FromPath)'
    BY <1>2, <2>3, Fields, NullMarked
    DEF Mark, FromPath, FromPathname, FromVersion, FromMinor, FromEnd, HeaderFields
  <2> QED
    BY <1>2, <2>2, <2>4
    DEF PointersInv, LineInv, HeaderInv, HeaderState, EarlyVersion, Go
<1>3. CASE Go("RL_SCHEMA") /\ Mark({"schema_start", "uri_start"})
  <2>1. \A x \in Field : f'[x] = IF x \in {"schema_start", "uri_start"} THEN p ELSE f[x]
    BY <1>3 DEF Mark, Marks
  <2>2. SchemaBegun'
    BY <1>3, <2>1, PointerTypes
    DEF PointersInv, LineInv, BeginRead, MethodRead, UriBegun, SchemaBegun, Go, Field
  <2>3. Null(FromSchema)
    BY Fields, NullLess DEF PointersInv, LineInv, EarlyVersion
  <2>4. Null(FromSchema)'
    BY <1>3, <2>3, Fields, NullMarked
    DEF Mark, FromSchema, FromSlash, FromHost, FromPort, FromPath, FromPathname,
        FromVersion, FromMinor, FromEnd, HeaderFields
  <2> QED
    BY <1>3, <2>2, <2>4
    DEF PointersInv, LineInv, HeaderInv, HeaderState, EarlyVersion, Go
<1> QED
  BY <1>1, <1>2, <1>3 DEF RL_SP_AFTER_METHOD, FailUnless

LEMMA InSchema ==
  ASSUME TypeOK, PointersInv, NEW ch, st = "RL_SCHEMA", RL_SCHEMA(ch)
  PROVE  PointersInv'
<1>1. CASE Skip \/ Fail
  BY <1>1, Kept, PointerTypes DEF Skip, Go, Fail
<1>2. CASE Go("RL_SCHEMA_SLASH") /\ Mark({"schema_end"})
  <2>1. \A x \in Field : f'[x] = IF x \in {"schema_end"} THEN p ELSE f[x]
    BY <1>2 DEF Mark, Marks
  <2>2. SchemaRead'
    BY <1>2, <2>1, PointerTypes
    DEF PointersInv, LineInv, BeginRead, MethodRead, UriBegun, SchemaBegun, SchemaRead,
        Go, Field
  <2>3. Null(FromSlash)
    BY Fields, NullLess DEF PointersInv, LineInv, EarlyVersion
  <2>4. Null(FromSlash)'
    BY <1>2, <2>3, Fields, NullMarked
    DEF Mark, FromSlash, FromHost, FromPort, FromPath, FromPathname, FromVersion,
        FromMinor, FromEnd, HeaderFields
  <2> QED
    BY <1>2, <2>2, <2>4
    DEF PointersInv, LineInv, HeaderInv, HeaderState, EarlyVersion, Go
<1> QED
  BY <1>1, <1>2 DEF RL_SCHEMA, FailUnless

LEMMA InSlash ==
  ASSUME TypeOK, PointersInv, NEW ch, st = "RL_SCHEMA_SLASH", RL_SCHEMA_SLASH(ch)
  PROVE  PointersInv'
<1>1. CASE Skip \/ Fail
  BY <1>1, Kept, PointerTypes DEF Skip, Go, Fail
<1>2. CASE Go("RL_SCHEMA_SLASH_SLASH") /\ UNCHANGED f
  <2>1. SchemaRead'
    BY <1>2, LaterOnly, PointerTypes DEF PointersInv, LineInv, EarlyVersion, Go
  <2>2. Null(FromSlash)
    BY Fields, NullLess DEF PointersInv, LineInv, EarlyVersion
  <2>3. Null(FromSlash)'
    BY <1>2, <2>2, NullKept
  <2> QED
    BY <1>2, <2>1, <2>3
    DEF PointersInv, LineInv, HeaderInv, HeaderState, EarlyVersion, Go
<1> QED
  BY <1>1, <1>2 DEF RL_SCHEMA_SLASH, FailUnless

LEMMA InSlashes ==
  ASSUME TypeOK, PointersInv, NEW ch, st = "RL_SCHEMA_SLASH_SLASH", RL_SCHEMA_SLASH_SLASH(ch)
  PROVE  PointersInv'
<1>1. CASE Skip \/ Fail
  BY <1>1, Kept, PointerTypes DEF Skip, Go, Fail
<1>2. CASE Go("RL_HOST") /\ Marks({}, {"host_start"})
  <2>1. \A x \in Field : f'[x] = IF x \in {"host_start"} THEN p + 1 ELSE f[x]
    BY <1>2 DEF Mark, Marks
  <2>2. HostBegun'
    BY <1>2, <2>1, PointerTypes
    DEF PointersInv, LineInv, BeginRead, MethodRead, UriBegun, SchemaBegun, SchemaRead,
        HostBegun, Go, Field
  <2>3. Null(FromHost)
    BY Fields, NullLess DEF PointersInv, LineInv, EarlyVersion
  <2>4. Null(FromHost)'
    BY <1>2, <2>3, Fields, NullMarked
    DEF Mark, FromHost, FromPort, FromPath, FromPathname, FromVersion, FromMinor,
        FromEnd, HeaderFields
  <2> QED
    BY <1>2, <2>2, <2>4
    DEF PointersInv, LineInv, HeaderInv, HeaderState, EarlyVersion, Go
<1> QED
  BY <1>1, <1>2 DEF RL_SCHEMA_SLASH_SLASH, FailUnless

LEMMA InHost ==
  ASSUME TypeOK, PointersInv, NEW ch, st = "RL_HOST", RL_HOST(ch)
  PROVE  PointersInv'
<1>1. CASE Skip \/ Fail
  BY <1>1, Kept, PointerTypes DEF Skip, Go, Fail
<1>2. CASE Go("RL_PORT") /\ Marks({"host_end"}, {"port_start"})
  <2>1. \A x \in Field : f'[x] = IF x \in {"host_end"} THEN p
                        ELSE IF x \in {"port_start"} THEN p + 1 ELSE f[x]
    BY <1>2 DEF Mark, Marks
  <2>2. HostRead'
    BY <1>2, <2>1, PointerTypes
    DEF PointersInv, LineInv, BeginRead, MethodRead, UriBegun, SchemaBegun, SchemaRead,
        HostBegun, HostRead, Go, Field
  <2>3. Null(FromPort)
    BY Fields, NullLess DEF PointersInv, LineInv, EarlyVersion
  <2>4. Null(FromPort)'
    BY <1>2, <2>3, Fields, NullMarked
    DEF Mark, FromPort, FromPath, FromPathname, FromVersion, FromMinor, FromEnd,
        HeaderFields
  <2> QED
    BY <1>2, <2>2, <2>4
    DEF PointersInv, LineInv, HeaderInv, HeaderState, EarlyVersion, Go
<1>3. CASE Go("RL_PATH") /\ Mark({"host_end", "port_end", "path_start", "pathname_start"})
  <2>1. \A x \in Field : f'[x] = IF x \in {"host_end", "port_end", "path_start", "pathname_start"}
                        THEN p ELSE f[x]
    BY <1>3 DEF Mark, Marks
  <2>2. PathBegun'
    BY <1>3, <2>1, PointerTypes
    DEF PointersInv, LineInv, BeginRead, MethodRead, UriBegun, SchemaBegun, SchemaRead,
        HostBegun, ServerRead, PathBegun, Null, FromHost, Go, Field
  <2>3. Null(FromPath)
    BY Fields, NullLess DEF PointersInv, LineInv, EarlyVersion
  <2>4. Null(FromPath)'
    BY <1>3, <2>3, Fields, NullMarked
    DEF Mark, FromPath, FromPathname, FromVersion, FromMinor, FromEnd, HeaderFields
  <2> QED
    BY <1>3, <2>2, <2>4
    DEF PointersInv, LineInv, HeaderInv, HeaderState, EarlyVersion, Go
<1>4. CASE /\ Go("RL_VERSION_START")
           /\ Mark({"host_end", "port_end", "path_start", "pathname_start", "uri_end"})
  <2>1. \A x \in Field : f'[x] = IF x \in {"host_end", "port_end", "path_start",
                                            "pathname_start", "uri_end"}
                        THEN p ELSE f[x]
    BY <1>4 DEF Mark, Marks
  <2>2. UriRead'
    BY <1>4, <2>1, PointerTypes
    DEF PointersInv, LineInv, BeginRead, MethodRead, UriBegun, SchemaBegun, SchemaRead,
        HostBegun, ServerRead, PathBegun, UriRead, Null, FromHost, FromPort, FromPath,
        FromPathname, Go, Field
  <2>3. Null(FromVersion)
    BY Fields, NullLess DEF PointersInv, LineInv, EarlyVersion
  <2>4. Null(FromVersion)'
    BY <1>4, <2>3, Fields, NullMarked
    DEF Mark, FromVersion, FromMinor, FromEnd, HeaderFields
  <2> QED
    BY <1>4, <2>2, <2>4
    DEF PointersInv, LineInv, HeaderInv, HeaderState, EarlyVersion, Go
<1> QED
  BY <1>1, <1>2, <1>3, <1>4 DEF RL_HOST, FailUnless

LEMMA InPort ==
  ASSUME TypeOK, PointersInv, NEW ch, st = "RL_PORT", RL_PORT(ch)
  PROVE  PointersInv'
<1>1. CASE Skip \/ Fail
  BY <1>1, Kept, PointerTypes DEF Skip, Go, Fail
<1>2. CASE Go("RL_PATH") /\ Marks({"port_end"}, {"path_start", "pathname_start"})
  <2>1. \A x \in Field : f'[x] = IF x \in {"port_end"} THEN p
                        ELSE IF x \in {"path_start", "pathname_start"} THEN p + 1 ELSE f[x]
    BY <1>2 DEF Mark, Marks
  <2>2. PathBegun'
    BY <1>2, <2>1, PointerTypes
    DEF PointersInv, LineInv, BeginRead, MethodRead, UriBegun, SchemaBegun, SchemaRead,
        HostBegun, HostRead, ServerRead, PathBegun, Null, FromPort, Go, Field
  <2>3. Null(FromPath)
    BY Fields, NullLess DEF PointersInv, LineInv, EarlyVersion
  <2>4. Null(FromPath)'
    BY <1>2, <2>3, Fields, NullMarked
    DEF Mark, FromPath, FromPathname, FromVersion, FromMinor, FromEnd, HeaderFields
  <2> QED
    BY <1>2, <2>2, <2>4
    DEF PointersInv, LineInv, HeaderInv, HeaderState, EarlyVersion, Go
<1>3. CASE /\ Go("RL_VERSION_START")
           /\ Mark({"port_end", "path_start", "pathname_start", "uri_end", "path_end",
                    "pathname_end"})
  <2>1. \A x \in Field : f'[x] = IF x \in {"port_end", "path_start", "pathname_start",
                                            "uri_end", "path_end", "pathname_end"}
                        THEN p ELSE f[x]
    BY <1>3 DEF Mark, Marks
  <2>2. UriRead'
    BY <1>3, <2>1, PointerTypes
    DEF PointersInv, LineInv, BeginRead, MethodRead, UriBegun, SchemaBegun, SchemaRead,
        HostBegun, HostRead, ServerRead, PathBegun, UriRead, Null, FromPort, Go, Field
  <2>3. Null(FromVersion)
    BY Fields, NullLess DEF PointersInv, LineInv, EarlyVersion
  <2>4. Null(FromVersion)'
    BY <1>3, <2>3, Fields, NullMarked
    DEF Mark, FromVersion, FromMinor, FromEnd, HeaderFields
  <2> QED
    BY <1>3, <2>2, <2>4
    DEF PointersInv, LineInv, HeaderInv, HeaderState, EarlyVersion, Go
<1> QED
  BY <1>1, <1>2, <1>3 DEF RL_PORT, FailUnless

LEMMA InPath ==
  ASSUME TypeOK, PointersInv, NEW ch, st = "RL_PATH", RL_PATH(ch)
  PROVE  PointersInv'
<1>1. CASE Skip \/ Fail
  BY <1>1, Kept, PointerTypes DEF Skip, Go, Fail
<1>2. CASE Go("RL_VERSION_START") /\ Mark({"path_end", "pathname_end", "uri_end"})
  <2>1. \A x \in Field : f'[x] = IF x \in {"path_end", "pathname_end", "uri_end"}
                        THEN p ELSE f[x]
    BY <1>2 DEF Mark, Marks
  <2>2. UriRead'
    BY <1>2, <2>1, PointerTypes
    DEF PointersInv, LineInv, BeginRead, MethodRead, UriBegun, SchemaBegun, SchemaRead,
        HostBegun, HostRead, ServerRead, PathBegun, Null, Server, UriRead, Go, Field
  <2>3. Null(FromVersion)
    BY Fields, NullLess DEF PointersInv, LineInv, EarlyVersion
  <2>4. Null(FromVersion)'
    BY <1>2, <2>3, Fields, NullMarked
    DEF Mark, FromVersion, FromMinor, FromEnd, HeaderFields
  <2> QED
    BY <1>2, <2>2, <2>4
    DEF PointersInv, LineInv, HeaderInv, HeaderState, EarlyVersion, Go
<1>3. CASE Go("RL_PATHNAME") /\ Mark({"pathname_end"})
  <2>1. \A x \in Field : f'[x] = IF x \in {"pathname_end"} THEN p ELSE f[x]
    BY <1>3 DEF Mark, Marks
  <2>2. PathnameRead'
    BY <1>3, <2>1, PointerTypes
    DEF PointersInv, LineInv, BeginRead, MethodRead, UriBegun, SchemaBegun, SchemaRead,
        HostBegun, HostRead, ServerRead, PathBegun, Null, Server, PathnameRead, Go,
        Field
  <2>3. Null(FromPathname)
    BY Fields, NullLess DEF PointersInv, LineInv, EarlyVersion
  <2>4. Null(FromPathname)'
    BY <1>3, <2>3, Fields, NullMarked
    DEF Mark, FromPathname, FromVersion, FromMinor, FromEnd, HeaderFields
  <2> QED
    BY <1>3, <2>2, <2>4
    DEF PointersInv, LineInv, HeaderInv, HeaderState, EarlyVersion, Go
<1> QED
  BY <1>1, <1>2, <1>3 DEF RL_PATH, FailUnless

LEMMA InPathname ==
  ASSUME TypeOK, PointersInv, NEW ch, st = "RL_PATHNAME", RL_PATHNAME(ch)
  PROVE  PointersInv'
<1>1. CASE Skip \/ Fail
  BY <1>1, Kept, PointerTypes DEF Skip, Go, Fail
<1>2. CASE Go("RL_VERSION_START") /\ Mark({"path_end", "pathname_end", "uri_end"})
  <2>1. \A x \in Field : f'[x] = IF x \in {"path_end", "pathname_end", "uri_end"}
                        THEN p ELSE f[x]
    BY <1>2 DEF Mark, Marks
  <2>2. UriRead'
    BY <1>2, <2>1, PointerTypes
    DEF PointersInv, LineInv, BeginRead, MethodRead, UriBegun, SchemaBegun, SchemaRead,
        HostBegun, HostRead, ServerRead, PathBegun, Null, Server, PathnameRead, UriRead,
        Go, Field
  <2>3. Null(FromVersion)
    BY Fields, NullLess DEF PointersInv, LineInv, EarlyVersion
  <2>4. Null(FromVersion)'
    BY <1>2, <2>3, Fields, NullMarked
    DEF Mark, FromVersion, FromMinor, FromEnd, HeaderFields
  <2> QED
    BY <1>2, <2>2, <2>4
    DEF PointersInv, LineInv, HeaderInv, HeaderState, EarlyVersion, Go
<1> QED
  BY <1>1, <1>2 DEF RL_PATHNAME, FailUnless

LEMMA InVersionStart ==
  ASSUME TypeOK, PointersInv, NEW ch, st = "RL_VERSION_START", RL_VERSION_START(ch)
  PROVE  PointersInv'
<1>1. CASE Skip \/ Fail
  BY <1>1, Kept, PointerTypes DEF Skip, Go, Fail
<1>2. CASE Go("RL_VERSION_H") /\ UNCHANGED f
  <2>1. UriRead'
    BY <1>2, LaterOnly, PointerTypes DEF PointersInv, LineInv, EarlyVersion, Go
  <2>2. Null(FromVersion)
    BY Fields, NullLess DEF PointersInv, LineInv, EarlyVersion
  <2>3. Null(FromVersion)'
    BY <1>2, <2>2, NullKept
  <2> QED
    BY <1>2, <2>1, <2>3
    DEF PointersInv, LineInv, HeaderInv, HeaderState, EarlyVersion, Go
<1> QED
  BY <1>1, <1>2 DEF RL_VERSION_START, FailUnless

LEMMA InMinor ==
  ASSUME TypeOK, PointersInv, NEW ch, st = "RL_VERSION_MINOR", RL_VERSION_MINOR(ch)
  PROVE  PointersInv'
<1>1. CASE Skip \/ Fail
  BY <1>1, Kept, PointerTypes DEF Skip, Go, Fail
<1>2. CASE Go("RL_CR") /\ UNCHANGED f
  <2>1. MinorRead'
    BY <1>2, LaterOnly, PointerTypes DEF PointersInv, LineInv, EarlyVersion, Go
  <2>2. Null(FromEnd)
    BY Fields, NullLess DEF PointersInv, LineInv, EarlyVersion
  <2>3. Null(FromEnd)'
    BY <1>2, <2>2, NullKept
  <2> QED
    BY <1>2, <2>1, <2>3
    DEF PointersInv, LineInv, HeaderInv, HeaderState, EarlyVersion, Go
<1>3. CASE Go("RL_LF") /\ UNCHANGED f
  <2>1. MinorRead'
    BY <1>3, LaterOnly, PointerTypes DEF PointersInv, LineInv, EarlyVersion, Go
  <2>2. Null(FromEnd)
    BY Fields, NullLess DEF PointersInv, LineInv, EarlyVersion
  <2>3. Null(FromEnd)'
    BY <1>3, <2>2, NullKept
  <2> QED
    BY <1>3, <2>1, <2>3
    DEF PointersInv, LineInv, HeaderInv, HeaderState, EarlyVersion, Go
<1> QED
  BY <1>1, <1>2, <1>3 DEF RL_VERSION_MINOR, FailUnless

LEMMA InCR ==
  ASSUME TypeOK, PointersInv, NEW ch, st = "RL_CR", RL_CR(ch)
  PROVE  PointersInv'
<1>1. CASE Skip \/ Fail
  BY <1>1, Kept, PointerTypes DEF Skip, Go, Fail
<1>2. CASE Go("RL_LF") /\ UNCHANGED f
  <2>1. MinorRead'
    BY <1>2, LaterOnly, PointerTypes DEF PointersInv, LineInv, EarlyVersion, Go
  <2>2. Null(FromEnd)
    BY Fields, NullLess DEF PointersInv, LineInv, EarlyVersion
  <2>3. Null(FromEnd)'
    BY <1>2, <2>2, NullKept
  <2> QED
    BY <1>2, <2>1, <2>3
    DEF PointersInv, LineInv, HeaderInv, HeaderState, EarlyVersion, Go
<1> QED
  BY <1>1, <1>2 DEF RL_CR, FailUnless

LEMMA InVersion ==
  ASSUME TypeOK, PointersInv, NEW ch, st \in {t[1] : t \in Version}, RL_VERSION(ch)
  PROVE  PointersInv'
<1>1. CASE Fail
  BY <1>1, Kept, PointerTypes DEF Fail
<1>2. ASSUME NEW t \in Version, st = t[1], Go(t[3]), Mark(t[4])
      PROVE  PointersInv'
  <2>1. CASE /\ t[4] = {}
             /\ t[1] \in {"RL_VERSION_H", "RL_VERSION_HT", "RL_VERSION_HTT", "RL_VERSION_HTTP"}
             /\ t[3] \in EarlyVersion
    <3>1. f' = f
      BY <1>2, <2>1, PointerTypes DEF Mark, Marks
    <3>2. UriRead'
      BY <1>2, <2>1, <3>1, LaterOnly, PointerTypes DEF PointersInv, LineInv, EarlyVersion, Go
    <3>3. Null(FromVersion)'
      BY <1>2, <2>1, <3>1, NullKept DEF PointersInv, LineInv, EarlyVersion
    <3> QED
      BY <1>2, <2>1, <3>2, <3>3 DEF PointersInv, LineInv, HeaderInv, HeaderState, EarlyVersion, Go
  <2>2. CASE t[1] = "RL_VERSION_HTTP_SLASH" /\ t[3] = "RL_VERSION_MAJOR" /\ t[4] = {"http_major"}
    <3>1. \A x \in Field : f'[x] = IF x \in {"http_major"} THEN p ELSE f[x]
      BY <1>2, <2>2 DEF Mark, Marks
    <3>2. UriRead
      BY <1>2, <2>2 DEF PointersInv, LineInv, EarlyVersion
    <3>3. MajorRead'
      BY <1>2, <2>2, <3>1, <3>2, PointerTypes
      DEF BeginRead, MethodRead, UriBegun, SchemaBegun, SchemaRead, HostBegun, ServerRead,
          PathBegun, UriRead, MajorRead, Null, Server, Go, Field
    <3>4. Null(FromMinor)
      BY <1>2, <2>2, Fields, NullLess DEF PointersInv, LineInv, EarlyVersion
    <3>5. Null(FromMinor)'
      BY <1>2, <2>2, <3>4, Fields, NullMarked DEF Mark, FromMinor, FromEnd, HeaderFields
    <3> QED
      BY <1>2, <2>2, <3>3, <3>5 DEF PointersInv, LineInv, HeaderInv, HeaderState, EarlyVersion, Go
  <2>3. CASE t[1] = "RL_VERSION_MAJOR" /\ t[3] = "RL_VERSION_DOT" /\ t[4] = {}
    <3>1. f' = f
      BY <1>2, <2>3, PointerTypes DEF Mark, Marks
    <3>2. MajorRead'
      BY <1>2, <2>3, <3>1, LaterOnly, PointerTypes DEF PointersInv, LineInv, Go
    <3>3. Null(FromMinor)'
      BY <1>2, <2>3, <3>1, NullKept DEF PointersInv, LineInv
    <3> QED
      BY <1>2, <2>3, <3>2, <3>3 DEF PointersInv, LineInv, HeaderInv, HeaderState, EarlyVersion, Go
  <2>4. CASE t[1] = "RL_VERSION_DOT" /\ t[3] = "RL_VERSION_MINOR" /\ t[4] = {"http_minor"}
    <3>1. \A x \in Field : f'[x] = IF x \in {"http_minor"} THEN p ELSE f[x]
      BY <1>2, <2>4 DEF Mark, Marks
    <3>2. MajorRead
      BY <1>2, <2>4 DEF PointersInv, LineInv
    <3>3. MinorRead'
      BY <1>2, <2>4, <3>1, <3>2, PointerTypes
      DEF BeginRead, MethodRead, UriBegun, SchemaBegun, SchemaRead, HostBegun, ServerRead,
          PathBegun, UriRead, MajorRead, MinorRead, Null, Server, Go, Field
    <3>4. Null(FromEnd)
      BY <1>2, <2>4, Fields, NullLess DEF PointersInv, LineInv
    <3>5. Null(FromEnd)'
      BY <1>2, <2>4, <3>4, Fields, NullMarked DEF Mark, FromEnd, HeaderFields
    <3> QED
      BY <1>2, <2>4, <3>3, <3>5 DEF PointersInv, LineInv, HeaderInv, HeaderState, EarlyVersion, Go
  <2> QED
    BY <1>2, <2>1, <2>2, <2>3, <2>4 DEF Version, EarlyVersion
<1> QED
  BY <1>1, <1>2 DEF RL_VERSION

LEMMA InLF ==
  ASSUME TypeOK, PointersInv, NEW ch, st = "RL_LF", RL_LF(ch)
  PROVE  PointersInv'
<1>1. \A x \in Field : f'[x] = IF x \in {"request_line_end"} THEN p ELSE f[x]
  BY DEF RL_LF, Mark, Marks
<1>2. LineRead'
  BY <1>1, PointerTypes
  DEF PointersInv, LineInv, BeginRead, MethodRead, UriBegun, SchemaBegun, SchemaRead, HostBegun,
      ServerRead, PathBegun, UriRead, MajorRead, MinorRead, LineRead, Null, Server, RL_LF, Field
<1>3. f'["header_key_start"] = 0
  BY <1>1 DEF PointersInv, LineInv, Null, FromEnd, HeaderFields, Field
<1> QED
  BY <1>2, <1>3 DEF PointersInv, LineInv, HeaderInv, HeaderState, EarlyVersion, RL_LF

-----------------------------------------------------------------------------
(***************************************************************************)
(* The states of a header line.                                            *)
(***************************************************************************)
LEMMA LineKept ==
  ASSUME TypeOK, st \in HeaderState, PointersInv, NEW S, Mark(S), S \subseteq HeaderFields,
         p' \in Nat, p <= p'
  PROVE  LineRead'
<1>1. \A x \in Field \ HeaderFields : f'[x] = f[x]
  BY DEF Mark, Marks
<1> QED
  BY <1>1, PointerTypes
  DEF PointersInv, LineInv, BeginRead, MethodRead, UriBegun, SchemaBegun, SchemaRead, HostBegun,
      ServerRead, PathBegun, UriRead, MajorRead, MinorRead, LineRead, Null, Server, HeaderFields,
      Field

\* A step between the states of a header line that marks none of its pointers.
LEMMA HeaderKept ==
  ASSUME TypeOK, PointersInv, UNCHANGED f, p' \in Nat, p <= p', st \in HeaderState,
         st' \in HeaderState \ {"H_NAME", "H_VAL"}, st # "H_NAME",
         st' \in {"H_CR", "H_LF", "H_LF_LF", "H_LF_CR"} =>
           st \in {"H_CR", "H_LF", "H_LF_LF", "H_LF_CR"}
  PROVE  PointersInv'
<1>1. LineRead'
  BY LaterOnly DEF PointersInv, LineInv
<1> QED
  BY <1>1 DEF PointersInv, LineInv, HeaderInv, HeaderState, EarlyVersion

LEMMA InHeaderStart ==
  ASSUME TypeOK, PointersInv, NEW ch, st = "H_START", H_START(ch)
  PROVE  PointersInv'
<1>1. CASE Fail
  BY <1>1, Kept, PointerTypes DEF Skip, Go, Fail
<1>2. CASE Go("H_NAME") /\ Mark({"header_key_start"})
  <2>1. \A x \in Field : f'[x] = IF x \in {"header_key_start"} THEN p ELSE f[x]
    BY <1>2 DEF Mark, Marks
  <2>2. LineRead'
    BY <1>2, LineKept, PointerTypes DEF HeaderState, HeaderFields, Go
  <2>3. HeaderInv'
    BY <1>2, <2>1, PointerTypes DEF PointersInv, HeaderInv, HeaderState, Go, Field
  <2> QED
    BY <1>2, <2>2, <2>3 DEF PointersInv, LineInv, HeaderState, EarlyVersion, Go
<1> QED
  BY <1>1, <1>2 DEF H_START, FailUnless

LEMMA InName ==
  ASSUME TypeOK, PointersInv, NEW ch, st = "H_NAME", H_NAME(ch)
  PROVE  PointersInv'
<1>1. CASE Skip \/ Fail
  BY <1>1, Kept, PointerTypes DEF Skip, Go, Fail
<1>2. CASE Go("H_COLON") /\ Mark({"header_key_end"})
  <2>1. \A x \in Field : f'[x] = IF x \in {"header_key_end"} THEN p ELSE f[x]
    BY <1>2 DEF Mark, Marks
  <2>2. LineRead'
    BY <1>2, LineKept, PointerTypes DEF HeaderState, HeaderFields, Go
  <2>3. HeaderInv'
    BY <1>2, <2>1, PointerTypes DEF PointersInv, HeaderInv, HeaderState, Go, Field
  <2> QED
    BY <1>2, <2>2, <2>3 DEF PointersInv, LineInv, HeaderState, EarlyVersion, Go
<1> QED
  BY <1>1, <1>2 DEF H_NAME, FailUnless

LEMMA InColon ==
  ASSUME TypeOK, PointersInv, NEW ch, st = "H_COLON", H_COLON(ch)
  PROVE  PointersInv'
<1>1. CASE Go("H_SP_AFTER_COLON") /\ UNCHANGED f
  BY <1>1, HeaderKept, PointerTypes DEF HeaderState, Go
<1>2. CASE Go("H_VAL") /\ Mark({"header_val_start"})
  <2>1. \A x \in Field : f'[x] = IF x \in {"header_val_start"} THEN p ELSE f[x]
    BY <1>2 DEF Mark, Marks
  <2>2. LineRead'
    BY <1>2, LineKept, PointerTypes DEF HeaderState, HeaderFields, Go
  <2>3. HeaderInv'
    BY <1>2, <2>1, PointerTypes DEF PointersInv, HeaderInv, HeaderState, Go, Field
  <2> QED
    BY <1>2, <2>2, <2>3 DEF PointersInv, LineInv, HeaderState, EarlyVersion, Go
<1> QED
  BY <1>1, <1>2 DEF H_COLON, FailUnless

LEMMA InSpaces ==
  ASSUME TypeOK, PointersInv, NEW ch, st = "H_SP_AFTER_COLON", H_SP_AFTER_COLON(ch)
  PROVE  PointersInv'
<1>1. CASE Skip
  BY <1>1, Kept, PointerTypes DEF Skip, Go, Fail
<1>2. CASE Go("H_VAL") /\ Mark({"header_val_start"})
  <2>1. \A x \in Field : f'[x] = IF x \in {"header_val_start"} THEN p ELSE f[x]
    BY <1>2 DEF Mark, Marks
  <2>2. LineRead'
    BY <1>2, LineKept, PointerTypes DEF HeaderState, HeaderFields, Go
  <2>3. HeaderInv'
    BY <1>2, <2>1, PointerTypes DEF PointersInv, HeaderInv, HeaderState, Go, Field
  <2> QED
    BY <1>2, <2>2, <2>3 DEF PointersInv, LineInv, HeaderState, EarlyVersion, Go
<1> QED
  BY <1>1, <1>2 DEF H_SP_AFTER_COLON, FailUnless

LEMMA InValue ==
  ASSUME TypeOK, PointersInv, NEW ch, st = "H_VAL", H_VAL(ch)
  PROVE  PointersInv'
<1>1. CASE Skip
  BY <1>1, Kept, PointerTypes DEF Skip, Go, Fail
<1>2. CASE (Go("H_CR") \/ Go("H_LF")) /\ Mark({"header_val_end"})
  <2>1. \A x \in Field : f'[x] = IF x \in {"header_val_end"} THEN p ELSE f[x]
    BY <1>2 DEF Mark, Marks
  <2>2. LineRead'
    BY <1>2, LineKept, PointerTypes DEF HeaderState, HeaderFields, Go
  <2>3. HeaderInv'
    BY <1>2, <2>1, PointerTypes DEF PointersInv, HeaderInv, HeaderState, Go, Field
  <2> QED
    BY <1>2, <2>2, <2>3 DEF PointersInv, LineInv, HeaderState, EarlyVersion, Go
<1> QED
  BY <1>1, <1>2 DEF H_VAL, FailUnless

LEMMA InHeaderCR ==
  ASSUME TypeOK, PointersInv, NEW ch, st = "H_CR", H_CR(ch)
  PROVE  PointersInv'
<1>1. CASE Fail
  BY <1>1, Kept, PointerTypes DEF Skip, Go, Fail
<1>2. CASE Go("H_LF") /\ UNCHANGED f
  BY <1>2, HeaderKept, PointerTypes DEF HeaderState, Go
<1> QED
  BY <1>1, <1>2 DEF H_CR, FailUnless

LEMMA InHeaderLF ==
  ASSUME TypeOK, PointersInv, NEW ch, st = "H_LF", H_LF(ch)
  PROVE  PointersInv'
<1>1. CASE (Go("H_LF_LF") \/ Go("H_LF_CR")) /\ UNCHANGED f
  BY <1>1, HeaderKept, PointerTypes DEF HeaderState, Go
<1>2. CASE st' = "H_START" /\ UNCHANGED <<p, f>>
  BY <1>2, HeaderKept, PointerTypes DEF HeaderState, Go
<1> QED
  BY <1>1, <1>2 DEF H_LF, FailUnless

\* The head is complete: the state is reset, the pointers remain.
LEMMA AtHeadDone ==
  ASSUME TypeOK, PointersInv, st \in {"H_LF_LF", "H_LF_CR"}, HeadDone
  PROVE  PointersInv'
BY HeaderKept, PointerTypes DEF HeadDone, HeaderState

LEMMA PointersStep ==
  ASSUME TypeOK, PointersInv, [Next]_vars
  PROVE  PointersInv'
<1>1. ASSUME NEW ch \in Symbol, Parse(ch) PROVE PointersInv'
  <2>1. CASE RequestLine(ch)
    BY <2>1, InStart, InMethod, InSpace, InSchema, InSlash, InSlashes, InHost, InPort, InPath,
       InPathname, InVersionStart, InVersion, InMinor, InCR, InLF
    DEF RequestLine
  <2>2. CASE HeaderLine(ch)
    <3>1. H_LF_CR(ch) /\ st = "H_LF_CR" => PointersInv'
      BY AtHeadDone, Kept, PointerTypes DEF H_LF_CR, Fail
    <3>2. H_LF_LF(ch) /\ st = "H_LF_LF" => PointersInv'
      BY AtHeadDone DEF H_LF_LF
    <3> QED
      BY <2>2, <3>1, <3>2, InHeaderStart, InName, InColon, InSpaces, InValue, InHeaderCR,
         InHeaderLF
      DEF HeaderLine
  <2> QED
    BY <1>1, <2>1, <2>2 DEF Parse
<1>2. CASE LineCutShort \/ UNCHANGED vars
  BY <1>2, Kept, PointerTypes DEF LineCutShort, vars
<1>3. CASE HeadersCutShort
  BY <1>3, Kept, AtHeadDone, PointerTypes DEF HeadersCutShort
<1> QED
  BY <1>1, <1>2, <1>3 DEF Next, xps_http_req_create, Parsed

-----------------------------------------------------------------------------
(***************************************************************************)
(* Types.                                                                  *)
(***************************************************************************)
\* What a step may do to the state, the position and the pointers.
Moves ==
  /\ st' \in LineState \cup HeaderState
  /\ p' \in {p, p + 1} /\ f' \in [Field -> 0..p']
  /\ has_host' \in BOOLEAN /\ result' \in {"parsing", "ok", "bad", "undefined"}

LEMMA MarksTypes ==
  ASSUME TypeOK, NEW S, NEW T, Marks(S, T), p' \in {p, p + 1}, T = {} \/ p' = p + 1
  PROVE  f' \in [Field -> 0..p']
BY PointerTypes DEF Marks

LEMMA LineMoves ==
  ASSUME TypeOK, NEW ch, RequestLine(ch)
  PROVE  Moves
<1> USE PointerTypes
<1>1. Fail => Moves
  BY DEF Fail, Moves, TypeOK
<1>2. \A s \in LineState \cup HeaderState : Go(s) /\ UNCHANGED f => Moves
  BY DEF Go, Moves, TypeOK
<1>3. \A S, T : \A s \in LineState \cup HeaderState : Go(s) /\ Marks(S, T) => Moves
  BY MarksTypes DEF Go, Moves, TypeOK
<1>4. Skip => Moves
  BY <1>2 DEF Skip, TypeOK
<1>5. st = "RL_LF" /\ RL_LF(ch) => Moves
  BY MarksTypes DEF RL_LF, Mark, Moves, TypeOK, HeaderState
<1>6. st \in {t[1] : t \in Version} /\ RL_VERSION(ch) => Moves
  BY <1>1, <1>3 DEF RL_VERSION, Version, Mark, LineState
<1>7. (RL_START(ch) \/ RL_METHOD(ch) \/ RL_SP_AFTER_METHOD(ch) \/ RL_SCHEMA(ch)) => Moves
  BY <1>1, <1>3, <1>4
  DEF RL_START, RL_METHOD, RL_SP_AFTER_METHOD, RL_SCHEMA, FailUnless, Mark, LineState
<1>8. (RL_SCHEMA_SLASH(ch) \/ RL_SCHEMA_SLASH_SLASH(ch) \/ RL_HOST(ch) \/ RL_PORT(ch)) => Moves
  BY <1>1, <1>2, <1>3, <1>4
  DEF RL_SCHEMA_SLASH, RL_SCHEMA_SLASH_SLASH, RL_HOST, RL_PORT, FailUnless, Mark, LineState
<1>9. (RL_PATH(ch) \/ RL_PATHNAME(ch) \/ RL_VERSION_START(ch)) => Moves
  BY <1>1, <1>2, <1>3, <1>4
  DEF RL_PATH, RL_PATHNAME, RL_VERSION_START, FailUnless, Mark, LineState
<1>10. (RL_VERSION_MINOR(ch) \/ RL_CR(ch)) => Moves
  BY <1>1, <1>2 DEF RL_VERSION_MINOR, RL_CR, LineState
<1> QED
  BY <1>5, <1>6, <1>7, <1>8, <1>9, <1>10 DEF RequestLine

LEMMA HeaderMoves ==
  ASSUME TypeOK, NEW ch, HeaderLine(ch)
  PROVE  Moves
<1> USE PointerTypes
<1>1. Fail => Moves
  BY DEF Fail, Moves, TypeOK
<1>2. \A s \in HeaderState : Go(s) /\ UNCHANGED f => Moves
  BY DEF Go, Moves, TypeOK
<1>3. \A S : \A s \in HeaderState : Go(s) /\ Mark(S) => Moves
  BY MarksTypes DEF Mark, Go, Moves, TypeOK
<1>4. Skip => Moves
  BY DEF Skip, Go, Moves, TypeOK
<1>5. HeadDone => Moves
  BY DEF HeadDone, AddHeader, Moves, TypeOK, HeaderState
<1>6. H_LF(ch) => Moves
  BY <1>2 DEF H_LF, AddHeader, Moves, TypeOK, HeaderState
<1>7. (H_START(ch) \/ H_NAME(ch) \/ H_COLON(ch) \/ H_SP_AFTER_COLON(ch)) => Moves
  BY <1>1, <1>2, <1>3, <1>4
  DEF H_START, H_NAME, H_COLON, H_SP_AFTER_COLON, FailUnless, HeaderState
<1>8. (H_VAL(ch) \/ H_CR(ch) \/ H_LF_LF(ch) \/ H_LF_CR(ch)) => Moves
  BY <1>1, <1>2, <1>3, <1>4, <1>5 DEF H_VAL, H_CR, H_LF_LF, H_LF_CR, HeaderState
<1> QED
  BY <1>6, <1>7, <1>8 DEF HeaderLine

LEMMA TypeStep ==
  ASSUME TypeOK, [Next]_vars
  PROVE  TypeOK'
<1>1. ASSUME NEW ch \in Symbol, Parse(ch) PROVE TypeOK'
  <2>1. Moves
    BY <1>1, LineMoves, HeaderMoves DEF Parse
  <2>2. p \in 1..MaxText /\ p' \in 1..(MaxText + 1) /\ MaxText \in Nat /\ MaxRun \in Nat
    BY <1>1, <2>1, ParserAssumption DEF Moves, Parse, TypeOK
  <2>3. ch \in AllSymbols
    BY ParserAssumption
  <2>4. CASE Remember(ch) /\ run' <= MaxRun
    <3>1. ahead' \in AllSymbols \cup {"none"} /\ minor' \in AllSymbols
      BY <2>3, <2>4 DEF Remember, TypeOK
    <3>2. word' \in AllSymbols \cup {"other"} /\ eol' \in 0..MaxText
      BY <2>2, <2>3, <2>4 DEF Remember, TypeOK
    <3>3. run' \in 0..MaxRun
      BY <2>2, <2>4 DEF Remember, TypeOK
    <3> QED
      BY <2>1, <2>2, <3>1, <3>2, <3>3 DEF Moves, TypeOK
  <2>5. CASE UNCHANGED history
    BY <2>1, <2>2, <2>5 DEF Moves, TypeOK, history
  <2> QED
    BY <1>1, <2>4, <2>5 DEF Parse
<1>2. CASE LineCutShort \/ UNCHANGED vars
  BY <1>2 DEF LineCutShort, vars, history, TypeOK
<1>3. CASE HeadersCutShort
  BY <1>3 DEF HeadersCutShort, HeadDone, AddHeader, history, TypeOK, HeaderState
<1> QED
  BY <1>1, <1>2, <1>3 DEF Next, xps_http_req_create, Parsed

-----------------------------------------------------------------------------
(***************************************************************************)
(* Where a line ends.                                                      *)
(***************************************************************************)
\* A step leads elsewhere, ends the line, or goes on behind its end.
LineLeads(ch) ==
  \/ result' = "bad"
  \/ st' \in LineState \ {"RL_LF"}
  \/ st' = "RL_LF" /\ ch = "LF" /\ p' = p + 1
  \/ st = "RL_LF" /\ st' = "H_START" /\ p' = p

LEMMA LineTargets ==
  ASSUME NEW ch, RequestLine(ch)
  PROVE  LineLeads(ch)
<1>1. Fail => LineLeads(ch)
  BY DEF Fail, LineLeads
<1>2. \A s \in LineState \ {"RL_LF"} : Go(s) => LineLeads(ch)
  BY DEF Go, LineLeads
<1>3. st \in LineState \ {"RL_LF"} /\ Skip => LineLeads(ch)
  BY <1>2 DEF Skip
<1>4. st = "RL_LF" /\ RL_LF(ch) => LineLeads(ch)
  BY DEF RL_LF, LineLeads
<1>5. st \in {t[1] : t \in Version} /\ RL_VERSION(ch) => LineLeads(ch)
  BY <1>1, <1>2 DEF RL_VERSION, Version, LineState
<1>6. \/ st = "RL_VERSION_MINOR" /\ RL_VERSION_MINOR(ch)
      \/ st = "RL_CR" /\ RL_CR(ch)
      => LineLeads(ch)
  BY <1>1, <1>2 DEF RL_VERSION_MINOR, RL_CR, Go, LineLeads, LineState
<1>7. \/ st = "RL_START" /\ RL_START(ch)
      \/ st = "RL_METHOD" /\ RL_METHOD(ch)
      \/ st = "RL_SP_AFTER_METHOD" /\ RL_SP_AFTER_METHOD(ch)
      \/ st = "RL_SCHEMA" /\ RL_SCHEMA(ch)
      => LineLeads(ch)
  BY <1>1, <1>2, <1>3
  DEF RL_START, RL_METHOD, RL_SP_AFTER_METHOD, RL_SCHEMA, FailUnless, LineState
<1>8. \/ st = "RL_SCHEMA_SLASH" /\ RL_SCHEMA_SLASH(ch)
      \/ st = "RL_SCHEMA_SLASH_SLASH" /\ RL_SCHEMA_SLASH_SLASH(ch)
      \/ st = "RL_HOST" /\ RL_HOST(ch)
      \/ st = "RL_PORT" /\ RL_PORT(ch)
      => LineLeads(ch)
  BY <1>1, <1>2, <1>3
  DEF RL_SCHEMA_SLASH, RL_SCHEMA_SLASH_SLASH, RL_HOST, RL_PORT, FailUnless, LineState
<1>9. \/ st = "RL_PATH" /\ RL_PATH(ch)
      \/ st = "RL_PATHNAME" /\ RL_PATHNAME(ch)
      \/ st = "RL_VERSION_START" /\ RL_VERSION_START(ch)
      => LineLeads(ch)
  BY <1>1, <1>2, <1>3 DEF RL_PATH, RL_PATHNAME, RL_VERSION_START, FailUnless, LineState
<1> QED
  BY <1>4, <1>5, <1>6, <1>7, <1>8, <1>9 DEF RequestLine

HeaderLeads(ch) ==
  \/ result' # "parsing"
  \/ st' \in HeaderState \ {"H_START", "H_NAME", "H_LF"}
  \/ st' = "H_LF" /\ ch = "LF" /\ p' = p + 1
  \/ st = "H_LF" /\ st' = "H_START" /\ p' = p /\ ch \notin LineEnd
  \/ st = "H_START" /\ st' = "H_NAME" /\ ch \notin LineEnd /\ Mark({"header_key_start"})
  \/ st = "H_NAME" /\ st' = "H_NAME" /\ ch \notin LineEnd /\ UNCHANGED f

LEMMA HeaderTargets ==
  ASSUME NEW ch, HeaderLine(ch)
  PROVE  HeaderLeads(ch)
<1>1. Fail => HeaderLeads(ch)
  BY DEF Fail, HeaderLeads
<1>2. \A s \in HeaderState \ {"H_START", "H_NAME", "H_LF"} : Go(s) => HeaderLeads(ch)
  BY DEF Go, HeaderLeads
<1>3. HeadDone => HeaderLeads(ch)
  BY DEF HeadDone, HeaderLeads
<1>4. st = "H_START" /\ H_START(ch) => HeaderLeads(ch)
  BY <1>1 DEF H_START, Go, HeaderLeads, Letter, Upper, LineEnd
<1>5. st = "H_NAME" /\ H_NAME(ch) => HeaderLeads(ch)
  BY <1>1, <1>2 DEF H_NAME, FailUnless, Skip, Go, HeaderLeads, Letter, Upper, LineEnd, HeaderState
<1>6. \/ st = "H_COLON" /\ H_COLON(ch)
      \/ st = "H_SP_AFTER_COLON" /\ H_SP_AFTER_COLON(ch)
      \/ st = "H_VAL" /\ H_VAL(ch)
      => HeaderLeads(ch)
  BY <1>2 DEF H_COLON, H_SP_AFTER_COLON, H_VAL, Skip, Go, HeaderLeads, HeaderState
<1>7. \/ st = "H_CR" /\ H_CR(ch)
      \/ st = "H_LF" /\ H_LF(ch)
      => HeaderLeads(ch)
  BY <1>1, <1>2 DEF H_CR, H_LF, Go, HeaderLeads, HeaderState
<1>8. H_LF_LF(ch) \/ H_LF_CR(ch) => HeaderLeads(ch)
  BY <1>1, <1>3 DEF H_LF_LF, H_LF_CR
<1> QED
  BY <1>4, <1>5, <1>6, <1>7, <1>8 DEF HeaderLine

LEMMA EndStep ==
  ASSUME TypeOK, EndInv, [Next]_vars
  PROVE  EndInv'
<1>1. ASSUME NEW ch \in Symbol, Parse(ch), result' = "parsing" PROVE EndInv'
  <2>1. result = "parsing" /\ ahead \in {"none", ch} /\ p \in Nat
    BY <1>1, PointerTypes DEF Parse
  <2>2. ahead' = IF p' = p THEN ch ELSE "none"
    BY <1>1 DEF Parse, Remember
  <2>3. eol' = IF ch \in LineEnd THEN p ELSE eol
    BY <1>1 DEF Parse, Remember
  <2>4. CASE RequestLine(ch)
    <3>1. LineLeads(ch)
      BY <2>4, LineTargets
    <3> QED
      BY <1>1, <2>1, <2>2, <2>3, <3>1 DEF EndInv, LineLeads, LineState, LineEnd
  <2>5. CASE HeaderLine(ch)
    <3>1. HeaderLeads(ch)
      BY <2>5, HeaderTargets
    <3>2. Mark({"header_key_start"}) => f'["header_key_start"] = p
      BY DEF Mark, Marks, Field
    <3> QED
      BY <1>1, <2>1, <2>2, <2>3, <3>1, <3>2 DEF EndInv, HeaderLeads, HeaderState, LineEnd
  <2> QED
    BY <1>1, <2>4, <2>5 DEF Parse
<1>2. CASE result' # "parsing"
  BY <1>2 DEF EndInv
<1>3. CASE UNCHANGED vars
  BY <1>3 DEF EndInv, vars, history
<1> QED
  BY <1>1, <1>2, <1>3
  DEF Next, xps_http_req_create, Parsed, LineCutShort, HeadersCutShort, HeadDone

-----------------------------------------------------------------------------
(***************************************************************************)
(* The theorems.                                                           *)
(***************************************************************************)
ParserInv == TypeOK /\ PointersInv /\ EndInv

LEMMA ParserInvHolds == Spec => []ParserInv
<1>1. Init => ParserInv
  <2> SUFFICES ASSUME Init PROVE ParserInv
    OBVIOUS
  <2>1. TypeOK
    <3>1. p \in 1..(MaxText + 1) /\ run \in 0..MaxRun /\ eol \in 0..MaxText
      BY ParserAssumption DEF Init
    <3>2. f \in [Field -> 0..p]
      BY DEF Init
    <3>3. st \in LineState /\ minor \in AllSymbols
      BY DEF Init, LineState, AllSymbols, Digit
    <3> QED
      BY <3>1, <3>2, <3>3 DEF Init, TypeOK
  <2>2. PointersInv
    BY DEF Init, PointersInv, LineInv, HeaderInv, Null, EarlyVersion, HeaderState
  <2>3. EndInv
    BY DEF Init, EndInv
  <2> QED
    BY <2>1, <2>2, <2>3 DEF ParserInv
<1>2. ParserInv /\ [Next]_vars => ParserInv'
  BY TypeStep, PointersStep, EndStep DEF ParserInv
<1> QED
  BY <1>1, <1>2, PTL DEF Spec

\* The request line's strings are made when all of it has been read.
LEMMA ParsedIsRead ==
  ASSUME ParserInv, LineParsed
  PROVE  LineRead /\ st \in HeaderState
BY DEF ParserInv, PointersInv, LineInv, LineParsed, TypeOK, LineState, Null, Field,
       FromMethod, FromTarget, FromSchema, FromSlash, FromHost, FromPort, FromPath,
       FromPathname, FromVersion, FromMinor, FromEnd, HeaderFields, EarlyVersion

\* The parser's state keeps to its types: no pointer is ahead of the character
\* that is read, and that never lies more than one character behind the buffer,
\* for every length of the buffer (xps_http_parse_request_line,
\* xps_http_parse_header_line).
THEOREM ParserTypesHold == Spec => []TypeOK
<1>1. ParserInv => TypeOK
  BY DEF ParserInv
<1> QED
  BY <1>1, ParserInvHolds, PTL

\* Every string that is made of the head has both its pointers, the right way
\* round: the assertions of str_from_ptrs hold whatever the buffer contains
\* (http_process_request_line, http_process_headers).
THEOREM StringsAreWellFormed == Spec => []StringsWellFormed
<1>1. ParserInv => StringsWellFormed
  <2> SUFFICES ASSUME ParserInv, LineParsed PROVE StringsWellFormed
    BY DEF StringsWellFormed
  <2>1. LineRead /\ HeaderInv /\ st \in HeaderState /\ \A x \in Field : f[x] \in Nat
    BY ParsedIsRead, PointerTypes DEF ParserInv, PointersInv
  <2>2. UriRead /\ BeginRead /\ MethodRead /\ UriBegun /\ PathBegun
    BY <2>1 DEF LineRead, MinorRead, MajorRead, UriRead, PathBegun, UriBegun, MethodRead
  <2>3. /\ 0 < f["request_line_start"] /\ f["request_line_start"] < f["request_line_end"]
        /\ 0 < f["method_start"] /\ f["method_start"] < f["method_end"]
        /\ 0 < f["uri_start"] /\ f["uri_start"] <= f["uri_end"]
        /\ 0 < f["http_major"] /\ f["http_major"] < f["http_minor"]
        /\ f["path_end"] # 0 => f["path_start"] <= f["path_end"]
        /\ f["pathname_end"] # 0 => f["pathname_start"] <= f["pathname_end"]
    BY <2>1, <2>2
    DEF LineRead, MinorRead, MajorRead, UriRead, PathBegun, UriBegun, MethodRead, BeginRead, Field
  <2>4. /\ f["schema_start"] # 0 /\ f["schema_end"] # 0 => f["schema_start"] <= f["schema_end"]
        /\ f["host_start"] # 0 /\ f["host_end"] # 0 => f["host_start"] <= f["host_end"]
        /\ f["port_start"] # 0 /\ f["port_end"] # 0 => f["port_start"] <= f["port_end"]
    BY <2>2 DEF PathBegun, ServerRead, HostBegun, SchemaRead, Null, Server
  <2>5. /\ f["header_key_start"] # 0 /\ f["header_key_end"] # 0 /\ st # "H_NAME"
             => f["header_key_start"] <= f["header_key_end"]
        /\ st \in {"H_LF", "H_LF_LF", "H_LF_CR"}
             => 0 < f["header_val_start"] /\ f["header_val_start"] <= f["header_val_end"]
    BY <2>1 DEF HeaderInv, HeaderState
  <2>6. \A x \in {"request_line_start", "request_line_end", "method_start", "method_end",
                  "uri_start", "uri_end", "http_major", "http_minor"} : f[x] # 0
    BY <2>1, <2>3 DEF Field
  <2>7. \A x \in {<<"request_line_start", "request_line_end">>, <<"method_start", "method_end">>,
                  <<"uri_start", "uri_end">>, <<"schema_start", "schema_end">>,
                  <<"host_start", "host_end">>, <<"port_start", "port_end">>,
                  <<"path_start", "path_end">>, <<"pathname_start", "pathname_end">>,
                  <<"http_major", "http_minor">>, <<"header_key_start", "header_key_end">>} :
          f[x[1]] # 0 /\ f[x[2]] # 0 /\ st # "H_NAME" => f[x[1]] <= f[x[2]]
    <3>1. /\ f["request_line_start"] <= f["request_line_end"]
          /\ f["method_start"] <= f["method_end"] /\ f["http_major"] <= f["http_minor"]
      BY <2>1, <2>3 DEF Field
    <3> QED
      BY <2>3, <2>4, <2>5, <3>1
  <2> QED
    BY <2>5, <2>6, <2>7 DEF StringsWellFormed
<1> QED
  BY <1>1, ParserInvHolds, PTL

\* The parts of a request line that has been accepted lie in it in their order
\* and do not overlap, whichever of its forms it has (xps_http_parse_request_line).
THEOREM PartsLieInOrder == Spec => []PartsInOrder
<1>1. ParserInv => PartsInOrder
  <2> SUFFICES ASSUME ParserInv, LineParsed PROVE PartsInOrder
    BY DEF PartsInOrder
  <2>1. LineRead /\ TypeOK
    BY ParsedIsRead DEF ParserInv
  <2> QED
    BY <2>1, PointerTypes
    DEF PartsInOrder, LineRead, MinorRead, MajorRead, UriRead, PathBegun, ServerRead, HostBegun,
        SchemaRead, SchemaBegun, UriBegun, MethodRead, BeginRead, Null, Server, Field
<1> QED
  BY <1>1, ParserInvHolds, PTL

\* The name of every header begins right behind the end of the line before it
\* (http_process_headers, which parses the next header from the character at
\* which xps_http_parse_header_line returned E_NEXT).
THEOREM HeadersBeginLines == Spec => []HeaderBeginsItsLine
<1>1. ParserInv => HeaderBeginsItsLine
  BY DEF ParserInv, EndInv, HeaderBeginsItsLine
<1> QED
  BY <1>1, ParserInvHolds, PTL
=============================================================================
