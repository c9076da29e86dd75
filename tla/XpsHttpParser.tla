---------------------------- MODULE XpsHttpParser ----------------------------
(***************************************************************************)
(* Parsing the head of a request (http/xps_http.c, http/xps_http_req.c):   *)
(* one pass over a buffer, character by character, that marks where the    *)
(* parts of the request line and of each header begin and end, and from    *)
(* these pointers makes strings.                                           *)
(*                                                                         *)
(* A character is a symbol for its class.  "M" stands for the letters of a *)
(* known method and "Host" for those of that header's name, each a symbol  *)
(* of its own wherever letters may stand; "?" stands for the four          *)
(* characters that end a pathname.  Each behaviour parses one buffer; its  *)
(* contents and its length are chosen as it is read, and what the          *)
(* properties say of them is kept in word, minor and eol.                  *)
(***************************************************************************)
EXTENDS Integers, FiniteSets

CONSTANTS MaxText,  \* bound: buff->len; its characters are at 1..len
          MaxRun,   \* bound: the characters a part has beyond its shortest form
          Symbol    \* the characters that may occur in this run

Upper     == {"M", "Host", "H", "T", "P"}
Letter    == Upper \cup {"w"}
Digit     == {"0", "1"}
LineEnd   == {"CR", "LF"}
AllSymbols == Letter \cup Digit \cup LineEnd \cup {" ", "/", ":", ".", "-", "?", "*"}

ASSUME ParserAssumption == MaxText \in Nat /\ MaxRun \in Nat /\ Symbol \subseteq AllSymbols

Field == {"request_line_start", "request_line_end", "method_start", "method_end",
          "uri_start", "uri_end", "schema_start", "schema_end", "host_start", "host_end",
          "port_start", "port_end", "path_start", "path_end",
          "pathname_start", "pathname_end", "http_major", "http_minor",
          "header_key_start", "header_key_end", "header_val_start", "header_val_end"}

LineState == {"RL_START", "RL_METHOD", "RL_SP_AFTER_METHOD", "RL_SCHEMA",
              "RL_SCHEMA_SLASH", "RL_SCHEMA_SLASH_SLASH", "RL_HOST", "RL_PORT",
              "RL_PATH", "RL_PATHNAME", "RL_VERSION_START", "RL_VERSION_H",
              "RL_VERSION_HT", "RL_VERSION_HTT", "RL_VERSION_HTTP",
              "RL_VERSION_HTTP_SLASH", "RL_VERSION_MAJOR", "RL_VERSION_DOT",
              "RL_VERSION_MINOR", "RL_CR", "RL_LF"}
HeaderState == {"H_START", "H_NAME", "H_COLON", "H_SP_AFTER_COLON", "H_VAL",
                "H_CR", "H_LF", "H_LF_CR", "H_LF_LF"}

VARIABLES
  st,        \* parser_state
  p,         \* p_ch
  f,         \* the pointers of http_req, 0 for NULL
  has_host,  \* a header named Host has been added to http_req->headers
  result,    \* parsing; ok; bad (E_FAIL or E_AGAIN, answered with 400);
             \* undefined (it depends on the memory behind the buffer)
  ahead,     \* the character at p when it has been read and left, else "none"
  run,       \* the characters st has been kept for
  word,      \* the method's or the header name's only symbol, or "other"
  minor,     \* the character at http_minor
  eol        \* where the last CR or LF has been read, 0 if none

history == <<ahead, run, word, minor, eol>>
vars == <<st, p, f, has_host, result, history>>

Init ==
  /\ st = "RL_START" /\ p = 1
  /\ f = [x \in Field |-> 0]
  /\ has_host = FALSE /\ result = "parsing"
  /\ ahead = "none" /\ run = 0 /\ word = "other" /\ minor = "0" /\ eol = 0

-----------------------------------------------------------------------------
\* The pointers in S are set to the current character, those in T behind it.
Marks(S, T) == f' = [x \in Field |-> IF x \in S THEN p ELSE IF x \in T THEN p + 1 ELSE f[x]]
Mark(S) == Marks(S, {})

Go(state) == st' = state /\ p' = p + 1 /\ UNCHANGED <<has_host, result>>
Skip == Go(st) /\ UNCHANGED f
Fail == result' = "bad" /\ UNCHANGED <<st, p, f, has_host>>
FailUnless(ok) == IF ok THEN Skip ELSE Fail

-----------------------------------------------------------------------------
(***************************************************************************)
(* xps_http_parse_request_line, one operator per state.                    *)
(***************************************************************************)
RL_START(ch) ==
  \/ ch \in LineEnd /\ Skip
  \/ ch \in Upper /\ Go("RL_METHOD") /\ Mark({"request_line_start", "method_start"})
  \/ ch \notin LineEnd \cup Upper /\ Fail

RL_METHOD(ch) ==
  \/ ch # " " /\ Skip
  \/ ch = " " /\ word = "M" /\ Go("RL_SP_AFTER_METHOD") /\ Mark({"method_end"})
  \/ ch = " " /\ word # "M" /\ Fail

RL_SP_AFTER_METHOD(ch) ==
  \/ ch = "/" /\ Go("RL_PATH") /\ Mark({"uri_start", "path_start", "pathname_start"})
  \/ ch \in Letter /\ Go("RL_SCHEMA") /\ Mark({"schema_start", "uri_start"})
  \/ ch \notin Letter \cup {"/"} /\ Fail

RL_SCHEMA(ch) ==
  \/ ch = ":" /\ Go("RL_SCHEMA_SLASH") /\ Mark({"schema_end"})
  \/ ch # ":" /\ FailUnless(ch \in Letter)

RL_SCHEMA_SLASH(ch) ==
  IF ch = "/" THEN Go("RL_SCHEMA_SLASH_SLASH") /\ UNCHANGED f ELSE Skip

\* Mutant: the host begins a character late.
RL_SCHEMA_SLASH_SLASH_Late(ch) ==
  IF ch = "/" THEN Go("RL_HOST") /\ f' = [f EXCEPT !["host_start"] = p + 2] ELSE Skip

RL_SCHEMA_SLASH_SLASH(ch) ==
  IF ch = "/" THEN Go("RL_HOST") /\ Marks({}, {"host_start"}) ELSE Skip

\* ch | 0x20 maps CR to '-'.
HostCharacter == Letter \cup Digit \cup {"-", ".", "CR"}

\* Mutant: the end of the URI is forgotten.
RL_HOST_NoUriEnd(ch) ==
  \/ ch = ":" /\ Go("RL_PORT") /\ Marks({"host_end"}, {"port_start"})
  \/ ch = "/" /\ Go("RL_PATH")
              /\ Mark({"host_end", "port_end", "path_start", "pathname_start"})
  \/ ch = " " /\ Go("RL_VERSION_START")
              /\ Mark({"host_end", "port_end", "path_start", "pathname_start"})
  \/ ch \notin {":", "/", " "} /\ FailUnless(ch \in HostCharacter)

RL_HOST(ch) ==
  \/ ch = ":" /\ Go("RL_PORT") /\ Marks({"host_end"}, {"port_start"})
  \/ ch = "/" /\ Go("RL_PATH")
              /\ Mark({"host_end", "port_end", "path_start", "pathname_start"})
  \/ ch = " " /\ Go("RL_VERSION_START")
              /\ Mark({"host_end", "port_end", "path_start", "pathname_start", "uri_end"})
  \/ ch \notin {":", "/", " "} /\ FailUnless(ch \in HostCharacter)

\* Mutant: the end of the port is forgotten where a path follows.
RL_PORT_NoEnd(ch) ==
  \/ ch = "/" /\ Go("RL_PATH") /\ Marks({}, {"path_start", "pathname_start"})
  \/ ch = " " /\ Go("RL_VERSION_START")
              /\ Mark({"port_end", "path_start", "pathname_start", "uri_end",
                       "path_end", "pathname_end"})
  \/ ch \notin {"/", " "} /\ FailUnless(ch \in Digit)

RL_PORT(ch) ==
  \/ ch = "/" /\ Go("RL_PATH") /\ Marks({"port_end"}, {"path_start", "pathname_start"})
  \/ ch = " " /\ Go("RL_VERSION_START")
              /\ Mark({"port_end", "path_start", "pathname_start", "uri_end",
                       "path_end", "pathname_end"})
  \/ ch \notin {"/", " "} /\ FailUnless(ch \in Digit)

RL_PATH(ch) ==
  \/ ch = " " /\ Go("RL_VERSION_START") /\ Mark({"path_end", "pathname_end", "uri_end"})
  \/ ch = "?" /\ Go("RL_PATHNAME") /\ Mark({"pathname_end"})
  \/ ch \notin {" ", "?"} /\ FailUnless(ch \notin LineEnd)

RL_PATHNAME(ch) ==
  \/ ch = " " /\ Go("RL_VERSION_START") /\ Mark({"path_end", "pathname_end", "uri_end"})
  \/ ch # " " /\ FailUnless(ch \notin LineEnd)

RL_VERSION_START(ch) ==
  \/ ch = "H" /\ Go("RL_VERSION_H") /\ UNCHANGED f
  \/ ch # "H" /\ FailUnless(ch = " ")

\* The rest of "HTTP/1.0" or "HTTP/1.1": state, character, next state, pointers.
Version == {<<"RL_VERSION_H",          "T", "RL_VERSION_HT",         {}>>,
            <<"RL_VERSION_HT",         "T", "RL_VERSION_HTT",        {}>>,
            <<"RL_VERSION_HTT",        "P", "RL_VERSION_HTTP",       {}>>,
            <<"RL_VERSION_HTTP",       "/", "RL_VERSION_HTTP_SLASH", {}>>,
            <<"RL_VERSION_HTTP_SLASH", "1", "RL_VERSION_MAJOR",      {"http_major"}>>,
            <<"RL_VERSION_MAJOR",      ".", "RL_VERSION_DOT",        {}>>,
            <<"RL_VERSION_DOT",        "0", "RL_VERSION_MINOR",      {"http_minor"}>>,
            <<"RL_VERSION_DOT",        "1", "RL_VERSION_MINOR",      {"http_minor"}>>}

RL_VERSION(ch) ==
  \/ \E t \in Version : st = t[1] /\ ch = t[2] /\ Go(t[3]) /\ Mark(t[4])
  \/ (\A t \in Version : <<st, ch>> # <<t[1], t[2]>>) /\ Fail

RL_VERSION_MINOR(ch) ==
  \/ ch = "CR" /\ Go("RL_CR") /\ UNCHANGED f
  \/ ch = "LF" /\ Go("RL_LF") /\ UNCHANGED f
  \/ ch \notin LineEnd /\ Fail

RL_CR(ch) == IF ch = "LF" THEN Go("RL_LF") /\ UNCHANGED f ELSE Fail

\* The character behind the line ends it and is left for the first header.
RL_LF(ch) ==
  /\ Mark({"request_line_end"})
  /\ st' = "H_START"
  /\ UNCHANGED <<p, has_host, result>>

-----------------------------------------------------------------------------
(***************************************************************************)
(* xps_http_parse_header_line.                                             *)
(***************************************************************************)
H_START(ch) ==
  IF ch \in Letter THEN Go("H_NAME") /\ Mark({"header_key_start"}) ELSE Fail

H_NAME(ch) ==
  \/ ch = ":" /\ Go("H_COLON") /\ Mark({"header_key_end"})
  \/ ch # ":" /\ FailUnless(ch \in Letter \cup {"-"})

H_COLON(ch) ==
  IF ch = " " THEN Go("H_SP_AFTER_COLON") /\ UNCHANGED f
  ELSE Go("H_VAL") /\ Mark({"header_val_start"})

H_SP_AFTER_COLON(ch) ==
  IF ch = " " THEN Skip ELSE Go("H_VAL") /\ Mark({"header_val_start"})

H_VAL(ch) ==
  \/ ch = "CR" /\ Go("H_CR") /\ Mark({"header_val_end"})
  \/ ch = "LF" /\ Go("H_LF") /\ Mark({"header_val_end"})
  \/ ch \notin LineEnd /\ Skip

H_CR(ch) == IF ch = "LF" THEN Go("H_LF") /\ UNCHANGED f ELSE Fail

\* http_process_headers adds the header that has just been parsed.
AddHeader == has_host' = (has_host \/ word = "Host")

\* Mutants: the next header is parsed from behind its first character, and from
\* the line that has just been parsed.
H_LF_SkipsOne(ch) ==
  \/ ch = "LF" /\ Go("H_LF_LF") /\ UNCHANGED f
  \/ ch = "CR" /\ Go("H_LF_CR") /\ UNCHANGED f
  \/ ch \notin LineEnd /\ AddHeader /\ st' = "H_START" /\ p' = p + 1
                       /\ UNCHANGED <<f, result>>
H_LF_Again(ch) ==
  \/ ch = "LF" /\ Go("H_LF_LF") /\ UNCHANGED f
  \/ ch = "CR" /\ Go("H_LF_CR") /\ UNCHANGED f
  \/ ch \notin LineEnd /\ AddHeader /\ st' = "H_START" /\ p' = f["header_key_start"]
                       /\ UNCHANGED <<f, result>>

\* E_NEXT: the character belongs to the next header.
H_LF(ch) ==
  \/ ch = "LF" /\ Go("H_LF_LF") /\ UNCHANGED f
  \/ ch = "CR" /\ Go("H_LF_CR") /\ UNCHANGED f
  \/ ch \notin LineEnd /\ AddHeader /\ st' = "H_START"
                       /\ UNCHANGED <<p, f, result>>

\* OK: the head is complete; HTTP/1.1 requires a Host header.
HeadDone ==
  /\ AddHeader
  /\ result' = IF minor = "1" /\ ~has_host' THEN "bad" ELSE "ok"
  /\ st' = "H_START"
  /\ UNCHANGED <<p, f>>

H_LF_LF(ch) == HeadDone
H_LF_CR(ch) == IF ch = "LF" THEN HeadDone ELSE Fail

-----------------------------------------------------------------------------
RequestLine(ch) ==
  \/ st = "RL_START" /\ RL_START(ch)
  \/ st = "RL_METHOD" /\ RL_METHOD(ch)
  \/ st = "RL_SP_AFTER_METHOD" /\ RL_SP_AFTER_METHOD(ch)
  \/ st = "RL_SCHEMA" /\ RL_SCHEMA(ch)
  \/ st = "RL_SCHEMA_SLASH" /\ RL_SCHEMA_SLASH(ch)
  \/ st = "RL_SCHEMA_SLASH_SLASH" /\ RL_SCHEMA_SLASH_SLASH(ch)
  \/ st = "RL_HOST" /\ RL_HOST(ch)
  \/ st = "RL_PORT" /\ RL_PORT(ch)
  \/ st = "RL_PATH" /\ RL_PATH(ch)
  \/ st = "RL_PATHNAME" /\ RL_PATHNAME(ch)
  \/ st = "RL_VERSION_START" /\ RL_VERSION_START(ch)
  \/ st \in {t[1] : t \in Version} /\ RL_VERSION(ch)
  \/ st = "RL_VERSION_MINOR" /\ RL_VERSION_MINOR(ch)
  \/ st = "RL_CR" /\ RL_CR(ch)
  \/ st = "RL_LF" /\ RL_LF(ch)

HeaderLine(ch) ==
  \/ st = "H_START" /\ H_START(ch)
  \/ st = "H_NAME" /\ H_NAME(ch)
  \/ st = "H_COLON" /\ H_COLON(ch)
  \/ st = "H_SP_AFTER_COLON" /\ H_SP_AFTER_COLON(ch)
  \/ st = "H_VAL" /\ H_VAL(ch)
  \/ st = "H_CR" /\ H_CR(ch)
  \/ st = "H_LF" /\ H_LF(ch)
  \/ st = "H_LF_LF" /\ H_LF_LF(ch)
  \/ st = "H_LF_CR" /\ H_LF_CR(ch)

\* What the properties need to know of the characters themselves.
Remember(ch) ==
  /\ ahead' = IF p' = p THEN ch ELSE "none"
  /\ run' = IF st' = st THEN run + 1 ELSE 0
  /\ word' = IF st \in {"RL_START", "H_START"} THEN ch
             ELSE IF st' = st /\ st \in {"RL_METHOD", "H_NAME"} THEN "other"
             ELSE word
  /\ minor' = IF st = "RL_VERSION_DOT" THEN ch ELSE minor
  /\ eol' = IF ch \in LineEnd THEN p ELSE eol

Parse(ch) ==
  /\ result = "parsing" /\ p <= MaxText /\ ahead \in {"none", ch}
  /\ RequestLine(ch) \/ HeaderLine(ch)
  /\ IF result' = "parsing" THEN Remember(ch) /\ run' <= MaxRun
                            ELSE UNCHANGED history

\* The buffer ends within the request line: E_AGAIN, which xps_http_req_create returns as
\* HTTP_BAD_REQUEST.
LineCutShort ==
  /\ result = "parsing" /\ p > 1 /\ ahead = "none" /\ st \in LineState
  /\ result' = "bad"
  /\ UNCHANGED <<st, p, f, has_host, history>>

\* It ends within the header lines, whose loop counts len characters from
\* buff->pos and so goes on behind the end of the buffer; behind an empty line
\* any character completes the head.
HeadersCutShort ==
  /\ result = "parsing" /\ p > 1 /\ ahead = "none" /\ st \in HeaderState
  /\ IF st = "H_LF_LF" THEN HeadDone
     ELSE result' = "undefined" /\ UNCHANGED <<st, p, f, has_host>>
  /\ UNCHANGED history

Parsed == result # "parsing" /\ UNCHANGED vars

xps_http_req_create == (\E ch \in Symbol : Parse(ch)) \/ LineCutShort \/ HeadersCutShort

Next == xps_http_req_create \/ Parsed
Spec == Init /\ [][Next]_vars
FairSpec == Spec /\ WF_vars(xps_http_req_create)

-----------------------------------------------------------------------------
\* Types and bounds; a pointer is never ahead of the parser.
TypeOK ==
  /\ st \in LineState \cup HeaderState
  /\ p \in 1..(MaxText + 1)
  /\ f \in [Field -> 0..p]
  /\ has_host \in BOOLEAN
  /\ result \in {"parsing", "ok", "bad", "undefined"}
  /\ ahead \in AllSymbols \cup {"none"}
  /\ run \in 0..MaxRun
  /\ word \in AllSymbols \cup {"other"}
  /\ minor \in AllSymbols
  /\ eol \in 0..MaxText

\* The request line is parsed: http_process_request_line makes its strings.
LineParsed == f["request_line_end"] # 0

\* The assertions of str_from_ptrs (xps_utils.c:114-116) hold for every string
\* that is made: the three that are made unchecked have both their pointers,
\* and no pair of pointers is the wrong way round.
StringsWellFormed ==
  LineParsed =>
    /\ \A x \in {"request_line_start", "request_line_end", "method_start", "method_end",
                 "uri_start", "uri_end", "http_major", "http_minor"} : f[x] # 0
    /\ \A x \in {<<"request_line_start", "request_line_end">>, <<"method_start", "method_end">>,
                 <<"uri_start", "uri_end">>, <<"schema_start", "schema_end">>,
                 <<"host_start", "host_end">>, <<"port_start", "port_end">>,
                 <<"path_start", "path_end">>, <<"pathname_start", "pathname_end">>,
                 <<"http_major", "http_minor">>,
                 <<"header_key_start", "header_key_end">>} :
         f[x[1]] # 0 /\ f[x[2]] # 0 /\ st # "H_NAME" => f[x[1]] <= f[x[2]]
    /\ st \in {"H_LF", "H_LF_LF", "H_LF_CR"} =>
         0 < f["header_val_start"] /\ f["header_val_start"] <= f["header_val_end"]

\* The parts of a request line lie in it in their order and do not overlap: an
\* absolute URI has its host before its port and both before its path.
PartsInOrder ==
  LineParsed =>
    /\ f["method_end"] < f["uri_start"] /\ f["uri_end"] < f["http_major"]
    /\ f["uri_start"] <= f["path_start"] /\ f["path_start"] <= f["uri_end"]
    /\ f["path_end"] \in {0, f["uri_end"]}
    /\ f["schema_start"] # 0 =>
         /\ f["schema_start"] = f["uri_start"] /\ f["schema_end"] < f["host_start"]
         /\ f["host_end"] <= f["port_end"] /\ f["port_end"] <= f["path_start"]
         /\ f["port_start"] # 0 => f["port_start"] = f["host_end"] + 1

\* A header's name begins right behind a line end, whatever the headers before
\* it were: no character of a head is skipped or belongs to two headers.
HeaderBeginsItsLine ==
  st = "H_NAME" /\ result = "parsing" => f["header_key_start"] = eol + 1

\* The loop over the header lines, while (1) in http_process_headers, ends.
ParseEnds == <>(result # "parsing")

-----------------------------------------------------------------------------
(***************************************************************************)
(* What the comments of the code say and the code does not do.             *)
(***************************************************************************)
\* A host that ends the URI ends the path too: "on ' ' - host ends, assign end of
\* uri, start and end of port,path,pathname" (xps_http.c:122).
PathIsSet == LineParsed => f["path_end"] # 0 /\ f["pathname_end"] # 0

\* A head that is not complete yet is not decided: "incomplete data, wait for
\* more" (xps_session.c:224).
IncompleteDataWaits ==
  [][LineCutShort \/ (HeadersCutShort /\ st # "H_LF_LF") => result' = "parsing"]_vars
=============================================================================
