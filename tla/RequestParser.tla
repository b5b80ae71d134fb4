---------------------------- MODULE RequestParser ----------------------------
(***************************************************************************)
(* The request parser and serializer that proxy and backend share          *)
(* (src/src/HTTP/HttpParser_peer.c, http_peer/requestParser.c,             *)
(* structs/request.c), and the two readings of a text that the proxy acts  *)
(* on: the hops of OPTIONS and the target of CONNECT.                      *)
(*                                                                         *)
(* A text is a sequence of symbols: the four that the parser looks for, a  *)
(* word between two of them, or a byte of a body.  Positions are those of  *)
(* the code plus one.                                                      *)
(***************************************************************************)
EXTENDS Integers, Sequences, SequencesExt

CONSTANTS
    Words,        \* the words, and the bytes of a body
    Numeral,      \* Numeral[w]: the integer that the word w spells
    MaxLong,      \* the largest long
    MaxUnsigned,  \* the largest unsigned long
    MaxPort,      \* 65535
    Addresses,    \* the words that are IPv4 addresses
    Long,         \* a word that is too long for every buffer of the parser
    MaxHeaders    \* MAX_HEADERS

Methods == {"GET", "HEAD", "POST", "PUT", "DELETE", "TRACE", "CONNECT", "OPTIONS"}
WithBody == {"POST", "PUT"}
Crlf == <<"cr", "lf">>

Delimiters == {"sp", ":", "cr", "lf"}
Symbols == Delimiters \union Words
Text == Seq(Symbols)

\* The words that the serializer writes.
Written == Methods \union DOMAIN Numeral \union {"HTTP/1.1", "UNKNOWN", "VERSION"}

ASSUME ParserAssumption ==
    /\ Words \intersect Delimiters = {}
    /\ Written \union Addresses \union {Long} \subseteq Words
    /\ Long \notin Written
    /\ \A w \in DOMAIN Numeral : Numeral[w] \in Int
    /\ {MaxLong, MaxUnsigned, MaxPort, MaxHeaders} \subseteq Nat \ {0}
    /\ \A n \in 0..(MaxLong - 1) : \E w \in DOMAIN Numeral : Numeral[w] = n

\* Where the symbol x is first found in text from position p on, or 0.
Find(text, x, p) == SelectInSubSeq(text, p, Len(text), LAMBDA y : y = x)

SkipSpaces(text, p) == SelectInSubSeq(text, p, Len(text), LAMBDA y : y # "sp")

StartsAt(text, p, s) ==
    p + Len(s) - 1 <= Len(text) /\ SubSeq(text, p, p + Len(s) - 1) = s

Fits(text) == Long \notin ToSet(text)

Failed == [ok |-> FALSE]
------------------------------------------------------------------------------
(***************************************************************************)
(* parseRequestLine, parseHeaders, parseBody and http_parse_request.       *)
(***************************************************************************)
\* getHTTPMethod and getHTTPVersion compare the whole text.
GetHTTPMethod(text) ==
    IF Len(text) = 1 /\ Head(text) \in Methods THEN Head(text) ELSE "UNKNOWN"
GetHTTPVersion(text) == IF text = <<"HTTP/1.1">> THEN "HTTP/1.1" ELSE "UNKNOWN"

\* The three parts of the line, between its two spaces and its end.
RequestLine(text, first, second, cr) ==
    LET method  == SubSeq(text, 1, first - 1)
        uri     == SubSeq(text, first + 1, second - 1)
        version == SubSeq(text, second + 1, cr - 1)
    IN IF /\ 0 \notin {first, second, cr}
          /\ \A part \in {method, uri, version} : part # <<>> /\ Fits(part)
          /\ StartsAt(text, cr, Crlf)
       THEN [ok |-> TRUE, method |-> GetHTTPMethod(method), uri |-> uri,
             version |-> GetHTTPVersion(version), position |-> cr + 2]
       ELSE Failed

ParseRequestLine(text) ==
    LET first  == Find(text, "sp", 1)
        second == Find(text, "sp", first + 1)
    IN RequestLine(text, first, second, Find(text, "cr", second + 1))

\* One header: its name reaches to the next colon, wherever that is.
HeaderLine(text, p, colon, cr) ==
    LET name  == SubSeq(text, p, colon - 1)
        value == SubSeq(text, SkipSpaces(text, colon + 1), cr - 1)
    IN IF /\ 0 \notin {colon, cr}
          /\ name # <<>> /\ Fits(name) /\ Fits(value)
          /\ StartsAt(text, cr, Crlf)
       THEN [ok |-> TRUE, header |-> [name |-> name, value |-> value],
             position |-> cr + 2]
       ELSE Failed

ParseHeader(text, p) ==
    LET colon == Find(text, ":", p)
    IN HeaderLine(text, p, colon, Find(text, "cr", colon + 1))

\* An empty line after a header ends them; else there are more, or an error.
LastHeader(line) ==
    [ok |-> TRUE, headers |-> <<line.header>>, position |-> line.position + 2]

MoreHeaders(line, rest) ==
    IF rest.ok THEN [rest EXCEPT !.headers = <<line.header>> \o @] ELSE Failed

HeadersIn(text) ==
    LET from[p \in 1..(Len(text) + 1)] ==
            LET line == ParseHeader(text, p)
            IN IF ~line.ok THEN Failed
               ELSE IF StartsAt(text, line.position, Crlf) THEN LastHeader(line)
               ELSE MoreHeaders(line, from[line.position])
    IN from

\* addRequestHeader refuses one header too many.
LimitHeaders(fields) ==
    IF fields.ok /\ Len(fields.headers) > MaxHeaders THEN Failed ELSE fields

ParseHeaders(text, p) == LimitHeaders(HeadersIn(text)[p])

\* searchHeader and http_request_get_header: the value of the first one.
SearchHeader(headers, name) ==
    LET i == SelectInSeq(headers, LAMBDA h : h.name = <<name>>)
    IN IF i = 0 THEN Failed ELSE [ok |-> TRUE, at |-> i, value |-> headers[i].value]

\* strtol and strtoul: the number that the text begins with, and whether that is
\* all of the text.
Number(text) ==
    LET p == SkipSpaces(text, 1)
    IN IF p # 0 /\ text[p] \in DOMAIN Numeral
       THEN [digits |-> TRUE, whole |-> p = Len(text), value |-> Numeral[text[p]]]
       ELSE [digits |-> FALSE, whole |-> text = <<>>, value |-> 0]

\* Mutant: the part of the body that has come is taken for all of it.
BodySoFar(text, p, size, n) ==
    IF p <= Len(text) /\ size.ok /\ n.digits
    THEN [ok |-> TRUE, body |-> SubSeq(text, p, Len(text))]
    ELSE Failed

\* strtoul takes a negative number modulo the size of an unsigned long.
BodyLength(value) == IF value < 0 THEN value + MaxUnsigned + 1 ELSE value

\* The body is as long as Content-Length begins to say, if that is in range.
Body(text, p, size, n) ==
    IF /\ p <= Len(text)
       /\ size.ok /\ n.digits
       /\ n.value \in (-MaxUnsigned)..MaxUnsigned
       /\ BodyLength(n.value) \in 0..(Len(text) - p + 1)
    THEN [ok |-> TRUE, body |-> SubSeq(text, p, p + BodyLength(n.value) - 1)]
    ELSE Failed

ParseBody(text, fields) ==
    LET size == SearchHeader(fields.headers, "Content-Length")
    IN Body(text, fields.position, size, Number(size.value))

Request(line, fields, content) ==
    IF content.ok
    THEN [ok |-> TRUE,
          request |-> [method |-> line.method, uri |-> line.uri,
                       version |-> line.version, headers |-> fields.headers,
                       body |-> content.body]]
    ELSE Failed

ParseAfterLine(text, line, fields) ==
    IF ~fields.ok THEN Failed
    ELSE Request(line, fields,
                 IF line.method \in WithBody THEN ParseBody(text, fields)
                 ELSE [ok |-> TRUE, body |-> <<>>])

Parse(text) ==
    LET line == ParseRequestLine(text)
    IN IF line.ok THEN ParseAfterLine(text, line, ParseHeaders(text, line.position))
       ELSE Failed
------------------------------------------------------------------------------
(***************************************************************************)
(* http_request_to_raw, and what a client writes.                          *)
(***************************************************************************)
Compose(method, uri, version, headers, gap, body) ==
    method \o <<"sp">> \o uri \o <<"sp">> \o version \o Crlf
        \o FlattenSeq([i \in DOMAIN headers |->
                          headers[i].name \o <<":">> \o gap \o headers[i].value \o Crlf])
        \o Crlf \o body

VersionToString(version) ==
    IF version = "HTTP/1.1" THEN <<"HTTP/1.1">> ELSE <<"UNKNOWN", "sp", "VERSION">>

ToRaw(r) ==
    Compose(<<r.method>>, r.uri, VersionToString(r.version), r.headers, <<"sp">>,
            r.body)
------------------------------------------------------------------------------
(***************************************************************************)
(* handle_options_request: what Max-Forwards makes of an OPTIONS request.  *)
(***************************************************************************)
MaxForwards(r) == SearchHeader(r.headers, "Max-Forwards")

FlowOf(n) ==
    CASE ~n.whole \/ n.value < 0 -> "bad"
      [] n.whole /\ n.value = 0 -> "local"
      [] n.whole /\ n.value > 0 -> "rewrite"

OptionsFlow(r) ==
    IF r.method = "OPTIONS" /\ MaxForwards(r).ok
    THEN FlowOf(Number(MaxForwards(r).value))
    ELSE "continue"

\* snprintf of the number, which strtol has cut to a long, less one.
OneLess(n) ==
    LET read == IF n > MaxLong THEN MaxLong ELSE n
    IN <<CHOOSE w \in DOMAIN Numeral : Numeral[w] = read - 1>>

\* Mutant: the last of several Max-Forwards headers is written.
DecrementLast(r) ==
    LET i == SelectLastInSeq(r.headers, LAMBDA h : h.name = <<"Max-Forwards">>)
    IN [r EXCEPT !.headers[i].value = OneLess(Number(MaxForwards(r).value).value)]

\* http_request_decrement_max_forwards, for a request that is to be rewritten.
DecrementMaxForwards(r) ==
    [r EXCEPT !.headers[MaxForwards(r).at].value =
        OneLess(Number(MaxForwards(r).value).value)]
------------------------------------------------------------------------------
\* parse_request_connect accepts an IPv4 address, a colon and a port.
ParseRequestConnect(uri) ==
    LET colon == Find(uri, ":", 1)
        host  == SubSeq(uri, 1, colon - 1)
        port  == Number(SubSeq(uri, colon + 1, Len(uri)))
    IN /\ colon # 0
       /\ host \in {<<a>> : a \in Addresses}
       /\ colon < Len(uri) /\ port.whole /\ port.value \in 1..MaxPort
==============================================================================
