----------------------------- MODULE MCConnection -----------------------------
(* Values for the constants of Connection. *)
EXTENDS Connection, TLC

MCNumeral == "-7" :> -7 @@ "-1" :> -1 @@ "0" :> 0 @@ "1" :> 1 @@ "2" :> 2 @@ "9" :> 9

MCWords == {"GET", "HEAD", "POST", "PUT", "DELETE", "TRACE", "CONNECT", "OPTIONS",
            "BREW", "HTTP/1.1", "HTTP/1.0", "UNKNOWN", "VERSION", "Host",
            "Max-Forwards", "Content-Length", "X", "10.0.0.1", "example.com", "*",
            "/", "h", "x", "b", "byte", "long", "-7", "-1", "0", "1", "2", "9"}

H(name, value) == [name |-> <<name>>, value |-> value]
Host == H("Host", <<"h", ":", "1">>)

\* What a client writes, with gap between the colons and the values, and what it
\* means.
Message(method, uri, version, headers, gap, body) ==
    [text |-> Compose(<<method>>, uri, version, headers, gap, body),
     meant |-> [method |-> GetHTTPMethod(<<method>>), uri |-> uri,
                version |-> GetHTTPVersion(version), headers |-> headers,
                body |-> IF method \in WithBody THEN body ELSE <<>>]]

Http == <<"HTTP/1.1">>
Gap  == <<"sp">>
UpTo(n, S) == UNION {[1..k -> S] : k \in 0..n}

Numbers == {<<w>> : w \in DOMAIN MCNumeral}
Hops(v) == H("Max-Forwards", v)
Length(v) == H("Content-Length", v)

MCOptions ==
    {Message("OPTIONS", <<"*">>, v, hs, g, <<>>) :
        v \in {Http, <<"HTTP/1.0">>}, hs \in UpTo(2, {Host, Hops(<<"1">>), Hops(<<"2">>), Hops(<<"x">>)})
                 \union {<<Hops(v)>> : v \in {<<>>, <<"2", "x">>, <<"1", "sp">>}
                                            \union Numbers},
        g \in {<<>>, <<"sp", "sp">>}}

\* A body that the length in the header announces, or a longer or a shorter one.
MCPuts ==
    {m \in {Message("PUT", <<"/">>, Http, hs, Gap, [i \in 1..n |-> "b"]) :
                hs \in UpTo(2, {Host, Length(<<"1">>), Length(<<"2">>)})
                        \union {<<Length(v)>> : v \in Numbers \union {<<"1", "x">>}},
                n \in 0..2} :
        LET size == SearchHeader(m.meant.headers, "Content-Length")
        IN size.ok => Number(size.value).value >= Len(m.meant.body)}

\* A length that is negative, and no message: strtoul reads -7 as 1.
MCWrapped ==
    {[m EXCEPT !.meant = Nothing] :
        m \in {Message("PUT", <<"/">>, Http, <<Length(<<v>>)>>, Gap, b) :
                  v \in {"-7", "-1"}, b \in UpTo(2, {"b"})}}

MCOthers ==
    {Message(m, <<"/">>, Http, hs, Gap, b) :
        m \in {"GET", "POST", "BREW"}, b \in {<<>>, <<"b">>},
        hs \in UpTo(3, {Host, Length(<<"1">>)}) \union {<<H("X", <<"long">>)>>}}

MCConnects ==
    {Message("CONNECT", u, Http, <<Host>>, Gap, <<>>) :
        u \in {<<"10.0.0.1", ":", "1">>, <<"10.0.0.1">>, <<"10.0.0.1", ":">>,
               <<"10.0.0.1", ":", "9">>, <<":", "1">>}}

\* Whatever may stand between a request line and the end of the headers.
MCScrambled ==
    {[text |-> Compose(<<"OPTIONS">>, <<"*">>, Http, <<Hops(<<"2">> \o FlattenSeq(t))>>,
                       Gap, Crlf),
      meant |-> Nothing] :
        t \in UpTo(3, {<<"Max-Forwards">>, <<":">>, <<":", "1">>, <<"sp">>, Crlf,
                       <<"cr">>, <<"lf">>})}

MCOpenings == MCOptions \union MCPuts \union MCWrapped \union MCOthers
                 \union MCConnects \union MCScrambled

\* The documented example.
MCNamed == {Message("CONNECT", <<"example.com", ":", "1">>, Http, <<Host>>, Gap, <<>>)}
==============================================================================
