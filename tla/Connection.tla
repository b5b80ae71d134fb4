------------------------------ MODULE Connection ------------------------------
(***************************************************************************)
(* One connection to the proxy, from the recv of manage_client to what its *)
(* bytes make the proxy do: the parser (RequestParser) reads whatever one  *)
(* recv returned, and the handler rejects it, answers it, sends it to a    *)
(* server, as it came or rewritten, or opens a tunnel (Tunnel).  What the  *)
(* handler does with a server is module ProxyHandler.                      *)
(***************************************************************************)
EXTENDS RequestParser, Tunnel

\* An opening is the text of a request with what the client means by it: a
\* request, or Nothing for a text that is no well-formed message.
CONSTANT Openings

Nothing == [method |-> "none"]

\* The headers of a message: a name has no colon, a value is one line.
Headers == Seq([name : Seq(Words) \ {<<>>},
                value : {v \in Seq(Symbols \ {"cr", "lf"}) : v = <<>> \/ v[1] # "sp"}])

\* The body is no longer than announced.  One that follows no header has no colon:
\* the parser would take what is before the colon for the name of a header.
Announced(m, body) ==
    LET size == SearchHeader(m.headers, "Content-Length")
    IN /\ m.method \in WithBody /\ size.ok => Number(size.value).value >= Len(body)
       /\ m.headers = <<>> => ":" \notin ToSet(body)

\* text is what a client that means m writes.
Writes(text, m) ==
    /\ m.uri \in Seq(Symbols \ {"sp", "cr", "lf"}) \ {<<>>}
    /\ m.headers \in Headers
    /\ \E method, version \in Words \ {Long}, b \in 0..Len(text), k \in 0..Len(text) :
          LET body == SubSeq(text, b + 1, Len(text))
          IN /\ m = [method |-> GetHTTPMethod(<<method>>), uri |-> m.uri,
                     version |-> GetHTTPVersion(<<version>>), headers |-> m.headers,
                     body |-> IF method \in WithBody THEN body ELSE <<>>]
             /\ Announced(m, body)
             /\ text = Compose(<<method>>, m.uri, <<version>>, m.headers,
                               [i \in 1..k |-> "sp"], body)

ASSUME OpeningsAssumption ==
    /\ "byte" \in Words
    /\ \A o \in Openings :
          /\ o.text \in Text \ {<<>>}
          /\ o.meant # Nothing => Writes(o.text, o.meant)

VARIABLES
    opening,      \* what the client sends first
    buffer,       \* what the first recv returned of it
    parsed,       \* parse_result and request
    outgoing      \* request_data_to_send

message == <<opening, buffer, parsed, outgoing>>
vars == <<tunnel, message>>

Init ==
    /\ TunnelInit
    /\ pc = "recv"
    /\ opening \in Openings
    /\ buffer = <<>> /\ outgoing = <<>>
    /\ parsed = Failed

request == parsed.request

\* tcp_recv and http_parse_request.  recv returns a part of what the client
\* sent, down to one byte of it.  After a whole CONNECT it may hold bytes that
\* the client meant for the target.
RecvRequest ==
    /\ pc = "recv"
    /\ \/ \E n \in 1..Len(opening.text) :
             buffer' = SubSeq(opening.text, 1, n)
          /\ UNCHANGED <<inbox, skipped>>
       \/ \E k \in 1..Len(inbox["client"]) :
             /\ buffer' = opening.text \o [i \in 1..k |-> "byte"]
             /\ inbox' = [inbox EXCEPT !["client"] = SubSeq(@, k + 1, Len(@))]
             /\ skipped' = k
    /\ parsed' = Parse(buffer')
    /\ pc' = "parsed"
    /\ UNCHANGED <<state, said, outbox, got, sockets, cut, loop, opening,
                   outgoing>>

RecvNothing ==
    /\ pc = "recv"
    /\ state["client"] # "open"
    /\ pc' = "close client"
    /\ UNCHANGED <<world, loop, skipped, message>>

BadRequest ==
    /\ pc = "parsed" /\ ~parsed.ok
    /\ AnswerAndClose(400)
    /\ UNCHANGED message

Accepts == pc = "parsed" /\ parsed.ok

Unsupported ==
    /\ Accepts
    /\ request.method = "UNKNOWN"
    /\ AnswerAndClose(405)
    /\ UNCHANGED message

OpenTunnel ==
    /\ Accepts
    /\ request.method = "CONNECT"
    /\ ParseRequestConnect(request.uri)
    /\ pc' = "connect"
    /\ UNCHANGED <<world, loop, skipped, message>>

RefuseTarget ==
    /\ Accepts
    /\ request.method = "CONNECT"
    /\ ~ParseRequestConnect(request.uri)
    /\ AnswerAndClose(400)
    /\ UNCHANGED message

\* Every other method goes to a server in the words of the client.
Forward ==
    /\ Accepts
    /\ request.method \notin {"UNKNOWN", "CONNECT"}
    /\ OptionsFlow(request) = "continue"
    /\ outgoing' = buffer
    /\ pc' = "forward"
    /\ UNCHANGED <<world, loop, skipped, opening, buffer, parsed>>

OptionsBad ==
    /\ Accepts
    /\ OptionsFlow(request) = "bad"
    /\ AnswerAndClose(400)
    /\ UNCHANGED message

OptionsLocally ==
    /\ Accepts
    /\ OptionsFlow(request) = "local"
    /\ AnswerAndClose(200)
    /\ UNCHANGED message

\* Mutant: the request is not written anew when the number cannot be smaller.
OptionsForwardedEmpty ==
    /\ Accepts
    /\ OptionsFlow(request) = "rewrite"
    /\ outgoing' = IF Number(MaxForwards(request).value).value = 1 THEN <<>>
                   ELSE ToRaw(DecrementMaxForwards(request))
    /\ pc' = "forward"
    /\ UNCHANGED <<world, loop, skipped, opening, buffer, parsed>>

OptionsForwarded ==
    /\ Accepts
    /\ OptionsFlow(request) = "rewrite"
    /\ outgoing' = ToRaw(DecrementMaxForwards(request))
    /\ pc' = "forward"
    /\ UNCHANGED <<world, loop, skipped, opening, buffer, parsed>>

CloseClient ==
    /\ pc = "close client"
    /\ Close("client", inbox["client"] # <<>> \/ Len(buffer) < Len(opening.text))
    /\ pc' = "closed"
    /\ UNCHANGED message

HandlerStep ==
    \/ RecvRequest \/ RecvNothing
    \/ BadRequest \/ Unsupported
    \/ OpenTunnel \/ RefuseTarget
    \/ Forward \/ OptionsBad \/ OptionsLocally \/ OptionsForwarded
    \/ CloseClient

\* Only who asks for a tunnel has more to say, or to be left by.
Speaks == opening.meant # Nothing /\ opening.meant.method = "CONNECT"

Next ==
    \/ HandlerStep
    \/ TunnelStep /\ UNCHANGED message
    \/ Speaks /\ EndStep /\ UNCHANGED message

\* connect, recv with something to receive and send to a reader all return, and
\* ends that have not left read what they are sent.
Fairness ==
    /\ WF_vars(HandlerStep)
    /\ WF_vars(TunnelStep /\ UNCHANGED message)
    /\ \A e \in Ends : WF_vars(Speaks /\ Read(e) /\ UNCHANGED message)

Spec == Init /\ [][Next]_vars /\ Fairness
------------------------------------------------------------------------------
\* Every variable has its type.
TypeOK ==
    /\ TunnelTypeOK
    /\ pc \in {"recv", "parsed", "forward", "connect", "established",
               "close target", "close client", "closed"} \union Relaying
    /\ opening.text \in Text /\ outgoing \in Text
    /\ IsPrefix(buffer, opening.text) \/ IsPrefix(opening.text, buffer)
    /\ parsed.ok => request.method \in Methods \union {"UNKNOWN"}
    /\ outgoing # <<>> <=> pc = "forward"

\* The messages that the parser takes: it needs parts that its buffers hold, a
\* header, and for a body the length of it, which is not 0 and fits its type.
Understood(m) ==
    /\ Len(m.headers) \in 1..MaxHeaders
    /\ Fits(m.uri)
    /\ \A h \in ToSet(m.headers) : Fits(h.name) /\ Fits(h.value)
    /\ m.method \in WithBody =>
          LET size == SearchHeader(m.headers, "Content-Length")
          IN /\ Len(m.body) \in 1..MaxUnsigned
             /\ size.ok /\ Number(size.value).value = Len(m.body)

\* A request is never half understood.  Wherever recv happens to cut the text,
\* the proxy rejects what it got or acts on the request that the whole text
\* makes; if the text is a message, that is what the client means; and a message
\* that the parser takes is rejected only when it is cut.
ReadAsMeant ==
    LET whole == Parse(opening.text)
    IN pc = "parsed" =>
       /\ parsed.ok => whole = parsed /\ opening.meant \in {Nothing, request}
       /\ opening.meant # Nothing /\ Understood(opening.meant) => whole.ok

\* next, as parsed, is r with one hop less.
OneHopLess(r, next) ==
    LET hops(q) == Number(MaxForwards(q).value).value
    IN /\ next.headers[MaxForwards(r).at].value = OneLess(hops(r))
       /\ hops(next) \in 0..(hops(r) - 1)
       /\ next = [r EXCEPT !.headers = next.headers]
       /\ \A i \in DOMAIN r.headers \ {MaxForwards(r).at} :
             next.headers[i] = r.headers[i]

\* An OPTIONS request that goes on carries one hop less than it came with, and
\* never less than none: whatever part of it one recv of the next server
\* returns, its parser, which is the same, rejects that part or reads the same
\* request but for the first Max-Forwards.
NextHopReadsOneLess ==
    pc = "forward" /\ OptionsFlow(request) = "rewrite" =>
        \A n \in 1..Len(outgoing) :
            LET next == Parse(SubSeq(outgoing, 1, n))
            IN IF next.ok THEN OneHopLess(request, next.request)
                          ELSE n < Len(outgoing)

\* The documentation's example of CONNECT is a request for a host by its name,
\* "-x http://127.0.0.1:8080 https://example.com/": such a request, with a port,
\* is no bad request.
NamedTargetTried ==
    /\ parsed.ok /\ request.method = "CONNECT"
    /\ Len(request.uri) = 3 /\ request.uri[2] = ":"
    /\ Number(<<request.uri[3]>>).value \in 1..MaxPort
    => <<"proxy", 400>> \notin ToSet(Heard("client"))
==============================================================================
