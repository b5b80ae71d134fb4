----------------------------- MODULE ProxyHandler -----------------------------
(***************************************************************************)
(* manage_client (src/ManageClient/manage_client.c and                     *)
(* manage_client_utils.c): what a client thread of the proxy does with one *)
(* connection, from the accept loop of proxy_main.c to the last close, for *)
(* several connections at once and requests for one document.              *)
(*                                                                         *)
(* The balancer is module LoadBalancer and the inside of the cache module  *)
(* DiskCache: here the balancer gives a server or none, and a call of the  *)
(* cache is one step.  The servers share the document.  A response is      *)
(* NParts parts, one for each recv.                                        *)
(***************************************************************************)
EXTENDS Integers, Sequences, FiniteSets

CONSTANTS
    Clients,      \* client threads
    Settings,     \* what may come and what may fail, of which a run has one:
                  \* records of requests and of the parties that may fail
    NParts,       \* parts of a response of the backend
    MaxAccepts    \* bound: connections accepted

Cached   == {"GET", "HEAD"}
Modifies == {"PUT", "DELETE", "POST"}
Methods  == Cached \union Modifies
                \union {"TRACE", "OPTIONS", "CONNECT", "UNKNOWN"}

\* public: no Authorization, no Cookie, no Cache-Control that forbids storing.
\* host: there is a Host header, without which there is no cache key.
\* hops: the Max-Forwards header of an OPTIONS request, "bad" when it cannot be
\* read or decremented.
Request == [method : Methods, public : BOOLEAN, host : BOOLEAN,
            hops : {"absent", "bad", "zero", "positive"}]

\* Who may fail; "system" is pthread_create.
Parties == {"client", "backend", "disk", "system"}

ASSUME ProxyAssumption ==
    /\ Settings \subseteq [requests : SUBSET Request, faults : SUBSET Parties]
    /\ NParts \in Nat \ {0}
    /\ MaxAccepts \in Nat

VARIABLES
    setting,      \* the setting of this behaviour
    accepts,      \* connections accepted so far
    writes,       \* history: changes the backends have made to the document
    cache,        \* cache[m]: the stored response to m, or NoEntry
    invalidated,  \* history: invalidated[m]: the last change that a handler
                  \* invalidated the entry of m for
    pc,           \* pc[t]: where thread t is
    request,      \* request[t]: its request
    shouldCache,  \* should_cache_response
    shouldInvalidate, \* should_invalidate_cache
    reply,        \* reply[t]: the response being read, of the file or backend
    parsed,       \* parsed[t]: backend_status_parsed
    got,          \* got[t]: parts read of the reply
    buffered,     \* buffered[t]: parts in response_buffer
    sent,         \* sent[t]: the source of each part that the client was sent
    gone,         \* gone[t]: the client is "here", has "left", or has left and
                  \* the proxy knows it from a failed send ("reset")
    held,         \* held[t]: the resources of the connection
    overtaken     \* history: overtaken[t]: an invalidation went by between
                  \* the lookup of t and its save

NoEntry == [at |-> -1, parts |-> 0, status |-> "none", public |-> TRUE,
            overtaken |-> FALSE]
NoRequest == [method |-> "TRACE", public |-> TRUE, host |-> TRUE,
              hops |-> "absent"]
Resources == {"client", "args", "request", "forward", "backend", "response"}

flags   == <<shouldCache, shouldInvalidate>>
reading == <<reply, parsed, got, buffered>>
shared  == <<cache, invalidated, overtaken>>
outside == <<accepts, writes, gone>>
thread  == <<request, flags, reading, sent, held>>
vars == <<setting, accepts, writes, cache, invalidated, pc, request, shouldCache,
          shouldInvalidate, reply, parsed, got, buffered, sent, gone, held,
          overtaken>>

Init ==
    /\ setting \in Settings
    /\ accepts = 0 /\ writes = 0
    /\ cache = [m \in Cached |-> NoEntry]
    /\ invalidated = [m \in Cached |-> 0]
    /\ pc = [t \in Clients |-> "idle"]
    /\ request = [t \in Clients |-> NoRequest]
    /\ shouldCache = [t \in Clients |-> FALSE]
    /\ shouldInvalidate = [t \in Clients |-> FALSE]
    /\ reply = [t \in Clients |-> NoEntry]
    /\ parsed = [t \in Clients |-> FALSE]
    /\ got = [t \in Clients |-> 0]
    /\ buffered = [t \in Clients |-> 0]
    /\ sent = [t \in Clients |-> <<>>]
    /\ gone = [t \in Clients |-> "here"]
    /\ held = [t \in Clients |-> {}]
    /\ overtaken = [t \in Clients |-> FALSE]

MayFail(party) == party \in setting.faults
Goto(t, place) == pc' = [pc EXCEPT ![t] = place]
Acquire(t, r)  == held' = [held EXCEPT ![t] = @ \union r]
Method(t)      == request[t].method


\* The socket of the client takes the data, which it may do for a while after
\* the client has left.
Send(t, source) ==
    /\ gone[t] # "reset"
    /\ sent' = [sent EXCEPT ![t] = Append(@, source)]

SendFails(t) ==
    /\ gone[t] # "here"
    /\ gone' = [gone EXCEPT ![t] = "reset"]

\* The thread returns after it has freed and closed the resources in r.
Return(t, r) ==
    /\ Goto(t, "idle")
    /\ held' = [held EXCEPT ![t] = @ \ r]
    /\ request' = [request EXCEPT ![t] = NoRequest]
    /\ shouldCache' = [shouldCache EXCEPT ![t] = FALSE]
    /\ shouldInvalidate' = [shouldInvalidate EXCEPT ![t] = FALSE]
    /\ reply' = [reply EXCEPT ![t] = NoEntry]
    /\ parsed' = [parsed EXCEPT ![t] = FALSE]
    /\ got' = [got EXCEPT ![t] = 0]
    /\ buffered' = [buffered EXCEPT ![t] = 0]
    /\ sent' = [sent EXCEPT ![t] = <<>>]
    /\ gone' = [gone EXCEPT ![t] = "here"]

Early  == {"client", "args"}
Middle == Early \union {"request", "forward"}
Late   == Middle \union {"backend"}

\* The thread returns and has not used the cache.  If it answered the request
\* itself, it has not looked at the result of that send.
Close(t, r) == Return(t, r) /\ UNCHANGED <<accepts, writes, shared>>
------------------------------------------------------------------------------
(***************************************************************************)
(* From the accept loop to the choice of a server.                         *)
(***************************************************************************)
\* The main thread takes one connection after the other.
Accept(t) ==
    /\ accepts < MaxAccepts
    /\ accepts' = accepts + 1
    /\ pc[t] = "idle"
    /\ \A u \in Clients : pc[u] # "start"
    /\ Goto(t, "start")
    /\ Acquire(t, {"client", "args"})
    /\ overtaken' = [overtaken EXCEPT ![t] = FALSE]
    /\ UNCHANGED <<writes, cache, invalidated, request, flags, reading, sent,
                   gone>>

StartThread(t) ==
    /\ pc[t] = "start"
    /\ Goto(t, "recv")
    /\ UNCHANGED <<thread, outside, shared>>

\* pthread_create fails: the main thread itself closes and frees, and goes on.
StartError(t) ==
    /\ MayFail("system")
    /\ pc[t] = "start"
    /\ Close(t, Early)

\* The client closes its end, or resets it, at any moment.
Leave(t) ==
    /\ MayFail("client")
    /\ pc[t] # "idle"
    /\ gone[t] = "here"
    /\ gone' = [gone EXCEPT ![t] = "left"]
    /\ UNCHANGED <<accepts, writes, pc, thread, shared>>

RecvNothing(t) ==
    /\ pc[t] = "recv"
    /\ gone[t] # "here"
    /\ Close(t, Early)

\* http_parse_request fails, and has freed what it had allocated.
BadRequest(t) ==
    /\ pc[t] = "recv"
    /\ Close(t, Early)

Receive(t, r) ==
    /\ pc[t] = "recv"
    /\ request' = [request EXCEPT ![t] = r]
    /\ Acquire(t, {"request"})
    /\ Goto(t, CASE r.method = "UNKNOWN" -> "unsupported"
                 [] r.method = "CONNECT" -> "tunnel"
                 [] r.method = "OPTIONS" /\ r.hops # "absent" -> "options"
                 [] OTHER -> "pick")
    /\ UNCHANGED <<flags, reading, sent, outside, shared>>

\* The answer is 405.
Unsupported(t) ==
    /\ pc[t] = "unsupported"
    /\ Close(t, Early \union {"request"})

\* tcp_handle_connect is over, whatever it did.
Tunnel(t) ==
    /\ pc[t] = "tunnel"
    /\ Close(t, Early \union {"request"})

\* handle_options_request: 400, or the answer of the last hop.
OptionsAnswered(t) ==
    /\ pc[t] = "options"
    /\ request[t].hops \in {"bad", "zero"}
    /\ Close(t, Early \union {"request"})

OptionsForwarded(t) ==
    /\ pc[t] = "options"
    /\ request[t].hops = "positive"
    /\ Acquire(t, {"forward"})
    /\ Goto(t, "pick")
    /\ UNCHANGED <<request, flags, reading, sent, outside, shared>>

\* The critical section of the balancer, which finds a server or none.
Pick(t) ==
    /\ pc[t] = "pick"
    /\ Goto(t, "decide")
    /\ UNCHANGED <<thread, outside, shared>>

PickNone(t) ==
    /\ pc[t] = "pick"
    /\ Close(t, Middle)
------------------------------------------------------------------------------
(***************************************************************************)
(* The cache: look up and serve, or remember what to do after the reply.   *)
(***************************************************************************)
\* Mutant: the headers are not looked at.
IsCacheableIfRead(r) == r.method \in Cached

IsCacheable(r) == r.method \in Cached /\ r.public

\* The request goes on to the server.
Continue(t, mayCache, mayInvalidate) ==
    /\ Goto(t, "connect")
    /\ shouldCache' = [shouldCache EXCEPT ![t] = mayCache]
    /\ shouldInvalidate' = [shouldInvalidate EXCEPT ![t] = mayInvalidate]
    /\ reply' = [reply EXCEPT ![t] = NoEntry]
    /\ got' = [got EXCEPT ![t] = 0]
    /\ UNCHANGED <<request, parsed, buffered, held>>

PassBy(t) ==
    /\ pc[t] = "decide"
    /\ ~IsCacheable(request[t])
    /\ Continue(t, FALSE, Method(t) \in {"PUT", "DELETE"})
    /\ UNCHANGED <<sent, outside, shared>>

\* No key can be built, or cache_lookup reports CACHE_ERROR.
LookupError(t) ==
    /\ pc[t] = "decide"
    /\ IsCacheable(request[t])
    /\ ~request[t].host \/ MayFail("disk")
    /\ Continue(t, FALSE, FALSE)
    /\ UNCHANGED <<sent, outside, shared>>

MayLookup(t) ==
    /\ pc[t] = "decide"
    /\ IsCacheable(request[t])
    /\ request[t].host

\* CACHE_NOT_FOUND, or CACHE_EXPIRED with the entry gone.
LookupMiss(t) ==
    /\ MayLookup(t)
    /\ Continue(t, TRUE, FALSE)
    /\ cache' = [cache EXCEPT ![Method(t)] = NoEntry]
    /\ UNCHANGED <<sent, outside, invalidated, overtaken>>

LookupHit(t) ==
    /\ MayLookup(t)
    /\ cache[Method(t)] # NoEntry
    /\ reply' = [reply EXCEPT ![t] = cache[Method(t)]]
    /\ Goto(t, "serve")
    /\ UNCHANGED <<request, flags, parsed, got, buffered, sent, held, outside,
                   shared>>

\* send_cached_response.
ServePart(t) ==
    /\ pc[t] = "serve"
    /\ got[t] < reply[t].parts
    /\ Send(t, "cache")
    /\ got' = [got EXCEPT ![t] = @ + 1]
    /\ UNCHANGED <<pc, request, flags, reply, parsed, buffered, held, outside,
                   shared>>

ServeEnd(t) ==
    /\ pc[t] = "serve"
    /\ got[t] = reply[t].parts
    /\ Close(t, Middle)

\* Another thread is writing this file: the reader comes to its end too early.
ServeCut(t) ==
    /\ pc[t] = "serve"
    /\ got[t] < reply[t].parts
    /\ \E u \in Clients \ {t} :
          pc[u] = "after" /\ shouldCache[u] /\ Method(u) = Method(t)
    /\ Close(t, Middle)

\* Mutant: a send that only would block counts as a failure of the file.
ServeErrorOrSlow(t) ==
    /\ pc[t] = "serve"
    /\ got[t] < reply[t].parts
    /\ Continue(t, TRUE, FALSE)
    /\ UNCHANGED <<sent, outside, shared>>

\* The file is gone or cannot be read, or the client is.
ServeError(t) ==
    /\ pc[t] = "serve"
    /\ \/ got[t] = 0 /\ UNCHANGED gone
       \/ MayFail("disk") /\ UNCHANGED gone
       \/ got[t] < reply[t].parts /\ SendFails(t)
    /\ Continue(t, TRUE, FALSE)
    /\ UNCHANGED <<sent, accepts, writes, shared>>

\* The cleaner of the cache, or the lookup of another client.
Expire(m) ==
    /\ cache[m] # NoEntry
    /\ cache' = [cache EXCEPT ![m] = NoEntry]
    /\ UNCHANGED <<pc, thread, outside, invalidated, overtaken>>
------------------------------------------------------------------------------
(***************************************************************************)
(* The exchange with the server.                                           *)
(***************************************************************************)
ConnectBackend(t) ==
    /\ pc[t] = "connect"
    /\ Acquire(t, {"backend"})
    /\ Goto(t, "send")
    /\ UNCHANGED <<request, flags, reading, sent, outside, shared>>

\* The server has died since the ping.
ConnectError(t) ==
    /\ MayFail("backend")
    /\ pc[t] = "connect"
    /\ Close(t, Middle)

SendRequest(t) ==
    /\ pc[t] = "send"
    /\ Goto(t, "backend")
    /\ UNCHANGED <<thread, outside, shared>>

SendRequestError(t) ==
    /\ MayFail("backend")
    /\ pc[t] = "send"
    /\ Close(t, Late)

\* The server executes the request and answers, unless it dies on the way: then
\* the change may have been made, and fewer parts will arrive, or none.
BackendAnswers(t) ==
    /\ pc[t] = "backend"
    /\ \E status \in {"ok", "error"}, changed \in BOOLEAN,
          parts \in IF MayFail("backend") THEN 0..NParts ELSE {NParts} :
          /\ changed => Method(t) \in Modifies
          /\ status = "ok" /\ Method(t) \in Modifies => changed
          /\ writes' = IF changed THEN writes + 1 ELSE writes
          /\ reply' = [reply EXCEPT ![t] =
                [at |-> writes', parts |-> parts, status |-> status,
                 public |-> request[t].public, overtaken |-> FALSE]]
    /\ Goto(t, "relay")
    /\ UNCHANGED <<accepts, gone, request, flags, parsed, got, buffered, sent,
                   held, shared>>

\* Mutant: one recv too many.
RelayPartPastEnd(t) ==
    /\ pc[t] = "relay"
    /\ got[t] <= reply[t].parts
    /\ Send(t, "backend")
    /\ got' = [got EXCEPT ![t] = @ + 1]
    /\ UNCHANGED <<pc, request, flags, reply, parsed, buffered, held, outside,
                   shared>>

\* recv, the log, and the send to the client.  The status is known if the first
\* part holds the whole status line: no later part starts with one.
RelayPart(t) ==
    /\ pc[t] = "relay"
    /\ got[t] < reply[t].parts
    /\ Send(t, "backend")
    /\ got' = [got EXCEPT ![t] = @ + 1]
    /\ \E whole \in BOOLEAN :
          parsed' = [parsed EXCEPT ![t] = IF got[t] = 0 THEN whole ELSE @]
    /\ IF shouldCache[t]
       THEN /\ buffered' = [buffered EXCEPT ![t] = @ + 1]
            /\ Acquire(t, {"response"})
       ELSE UNCHANGED <<buffered, held>>
    /\ UNCHANGED <<pc, request, flags, reply, outside, shared>>

\* Mutant: the part goes into the buffer before it is sent.
RelayErrorBuffers(t) ==
    /\ pc[t] = "relay"
    /\ got[t] < reply[t].parts
    /\ SendFails(t)
    /\ buffered' = [buffered EXCEPT ![t] = IF shouldCache[t] THEN @ + 1 ELSE @]
    /\ Goto(t, "after")
    /\ UNCHANGED <<accepts, writes, request, flags, reply, parsed, got, sent,
                   held, shared>>

\* The send fails: the loop ends with bytes_backend > 0.
RelayError(t) ==
    /\ pc[t] = "relay"
    /\ got[t] < reply[t].parts
    /\ SendFails(t)
    /\ \E whole \in BOOLEAN :
          parsed' = [parsed EXCEPT ![t] = IF got[t] = 0 THEN whole ELSE @]
    /\ Goto(t, "after")
    /\ UNCHANGED <<accepts, writes, request, flags, reply, got, buffered, sent,
                   held, shared>>

RelayEnd(t) ==
    /\ pc[t] = "relay"
    /\ got[t] = reply[t].parts
    /\ Goto(t, "after")
    /\ UNCHANGED <<thread, outside, shared>>

\* Mutant: the buffer of the response is not freed.
RecvErrorLeaks(t) ==
    /\ pc[t] = "relay"
    /\ Close(t, Late)

\* recv reports an error: the cache is left alone.
RecvError(t) ==
    /\ MayFail("backend")
    /\ pc[t] = "relay"
    /\ Close(t, Late \union {"response"})
------------------------------------------------------------------------------
(***************************************************************************)
(* After the exchange: invalidate GET, then HEAD, or save.                 *)
(***************************************************************************)
Fetching == {"connect", "send", "backend", "relay", "after"}

\* Mutant: an entry that is being served is not removed.
DeleteSparesReaders(t, m) ==
    /\ cache' = [cache EXCEPT ![m] =
                    IF \E u \in Clients : pc[u] = "serve" /\ Method(u) = m
                    THEN @ ELSE NoEntry]
    /\ invalidated' = [invalidated EXCEPT ![m] =
                          IF @ < reply[t].at THEN reply[t].at ELSE @]
    /\ UNCHANGED overtaken

\* cache_delete of the entry of m, on account of the change that t made.
Delete(t, m) ==
    /\ cache' = [cache EXCEPT ![m] = NoEntry]
    /\ invalidated' = [invalidated EXCEPT ![m] =
                          IF @ < reply[t].at THEN reply[t].at ELSE @]
    /\ overtaken' = [u \in Clients |->
                        overtaken[u] \/ (pc[u] \in Fetching /\ Method(u) = m)]

DeleteFails(t) ==
    /\ ~request[t].host \/ MayFail("disk")
    /\ UNCHANGED shared

\* Mutant: a client that is gone ends the handler at once.
MustInvalidateIfHere(t) ==
    gone[t] # "reset" /\ shouldInvalidate[t] /\ parsed[t] /\ reply[t].status = "ok"

MustInvalidate(t) == shouldInvalidate[t] /\ parsed[t] /\ reply[t].status = "ok"

InvalidateGet(t) ==
    /\ pc[t] = "after"
    /\ MustInvalidate(t)
    /\ (request[t].host /\ Delete(t, "GET")) \/ DeleteFails(t)
    /\ Goto(t, "invalidate")
    /\ UNCHANGED <<thread, outside>>

InvalidateHead(t) ==
    /\ pc[t] = "invalidate"
    /\ (request[t].host /\ Delete(t, "HEAD")) \/ DeleteFails(t)
    /\ Return(t, Late \union {"response"})
    /\ UNCHANGED <<accepts, writes>>

MustSave(t) == shouldCache[t] /\ buffered[t] > 0

Save(t) ==
    /\ pc[t] = "after"
    /\ MustSave(t)
    /\ cache' = [cache EXCEPT ![Method(t)] =
                    [reply[t] EXCEPT !.parts = buffered[t],
                                     !.overtaken = overtaken[t]]]
    /\ Return(t, Late \union {"response"})
    /\ UNCHANGED <<accepts, writes, invalidated, overtaken>>

\* cache_save fails after its cache_delete, or the delete fails too, or the
\* end of the file is lost in a flush that nobody checks.
SaveError(t) ==
    /\ MayFail("disk")
    /\ pc[t] = "after"
    /\ MustSave(t)
    /\ \/ cache' = [cache EXCEPT ![Method(t)] = NoEntry]
       \/ UNCHANGED cache
       \/ \E parts \in 0..(buffered[t] - 1) :
             cache' = [cache EXCEPT ![Method(t)] =
                          [reply[t] EXCEPT !.parts = parts,
                                           !.overtaken = overtaken[t]]]
    /\ Return(t, Late \union {"response"})
    /\ UNCHANGED <<accepts, writes, invalidated, overtaken>>

Finish(t) ==
    /\ pc[t] = "after"
    /\ ~MustInvalidate(t) /\ ~MustSave(t)
    /\ Close(t, Late \union {"response"})
------------------------------------------------------------------------------
Begin(t) ==
    \/ Accept(t)
    \/ StartThread(t)
    \/ StartError(t)
    \/ RecvNothing(t)
    \/ BadRequest(t)
    \/ Unsupported(t)
    \/ \E r \in setting.requests : Receive(t, r)
    \/ Tunnel(t)
    \/ OptionsAnswered(t)
    \/ OptionsForwarded(t)
    \/ Pick(t)
    \/ PickNone(t)

Lookup(t) ==
    \/ PassBy(t)
    \/ LookupError(t)
    \/ LookupMiss(t)
    \/ LookupHit(t)
    \/ ServePart(t)
    \/ ServeEnd(t)
    \/ ServeCut(t)
    \/ ServeError(t)

Exchange(t) ==
    \/ ConnectBackend(t)
    \/ ConnectError(t)
    \/ SendRequest(t)
    \/ SendRequestError(t)
    \/ BackendAnswers(t)
    \/ RelayPart(t)
    \/ RelayError(t)
    \/ RelayEnd(t)
    \/ RecvError(t)

End(t) ==
    \/ InvalidateGet(t)
    \/ InvalidateHead(t)
    \/ Save(t)
    \/ SaveError(t)
    \/ Finish(t)

Next ==
    /\ \/ \E t \in Clients :
             Begin(t) \/ Leave(t) \/ Lookup(t) \/ Exchange(t) \/ End(t)
       \/ \E m \in Cached : Expire(m)
    /\ UNCHANGED setting

Spec == Init /\ [][Next]_vars
------------------------------------------------------------------------------
Places == {"idle", "start", "recv", "unsupported", "tunnel", "options", "pick",
           "decide", "serve", "invalidate"} \union Fetching
Entry == [at : Nat \union {-1}, parts : 0..NParts,
          status : {"ok", "error", "none"}, public : BOOLEAN,
          overtaken : BOOLEAN]

\* Every variable has its type.
TypeOK ==
    /\ setting \in Settings
    /\ accepts \in Nat /\ writes \in Nat
    /\ cache \in [Cached -> Entry]
    /\ invalidated \in [Cached -> Nat]
    /\ pc \in [Clients -> Places]
    /\ request \in [Clients -> Request]
    /\ shouldCache \in [Clients -> BOOLEAN]
    /\ shouldInvalidate \in [Clients -> BOOLEAN]
    /\ reply \in [Clients -> Entry]
    /\ parsed \in [Clients -> BOOLEAN]
    /\ got \in [Clients -> 0..NParts]
    /\ buffered \in [Clients -> 0..NParts]
    /\ sent \in [Clients -> Seq({"cache", "backend"})]
    /\ gone \in [Clients -> {"here", "left", "reset"}]
    /\ held \in [Clients -> SUBSET Resources]
    /\ overtaken \in [Clients -> BOOLEAN]

\* Whichever of the many returns of manage_client a thread takes, it has closed
\* both sockets and freed the request, the buffers and its arguments.
NothingLeaks == \A t \in Clients : pc[t] = "idle" => held[t] = {}

\* The response to a request with Authorization, Cookie or a Cache-Control that
\* forbids it is not in the cache, and such a request is not served from it.
PrivateNotCached ==
    /\ \A m \in Cached : cache[m].public
    /\ \A t \in Clients : pc[t] = "serve" => request[t].public

\* Once a PUT or DELETE has invalidated an entry, a response older than its
\* change is in the cache only if it was being fetched at that very moment: the
\* invalidation does not reach a cache_save that is still to come.
StaleOnlyByOvertaking ==
    \A m \in Cached :
        cache[m] # NoEntry /\ cache[m].at < invalidated[m] => cache[m].overtaken

\* A PUT or DELETE whose success the proxy has read invalidates the GET and the
\* HEAD entry before its thread ends, even when the client is gone by then;
\* only an error of the recv that follows, or of the disk, prevents it.
WriteInvalidates ==
    [][\A t \in Clients :
          /\ ~MayFail("disk")
          /\ pc[t] \in {"after", "invalidate"} /\ pc'[t] = "idle"
          /\ Method(t) \in {"PUT", "DELETE"} /\ request[t].host
          /\ parsed[t] /\ reply[t].status = "ok"
          => \A m \in Cached : invalidated'[m] >= reply[t].at]_vars

\* What one client gets all comes from one place: the handler never goes on to
\* the server after the client got a part of a cached response, unless the
\* disk fails in the middle of it.
OneSource ==
    ~MayFail("disk") =>
        \A t \in Clients : \A i, j \in DOMAIN sent[t] : sent[t][i] = sent[t][j]

\* What goes into the cache is what the client was sent by the server, no more
\* and no less, also when the connection to either of them breaks.
BufferedIsSent ==
    \A t \in Clients :
        shouldCache[t] /\ pc[t] \in Fetching =>
            buffered[t] = Cardinality({i \in DOMAIN sent[t] : sent[t][i] = "backend"})

\* The cache "stores the full HTTP response on disk".
CachedWhole == \A m \in Cached : cache[m] # NoEntry => cache[m].parts = NParts
==============================================================================
