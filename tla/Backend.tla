------------------------------- MODULE Backend -------------------------------
(***************************************************************************)
(* The backend servers (src/backend_main.c) that share one document root,  *)
(* as the README starts them, and what the HTTP methods                    *)
(* (src/src/HTTP/http_peer) do to one document in it.                      *)
(*                                                                         *)
(* A backend serves one connection after the other, so it races with the   *)
(* other backends only, at the grain of their calls of stdio.  Its clients *)
(* are the proxies: a ping connects and closes, a handler connects and     *)
(* sends one request.  A body is one write of some cells.                  *)
(***************************************************************************)
EXTENDS Integers, Sequences

CONSTANTS
    Backends,
    Clients,      \* at most one connection each at a time
    Requests,     \* the requests that may come, a subset of Request
    NInodes,      \* bound: files, with a name or only open, at a time
    MaxCells,     \* bound: the longest body
    Backlog,      \* BACKLOG
    IOFaults,     \* whether the calls of stdio may fail
    MaxConnects,  \* bound: connections made
    None          \* no connection

Reads  == {"GET", "HEAD"}
Writes == {"PUT", "POST"}
Harmless == {"TRACE", "OPTIONS"}
Methods == Reads \union Writes \union Harmless \union {"DELETE", "CONNECT", "UNKNOWN"}

\* form: "malformed" does not parse, "dots" has .. in its URI, "root" is the
\* URI "/", "version" is not of HTTP/1.1.
\* PING is the connection of ping_servers, without a request.
Request == [method : Methods \union {"PING"}, length : 1..MaxCells,
            form : {"good", "malformed", "dots", "root", "version"}]

Inodes == 1..NInodes
Cell   == [by : Clients, of : 1..MaxCells, part : 1..MaxCells]

ASSUME BackendAssumption ==
    /\ None \notin Clients
    /\ NInodes \in Nat \ {0} /\ MaxCells \in Nat \ {0} /\ Backlog \in Nat \ {0}
    /\ Requests \subseteq Request
    /\ IOFaults \in BOOLEAN
    /\ MaxConnects \in Nat

VARIABLES
    connects,   \* connections made so far
    client,     \* client[c]: "idle", "connected", "sent" or "closed"
    request,    \* request[c]: its request
    backlog,    \* backlog[b]: connections that wait for tcp_accept
    name,       \* the inode the name of the document leads to, or 0
    cells,      \* cells[n]: what is in inode n
    spoiled,    \* history: spoiled[n]: writers of n overlapped, or one failed
    pc,         \* pc[b]: where the loop of b is
    conn,       \* conn[b]: its client_sock
    handle,     \* handle[b]: the inode it has open, or 0
    existed,    \* existed_before of HTTPPut
    size,       \* size of readFile
    reply,      \* reply[b]: the response
    raced,      \* history: raced[b]: a writer had the file open while b read it
    damaged,    \* history: damaged[b]: the file that b opened was spoiled
    held        \* held[b]: the resources of the connection

files == <<name, cells, spoiled>>
local == <<existed, size, raced, damaged>>
peers == <<connects, client, request, backlog>>
vars == <<connects, client, request, backlog, name, cells, spoiled, pc, conn,
          handle, existed, size, reply, raced, damaged, held>>

NoReply == [status |-> 0, content |-> <<>>, length |-> 0]
NoRequest == [method |-> "PING", length |-> 1, form |-> "good"]
Resources == {"socket", "request", "response"}

Init ==
    /\ connects = 0
    /\ client = [c \in Clients |-> "idle"]
    /\ request = [c \in Clients |-> NoRequest]
    /\ backlog = [b \in Backends |-> <<>>]
    /\ name = 0
    /\ cells = [n \in Inodes |-> <<>>]
    /\ spoiled = [n \in Inodes |-> FALSE]
    /\ pc = [b \in Backends |-> "accept"]
    /\ conn = [b \in Backends |-> None]
    /\ handle = [b \in Backends |-> 0]
    /\ existed = [b \in Backends |-> FALSE]
    /\ size = [b \in Backends |-> 0]
    /\ reply = [b \in Backends |-> NoReply]
    /\ raced = [b \in Backends |-> FALSE]
    /\ damaged = [b \in Backends |-> FALSE]
    /\ held = [b \in Backends |-> {}]

Goto(b, place) == pc' = [pc EXCEPT ![b] = place]
Req(b) == request[conn[b]]
MethodIs(b, set) == Req(b).method \in set

\* The response is made, to be sent from place.
Reply(b, status, content, length, place) ==
    /\ reply' = [reply EXCEPT ![b] = [status |-> status, content |-> content,
                                      length |-> length]]
    /\ Goto(b, place)

\* ensure_error_response: the body of an error is its reason phrase.
ReplyStatus(b, status) == Reply(b, status, <<>>, 0, "send")
------------------------------------------------------------------------------
(***************************************************************************)
(* The proxies.                                                            *)
(***************************************************************************)
Connect(c, b, r) ==
    /\ connects < MaxConnects
    /\ connects' = connects + 1
    /\ client[c] = "idle"
    /\ Len(backlog[b]) < Backlog
    /\ client' = [client EXCEPT ![c] = "connected"]
    /\ request' = [request EXCEPT ![c] = r]
    /\ backlog' = [backlog EXCEPT ![b] = Append(@, c)]
    /\ UNCHANGED <<files, pc, conn, handle, local, reply, held>>

Transmit(c) ==
    /\ client[c] = "connected"
    /\ client' = [client EXCEPT ![c] =
                     IF request[c].method = "PING" THEN "closed" ELSE "sent"]
    /\ UNCHANGED <<connects, request, backlog, files, pc, conn, handle, local,
                   reply, held>>
------------------------------------------------------------------------------
(***************************************************************************)
(* The loop of backend_main: accept, recv, parse.                          *)
(***************************************************************************)
Accept(b) ==
    /\ pc[b] = "accept"
    /\ backlog[b] # <<>>
    /\ conn' = [conn EXCEPT ![b] = Head(backlog[b])]
    /\ backlog' = [backlog EXCEPT ![b] = Tail(@)]
    /\ held' = [held EXCEPT ![b] = {"socket"}]
    /\ Goto(b, "recv")
    /\ UNCHANGED <<connects, client, request, files, handle, local, reply>>

\* tcp_close and back to accept, with the resources in r freed.
Finish(b, r) ==
    /\ client' = [client EXCEPT ![conn[b]] = "idle"]
    /\ request' = [request EXCEPT ![conn[b]] = NoRequest]
    /\ conn' = [conn EXCEPT ![b] = None]
    /\ reply' = [reply EXCEPT ![b] = NoReply]
    /\ existed' = [existed EXCEPT ![b] = FALSE]
    /\ size' = [size EXCEPT ![b] = 0]
    /\ raced' = [raced EXCEPT ![b] = FALSE]
    /\ damaged' = [damaged EXCEPT ![b] = FALSE]
    /\ held' = [held EXCEPT ![b] = @ \ r]
    /\ Goto(b, "accept")
    /\ UNCHANGED <<connects, backlog, files, handle>>

\* Mutant: the socket stays open.
RecvNothingKeepsOpen(b) ==
    /\ pc[b] = "recv"
    /\ client[conn[b]] = "closed"
    /\ Goto(b, "accept")
    /\ conn' = [conn EXCEPT ![b] = None]
    /\ UNCHANGED <<peers, files, handle, local, reply, held>>

RecvNothing(b) ==
    /\ pc[b] = "recv"
    /\ client[conn[b]] = "closed"
    /\ Finish(b, {"socket"})

\* recv returned a request; its client may have gone since then.
Received(b) ==
    /\ pc[b] = "recv"
    /\ client[conn[b]] = "sent"

BadRequest(b) ==
    /\ Received(b)
    /\ Req(b).form = "malformed"
    /\ Reply(b, 400, <<>>, 0, "refuse")
    /\ UNCHANGED <<peers, files, conn, handle, local, held>>

Unsupported(b) ==
    /\ Received(b)
    /\ Req(b).form # "malformed"
    /\ Req(b).method = "UNKNOWN" \/ Req(b).form = "dots"
    /\ Reply(b, IF Req(b).method = "UNKNOWN" THEN 405 ELSE 400, <<>>, 0, "reject")
    /\ held' = [held EXCEPT ![b] = @ \union {"request"}]
    /\ UNCHANGED <<peers, files, conn, handle, local>>

Parsed(b) ==
    /\ Received(b)
    /\ Req(b).form \notin {"malformed", "dots"}
    /\ Req(b).method # "UNKNOWN"
    /\ held' = [held EXCEPT ![b] = @ \union {"request", "response"}]
    /\ Goto(b, "process")
    /\ UNCHANGED <<peers, files, conn, handle, local, reply>>
------------------------------------------------------------------------------
(***************************************************************************)
(* processRequest: methods that touch no document, and URIs they refuse.   *)
(***************************************************************************)
Process(b, methods) ==
    pc[b] = "process" /\ MethodIs(b, methods) /\ Req(b).form # "version"

\* TRACE fails when what it echoes is longer than its buffer.
Echo(b) ==
    /\ Process(b, Harmless)
    /\ \/ ReplyStatus(b, 200)
       \/ MethodIs(b, {"TRACE"}) /\ ReplyStatus(b, 500)
    /\ UNCHANGED <<peers, files, conn, handle, local, held>>

Refused(b) ==
    \/ Req(b).form = "version"
    \/ MethodIs(b, {"CONNECT"})
    \/ MethodIs(b, Writes \union {"DELETE"}) /\ Req(b).form = "root"

Refuse(b) ==
    /\ pc[b] = "process"
    /\ Refused(b)
    /\ ReplyStatus(b, IF Req(b).form = "version" THEN 505 ELSE 400)
    /\ UNCHANGED <<peers, files, conn, handle, local, held>>

(***************************************************************************)
(* GET and HEAD: readFile.                                                 *)
(***************************************************************************)
Writers(n) == {b \in Backends : pc[b] = "write" /\ handle[b] = n}
Readers(n) == {b \in Backends : pc[b] \in {"size", "read"} /\ handle[b] = n}

OpenRead(b) ==
    /\ Process(b, Reads)
    /\ name # 0
    /\ handle' = [handle EXCEPT ![b] = name]
    /\ raced' = [raced EXCEPT ![b] = Writers(name) # {}]
    /\ damaged' = [damaged EXCEPT ![b] = spoiled[name]]
    /\ Goto(b, "size")
    /\ UNCHANGED <<peers, files, conn, existed, size, reply, held>>

OpenReadError(b) ==
    /\ Process(b, Reads)
    /\ name = 0 \/ IOFaults
    /\ ReplyStatus(b, 404)
    /\ UNCHANGED <<peers, files, conn, handle, local, held>>

\* Mutant: the last byte is not counted.
MeasureTooShort(b) ==
    /\ pc[b] = "size"
    /\ size' = [size EXCEPT ![b] = Len(cells[handle[b]]) - 1]
    /\ Goto(b, "read")
    /\ UNCHANGED <<peers, files, conn, handle, existed, reply, raced, damaged, held>>

\* fseek and ftell.
Measure(b) ==
    /\ pc[b] = "size"
    /\ size' = [size EXCEPT ![b] = Len(cells[handle[b]])]
    /\ Goto(b, "read")
    /\ UNCHANGED <<peers, files, conn, handle, existed, reply, raced, damaged, held>>

\* HEAD frees what it has read and announces only its length.
Content(b, text) == IF MethodIs(b, {"HEAD"}) THEN <<>> ELSE text

\* Mutant: the size that was measured is announced.
ReadMeasured(b) ==
    /\ pc[b] = "read"
    /\ LET n == IF Len(cells[handle[b]]) < size[b] THEN Len(cells[handle[b]])
                ELSE size[b]
       IN Reply(b, 200, Content(b, SubSeq(cells[handle[b]], 1, n)), size[b], "send")
    /\ handle' = [handle EXCEPT ![b] = 0]
    /\ UNCHANGED <<peers, files, conn, local, held>>

\* fread of at most size bytes: the file may have become shorter or longer.
Read(b) ==
    /\ pc[b] = "read"
    /\ LET n == IF Len(cells[handle[b]]) < size[b] THEN Len(cells[handle[b]])
                ELSE size[b]
       IN Reply(b, 200, Content(b, SubSeq(cells[handle[b]], 1, n)), n, "send")
    /\ handle' = [handle EXCEPT ![b] = 0]
    /\ UNCHANGED <<peers, files, conn, local, held>>
------------------------------------------------------------------------------
(***************************************************************************)
(* PUT and POST: fopen(path, "wb") empties the file, or creates it; the    *)
(* body is written from the start when it is closed.                       *)
(***************************************************************************)
MayWrite(b, method) == Process(b, {method}) /\ ~Refused(b)

\* HTTPPut: access.
Access(b) ==
    /\ MayWrite(b, "PUT")
    /\ existed' = [existed EXCEPT ![b] = name # 0]
    /\ Goto(b, "open")
    /\ UNCHANGED <<peers, files, conn, handle, size, raced, damaged, reply, held>>

MayOpen(b) == pc[b] = "open" \/ MayWrite(b, "POST")

\* An inode that has no name and is not open.
Free(n) == n # name /\ \A b \in Backends : handle[b] # n

\* Mutant: the file is opened without emptying it.
OpenWriteKeeps(b) ==
    /\ MayOpen(b)
    /\ \E n \in Inodes :
          /\ IF name # 0 THEN n = name ELSE Free(n) /\ \A m \in 1..(n - 1) : ~Free(m)
          /\ name' = n
          /\ handle' = [handle EXCEPT ![b] = n]
          /\ spoiled' = [spoiled EXCEPT ![n] = Writers(n) # {}]
          /\ raced' = [u \in Backends |-> raced[u] \/ u \in Readers(n)]
          /\ cells' = IF name = 0 THEN [cells EXCEPT ![n] = <<>>] ELSE cells
    /\ Goto(b, "write")
    /\ UNCHANGED <<peers, conn, existed, size, damaged, reply, held>>

OpenWrite(b) ==
    /\ MayOpen(b)
    /\ \E n \in Inodes :
          /\ IF name # 0 THEN n = name ELSE Free(n) /\ \A m \in 1..(n - 1) : ~Free(m)
          /\ name' = n
          /\ handle' = [handle EXCEPT ![b] = n]
          /\ cells' = [cells EXCEPT ![n] = <<>>]
          /\ spoiled' = [spoiled EXCEPT ![n] = Writers(n) # {}]
          /\ raced' = [u \in Backends |-> raced[u] \/ u \in Readers(n)]
    /\ Goto(b, "write")
    /\ UNCHANGED <<peers, conn, existed, size, damaged, reply, held>>

OpenWriteError(b) ==
    /\ IOFaults
    /\ MayOpen(b)
    /\ ReplyStatus(b, 500)
    /\ UNCHANGED <<peers, files, conn, handle, local, held>>

\* What is in a file after n cells of a body of b were written over it.
Over(b, old, n) ==
    [i \in 1..(IF Len(old) < n THEN n ELSE Len(old)) |->
        IF i <= n THEN [by |-> conn[b], of |-> Req(b).length, part |-> i]
        ELSE old[i]]

\* fwrite and fclose; nobody looks at what they return.
Write(b) ==
    /\ pc[b] = "write"
    /\ LET n == handle[b] IN
       \E written \in IF IOFaults THEN 0..Req(b).length ELSE {Req(b).length} :
          /\ cells' = [cells EXCEPT ![n] = Over(b, @, written)]
          /\ spoiled' = [spoiled EXCEPT ![n] = @ \/ written < Req(b).length]
    /\ handle' = [handle EXCEPT ![b] = 0]
    /\ ReplyStatus(b, IF existed[b] THEN 200 ELSE 201)
    /\ UNCHANGED <<peers, name, conn, local, held>>
------------------------------------------------------------------------------
(***************************************************************************)
(* DELETE: access, then remove.                                            *)
(***************************************************************************)
Find(b) ==
    /\ MayWrite(b, "DELETE")
    /\ name # 0
    /\ Goto(b, "remove")
    /\ UNCHANGED <<peers, files, conn, handle, local, reply, held>>

FindNothing(b) ==
    /\ MayWrite(b, "DELETE")
    /\ name = 0
    /\ ReplyStatus(b, 404)
    /\ UNCHANGED <<peers, files, conn, handle, local, held>>

Remove(b) ==
    /\ pc[b] = "remove"
    /\ name # 0
    /\ name' = 0
    /\ ReplyStatus(b, 200)
    /\ UNCHANGED <<peers, cells, spoiled, conn, handle, local, held>>

RemoveError(b) ==
    /\ pc[b] = "remove"
    /\ name = 0 \/ IOFaults
    /\ ReplyStatus(b, 500)
    /\ UNCHANGED <<peers, files, conn, handle, local, held>>
------------------------------------------------------------------------------
(***************************************************************************)
(* The response is sent, or its send fails, and the connection is closed.  *)
(***************************************************************************)
Refusal(b) ==
    /\ pc[b] = "refuse"
    /\ Finish(b, {"socket"})

\* Mutant: the request is not freed.
RejectionLeaks(b) ==
    /\ pc[b] = "reject"
    /\ Finish(b, {"socket"})

Rejection(b) ==
    /\ pc[b] = "reject"
    /\ Finish(b, {"request", "socket"})

Send(b) ==
    /\ pc[b] = "send"
    /\ Finish(b, {"response", "request", "socket"})

Loop(b) ==
    \/ Accept(b)
    \/ RecvNothing(b)
    \/ BadRequest(b)
    \/ Unsupported(b)
    \/ Parsed(b)
    \/ Refusal(b)
    \/ Rejection(b)
    \/ Send(b)

Execute(b) ==
    \/ Echo(b)
    \/ Refuse(b)
    \/ OpenRead(b)
    \/ OpenReadError(b)
    \/ Measure(b)
    \/ Read(b)
    \/ Access(b)
    \/ OpenWrite(b)
    \/ OpenWriteError(b)
    \/ Write(b)
    \/ Find(b)
    \/ FindNothing(b)
    \/ Remove(b)
    \/ RemoveError(b)

Next ==
    \/ \E c \in Clients, b \in Backends, r \in Requests : Connect(c, b, r)
    \/ \E c \in Clients : Transmit(c)
    \/ \E b \in Backends : Loop(b) \/ Execute(b)

Spec == Init /\ [][Next]_vars

(***************************************************************************)
(* Fairness: a backend keeps running, and a proxy that has connected sends *)
(* or closes: manage_client and ping_servers do so at once.  A client that *)
(* connects and does neither would stop the backend for good.              *)
(***************************************************************************)
Fairness ==
    /\ \A b \in Backends : WF_vars(Loop(b) \/ Execute(b))
    /\ \A c \in Clients : WF_vars(Transmit(c))

FairSpec == Spec /\ Fairness
------------------------------------------------------------------------------
Places == {"accept", "recv", "process", "size", "read", "open", "write",
           "remove", "refuse", "reject", "send"}

\* Every variable is of its type; in particular no file has a negative size.
TypeOK ==
    /\ connects \in Nat
    /\ client \in [Clients -> {"idle", "connected", "sent", "closed"}]
    /\ request \in [Clients -> Request]
    /\ backlog \in [Backends -> Seq(Clients)]
    /\ name \in Inodes \union {0}
    /\ cells \in [Inodes -> Seq(Cell)]
    /\ spoiled \in [Inodes -> BOOLEAN]
    /\ pc \in [Backends -> Places]
    /\ conn \in [Backends -> Clients \union {None}]
    /\ handle \in [Backends -> Inodes \union {0}]
    /\ existed \in [Backends -> BOOLEAN]
    /\ size \in [Backends -> Nat]
    /\ reply \in [Backends -> [status : Nat, content : Seq(Cell), length : Nat]]
    /\ raced \in [Backends -> BOOLEAN]
    /\ damaged \in [Backends -> BOOLEAN]
    /\ held \in [Backends -> SUBSET Resources]

\* Whichever way an iteration of the loop ends, it has closed the socket and
\* freed the request and the response.
NothingHeld == \A b \in Backends : pc[b] = "accept" => held[b] = {}

\* s is all of one body.
IsWhole(s) ==
    /\ s # <<>>
    /\ \A i \in DOMAIN s : /\ s[i].by = s[1].by /\ s[i].of = Len(s)
                           /\ s[i].part = i

\* When nobody writes it, the document is all of one body, unless two backends
\* had it open for writing at a time or a write was lost.
MixedOnlyByOverlap ==
    name # 0 /\ Writers(name) = {} /\ ~spoiled[name] => IsWhole(cells[name])

\* A GET announces the length of the body that follows, although the file can
\* change between the ftell and the fread.  And that is all of one body, unless a
\* writer had the file open meanwhile, or the document was spoiled before: two
\* writers had it open at a time, or a write to it was lost.  A DELETE and a new
\* file, at any moment, are no excuse.
PartOnlyByWriter ==
    \A b \in Backends :
        pc[b] = "send" /\ MethodIs(b, {"GET"}) /\ reply[b].status = 200 =>
            /\ reply[b].length = Len(reply[b].content)
            /\ raced[b] \/ damaged[b] \/ IsWhole(reply[b].content)

\* Every connection is served and closed, pings included: one that is in the
\* backlog is not lost behind others that failed.
EveryConnectionClosed ==
    \A c \in Clients : client[c] # "idle" ~> client[c] = "idle"
==============================================================================
