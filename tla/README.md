# WebCluster: a formal model

TLA+ modules of the C program in `src/`: a reverse proxy with round robin, a
disk cache and a CONNECT tunnel, and the backend servers behind it. TLC checks the
modules on small instances; TLAPS proves every safety and action property that the
passing runs check, for every value of the constants, or every value under a
hypothesis that section 4 names. Liveness is only checked. Paths
below are relative to the repository (`src/` is its root, so the repository's own
`src` directory is `src/src`).

    tlc -workers 2 -config CacheRaces.cfg MCDiskCache.tla
    tlapm DiskCacheProofs.tla

## 1. The system

| component | code | state | operations | reached by |
|---|---|---|---|---|
| disk cache | `src/src/cache/` | `.cache/cache_index.txt` and its `.tmp`, one file per hash of a key, one mutex | lookup, save, delete, cleanup; a cleaner thread | client threads, cleaner |
| balancer | `src/src/Proxy/RoundRobin.c`, `Cluster.c` | `is_alive` of each server, `alive_count`, `current` | `ping_servers`, `lb_next_server` | `proxy_main` once, then client threads under `lb_mutex` |
| client handler | `src/ManageClient/` | per connection: sockets, request, buffers, two flags | `manage_client`, `handle_options_request` | one thread per connection |
| accept loop | `src/proxy_main.c` | the listening socket | start-up sequence, accept, `pthread_create` | main thread |
| tunnel | `src/src/Network/connect_tunnel.c` | two sockets | select loop | handler, for CONNECT |
| network | `src/src/Network/tcp.c` | none | connect, accept, send all, recv, close | everything |
| parser, structures | `src/src/HTTP/` | none | parse, serialize, header lists | handler, backend |
| backend loop | `src/backend_main.c` | its connection | accept, recv, process, send, close | proxies, pings |
| HTTP methods | `src/src/HTTP/http_peer/` | files under the document root | GET, HEAD, PUT, POST, DELETE, TRACE, OPTIONS | backend loop |
| logger | `src/src/Proxy/Logger.c` | `pibl.log` | append a line | proxy threads |
| configuration, menu | `src/Configuration/`, `src/main.c` | none after start | read once | start |

How they interact. The accept loop starts a thread per connection. The thread
takes `lb_mutex`, pings all servers and picks one; it asks the cache, sends a
cached file, or sends the request to the server it picked and relays the answer
part by part; at the end it saves the answer or deletes entries. Cache and
balancer each have one mutex and never hold both. The backends are processes
without shared memory, but they may share a document root, and the README of the
repository starts them so (`./backend 5001 ./www`, three times).

What is hard here: the cache releases its mutex between the lookup and the
reading of the file, and between the delete and the write of a save; files and
index change in steps that can fail or be cut by the death of the process; a
response is cached whether or not it reached its end; writes through the proxy
race with saves of what they replaced; nine returns of the handler each free a
different set of resources; backends write one file without a lock; a request is
whatever one `recv` returned, cut at any byte, and the next server parses it
again; one thread of a tunnel serves two ends that finish, vanish or stop
reading at any moment. The list with lines is `hazards` in `PROJECT.json`.

What makes each part correct: the cache serves nothing stale, and
its index changes by whole calls; the balancer misses no live
server and is fair; the handler leaks nothing, mixes no sources, and invalidates
what was written; the parser takes a request as it was meant or rejects it, and
an OPTIONS request comes to its last hop; a tunnel delivers what is said, in order,
and ends with either end; a backend announces the length it sends, leaves nothing open,
and damages a document only where two writers overlap.

## 2. The modules

| module | models | state <-> code |
|---|---|---|
| `CacheIndex` | what the index promises: a set of entries that changes by whole calls | abstract specification, implemented by `DiskCache` |
| `DiskCache` | `Manage_cache.c`, `cache_utils.c`, `send_cached_response` | `index`, `temp`: the lines of the two index files; `file`: the cache files; `KeyRead`, `Rest`: what a key with a newline is read back as; `orphan`: an unlinked file that a reader keeps open; `now`, `expires`, `cursor`: locals of the functions |
| `LoadBalancer` | `RoundRobin.c` under the mutex of `manage_client.c` | `alive`, `aliveCount`, `current`: the cluster; `probe`, `found`, `attempts`: locals; `passed`: history for fairness |
| `ProxyHandler` | `manage_client.c`, `manage_client_utils.c` | `pc`: the place in the function; flags and buffers under the names of the code; `held`: what must be closed and freed; `writes`, `invalidated`, `overtaken`: history |
| `RequestParser` | `HttpParser_peer.c`, `requestParser.c`, `structs/request.c`, `http_request_decrement_max_forwards` | no state: functions on texts; `Parse` is `http_parse_request`, `ToRaw` is `http_request_to_raw` |
| `Tunnel` | `connect_tunnel.c`, `tcp_send_all`, `tcp_recv` | `pc`, `ready`, `source`, `pending`: the thread, `read_fds` and the rest of the buffer; `inbox`, `outbox`: the kernel's buffers of the two sockets; `state`, `said`, `got`: the ends; `skipped`, `cut`: history |
| `Connection` | `manage_client` up to the dispatch, on top of the two above | `buffer`: what the first `recv` returned; `parsed`: `parse_result` and `request`; `outgoing`: `request_data_to_send`; `opening`: what the client sent and meant |
| `Backend` | `backend_main.c`, the methods, `readFile.c` | `name`, `cells`: directory entry and inodes of one document; `handle`, `size`, `existed`, `reply`: locals; `spoiled`, `raced`, `damaged`: history |
| `DiskCacheProofs`, `DiskCacheFilesProofs` | theorems about `DiskCache`: with failures and crashes; about files and lines without | section 4 |
| `LoadBalancerProofs`, `ProxyHandlerProofs`, `BackendProofs` | theorems about the module of that name | section 4 |
| `ConnectionProofs` | theorems about the tunnel, as `Connection` runs it | section 4 |
| `RequestParserProofs` | theorems about the functions of `RequestParser` on texts of any length | section 4 |
| `ConnectionTextProofs` | theorems about the request of a connection, on top of the two above | section 4 |
| `MCDiskCache`, `MCProxyHandler`, `MCBackend`, `MCConnection` | constants for TLC | |

`DiskCache` and `LoadBalancer` are detailed; in `ProxyHandler` a call of either is
one step whose outcomes are those the detailed module allows (a hit, a miss, a
failure, a file that is cut short by another save, a server or none), so that
the handler can be explored with several clients and every return. In
`ProxyHandler` the server is one step too, whose details are module `Backend`.

Each `\* Mutant:` operator is a plausible bug of the definition below it. It is not
part of the specification; replacing the definition by it breaks the property
that `PROJECT.json` names, which shows that the property depends on the code.

### Granularity

- A step of `DiskCache` is one stdio call that changes a file, or one critical
  section that only reads. The scan of `cache_lookup` is one step: whoever writes
  what it reads needs the mutex it holds.
- `time(NULL)` is read where the code reads it: before the mutex in lookup and
  save, inside it in `rewrite_index`.
- The index is text: `fprintf` appends a line, `fgets` and `parse_index_line` read it
  back. The parser of requests lets a newline into a URI or a `Host`, and so into a
  key. A line therefore holds what is read of a key, `KeyRead[k]`, which ends at the
  first newline and is compared with the whole key; what follows the newline is
  `Rest[k]`, the lines that this text makes. A line that does not parse is passed over by
  `cache_lookup` and not copied by the next rewrite, so no step depends on it and it
  is no line of the model.
- A crash (`Crash`) keeps the files and forgets the threads; `cache_init` opens
  what it finds. It may come between any two steps.
- In `Backend`, `fopen`, `fseek`+`ftell`, `fread`+`fclose`, `fwrite`+`fclose`,
  `access` and `remove` are steps. The body of one request is written at once.
- In `ProxyHandler` a response is `NParts` results of `recv`. `setting`, chosen once,
  says which requests come and who may fail: one run explores several small worlds.
- In `RequestParser` a text is a sequence of symbols: space, colon, CR, LF, a word
  between two of them, a byte of a body. Every search of the parser is for one of
  these, so a text cut inside a word is read like the text cut at its border: the
  delimiter that must follow is missing in both. Bodies are cut at every byte.
- `Tunnel`: each `select`, `recv` and `send` is a step. `recv` takes what is there,
  up to the buffer; `send` takes any part of what it is given, if it fits, and waits
  otherwise. A send to an end that has closed is lost and the next call fails.
- `Backend`: a HEAD goes through `access` alone and sends no content; a TRACE whose echo
  does not fit its buffer is answered 500.
- `RequestParser`: `strtoul` negates a number below zero in an unsigned long
  (`BodyLength`), so that a length just above `-MaxUnsigned` is a short body.

## 3. The runs

| run | question | result |
|---|---|---|
| `cache_races` | two clients and the cleaner, one key, no failures | holds: files and lines of the index agree, nothing stale; calls return and expired entries go, under the fairness below |
| `cache_faults` | two keys with one hash, one of which is read back as the other and brings a line of its own; any call may fail, a crash | holds: the mutex is always given back, nothing stale, lines may be lost but never come back |
| `cache_own_keys` | each client has its own key, a crash | holds: whole responses, whole files under lines, an index that changes by whole calls |
| `cache_lookup` | "applies lazy TTL validation" | **violated**: between the unlock of a lookup that met an expired line and its `cache_delete` another client saves the key, and the fresh entry goes |
| `cache_new_file` | "stores the response in a new file" | **violated**: the second of two saves rewrites the file in place under a reader |
| `cache_cleanup` | "removes resources whose TTL has already expired" | **violated**: the file of an unexpired line goes with the first of two lines of one key |
| `balancer` | three servers that come and go, two clients | holds |
| `proxy_faults` | GET and PUT of two clients, clients leave, servers die; or every kind of request, while the cache and `pthread_create` may fail at every call | holds |
| `proxy_truncated` | "stores the full HTTP response" | **violated**: a client that leaves early makes the proxy cache what it was sent so far |
| `backend` | two backends on one document, stdio may fail | holds: only overlapping writers or lost writes damage a document, and only such damage or an open writer makes a GET partial |
| `connection` | 642 openings cut at every place; a tunnel between ends that do as they like | holds: acted on as meant or rejected, one hop less each time; bytes in order, nothing lost that the proxy could deliver, the tunnel ends |
| `connect_by_name` | "CONNECT request example": `-x ... https://example.com/` | **violated**: a target that is not an IPv4 address is answered 400 |

The five violations are in `findings`, each with the comment, header or README line
it contradicts.

### Why the properties are stated as they are

- `ServedFresh` speaks of the time a chunk was written and of the time the lookup
  read, not of the time it is sent: a slow client may finish a download after the
  TTL, which is no fault.
- `ServedWhole` is checked where clients have keys of their own and no key has a
  newline. With a shared key it fails, for the reason of the finding about `NewFile`:
  saves of one key overlap. It asks for all of *one* response, not for one of the own
  key: nothing in a cache file tells whose it is, so with a hash that collides, or a
  key that is read back as another, a response of another key may be served. No document
  promises otherwise and no property here would see it. What holds in spite of
  such keys is checked in `cache_faults`.
- `LookupRemovesExpired` is refuted, with a key that two clients share: the delete of a
  lookup does not look at the time again.
- `IndexAtomic` has `MayLose`: `rewrite_index` does not look at the results of
  `fputs` and `fclose`, so with write errors a rewrite may drop lines.
- `StaleOnlyByOvertaking`: a GET that was fetched before a PUT may be saved after
  it; nothing in the code prevents that. The property says that this is the *only*
  way in which an old response gets past an invalidation.
- `WriteInvalidates` names the conditions of the code: the first `recv` held the
  status line, and no later `recv` failed.
- `OneSource` excepts the settings with disk errors. With a read error in the
  middle of a cached file the handler falls back to the server and the client gets
  a part of the file followed by a second response. `WriteInvalidates` excepts them
  because `cache_delete` may fail.
- An opening of `Connection` is any text, meant as nothing, or a text that a client
  writes for a message (`Writes`, which TLC evaluates on every opening of its run):
  the client puts no space into a target, no colon into a name and no line end into a
  value, and announces no body shorter than the one it sends.
- `ReadAsMeant` compares what is done with a part of a text with what the whole text
  means. `Understood` names what the parser demands of a message: at least one
  header, values that fit its buffers, and for PUT and POST a `Content-Length` that
  is the length of a body that is not empty (and no longer than an unsigned long can
  say). The comparison is of what the proxy
  reads: the body of a GET, OPTIONS or DELETE is not read, so such a request is
  taken, and sent on, with whatever part of the body has come.
- `NextHopReadsOneLess` is asked of every prefix of the rewritten text, since the
  next server reads it with one `recv` too. Of two `Max-Forwards` the first counts
  and the first is rewritten; a number beyond a `long` becomes the largest one.
- `LastWordsArrive` excuses one case: the loop ends with the first end that finishes,
  and if the proxy then closes the other socket with unread bytes in it, the
  reset that TCP sends may destroy what that end has not read. A byte that the *other*
  end has sent and `select` has not shown yet is lost by design of the loop.
- `EverythingArrives` is about ends that read. `tcp_send_all` blocks: an end that does
  not read stops both directions.
- `MixedOnlyByOverlap` and `PartOnlyByWriter` have the excuses as history
  variables, so that any *other* cause would be found. `spoiled` is that two writers
  had the document open at a time, or that a write was lost. A partial GET has two
  excuses: `raced`, a writer had the file open while it was read, and `damaged`, the file
  was spoiled already when it was opened. That its length agrees with what is sent has
  none.

Behaviour worth knowing that contradicts no document: POST does not invalidate
the cache; error responses are cached; a request that comes in two segments is
rejected (`HTTP_PARSE_INCOMPLETE` is never returned); a request without headers, and
a PUT of an empty body, are rejected, but when the body of a request without headers
has a colon, the parser makes a header of it; a header line without a colon becomes part of
the next header's name; an OPTIONS request that is written anew keeps its
`Content-Length` and loses its body; bytes that come in one segment with a CONNECT
do not reach the target; `load_config` reads 255 bytes at a time and takes the rest
of a longer comment for a line of its own; `CACHE_MAX_ENTRIES` is never used; PUT
reaches the one backend that was picked, so separate document roots diverge;
`fwrite` of PUT and POST is not checked ("File updated successfully" is sent
regardless); `CACHE_TTL=0` is accepted by the configuration and refused by
`cache_init`.

### Bounds

| bound | value | enough because |
|---|---|---|
| `Workers` | 2, 3 in `cache_new_file` | two savers that overlap, or a saver and a reader, and the cleaner as a third thread; a reader between two savers for mixtures. The invariants and action properties are proved for any number |
| `Keys`, paths | 1, or 2 with one hash, or 2 | one file shared by two keys, and two files side by side |
| `KeyRead`, `Rest` | in `cache_faults` `k2` is `k1`, a newline and an entry without a date for a second path | a key that is read back as another one, and a line that nobody saved |
| `MaxTime`, `TTL` | 2 (1 with failures), 1 | an entry expires, and one that was saved after it does too |
| `MaxResponses` | 2 | two responses in one file, or one replacing the other |
| `NChunks`, `NParts` | 1 or 2 | a first and a last part are different; 1 where wholeness is not asked |
| `MaxCrashes` | 0 or 1 | a crash restarts from arbitrary files; `DiskCacheProofs` has no bound |
| `MaxAccepts`, `MaxConnects` | 3 | two requests that overlap and one that sees what they left |
| `N` | 3 | a server between two others, for wrap-around and fairness |
| `NInodes` | 2 | one backend holds an unlinked file while another creates the new one |
| `MaxCells` | 2 | a longer body under a shorter one |
| `Settings` | 2 | cache requests with clients and servers that fail; every kind of request with failures of the disk and of `pthread_create` |
| `Openings` | 642 | OPTIONS with up to two headers of four kinds and every numeral, PUT with bodies and lengths that agree or not or are negative, other methods with up to three headers, targets of CONNECT, and every sequence of up to three delimiters or words inside a header |
| `MaxHeaders` | 2 | one header below, at and beyond `MAX_HEADERS` |
| `MaxLong`, `MaxUnsigned`, `MaxPort` | 3, 7, 2 | the numeral 9 is beyond all, -1 below; -7 wraps to a length of 1 |
| `Volume`, `Window`, `Buffer` | 2 | one byte under way while another waits, a short send, a full socket |

Deadlock is checked in the cache and balancer runs, where threads go on for ever.
It is off in the handler, backend and connection runs: there the system stops when
the bound on connections is reached, when the one connection is closed, or while both
ends of a tunnel stay open and silent.

### Fairness

- `DiskCache`: strong fairness of the steps inside the cache (`InCache`, the
  rewrite of the cleaner). A pthread mutex gives no order, but every critical
  section is short and each thread does network I/O or sleeps between two of its
  own, so a waiting thread meets it free again and again. Nothing is assumed of
  what depends on a client or a backend: a fetch or a send may last for ever.
- `LoadBalancer`: weak fairness of probing and picking (`connect` returns), strong
  fairness of `Lock` for the reason above.
- `Backend`: weak fairness of each backend, and clients that connected send or
  close. The proxy does so. A client that connects and stays silent does stop a
  backend for good (`tcp_recv` has no timeout); the property does not hold then.
- `Connection`: weak fairness of the handler's and the tunnel's steps, and of an end
  that stays to read what it was sent. Nothing makes an end speak, finish or leave:
  the tunnel has no timeout and lasts as long as both ends are open. `TunnelEnds` and
  `EverythingArrives` hold from these alone; the second needs that the loop serves
  both ends that `select` has shown before it calls `select` again.
- `ProxyHandler` states no liveness: `recv` and `send` have no timeouts, so no
  thread is guaranteed to end.

## 4. The proofs

`DiskCacheProofs`, from `ConstantsAssumption` only: any number of threads and keys,
any hash, any TTL, with failures and crashes.

- `Base` = `TypeOK`, `OneHolder`, and for each thread that it has a key and, while
  writing, a file. The second part is needed for the first: `FilePath[key[t]]` and
  `Append(file[..], ..)` have types only then. Gives `TypeCorrect` and
  `MutualExclusion`.
- `Fresh` strengthens `ServedFresh`: every line of the index, of the `.tmp` file (as
  far as the rewrite has come) and every line about to be appended belongs to
  a file none of whose chunks is older than the line allows, seen also through
  the handle of a reader whose file was unlinked. A truncating `fopen` under
  a reader only makes chunks younger. Gives `NothingStaleIsServed`, for keys of which the
  text behind a newline carries no date (`Undated`): a line that nobody saved could say that
  any file lives as long as it likes.
- `Stamped`: `now` and `expires` of a thread come from a clock value that has been.
  With `TempKnown` (the `.tmp` file holds lines of the index that are to stay,
  `TempInvariant`) each
  step is a step of `CacheIndex` or a stutter: `IndexIsAtomic`, whatever lines the keys make.

`LoadBalancerProofs`, from `LBAssumption`: `IInv` = `TypeOK` and `Discipline` (the
mutex belongs to the thread inside, and nobody is inside before the first ping is
over), `Turns` (how far `current` is from server i bounds how often i has been
passed), `Scan` (the servers already looked at are dead). `Count` adds that
`found` counts the live servers among those probed. They give `TypeCorrect`,
`ClusterHasOneUser`, `RoundRobinIsFair`, `NoLiveServerIsMissed` and
`AliveCountIsExact`.

`BackendProofs`, from `BackendAssumption`: any number of backends and clients, any
length of a body, with failures.

- `Base` = `TypeOK` and `Placed`: a backend has a connection from `accept` to the
  close, and a file exactly between its `fopen` and `fclose`. A length measured or
  a cell written has its type only then. Gives `TypeCorrect`.
- `Holds` says what is allocated at each place of the loop, so that each early end
  is seen to free all of it: `NothingIsHeld`.
- `Files` strengthens `MixedOnlyByOverlap`, which says nothing while somebody
  writes: a file in use that is not spoiled has one writer at most, is empty while it
  has, and is otherwise all of one body. It speaks of open files without a name
  too, as a `DELETE` leaves them to who has them open. Gives `DamageNeedsOverlap`.

- `PartNeedsWriter` is `Fetched` with what it rests on. `Connected`: a connection sits
  in one place only, the socket a backend serves or one place of one backlog; without
  it `Req(b)`, the request a backend works on, could change under it (`RequestStays`).
  `Reading`: as long as neither `raced[b]` nor `damaged[b]` holds, the open file has
  had no writer since its `fopen` was seen, so the length measured is still its length
  and, by `Files`, it is of one body. `Fetched` carries this from `fread` to the answer, and says which
  requests can be at the writing steps: only `readFile` answers 200 to a GET.

`DiskCacheFilesProofs`, where calls do not fail (`~IOFaults`): any number of threads,
any TTL and length of a response. Its theorems are of two worlds. Neither hypothesis
can go: a crash in the middle of a save leaves a file without a line, or, if another
client has saved the same key between its delete and its write, a part of a response
under that line; and with a shared key such a save alone empties a file under its
reader.

- `Written`: who writes a file has put the first parts of its response there, all of
  them when it comes to the index. `StepKinds` says that all other steps leave files,
  lines and critical sections alone.
- `NoFailures` (nor does the proxy die; keys may be shared, hashes collide and keys
  have newlines):
  `Complete`, a file that nobody writes is all of one response, gives `FilesAreWhole`.
  `Listed`, such a file has a line in the index, and during a rewrite one among
  the lines copied or the lines ahead of the cursor, gives `EveryFileHasItsLine`.
  `FilesAreIndexed` alone is not inductive: it says nothing inside a rewrite.
- `OwnKeys` (clients share no key, the hash tells keys apart, no key has a newline; the
  proxy may die at any step. The theorems under it are about threads that meet in the index
  and in nothing else): `Own`. A thread works on keys of its own (`Busy`); from the delete of a save
  to its new line the key has no line (`Cleared`), so no key ever has two (`OneLine`);
  the files under lines
  are whole (`LinesWhole`); and a reader has sent the first part of a whole response
  that it keeps seeing, linked or not (`Reads`). Gives `OwnFilesAreWhole`
  and `AnswersAreWhole`.

`ProxyHandlerProofs`, from `ProxyAssumption`: any number of clients, connections and
parts of a response, any requests, with every failure of the settings.

- `Base` = `TypeOK` and `Counted`, what has been received, buffered and sent at each
  place; the counters have their bounds only then. Gives `TypeCorrect`.
- `Holds`: at each place a thread holds at most what every return from there gives
  back. Gives `NoThreadLeaks`.
- `Judged`: who may store or serve has looked at its own request, and `reply` is
  public when that is; with `StoredPublic`, `PrivateStaysOut`.
- `Sourced`: until the server answers only the cache has been sent, and a part of it
  only to a client that reset (or when the disk failed). Gives `SourcesDoNotMix`, and
  with `Buffers` `BufferIsWhatWasSent`.
- `Dated` and `Knows`: nothing is dated after the last write, and a response on its
  way to the cache that is older than an invalidation has been marked `overtaken`.
  Together with the property they are inductive: `StaleIsOvertaken`.
- `Remembers`: a PUT or DELETE keeps its `should_invalidate_cache` to the end, and has
  invalidated GET when HEAD is to follow. Gives the action property `WritesInvalidate`.

`ConnectionProofs`, from the assumptions of `Tunnel`: any openings, volume, window and
buffer, with ends that finish, leave or reset at any step. The bytes are followed
as one sequence, `OnItsWay(e)` = arrived, then in the hand of the loop, then in the
inbox.

- `Base` = `TunnelTypeOK`, and no more is in an inbox than was said (`TunnelTypeCorrect`).
- `Phases`: at which places the tunnel holds a byte, and that the client's first
  answer is the proxy's own.
- `Flow`: what arrived of an end is a run, the bytes `<<e, i>>` in their order from the
  first that the tunnel takes; while neither the receiver has reset nor the loop has
  ended, all that was said is on its way. It is kept by `send` taking any part of a
  rest and `recv` taking any part of an inbox. Gives `BytesInOrder`.
- `Ending`: the loop is only over when an end is not open, and each socket is cut once.
  With it `Final`: when one end finished and the other stays uncut, nothing of
  the first is missing from there on. Gives `LastWordsHeard`.

`RequestParserProofs`, from `ParserAssumption`: texts of any length over any words,
any number of headers. `parseHeaders` is a recursive function here (`HeadersIn`), and
induction over it is out of the prover's reach. Two things take its place.
`HeadersEquation` shows that the function which solves the equation on ever longer
ends of the text exists, from the least number for which it would not
(`LeastNatural`); and what must hold of every header is proved of the last one for
which it fails, which cannot be, because the header after it is read further on.

- `HeaderThere`, `HeaderNotThere` and their like for the request line say where the
  parser finds what it looks for: the first delimiter from a position on is unique.
- `NeverHalfUnderstood`: a text that begins with another has the same first delimiters
  wherever the shorter one has any, so what is taken is read the same.
  `Content-Length` keeps a cut body from being taken.
- `ParseOfCompose`: what is written with headers is read back. `Placed` follows one
  part of the text behind the other; a header is read where it stands, and the parser
  comes to the next (`HeadersRead`). If a part does not fit its buffer or there are too
  many headers, the whole is rejected. At least one header is needed: without one the
  parser looks for a header in the body.
- `RequestShape`: what the parser returns is such that it can be written again, which
  with `ParseOfCompose` gives `RewrittenRead`: the serializer's text of the request
  with its first `Max-Forwards` lowered is read as just that.

`ConnectionTextProofs`, from the assumptions of `RequestParser`, `Tunnel` and
`OpeningsAssumption`: any openings and any cut of `recv`. `Texts` is inductive: the
buffer is a beginning of the opening, or the opening and bytes behind it when a tunnel
is asked for; `parsed` is what the parser makes of it; and what goes on is the buffer
or the request with one hop less. With the theorems above it gives
`RequestsReadAsMeant` and `NextHopReads`, and with the invariants of
`ConnectionProofs` `ConnectionTypeCorrect`.

`OpeningsAssumption` is about clients only, and holds of every text that a client
means as nothing. That a body which follows no header has no colon is needed: with
one, the request is acted on as another than was meant (see section 3).

Only model-checked: all liveness (`CallsReturn`, `ExpiredRemoved`,
`EveryRequestDecided`, `TunnelEnds`, `EverythingArrives`, `EveryConnectionClosed`).
Fairness and ENABLED are beyond the prover. The five violated properties are
refuted by their runs.

## 5. Not modelled

- A line of the index that is torn because the disk fills up in the middle of it
  (`fprintf` and `fputs` are not checked): in the model a failing call loses its line
  whole.
- That a response belongs to the key it is served for (section 3): the model has the
  mix-ups, no property detects them.
- Failed allocations, a `select` that fails (no signal handler returns into it), and
  the wording of messages.
- Responses as structures (`structs/response.c`): plain data of `Backend`;
  `http_parse_response` always fails and is not called.
- The ordering of the start-up steps: they run once in one thread, and each that
  fails ends the program; what they leave is `Init`.
- Logger: output only, nothing reads it and no other part depends on it.
- Configuration and menu: sequential and run once; they give the assumptions on the
  constants (`load_config` demands a backend; `TTL` is positive after `cache_init`).
- `FD_SET` on a descriptor beyond `FD_SETSIZE`, and the growth of the index and of the
  number of threads: no bound in the code, so no state to check against.

## 6. Plan

Done in this order: cache (with its abstract index), balancer, handler, backend,
parser, tunnel and their composition.

Every invariant and action property of the passing runs is a theorem. What could
still be proved:

1. That a call of the cache, as `DiskCache` has it, is one of the outcomes that
   `ProxyHandler` allows for it, for clients that share no key.
2. `IndexIsAtomic` says what the index may lose; with `~IOFaults`, that a line is
   lost by its own delete or by the cleaner only.
