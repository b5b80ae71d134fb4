------------------------------ MODULE DiskCache ------------------------------
(***************************************************************************)
(* The disk cache of the proxy (src/src/cache/Manage_cache.c and           *)
(* src/src/cache/utils/cache_utils.c), used by the client threads the way  *)
(* ManageClient/manage_client.c uses it.                                   *)
(*                                                                         *)
(* A cached response is a file whose name is the hash of its key, plus a   *)
(* line of .cache/cache_index.txt.  The mutex of the store covers the      *)
(* index, but a client thread opens and reads a cached file after it has   *)
(* let the mutex go, cache_save runs its cache_delete and its write in two *)
(* separate critical sections, and index and files change in steps of      *)
(* their own, between which the process may die.                           *)
(*                                                                         *)
(* What is abstracted: a response is NChunks chunks, each tagged with the  *)
(* key, the backend response and the time of the write() that stored it.   *)
(* The index is text, of which a line is what parse_index_line makes: the  *)
(* key of a line ends at the first newline of the key that was written,    *)
(* and what follows it there is read as lines of its own.                  *)
(***************************************************************************)
EXTENDS Integers, Sequences

CONSTANTS
    Workers,       \* client threads (proxy_main.c creates one per connection)
    Cleaner,       \* the thread of cache_start_cleaner_thread
    Keys,          \* cache keys, "method|host|uri", and what is read for one
    KeysOf,        \* KeysOf[w]: the keys that the requests of w are about
    KeyRead,       \* KeyRead[k]: k up to its first newline, if it has one
    Rest,          \* Rest[k]: the lines that the text after that newline makes
    Paths,         \* names of files that a line of the index may hold
    FilePath,      \* FilePath[k]: the file name cache_hash_key gives to k
    None,          \* no thread, no key, no path
    NoFile,        \* no file of that name
    TTL,           \* CACHE_TTL
    NChunks,       \* write() calls that store one response
    IOFaults,      \* whether the calls of stdio, rename and recv may fail
    MaxTime,       \* bound: the clock stops here
    MaxResponses,  \* bound: number of responses fetched from the backends
    MaxCrashes     \* bound: number of crashes of the proxy

Threads == Workers \union {Cleaner}
Line    == [key : Keys, path : Paths, expires : Int]
Chunk   == [key : Keys, response : Nat, part : Nat, at : Nat]

ASSUME ConstantsAssumption ==
    /\ Cleaner \notin Workers
    /\ None \notin Threads
    /\ None \notin Keys
    /\ None \notin Paths
    /\ KeyRead \in [Keys -> Keys]
    /\ Rest \in [Keys -> Seq(Line)]
    /\ FilePath \in [Keys -> Paths]
    /\ KeysOf \in [Workers -> SUBSET Keys]
    /\ NoFile \notin Seq(Chunk)
    /\ TTL \in Nat \ {0}
    /\ NChunks \in Nat \ {0}
    /\ IOFaults \in BOOLEAN
    /\ MaxTime \in Nat
    /\ MaxResponses \in Nat
    /\ MaxCrashes \in Nat

VARIABLES
    clock,      \* time(NULL)
    responses,  \* number of backend responses handed to cache_save so far
    crashes,    \* number of crashes so far
    index,      \* lines of cache_index.txt
    temp,       \* lines of cache_index.txt.tmp
    file,       \* file[p]: chunks of the cache file p, or NoFile
    mutex,      \* holder of store->mutex, or None
    pc,         \* pc[t]: where thread t is
    call,       \* call[t]: the function of Manage_cache.c that t is in
    key,        \* key[t]: its cache_key
    now,        \* now[t]: the last time(NULL) of cache_lookup / rewrite_index
    expires,    \* expires[t]: expires_at of the line found, or to be written
    cursor,     \* cursor[t]: next line of the index that rewrite_index reads
    id,         \* id[t]: the backend response that cache_save stores
    found,      \* found[t]: out_file_path, the path of the line that t hit
    orphan,     \* orphan[t]: the file t still reads after its name was removed
    sent        \* sent[t]: chunks sent_cached_response has sent

store    == <<index, temp, file>>
progress == <<pc, call, key, now, expires, cursor, id>>
reader   == <<found, orphan, sent>>
bounds   == <<responses, crashes>>
vars == <<clock, responses, crashes, index, temp, file, mutex, pc, call, key,
          now, expires, cursor, id, found, orphan, sent>>

\* The file_path of cache_save.
Path(t) == FilePath[key[t]]

\* What fprintf appends for the key k, as fgets and parse_index_line read it.
EntryLines(k, n) ==
    <<[key |-> KeyRead[k], path |-> FilePath[k], expires |-> n]>> \o Rest[k]

(***************************************************************************)
(* The calls a thread can be in, and the places inside them: "idle" is     *)
(* outside the cache; "lookup", "purge" and "save" wait for the mutex;     *)
(* "rewrite", "write" and "register" hold it; "open" and "serve" are       *)
(* send_cached_response; "fetch" is the exchange with the backend.         *)
(***************************************************************************)
Calls  == {"none", "lookup", "delete", "save", "cleanup"}
Places == {"idle", "lookup", "open", "serve", "fetch", "purge", "rewrite",
           "save", "write", "register"}
Critical == {"rewrite", "write", "register"}

\* The file as the handle of reader t sees it: an unlinked file lives on.
View(t) == IF orphan[t] = NoFile THEN file[found[t]] ELSE orphan[t]

\* Mutant: the file is emptied, not unlinked.
RemoveEmpties(p) ==
    /\ file' = [file EXCEPT ![p] = IF @ = NoFile THEN NoFile ELSE <<>>]
    /\ UNCHANGED orphan

\* Mutant: the line of the index goes and its file stays.
RemoveNothing(p) == UNCHANGED <<file, orphan>>

\* remove(p): the name goes, and whoever has the file open keeps it.
Remove(p) ==
    /\ file' = [file EXCEPT ![p] = NoFile]
    /\ orphan' = [t \in Threads |->
                    IF pc[t] = "serve" /\ orphan[t] = NoFile /\ found[t] = p
                    THEN file[p] ELSE orphan[t]]

Goto(t, place) == pc' = [pc EXCEPT ![t] = place]

Init ==
    /\ clock = 0 /\ responses = 0 /\ crashes = 0
    /\ index = <<>> /\ temp = <<>>
    /\ file = [p \in Paths |-> NoFile]
    /\ mutex = None
    /\ pc = [t \in Threads |-> "idle"]
    /\ call = [t \in Threads |-> "none"]
    /\ key = [t \in Threads |-> None]
    /\ now = [t \in Threads |-> 0]
    /\ expires = [t \in Threads |-> 0]
    /\ cursor = [t \in Threads |-> 0]
    /\ id = [t \in Threads |-> 0]
    /\ found = [t \in Threads |-> None]
    /\ orphan = [t \in Threads |-> NoFile]
    /\ sent = [t \in Threads |-> <<>>]
------------------------------------------------------------------------------
(***************************************************************************)
(* cache_lookup.  The time is read before the mutex is asked for.  The     *)
(* scan of the index is one step: it writes nothing and whatever writes    *)
(* what it reads needs the mutex.                                          *)
(***************************************************************************)
\* Steps of a thread that leave the mutex and the bounds alone.
Local == UNCHANGED <<clock, mutex, responses, crashes>>

StartLookup(w, k) ==
    /\ pc[w] = "idle"
    /\ Goto(w, "lookup")
    /\ call' = [call EXCEPT ![w] = "lookup"]
    /\ key' = [key EXCEPT ![w] = k]
    /\ now' = [now EXCEPT ![w] = clock]
    /\ UNCHANGED <<store, expires, cursor, id, reader>> /\ Local

\* i is the first line of the index that holds the key of thread t.
FirstMatch(t, i) ==
    /\ index[i].key = key[t]
    /\ \A j \in 1..(i - 1) : index[j].key # key[t]

CanScan(w) == pc[w] = "lookup" /\ mutex = None

\* The handler turns to the backend; the result of the lookup is used up.
Fetch(w) ==
    /\ Goto(w, "fetch")
    /\ now' = [now EXCEPT ![w] = 0]
    /\ expires' = [expires EXCEPT ![w] = 0]
    /\ cursor' = [cursor EXCEPT ![w] = 0]
    /\ UNCHANGED <<call, key, id>>

\* Mutant: an entry is still served at the very second it expires.
LookupHitTooLate(w) ==
    /\ CanScan(w)
    /\ \E i \in DOMAIN index :
          /\ FirstMatch(w, i)
          /\ index[i].expires >= now[w]
          /\ expires' = [expires EXCEPT ![w] = index[i].expires]
          /\ found' = [found EXCEPT ![w] = index[i].path]
    /\ Goto(w, "open")
    /\ UNCHANGED <<store, call, key, now, cursor, id, orphan, sent>> /\ Local

LookupHit(w) ==
    /\ CanScan(w)
    /\ \E i \in DOMAIN index :
          /\ FirstMatch(w, i)
          /\ index[i].expires > now[w]
          /\ expires' = [expires EXCEPT ![w] = index[i].expires]
          /\ found' = [found EXCEPT ![w] = index[i].path]
    /\ Goto(w, "open")
    /\ UNCHANGED <<store, call, key, now, cursor, id, orphan, sent>> /\ Local

\* The mutex is released before cache_delete takes it again.
LookupExpired(w) ==
    /\ CanScan(w)
    /\ \E i \in DOMAIN index : FirstMatch(w, i) /\ index[i].expires <= now[w]
    /\ Goto(w, "purge")
    /\ now' = [now EXCEPT ![w] = 0]
    /\ UNCHANGED <<store, call, key, expires, cursor, id, reader>> /\ Local

LookupMiss(w) ==
    /\ CanScan(w)
    /\ \A i \in DOMAIN index : index[i].key # key[w]
    /\ Fetch(w)
    /\ UNCHANGED <<store, reader>> /\ Local

\* A thread leaves the cache; what it knew is forgotten.
Leave(t) ==
    /\ Goto(t, "idle")
    /\ call' = [call EXCEPT ![t] = "none"]
    /\ key' = [key EXCEPT ![t] = None]
    /\ now' = [now EXCEPT ![t] = 0]
    /\ expires' = [expires EXCEPT ![t] = 0]
    /\ cursor' = [cursor EXCEPT ![t] = 0]
    /\ id' = [id EXCEPT ![t] = 0]

\* The index cannot be opened: CACHE_ERROR, the response is not cached.
LookupError(w) ==
    /\ IOFaults
    /\ CanScan(w)
    /\ Leave(w)
    /\ UNCHANGED <<store, reader>> /\ Local
------------------------------------------------------------------------------
(***************************************************************************)
(* send_cached_response: no mutex is held here.                            *)
(***************************************************************************)
OpenHit(w) ==
    /\ pc[w] = "open"
    /\ file[found[w]] # NoFile
    /\ Goto(w, "serve")
    /\ UNCHANGED <<store, call, key, now, expires, cursor, id, reader>> /\ Local

\* The file has gone since the lookup, or cannot be opened.
OpenHitError(w) ==
    /\ pc[w] = "open"
    /\ file[found[w]] = NoFile \/ IOFaults
    /\ Fetch(w)
    /\ found' = [found EXCEPT ![w] = None]
    /\ UNCHANGED <<store, orphan, sent>> /\ Local

\* The next fread of the open file, from where the last one ended.
SendChunk(w) ==
    /\ pc[w] = "serve"
    /\ Len(sent[w]) < Len(View(w))
    /\ sent' = [sent EXCEPT ![w] = Append(@, View(w)[Len(@) + 1])]
    /\ UNCHANGED <<store, progress, found, orphan>> /\ Local

CloseHit(w) ==
    /\ found' = [found EXCEPT ![w] = None]
    /\ orphan' = [orphan EXCEPT ![w] = NoFile]
    /\ sent' = [sent EXCEPT ![w] = <<>>]

\* fread returns 0: the request has been answered from the cache.
EndHit(w) ==
    /\ pc[w] = "serve"
    /\ Len(sent[w]) >= Len(View(w))
    /\ Leave(w)
    /\ CloseHit(w)
    /\ UNCHANGED store /\ Local

\* A read or a send fails: the handler falls back to the backend.
BreakHit(w) ==
    /\ IOFaults
    /\ pc[w] = "serve"
    /\ Fetch(w)
    /\ CloseHit(w)
    /\ UNCHANGED store /\ Local
------------------------------------------------------------------------------
(***************************************************************************)
(* The handler after a lookup that did not serve: it asks the backend and  *)
(* calls cache_save with a response, or has nothing to save.               *)
(***************************************************************************)
FetchNothing(w) ==
    /\ pc[w] = "fetch"
    /\ Leave(w)
    /\ UNCHANGED <<store, reader>> /\ Local

\* expires_at is computed before the mutex is asked for.
StartSave(w) ==
    /\ pc[w] = "fetch"
    /\ responses < MaxResponses
    /\ responses' = responses + 1
    /\ Goto(w, "purge")
    /\ call' = [call EXCEPT ![w] = "save"]
    /\ expires' = [expires EXCEPT ![w] = clock + TTL]
    /\ id' = [id EXCEPT ![w] = responses']
    /\ UNCHANGED <<clock, crashes, mutex, store, key, now, cursor, reader>>

\* PUT and DELETE: the handler calls cache_delete on the key.
StartDelete(w, k) ==
    /\ pc[w] = "idle"
    /\ Goto(w, "purge")
    /\ call' = [call EXCEPT ![w] = "delete"]
    /\ key' = [key EXCEPT ![w] = k]
    /\ UNCHANGED <<store, now, expires, cursor, id, reader>> /\ Local

\* cache_cleaner_thread: the sleep ends, whenever that is.
WakeCleaner ==
    /\ pc[Cleaner] = "idle"
    /\ Goto(Cleaner, "purge")
    /\ call' = [call EXCEPT ![Cleaner] = "cleanup"]
    /\ UNCHANGED <<store, key, now, expires, cursor, id, reader>> /\ Local
------------------------------------------------------------------------------
(***************************************************************************)
(* rewrite_index under the mutex, for cache_delete (of the key) and for    *)
(* cache_cleanup_expired.  Each file goes when its line is read; the lines *)
(* that stay are copied to the .tmp file, which replaces the index at the  *)
(* end.                                                                    *)
(***************************************************************************)
\* Mutant: rewrite_index is called without the mutex.
StartRewriteUnlocked(t) ==
    /\ pc[t] = "purge"
    /\ mutex' = t
    /\ Goto(t, "rewrite")
    /\ now' = [now EXCEPT ![t] = clock]
    /\ cursor' = [cursor EXCEPT ![t] = 1]
    /\ temp' = <<>>
    /\ UNCHANGED <<clock, responses, crashes, index, file, call, key, expires,
                   id, reader>>

StartRewrite(t) ==
    /\ pc[t] = "purge"
    /\ mutex = None
    /\ mutex' = t
    /\ Goto(t, "rewrite")
    /\ now' = [now EXCEPT ![t] = clock]
    /\ cursor' = [cursor EXCEPT ![t] = 1]
    /\ temp' = <<>>
    /\ UNCHANGED <<clock, responses, crashes, index, file, call, key, expires,
                   id, reader>>

\* Mutant: remove_expired_only is forgotten.
ShouldRemoveByKey(t, line) == line.key = key[t]

ShouldRemove(t, line) ==
    IF call[t] = "cleanup" THEN line.expires <= now[t] ELSE line.key = key[t]

\* fputs to the .tmp file: its failure goes unnoticed.
KeepLine(line) ==
    \/ temp' = Append(temp, line)
    \/ IOFaults /\ UNCHANGED temp

RewriteLine(t) ==
    /\ pc[t] = "rewrite"
    /\ cursor[t] <= Len(index)
    /\ LET line == index[cursor[t]] IN
         IF ShouldRemove(t, line)
         THEN /\ Remove(line.path)
              /\ UNCHANGED temp
         ELSE /\ KeepLine(line)
              /\ UNCHANGED <<file, orphan>>
    /\ cursor' = [cursor EXCEPT ![t] = @ + 1]
    /\ UNCHANGED <<index, pc, call, key, now, expires, id, found, sent>>
    /\ Local

\* What follows cache_delete: cache_save ignores its result, cache_lookup
\* answers CACHE_EXPIRED, and the other callers are done.
AfterRewrite(t) ==
    CASE call[t] = "save"   -> /\ Goto(t, "save")
                               /\ now' = [now EXCEPT ![t] = 0]
                               /\ cursor' = [cursor EXCEPT ![t] = 0]
                               /\ UNCHANGED <<call, key, expires, id>>
      [] call[t] = "lookup" -> Fetch(t)
      [] OTHER              -> Leave(t)

\* Mutant: the last line of the index is not copied.
RenameTooEarly(t) ==
    /\ pc[t] = "rewrite"
    /\ cursor[t] >= Len(index)
    /\ index' = temp
    /\ temp' = <<>>
    /\ mutex' = None
    /\ AfterRewrite(t)
    /\ UNCHANGED <<clock, responses, crashes, file, reader>>

\* Mutant: the caller of rewrite_index does not unlock.
RenameKeepsMutex(t) ==
    /\ pc[t] = "rewrite"
    /\ cursor[t] > Len(index)
    /\ index' = temp
    /\ temp' = <<>>
    /\ AfterRewrite(t)
    /\ UNCHANGED <<clock, responses, crashes, file, mutex, reader>>

Rename(t) ==
    /\ pc[t] = "rewrite"
    /\ cursor[t] > Len(index)
    /\ index' = temp
    /\ temp' = <<>>
    /\ mutex' = None
    /\ AfterRewrite(t)
    /\ UNCHANGED <<clock, responses, crashes, file, reader>>

\* After a failed rewrite only cache_save goes on: an expired lookup is now
\* CACHE_ERROR and its response will not be cached.
AfterFailure(t) == IF call[t] = "save" THEN AfterRewrite(t) ELSE Leave(t)

\* Mutant: the early return after a failed rename does not unlock.
RenameErrorKeepsMutex(t) ==
    /\ IOFaults
    /\ pc[t] = "rewrite"
    /\ cursor[t] > Len(index)
    /\ temp' = <<>>
    /\ AfterFailure(t)
    /\ UNCHANGED <<clock, responses, crashes, index, file, mutex, reader>>

\* rename fails: the files are gone, their lines stay.
RenameError(t) ==
    /\ IOFaults
    /\ pc[t] = "rewrite"
    /\ cursor[t] > Len(index)
    /\ temp' = <<>>
    /\ mutex' = None
    /\ AfterFailure(t)
    /\ UNCHANGED <<clock, responses, crashes, index, file, reader>>

\* The index or the .tmp file cannot be opened.
RewriteError(t) ==
    /\ IOFaults
    /\ pc[t] = "purge"
    /\ mutex = None
    /\ AfterFailure(t)
    /\ UNCHANGED <<store, reader>> /\ Local
------------------------------------------------------------------------------
(***************************************************************************)
(* The second critical section of cache_save.  fopen(path, "wb") empties   *)
(* the file in place when one of that name exists.                         *)
(***************************************************************************)
\* Mutant: the file is opened before the mutex is held.
OpenCacheFileUnlocked(w) ==
    /\ pc[w] = "save"
    /\ mutex' = w
    /\ Goto(w, "write")
    /\ file' = [file EXCEPT ![Path(w)] = <<>>]
    /\ UNCHANGED <<clock, responses, crashes, index, temp, call, key, now,
                   expires, cursor, id, reader>>

\* Mutant: the file is opened for appending.
OpenCacheFileAppends(w) ==
    /\ pc[w] = "save"
    /\ mutex = None
    /\ mutex' = w
    /\ Goto(w, "write")
    /\ file' = [file EXCEPT ![Path(w)] = IF @ = NoFile THEN <<>> ELSE @]
    /\ UNCHANGED <<clock, responses, crashes, index, temp, call, key, now,
                   expires, cursor, id, reader>>

OpenCacheFile(w) ==
    /\ pc[w] = "save"
    /\ mutex = None
    /\ mutex' = w
    /\ Goto(w, "write")
    /\ file' = [file EXCEPT ![Path(w)] = <<>>]
    /\ UNCHANGED <<clock, responses, crashes, index, temp, call, key, now,
                   expires, cursor, id, reader>>

OpenCacheFileError(w) ==
    /\ IOFaults
    /\ pc[w] = "save"
    /\ mutex = None
    /\ Leave(w)
    /\ UNCHANGED <<store, reader>> /\ Local

WriteChunk(w) ==
    /\ pc[w] = "write"
    /\ LET written == file[Path(w)]
           chunk == [key |-> key[w], response |-> id[w],
                     part |-> Len(written) + 1, at |-> clock]
       IN /\ file' = [file EXCEPT ![Path(w)] = Append(written, chunk)]
          /\ Goto(w, IF Len(written) + 1 < NChunks THEN "write" ELSE "register")
    /\ UNCHANGED <<index, temp, call, key, now, expires, cursor, id, reader>>
    /\ Local

\* fwrite reports the failure: the part already written stays on the disk.
WriteError(w) ==
    /\ IOFaults
    /\ pc[w] = "write"
    /\ mutex' = None
    /\ Leave(w)
    /\ UNCHANGED <<clock, responses, crashes, store, reader>>

\* The failure shows up in fclose, whose result nobody reads.
FlushError(w) ==
    /\ IOFaults
    /\ pc[w] = "write"
    /\ Goto(w, "register")
    /\ UNCHANGED <<store, call, key, now, expires, cursor, id, reader>> /\ Local

\* Mutant: the key is cleared before its line is written.
RegisterTooLate(w) ==
    /\ pc[w] = "register"
    /\ mutex' = None
    /\ Leave(w)
    /\ index' = Append(index, [key |-> key'[w], path |-> Path(w),
                                expires |-> expires[w]])
    /\ UNCHANGED <<clock, responses, crashes, temp, file, reader>>

RegisterEntry(w) ==
    /\ pc[w] = "register"
    /\ index' = index \o EntryLines(key[w], expires[w])
    /\ mutex' = None
    /\ Leave(w)
    /\ UNCHANGED <<clock, responses, crashes, temp, file, reader>>

\* The index cannot be opened for appending: the file is removed.
RegisterError(w) ==
    /\ IOFaults
    /\ pc[w] = "register"
    /\ Remove(Path(w))
    /\ mutex' = None
    /\ Leave(w)
    /\ UNCHANGED <<clock, responses, crashes, index, temp, found, sent>>

\* The results of fprintf and fclose are not read: the line may be missing.  (A
\* disk that fills up in the middle of a line is left out, as in KeepLine.)
RegisterLost(w) ==
    /\ IOFaults
    /\ pc[w] = "register"
    /\ mutex' = None
    /\ Leave(w)
    /\ UNCHANGED <<clock, responses, crashes, store, reader>>
------------------------------------------------------------------------------
Tick ==
    /\ clock < MaxTime
    /\ clock' = clock + 1
    /\ UNCHANGED <<responses, crashes, store, mutex, progress, reader>>

\* The proxy dies and is started again; cache_init keeps what is on the disk.
Crash ==
    /\ crashes < MaxCrashes
    /\ crashes' = crashes + 1
    /\ mutex' = None
    /\ pc' = [t \in Threads |-> "idle"]
    /\ call' = [t \in Threads |-> "none"]
    /\ key' = [t \in Threads |-> None]
    /\ now' = [t \in Threads |-> 0]
    /\ expires' = [t \in Threads |-> 0]
    /\ cursor' = [t \in Threads |-> 0]
    /\ id' = [t \in Threads |-> 0]
    /\ found' = [t \in Threads |-> None]
    /\ orphan' = [t \in Threads |-> NoFile]
    /\ sent' = [t \in Threads |-> <<>>]
    /\ UNCHANGED <<clock, responses, store>>

Lookup(w) ==
    \/ \E k \in KeysOf[w] : StartLookup(w, k)
    \/ LookupHit(w)
    \/ LookupExpired(w)
    \/ LookupMiss(w)
    \/ LookupError(w)

Serve(w) ==
    \/ OpenHit(w)
    \/ OpenHitError(w)
    \/ SendChunk(w)
    \/ EndHit(w)
    \/ BreakHit(w)

Rewrite(t) ==
    \/ StartRewrite(t)
    \/ RewriteLine(t)
    \/ Rename(t)
    \/ RenameError(t)
    \/ RewriteError(t)

Save(w) ==
    \/ StartSave(w)
    \/ FetchNothing(w)
    \/ OpenCacheFile(w)
    \/ OpenCacheFileError(w)
    \/ WriteChunk(w)
    \/ WriteError(w)
    \/ FlushError(w)
    \/ RegisterEntry(w)
    \/ RegisterError(w)
    \/ RegisterLost(w)

Work(w) ==
    \/ Lookup(w)
    \/ Serve(w)
    \/ Save(w)
    \/ \E k \in KeysOf[w] : StartDelete(w, k)

Next ==
    \/ \E w \in Workers : Work(w)
    \/ \E t \in Threads : Rewrite(t)
    \/ WakeCleaner
    \/ Tick
    \/ Crash

Spec == Init /\ [][Next]_vars

(***************************************************************************)
(* Fairness.  A thread inside a function of the cache keeps running, and   *)
(* one that waits for the mutex gets it at last if it keeps being free:    *)
(* every critical section is short and the cleaner sleeps at least five    *)
(* seconds between two of its own.  Nothing is assumed of what depends on  *)
(* a client or on a backend: "serve" and "fetch" may take forever.         *)
(***************************************************************************)
InCache(w) ==
    \/ LookupHit(w)
    \/ LookupExpired(w)
    \/ LookupMiss(w)
    \/ Rewrite(w)
    \/ OpenCacheFile(w)
    \/ WriteChunk(w)
    \/ RegisterEntry(w)

Fairness ==
    /\ \A w \in Workers : SF_vars(InCache(w))
    /\ SF_vars(Rewrite(Cleaner))
    /\ WF_vars(WakeCleaner)

FairSpec == Spec /\ Fairness
------------------------------------------------------------------------------
(***************************************************************************)
(* Correctness.                                                            *)
(***************************************************************************)

\* Every variable has its type; the thread fields are unset outside a call.
TypeOK ==
    /\ clock \in Nat /\ responses \in Nat /\ crashes \in Nat
    /\ index \in Seq(Line) /\ temp \in Seq(Line)
    /\ file \in [Paths -> Seq(Chunk) \union {NoFile}]
    /\ mutex \in Threads \union {None}
    /\ pc \in [Threads -> Places]
    /\ call \in [Threads -> Calls]
    /\ key \in [Threads -> Keys \union {None}]
    /\ now \in [Threads -> Nat]
    /\ expires \in [Threads -> Int]
    /\ cursor \in [Threads -> Nat]
    /\ id \in [Threads -> Nat]
    /\ found \in [Threads -> Paths \union {None}]
    /\ orphan \in [Threads -> Seq(Chunk) \union {NoFile}]
    /\ sent \in [Threads -> Seq(Chunk)]

\* The mutex is free exactly when no thread is in a critical section, and the
\* holder is the thread in it: no path, failures included, keeps the mutex.
OneHolder == \A t \in Threads : pc[t] \in Critical <=> mutex = t

\* CACHE_TTL is the "lifetime of cached responses": no byte that was written
\* TTL or more before the request looked it up is ever sent from the cache,
\* although the file is opened and read after the mutex has been released.
ServedFresh ==
    \A t \in Threads : \A i \in DOMAIN sent[t] : sent[t][i].at + TTL > now[t]

\* s is all of one backend response, in order.
IsWhole(s) ==
    /\ Len(s) = NChunks
    /\ \A i \in DOMAIN s : s[i].part = i /\ s[i].response = s[1].response

\* A request that is answered from the cache gets all of one response.
ServedWhole ==
    [][\A w \in Workers :
          pc[w] = "serve" /\ pc'[w] = "idle" /\ crashes' = crashes
              => IsWhole(sent[w])]_vars

\* Between critical sections, the file of an indexed response, if it is still
\* there, is all of one response: no interleaving of the two critical sections
\* of several cache_save leaves a mixture or a part under a line of the index.
IndexedFilesWhole ==
    mutex = None =>
        \A i \in DOMAIN index :
            LET f == file[index[i].path] IN f # NoFile => IsWhole(f)

\* Between critical sections every cache file has a line in the index, without
\* which neither a lookup, nor a delete, nor the cleaner could ever remove it.
FilesAreIndexed ==
    mutex = None =>
        \A p \in Paths : file[p] # NoFile =>
            \E i \in DOMAIN index : index[i].path = p

\* cache_lookup "applies lazy TTL validation": what it removes has expired.  But
\* the mutex is free between its scan and its cache_delete, and another client
\* may save the same key there.
LookupRemovesExpired ==
    [][\A w \in Workers :
          pc[w] = "rewrite" /\ call[w] = "lookup" /\ index' # index
              => \A i \in DOMAIN index :
                    index[i].key = key[w] => index[i].expires <= clock]_vars

\* cache_save "stores the response in a new file": nobody is half-way through
\* an older response in the file that a cache_save is writing.
NewFile ==
    \A w, r \in Workers :
        /\ pc[w] = "write"
        /\ pc[r] = "serve" /\ orphan[r] = NoFile /\ found[r] = Path(w)
        => \A i \in DOMAIN sent[r] : sent[r][i].response = id[w]

\* cache_cleanup_expired "removes resources whose TTL has already expired",
\* and no other: a line whose TTL has not passed has its file.
UnexpiredHasFile ==
    mutex = None =>
        \A i \in DOMAIN index :
            index[i].expires > clock => file[index[i].path] # NoFile

\* The index changes as one whole call after the other (module CacheIndex),
\* through the line-by-line copy, failures and crashes.  Where writes may fail
\* unnoticed it can lose lines, but no failure brings back one that is gone.
Lines == {index[i] : i \in DOMAIN index}
Index == INSTANCE CacheIndex WITH entries <- Lines, MayLose <- IOFaults
IndexAtomic == Index!Spec

\* Every call into the cache returns, whatever clients and backends do: no
\* mutex is held while a response travels to a client or from a backend.
CallsReturn ==
    \A t \in Threads :
        LET inside == pc[t] \in {"lookup", "purge", "save"} \union Critical
        IN inside ~> ~inside

\* The cleaner (or a lookup before it) removes every expired entry at last.
ExpiredRemoved ==
    \A k \in Keys, e \in 0..MaxTime :
        LET listed == \E line \in Lines : line.key = k /\ line.expires = e
        IN (listed /\ e <= clock) ~> ~listed
==============================================================================
