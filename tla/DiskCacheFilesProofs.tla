------------------------- MODULE DiskCacheFilesProofs -------------------------
(***************************************************************************)
(* Proofs about the cache files and the lines of the index that name them, *)
(* for every set of threads and keys, every TTL and response length, in a  *)
(* cache whose calls do not fail.  Two worlds: clients that share keys, in *)
(* a proxy that does not die (NoFailures), and clients that share none, in *)
(* one that may (OwnKeys).                                                 *)
(***************************************************************************)
EXTENDS DiskCacheProofs

Writes(t) == pc[t] \in {"write", "register"}

\* Nobody writes the file p.
Unwritten(p) == \A t \in Threads : Writes(t) => Path(t) # p

------------------------------------------------------------------------------
(***************************************************************************)
(* The steps, as far as files and lines are concerned.                     *)
(***************************************************************************)
\* A step outside the critical sections: the files and the index stay as they
\* are, and so does the thread that holds the mutex.
Elsewhere ==
    /\ UNCHANGED <<index, temp, file>>
    /\ \A u \in Threads :
          /\ pc'[u] \in Critical <=> pc[u] \in Critical
          /\ pc[u] \in Critical => /\ pc'[u] = pc[u] /\ key'[u] = key[u] /\ id'[u] = id[u]
                                   /\ call'[u] = call[u] /\ cursor'[u] = cursor[u]

\* Without failures there are no other steps than these.
LEMMA StepKinds ==
    ASSUME Base, Next, ~IOFaults
    PROVE  \/ \E t \in Threads : StartRewrite(t) \/ RewriteLine(t) \/ Rename(t)
           \/ \E w \in Workers : OpenCacheFile(w) \/ WriteChunk(w) \/ RegisterEntry(w)
           \/ Crash
           \/ Elsewhere
  <1> USE DEF Local, store, reader, Goto, Critical
  <1>a. TypeOK /\ Workers \subseteq Threads
    BY DEF Base, Threads
  <1>1. ASSUME NEW w \in Workers, NEW k \in KeysOf[w], StartLookup(w, k) \/ StartDelete(w, k)
        PROVE  Elsewhere
    BY <1>a, <1>1 DEF StartLookup, StartDelete, Elsewhere, TypeOK
  <1>2. ASSUME NEW w \in Workers, LookupHit(w) \/ LookupExpired(w) PROVE Elsewhere
    BY <1>a, <1>2 DEF LookupHit, LookupExpired, CanScan, Elsewhere, TypeOK
  <1>3. ASSUME NEW w \in Workers, LookupMiss(w) \/ OpenHitError(w) PROVE Elsewhere
    BY <1>a, <1>3 DEF LookupMiss, OpenHitError, CanScan, Fetch, Elsewhere, TypeOK
  <1>4. ASSUME NEW w \in Workers, OpenHit(w) \/ SendChunk(w) PROVE Elsewhere
    BY <1>a, <1>4 DEF OpenHit, SendChunk, progress, Elsewhere, TypeOK
  <1>5. ASSUME NEW w \in Workers, EndHit(w) \/ FetchNothing(w) PROVE Elsewhere
    BY ZenonT(30), <1>a, <1>5 DEF EndHit, FetchNothing, Leave, Elsewhere, TypeOK
  <1>6. ASSUME NEW w \in Workers, StartSave(w) PROVE Elsewhere
    BY <1>a, <1>6 DEF StartSave, Elsewhere, TypeOK
  <1>7. CASE WakeCleaner
    BY <1>a, <1>7 DEF WakeCleaner, Elsewhere, Threads, TypeOK
  <1>8. CASE Tick
    BY <1>8 DEF Tick, progress, Elsewhere
  <1>9. ASSUME NEW w \in Workers
        PROVE  /\ ~LookupError(w) /\ ~BreakHit(w) /\ ~OpenCacheFileError(w)
               /\ ~WriteError(w) /\ ~FlushError(w)
               /\ ~RegisterError(w) /\ ~RegisterLost(w)
    BY DEF LookupError, BreakHit, OpenCacheFileError, WriteError, FlushError,
           RegisterError, RegisterLost
  <1>10. ASSUME NEW t \in Threads PROVE ~RenameError(t) /\ ~RewriteError(t)
    BY DEF RenameError, RewriteError
  <1> QED BY <1>1, <1>2, <1>3, <1>4, <1>5, <1>6, <1>7, <1>8, <1>9, <1>10
          DEF Next, Work, Lookup, Serve, Save, Rewrite

\* Two threads are never in a critical section together.
LEMMA Alone ==
    ASSUME Base, NEW t \in Threads, NEW u \in Threads
    PROVE  /\ pc[t] \in Critical /\ pc[u] \in Critical => u = t
           /\ mutex = None => pc[u] \notin Critical
  BY ConstantsAssumption DEF Base, OneHolder

\* The other threads do not move.
LEMMA OthersStay ==
    ASSUME Base, NEW t \in Threads, NEW u \in Threads \ {t},
           \/ StartRewrite(t) \/ RewriteLine(t) \/ Rename(t)
           \/ OpenCacheFile(t) \/ WriteChunk(t) \/ RegisterEntry(t)
    PROVE  /\ pc'[u] = pc[u] /\ call'[u] = call[u] /\ key'[u] = key[u]
           /\ id'[u] = id[u] /\ cursor'[u] = cursor[u]
  <1> USE DEF Goto
  <1>a. TypeOK
    BY DEF Base
  <1>1. CASE StartRewrite(t) \/ RewriteLine(t)
    BY <1>a, <1>1 DEF StartRewrite, RewriteLine, TypeOK
  <1>2. CASE Rename(t)
    <2>1. /\ pc'[u] = pc[u] /\ call'[u] = call[u] /\ key'[u] = key[u] /\ cursor'[u] = cursor[u]
      BY <1>a, <1>2, AfterKnown DEF Rename
    <2>2. id'[u] = id[u]
      BY <1>a, <1>2 DEF Rename, AfterRewrite, Fetch, Leave, TypeOK
    <2> QED BY <2>1, <2>2
  <1>3. CASE OpenCacheFile(t) \/ WriteChunk(t)
    BY <1>a, <1>3 DEF OpenCacheFile, WriteChunk, TypeOK
  <1>4. CASE RegisterEntry(t)
    BY <1>a, <1>4 DEF RegisterEntry, Leave, TypeOK
  <1> QED BY <1>1, <1>2, <1>3, <1>4
------------------------------------------------------------------------------
(***************************************************************************)
(* What has been written of a file.                                        *)
(***************************************************************************)
\* The thread that writes a file has written the first parts of its response,
\* all of them when it registers it.
Written(t) ==
    Writes(t) =>
        /\ \A i \in DOMAIN file[Path(t)] :
              file[Path(t)][i].part = i /\ file[Path(t)][i].response = id[t]
        /\ pc[t] = "write" => Len(file[Path(t)]) < NChunks
        /\ pc[t] = "register" => Len(file[Path(t)]) = NChunks

\* What write() does to the file it is appended to.
LEMMA WriteAppends ==
    ASSUME Base, NEW w \in Workers, WriteChunk(w)
    PROVE  /\ Path(w) \in Paths /\ Path(w)' = Path(w)
           /\ file[Path(w)] \in Seq(Chunk) /\ file'[Path(w)] \in Seq(Chunk)
           /\ Len(file'[Path(w)]) = Len(file[Path(w)]) + 1
           /\ \A i \in DOMAIN file[Path(w)] : file'[Path(w)][i] = file[Path(w)][i]
           /\ file'[Path(w)][Len(file[Path(w)]) + 1].part = Len(file[Path(w)]) + 1
           /\ file'[Path(w)][Len(file[Path(w)]) + 1].response = id[w]
           /\ \A p \in Paths \ {Path(w)} : file'[p] = file[p]
           /\ pc'[w] = IF Len(file[Path(w)]) + 1 < NChunks THEN "write" ELSE "register"
           /\ UNCHANGED <<index, temp, key, id, call, mutex>>
  <1> DEFINE written == file[Path(w)]
             chunk == [key |-> key[w], response |-> id[w],
                       part |-> Len(written) + 1, at |-> clock]
  <1>a. TypeOK /\ w \in Threads /\ KeyKnown(w) /\ FileKnown(w)
    BY DEF Base, Threads
  <1>1. key[w] \in Keys /\ Path(w) \in Paths
    BY ConstantsAssumption, <1>a DEF WriteChunk, KeyKnown, Path
  <1>2. written \in Seq(Chunk)
    BY <1>a, <1>1 DEF WriteChunk, FileKnown, TypeOK
  <1>3. Len(written) + 1 \in Nat
    BY <1>2
  <1>4. chunk \in Chunk
    BY <1>a, <1>1, <1>3 DEF Chunk, TypeOK
  <1>5. /\ file' = [file EXCEPT ![Path(w)] = Append(written, chunk)]
        /\ pc' = [pc EXCEPT ![w] = IF Len(written) + 1 < NChunks THEN "write" ELSE "register"]
        /\ UNCHANGED <<index, temp, key, id, call, mutex>>
    BY DEF WriteChunk, Goto, Local
  <1>6. /\ file'[Path(w)] = Append(written, chunk)
        /\ \A p \in Paths \ {Path(w)} : file'[p] = file[p]
        /\ pc'[w] = IF Len(written) + 1 < NChunks THEN "write" ELSE "register"
    BY <1>a, <1>1, <1>5 DEF TypeOK
  <1>7. chunk.part = Len(written) + 1 /\ chunk.response = id[w]
    OBVIOUS
  <1>8. Path(w)' = Path(w)
    BY <1>5 DEF Path
  <1> HIDE DEF chunk
  <1>9. /\ Append(written, chunk) \in Seq(Chunk)
        /\ Len(Append(written, chunk)) = Len(written) + 1
        /\ \A i \in DOMAIN written : Append(written, chunk)[i] = written[i]
        /\ Append(written, chunk)[Len(written) + 1] = chunk
    BY <1>2, <1>4, AppendElements
  <1> QED BY <1>1, <1>2, <1>5, <1>6, <1>7, <1>8, <1>9

\* Nobody disturbs the thread that writes.
LEMMA WrittenStep ==
    ASSUME Base, Next, ~IOFaults, NEW u \in Threads, Written(u)
    PROVE  Written(u)'
  <1>a. TypeOK /\ Workers \subseteq Threads
    BY DEF Base, Threads
  <1>1. CASE Elsewhere
    BY <1>1 DEF Elsewhere, Written, Writes, Path, Critical
  <1>2. CASE Crash
    BY <1>2 DEF Crash, Written, Writes
  <1>3. ASSUME NEW t \in Threads, StartRewrite(t) \/ RewriteLine(t) \/ Rename(t)
        PROVE  Written(u)'
    <2>1. CASE u = t
      <3>1. pc'[t] \in {"rewrite", "idle", "save", "fetch"}
        BY <1>a, <1>3, AfterKnown DEF StartRewrite, RewriteLine, Rename, Goto,
           TypeOK
      <3> QED BY <2>1, <3>1 DEF Written, Writes
    <2>2. CASE u # t
      <3>1. pc'[u] = pc[u] /\ key'[u] = key[u] /\ id'[u] = id[u]
        BY <1>3, <2>2, OthersStay
      <3>2. CASE RewriteLine(t)
        <4>1. ~Writes(u)
          BY <2>2, <3>2, Alone DEF RewriteLine, Writes, Critical
        <4> QED BY <3>1, <4>1 DEF Written, Writes
      <3>3. CASE file' = file
        BY <3>1, <3>3 DEF Written, Writes, Path
      <3> QED BY <1>3, <3>2, <3>3 DEF StartRewrite, Rename
    <2> QED BY <2>1, <2>2
  <1>4. ASSUME NEW w \in Workers, OpenCacheFile(w) PROVE Written(u)'
    <2>1. CASE u = w
      <3>1. /\ pc'[u] = "write" /\ file'[Path(u)] = <<>> /\ key' = key /\ id' = id
        BY <1>a, <1>4, <2>1, PathType, BaseKnown DEF OpenCacheFile, Goto, TypeOK,
           KeyKnown
      <3>2. Len(<<>>) = 0 /\ DOMAIN <<>> = {} /\ 0 < NChunks
        BY ConstantsAssumption
      <3> QED BY <3>1, <3>2 DEF Written, Path
    <2>2. CASE u # w
      <3>1. pc'[u] = pc[u] /\ pc[u] \notin Critical
        BY <1>a, <1>4, <2>2, OthersStay, Alone DEF OpenCacheFile
      <3> QED BY <3>1 DEF Written, Writes, Critical
    <2> QED BY <2>1, <2>2
  <1>5. ASSUME NEW w \in Workers, WriteChunk(w) PROVE Written(u)'
    <2>1. CASE u = w
      <3> DEFINE s == file[Path(w)]
                 n == Len(s)
      <3>1. /\ Path(u)' = Path(w) /\ s \in Seq(Chunk) /\ id'[u] = id[w]
            /\ file'[Path(w)] \in Seq(Chunk) /\ Len(file'[Path(w)]) = n + 1
            /\ \A i \in DOMAIN s : file'[Path(w)][i] = s[i]
            /\ file'[Path(w)][n + 1].part = n + 1
            /\ file'[Path(w)][n + 1].response = id[w]
            /\ pc'[w] = IF n + 1 < NChunks THEN "write" ELSE "register"
        BY <1>5, <2>1, WriteAppends
      <3>2. /\ \A i \in DOMAIN s : s[i].part = i /\ s[i].response = id[w]
            /\ n < NChunks
        BY <1>5, <2>1 DEF WriteChunk, Written, Writes
      <3>3. PICK s2 : s2 = file'[Path(w)]
        OBVIOUS
      <3>4. n \in Nat /\ NChunks \in Nat /\ DOMAIN s = 1..n /\ DOMAIN s2 = 1..(n + 1)
        BY <3>1, <3>3, ConstantsAssumption
      <3> HIDE DEF s, n
      <3>5. \A i \in DOMAIN s2 : i \in DOMAIN s \/ i = n + 1
        BY <3>4
      <3>6. \A i \in DOMAIN s2 : s2[i].part = i /\ s2[i].response = id[w]
        BY <3>1, <3>2, <3>3, <3>5
      <3>7. ~(n + 1 < NChunks) => n + 1 = NChunks
        BY <3>2, <3>4
      <3> QED BY <2>1, <3>1, <3>3, <3>6, <3>7 DEF Written
    <2>2. CASE u # w
      <3>1. pc'[u] = pc[u] /\ pc[u] \notin Critical
        BY ZenonT(30), <1>a, <1>5, <2>2, OthersStay, Alone DEF WriteChunk, Critical
      <3> QED BY <3>1 DEF Written, Writes, Critical
    <2> QED BY <2>1, <2>2
  <1>6. ASSUME NEW w \in Workers, RegisterEntry(w) PROVE Written(u)'
    <2>1. pc'[w] = "idle" /\ file' = file
      BY <1>a, <1>6 DEF RegisterEntry, Leave, Goto, TypeOK
    <2>2. CASE u # w
      BY <1>a, <1>6, <2>1, <2>2, OthersStay DEF Written, Writes, Path
    <2> QED BY <2>1, <2>2 DEF Written, Writes
  <1> QED BY <1>1, <1>2, <1>3, <1>4, <1>5, <1>6, StepKinds

\* A saver that nothing fails writes its response part by part.
LEMMA WrittenInvariant == Spec => [](~IOFaults => \A t \in Threads : Written(t))
  <1>1. Init => \A t \in Threads : Written(t)
    BY DEF Init, Written, Writes
  <1>2. Base /\ (~IOFaults => \A t \in Threads : Written(t)) /\ [Next]_vars
            => (~IOFaults => \A t \in Threads : Written(t))'
    <2> SUFFICES ASSUME Base, [Next]_vars, ~IOFaults, \A t \in Threads : Written(t),
                        NEW u \in Threads
                 PROVE  Written(u)'
      OBVIOUS
    <2>1. CASE Next
      BY <2>1, WrittenStep
    <2>2. CASE UNCHANGED vars
      BY <2>2 DEF vars, Written, Writes, Path
    <2> QED BY <2>1, <2>2
  <1> QED BY BaseInvariant, <1>1, <1>2, PTL DEF Spec
------------------------------------------------------------------------------
(***************************************************************************)
(* Where nothing fails, not even the proxy, a cache file that nobody is    *)
(* writing is all of one response.                                         *)
(***************************************************************************)
NoFailures == ~IOFaults /\ MaxCrashes = 0

Complete == \A p \in Paths : Unwritten(p) /\ file[p] # NoFile => IsWhole(file[p])

\* Without failures the proxy does not die.
LEMMA NoCrash == ASSUME Base, NoFailures PROVE ~Crash
  BY DEF Base, TypeOK, NoFailures, Crash

\* A saver that is ready to register its response has written all of it.
LEMMA ReadyIsWhole ==
    ASSUME Base, NEW w \in Threads, Written(w), pc[w] = "register"
    PROVE  IsWhole(file[Path(w)])
  <1> DEFINE s == file[Path(w)]
  <1>1. /\ Len(s) = NChunks
        /\ \A i \in DOMAIN s : s[i].part = i /\ s[i].response = id[w]
    BY DEF Written, Writes
  <1>2. s \in Seq(Chunk)
    <2>1. KeyKnown(w) /\ FileKnown(w) /\ TypeOK
      BY DEF Base
    <2>2. Path(w) \in Paths
      BY ConstantsAssumption, <2>1 DEF KeyKnown, Path
    <2> QED BY <2>1, <2>2 DEF FileKnown, TypeOK
  <1>3. 1 \in DOMAIN s
    BY <1>1, <1>2, ConstantsAssumption
  <1> QED BY <1>1, <1>3 DEF IsWhole

\* A file stays whole while nobody writes it, and is whole when it is registered.
LEMMA CompleteStep ==
    ASSUME Base, Complete, \A t \in Threads : Written(t), Next, NoFailures
    PROVE  Complete'
  <1>a. TypeOK /\ Workers \subseteq Threads /\ ~IOFaults /\ ~Crash
    BY NoCrash DEF Base, Threads, NoFailures
  <1> SUFFICES ASSUME NEW p \in Paths, Unwritten(p)', file'[p] # NoFile
               PROVE  IsWhole(file'[p])
    BY DEF Complete, IsWhole
  <1>1. ASSUME Unwritten(p), file'[p] = file[p] PROVE IsWhole(file'[p])
    BY <1>1 DEF Complete
  <1>2. CASE Elsewhere
    <2>1. Unwritten(p)
      BY <1>2 DEF Elsewhere, Unwritten, Writes, Critical, Path
    <2> QED BY <1>1, <1>2, <2>1 DEF Elsewhere
  <1>3. ASSUME NEW t \in Threads, StartRewrite(t) \/ RewriteLine(t) \/ Rename(t)
        PROVE  IsWhole(file'[p])
    <2>1. Unwritten(p)
      <3> SUFFICES ASSUME NEW u \in Threads, Writes(u) PROVE Path(u) # p
        BY DEF Unwritten
      <3>1. u # t
        BY <1>3 DEF StartRewrite, RewriteLine, Rename, Writes
      <3>2. pc'[u] = pc[u] /\ key'[u] = key[u]
        BY <1>3, <3>1, OthersStay
      <3> QED BY <3>2 DEF Unwritten, Writes, Path
    <2>2. file'[p] = file[p]
      BY <1>a, <1>3 DEF StartRewrite, RewriteLine, Rename, Remove, TypeOK
    <2> QED BY <1>1, <2>1, <2>2
  <1>4. ASSUME NEW w \in Workers, OpenCacheFile(w) PROVE IsWhole(file'[p])
    <2>1. Unwritten(p)
      BY <1>4, Alone DEF OpenCacheFile, Unwritten, Writes, Critical
    <2>2. Path(w)' = Path(w) /\ pc'[w] = "write"
      BY <1>a, <1>4 DEF OpenCacheFile, Goto, Path, TypeOK
    <2>3. p # Path(w)
      BY <1>a, <2>2 DEF Unwritten, Writes
    <2>4. file'[p] = file[p]
      BY <1>a, <1>4, <2>3 DEF OpenCacheFile, TypeOK
    <2> QED BY <1>1, <2>1, <2>4
  <1>5. ASSUME NEW w \in Workers, WriteChunk(w) PROVE IsWhole(file'[p])
    <2>1. Path(w)' = Path(w) /\ pc'[w] \in {"write", "register"}
          /\ \A q \in Paths \ {Path(w)} : file'[q] = file[q]
      BY <1>5, WriteAppends
    <2>2. p # Path(w)
      BY <1>a, <2>1 DEF Unwritten, Writes
    <2>3. Unwritten(p)
      <3>1. \A u \in Threads : Writes(u) => u = w
        BY <1>a, <1>5, Alone DEF WriteChunk, Writes, Critical
      <3> QED BY <2>2, <3>1 DEF Unwritten
    <2> QED BY <1>1, <2>1, <2>2, <2>3
  <1>6. ASSUME NEW w \in Workers, RegisterEntry(w) PROVE IsWhole(file'[p])
    <2>1. file' = file /\ pc[w] = "register" /\ w \in Threads
      BY <1>a, <1>6 DEF RegisterEntry
    <2>2. CASE p = Path(w)
      BY <2>1, <2>2, ReadyIsWhole
    <2>3. CASE p # Path(w)
      <3>1. \A u \in Threads : Writes(u) => u = w
        BY <2>1, Alone DEF Writes, Critical
      <3>2. Unwritten(p)
        BY <2>3, <3>1 DEF Unwritten
      <3> QED BY <1>1, <2>1, <3>2
    <2> QED BY <2>2, <2>3
  <1> QED BY <1>a, <1>2, <1>3, <1>4, <1>5, <1>6, StepKinds

\* Where nothing fails every file that nobody writes is all of one response.
LEMMA CompleteInvariant == Spec => [](NoFailures => Complete)
  <1>1. Init => Complete
    BY DEF Init, Complete
  <1>2. Base /\ (~IOFaults => \A t \in Threads : Written(t))
             /\ (NoFailures => Complete) /\ [Next]_vars
            => (NoFailures => Complete)'
    <2> SUFFICES ASSUME Base, [Next]_vars, NoFailures, Complete,
                        \A t \in Threads : Written(t)
                 PROVE  Complete'
      BY DEF NoFailures
    <2>1. CASE Next
      BY <2>1, CompleteStep
    <2>2. CASE UNCHANGED vars
      BY <2>2 DEF vars, Complete, IsWhole, Unwritten, Writes, Path
    <2> QED BY <2>1, <2>2
  <1> QED BY BaseInvariant, WrittenInvariant, <1>1, <1>2, PTL DEF Spec

\* Where neither a call nor the proxy fails, no interleaving of the two critical
\* sections of several cache_save, a lookup's cache_delete and the cleaner
\* leaves a mixture of responses, or a part of one, under a line of the index.
THEOREM FilesAreWhole ==
    ASSUME NoFailures PROVE Spec => []IndexedFilesWhole
  <1>1. Base /\ (NoFailures => Complete) => IndexedFilesWhole
    <2> SUFFICES ASSUME Base, Complete, mutex = None, NEW i \in DOMAIN index,
                        file[index[i].path] # NoFile
                 PROVE  IsWhole(file[index[i].path])
      BY DEF IndexedFilesWhole
    <2>1. index[i] \in Line
      BY DEF Base, TypeOK
    <2>2. index[i].path \in Paths
      BY <2>1 DEF Line
    <2>3. Unwritten(index[i].path)
      BY Alone DEF Unwritten, Writes, Critical
    <2> QED BY <2>2, <2>3 DEF Complete
  <1> QED BY BaseInvariant, CompleteInvariant, <1>1, PTL
------------------------------------------------------------------------------
(***************************************************************************)
(* Where nothing fails every cache file has a line in the index.  During a *)
(* rewrite it is among the lines already copied, or among those that the   *)
(* rewrite has still to read.                                              *)
(***************************************************************************)
Names(lines) == {lines[i].path : i \in DOMAIN lines}

Ahead(t, p) == \E i \in DOMAIN index : i >= cursor[t] /\ index[i].path = p

Rewriting == \E t \in Threads : pc[t] = "rewrite"

Listed ==
    \A p \in Paths : file[p] # NoFile =>
        /\ ~Rewriting /\ Unwritten(p) => p \in Names(index)
        /\ \A t \in Threads : pc[t] = "rewrite" => p \in Names(temp) \/ Ahead(t, p)

\* A line at the end of the index or of its copy adds a name to the others.
LEMMA AppendNames ==
    ASSUME NEW lines \in Seq(Line), NEW line \in Line
    PROVE  Names(Append(lines, line)) = Names(lines) \union {line.path}
  <1> DEFINE more == Append(lines, line)
  <1>1. /\ Len(more) = Len(lines) + 1
        /\ \A i \in DOMAIN lines : more[i] = lines[i]
        /\ more[Len(lines) + 1] = line
    BY AppendElements
  <1>2. DOMAIN more = DOMAIN lines \union {Len(lines) + 1}
    OBVIOUS
  <1> HIDE DEF more
  <1> QED BY <1>1, <1>2 DEF Names

\* Who writes holds the mutex, so there is no rewrite then, and no other writer.
LEMMA WriterAlone ==
    ASSUME Base, NEW w \in Threads, Writes(w)
    PROVE  ~Rewriting /\ \A p \in Paths : p # Path(w) => Unwritten(p)
  <1>1. pc[w] \in Critical /\ pc[w] # "rewrite"
    BY DEF Writes, Critical
  <1>2. \A u \in Threads : pc[u] \in Critical => u = w
    BY <1>1, Alone
  <1> QED BY <1>1, <1>2 DEF Rewriting, Unwritten, Writes, Critical

\* A rewrite starts with all the lines ahead.
LEMMA ListedStart ==
    ASSUME Base, Listed, NEW t \in Threads, StartRewrite(t)
    PROVE  Listed'
  <1>a. TypeOK
    BY DEF Base
  <1>1. /\ pc'[t] = "rewrite" /\ cursor'[t] = 1 /\ index' = index /\ file' = file
        /\ mutex = None
    BY <1>a DEF StartRewrite, Goto, TypeOK
  <1>2. \A u \in Threads : pc[u] \notin Critical
    BY <1>1, Alone
  <1>3. ~Rewriting /\ \A p \in Paths : Unwritten(p)
    BY <1>2 DEF Rewriting, Unwritten, Writes, Critical
  <1>4. \A u \in Threads : pc'[u] = "rewrite" => u = t
    BY <1>2, OthersStay DEF Critical
  <1>5. ASSUME NEW p \in Paths, file[p] # NoFile PROVE Ahead(t, p)'
    <2>1. PICK i \in DOMAIN index : index[i].path = p
      BY <1>3, <1>5 DEF Listed, Names
    <2>2. i >= 1
      BY <1>a DEF TypeOK
    <2> QED BY <1>1, <2>1, <2>2 DEF Ahead
  <1>6. Rewriting'
    BY <1>1 DEF Rewriting
  <1> QED BY <1>1, <1>4, <1>5, <1>6 DEF Listed

\* The line it reads goes with its file, or is copied.
LEMMA ListedLine ==
    ASSUME Base, Listed, NEW t \in Threads, RewriteLine(t), ~IOFaults
    PROVE  Listed'
  <1> DEFINE line == index[cursor[t]]
  <1>a. TypeOK /\ cursor[t] >= 1
    BY BaseKnown DEF Base, RewriteLine, KeyKnown
  <1>1. /\ pc[t] = "rewrite" /\ pc' = pc /\ index' = index
        /\ cursor'[t] = cursor[t] + 1
    BY <1>a DEF RewriteLine, TypeOK
  <1>2. line \in Line /\ cursor[t] \in DOMAIN index
    BY <1>a DEF RewriteLine, TypeOK
  <1>3. \A u \in Threads : pc'[u] = "rewrite" => u = t
    BY <1>1, Alone DEF Critical
  <1>4. \/ Remove(line.path) /\ temp' = temp
        \/ temp' = Append(temp, line) /\ file' = file
    BY DEF RewriteLine, KeepLine
  <1>5. ASSUME NEW p \in Paths, file'[p] # NoFile
        PROVE  p \in Names(temp') \/ Ahead(t, p)'
    <2>1. file[p] # NoFile
      BY <1>a, <1>4, <1>5 DEF Remove, TypeOK
    <2>2. p = line.path => p \in Names(temp')
      <3>1. CASE Remove(line.path)
        BY <1>a, <1>5, <3>1 DEF Remove, TypeOK
      <3>2. CASE temp' = Append(temp, line)
        BY <1>a, <1>2, <3>2, AppendNames DEF TypeOK
      <3> QED BY <1>4, <3>1, <3>2
    <2>3. p \in Names(temp) => p \in Names(temp')
      BY <1>a, <1>2, <1>4, AppendNames DEF TypeOK
    <2>4. ASSUME p # line.path, Ahead(t, p) PROVE Ahead(t, p)'
      <3>1. PICK i \in DOMAIN index : i >= cursor[t] /\ index[i].path = p
        BY <2>4 DEF Ahead
      <3>2. i # cursor[t]
        BY <2>4, <3>1
      <3>3. i >= cursor[t] + 1
        BY <1>a, <3>1, <3>2 DEF TypeOK
      <3> QED BY <1>1, <3>1, <3>3 DEF Ahead
    <2>5. p \in Names(temp) \/ Ahead(t, p)
      BY <1>1, <2>1 DEF Listed
    <2> QED BY <2>2, <2>3, <2>4, <2>5
  <1>6. Rewriting'
    BY <1>1 DEF Rewriting
  <1>7. Names(temp)' = Names(temp')
    BY DEF Names
  <1> QED BY <1>3, <1>5, <1>6, <1>7 DEF Listed

\* At the end of a rewrite no line is ahead: the names are those of the copy.
LEMMA ListedRename ==
    ASSUME Base, Listed, NEW t \in Threads, Rename(t)
    PROVE  Listed'
  <1>a. TypeOK
    BY DEF Base
  <1>1. /\ pc[t] = "rewrite" /\ cursor[t] > Len(index)
        /\ index' = temp /\ file' = file
    BY DEF Rename
  <1>2. \A u \in Threads : pc'[u] # "rewrite"
    <2>1. pc'[t] # "rewrite"
      BY <1>a, AfterKnown DEF Rename
    <2>2. \A u \in Threads \ {t} : pc'[u] = pc[u] /\ pc[u] # "rewrite"
      BY <1>1, OthersStay, Alone DEF Critical
    <2> QED BY <2>1, <2>2
  <1>3. ASSUME NEW p \in Paths, file[p] # NoFile PROVE p \in Names(temp)
    <2>1. ~Ahead(t, p)
      BY <1>a, <1>1 DEF Ahead, TypeOK
    <2> QED BY <1>1, <1>3, <2>1 DEF Listed
  <1>4. Names(index)' = Names(temp)
    BY <1>1 DEF Names
  <1> QED BY <1>1, <1>2, <1>3, <1>4 DEF Listed

\* The file that a saver creates or fills is being written,
LEMMA ListedWrite ==
    ASSUME Base, Listed, NEW w \in Workers, OpenCacheFile(w) \/ WriteChunk(w)
    PROVE  Listed'
  <1>a. TypeOK /\ w \in Threads
    BY DEF Base, Threads
  <1>1. /\ pc'[w] \in {"write", "register"} /\ Path(w)' = Path(w)
        /\ index' = index /\ temp' = temp
        /\ \A q \in Paths \ {Path(w)} : file'[q] = file[q]
    <2>1. CASE OpenCacheFile(w)
      BY <1>a, <2>1 DEF OpenCacheFile, Goto, Path, TypeOK
    <2>2. CASE WriteChunk(w)
      BY <2>2, WriteAppends
    <2> QED BY <2>1, <2>2
  <1>2. \A u \in Threads : pc[u] \in Critical => u = w /\ pc[u] = "write"
    <2>1. CASE OpenCacheFile(w)
      BY <2>1, Alone DEF OpenCacheFile
    <2>2. CASE WriteChunk(w)
      BY <1>a, <2>2, Alone DEF WriteChunk, Critical
    <2> QED BY <2>1, <2>2
  <1>3. ~Rewriting /\ \A p \in Paths \ {Path(w)} : Unwritten(p)
    BY <1>2 DEF Rewriting, Unwritten, Writes, Critical
  <1>4. \A u \in Threads : pc'[u] # "rewrite"
    BY <1>a, <1>1, <1>2, OthersStay DEF Critical
  <1>5. ASSUME NEW p \in Paths, file'[p] # NoFile, Unwritten(p)'
        PROVE  p \in Names(index)
    <2>1. p # Path(w)
      BY <1>a, <1>1, <1>5 DEF Unwritten, Writes
    <2>2. file[p] # NoFile /\ Unwritten(p)
      BY <1>1, <1>3, <1>5, <2>1
    <2> QED BY <1>3, <2>2 DEF Listed
  <1>6. Names(index)' = Names(index)
    BY <1>1 DEF Names
  <1> QED BY <1>4, <1>5, <1>6 DEF Listed

\* and gets its line with the release of the mutex.
LEMMA ListedRegister ==
    ASSUME Base, Listed, NEW w \in Workers, RegisterEntry(w)
    PROVE  Listed'
  <1>a. TypeOK /\ w \in Threads
    BY DEF Base, Threads
  <1>1. pc[w] = "register" /\ pc'[w] = "idle" /\ file' = file
    BY <1>a DEF RegisterEntry, Leave, Goto, TypeOK
  <1>2. Names(index) \subseteq Names(index') /\ Path(w) \in Names(index')
    <2>1. ASSUME NEW i \in DOMAIN index PROVE index[i].path \in Names(index')
      <3>1. i \in DOMAIN index' /\ index'[i] = index[i]
        BY Registers
      <3> QED BY <3>1 DEF Names
    <2>2. PICK i \in DOMAIN index' : index'[i] = Entry(w)
      BY Registers
    <2>3. index'[i].path = Path(w)
      BY <2>2 DEF Entry
    <2> QED BY <2>1, <2>2, <2>3 DEF Names
  <1>3. ~Rewriting /\ \A p \in Paths : p # Path(w) => Unwritten(p)
    BY <1>a, <1>1, WriterAlone DEF Writes
  <1>4. \A u \in Threads : pc'[u] # "rewrite"
    BY <1>a, <1>1, <1>3, OthersStay DEF Rewriting
  <1>5. \A p \in Paths : file[p] # NoFile => p \in Names(index')
    BY <1>2, <1>3 DEF Listed
  <1>6. Names(index)' = Names(index')
    BY DEF Names
  <1> QED BY <1>1, <1>4, <1>5, <1>6 DEF Listed

\* Where nothing fails every file that nobody writes has its line, or will
\* have it when the rewrite under way ends.
LEMMA ListedInvariant == Spec => [](NoFailures => Listed)
  <1>1. Init => Listed
    BY DEF Init, Listed
  <1>2. Base /\ (NoFailures => Listed) /\ [Next]_vars => (NoFailures => Listed)'
    <2> SUFFICES ASSUME Base, [Next]_vars, NoFailures, Listed PROVE Listed'
      BY DEF NoFailures
    <2>1. CASE UNCHANGED vars
      BY <2>1 DEF vars, Listed, Rewriting, Ahead, Names, Unwritten, Writes, Path
    <2>2. CASE Next /\ Elsewhere
      <3>1. /\ UNCHANGED <<index, temp, file>>
            /\ \A u \in Threads : pc'[u] = "rewrite" <=> pc[u] = "rewrite"
            /\ \A u \in Threads : pc[u] = "rewrite" => cursor'[u] = cursor[u]
        BY <2>2 DEF Elsewhere, Critical
      <3>2. \A p \in Paths : Unwritten(p)' => Unwritten(p)
        BY <2>2 DEF Elsewhere, Critical, Unwritten, Writes, Path
      <3>3. Rewriting' <=> Rewriting
        BY <3>1 DEF Rewriting
      <3>4. \A u \in Threads, p \in Paths :
               pc[u] = "rewrite" /\ Ahead(u, p) => Ahead(u, p)'
        BY <3>1 DEF Ahead
      <3>5. Names(index)' = Names(index) /\ Names(temp)' = Names(temp)
        BY <3>1 DEF Names
      <3> QED BY <3>1, <3>2, <3>3, <3>4, <3>5 DEF Listed
    <2>3. CASE Next /\ ~Elsewhere
      <3>1. ~IOFaults /\ ~Crash
        BY NoCrash DEF NoFailures
      <3> QED BY <2>3, <3>1, StepKinds, ListedStart, ListedLine, ListedRename,
                 ListedWrite, ListedRegister DEF Threads
    <2> QED BY <2>1, <2>2, <2>3
  <1> QED BY BaseInvariant, <1>1, <1>2, PTL DEF Spec

\* Where neither a call nor the proxy fails, every cache file has a line in the
\* index between critical sections, without which nothing could ever remove it:
\* rewrite_index unlinks a file before it drops its line, cache_save writes one
\* before it adds its line, and nobody else looks at the index in between.
THEOREM EveryFileHasItsLine ==
    ASSUME NoFailures PROVE Spec => []FilesAreIndexed
  <1>1. Base /\ (NoFailures => Listed) => FilesAreIndexed
    <2> SUFFICES ASSUME Base, Listed, mutex = None, NEW p \in Paths, file[p] # NoFile
                 PROVE  \E i \in DOMAIN index : index[i].path = p
      BY DEF FilesAreIndexed
    <2>1. ~Rewriting /\ Unwritten(p)
      BY Alone DEF Rewriting, Unwritten, Writes, Critical
    <2> QED BY <2>1 DEF Listed, Names
  <1> QED BY BaseInvariant, ListedInvariant, <1>1, PTL
------------------------------------------------------------------------------
(***************************************************************************)
(* Clients that share no key and no file name: what each of them finds and *)
(* clears, nobody but the cleaner changes under its hands, and the proxy   *)
(* may die at any point.                                                   *)
(***************************************************************************)
\* Different keys have different files.
HashInjective ==
    \A k1, k2 \in Keys : FilePath[k1] = FilePath[k2] => k1 = k2

\* No key has a newline.
PlainKeys == \A k \in Keys : KeyRead[k] = k /\ Rest[k] = <<>>

OwnKeys ==
    /\ ~IOFaults
    /\ HashInjective
    /\ PlainKeys
    /\ \A v, w \in Workers : v # w => KeysOf[v] \cap KeysOf[w] = {}

\* A thread works on a key of its own, and what it knows of the time is past.
Busy(t) ==
    /\ key[t] # None => t \in Workers /\ key[t] \in KeysOf[t]
    /\ now[t] <= clock

\* From the cache_delete of cache_save to its new line, the key has no line.
Cleared(t) ==
    pc[t] \in {"save", "write", "register"} => \A e \in Lines : e.key # key[t]

\* A reader has the file of its key, sees all of a response, and has sent the
\* first part of it.
Reads(t) ==
    /\ pc[t] \in {"open", "serve"} => found[t] = Path(t)
    /\ pc[t] \in {"open", "serve"} /\ View(t) # NoFile => IsWhole(View(t))
    /\ pc[t] = "serve" => /\ Len(sent[t]) <= Len(View(t))
                          /\ \A i \in DOMAIN sent[t] : sent[t][i] = View(t)[i]

\* A line names the file of its key, which is whole.
LinesWhole ==
    \A e \in Lines :
        /\ e.path = FilePath[e.key]
        /\ file[e.path] # NoFile => IsWhole(file[e.path])

Own ==
    /\ \A t \in Threads : Busy(t) /\ Cleared(t) /\ Reads(t)
    /\ LinesWhole

\* Two threads never have the same key.
LEMMA KeysDiffer ==
    ASSUME OwnKeys, NEW u \in Threads, NEW v \in Threads, u # v, Busy(u), Busy(v),
           key[u] # None
    PROVE  key[u] # key[v]
  BY DEF OwnKeys, Busy

\* The steps that start to send, send, or let a reader go on.
LEMMA SentEffect ==
    ASSUME Base, Next, NEW u \in Threads, pc'[u] = "serve"
    PROVE  /\ key'[u] = key[u] /\ found'[u] = found[u]
           /\ \/ OpenHit(u)
              \/ SendChunk(u)
              \/ pc[u] = "serve" /\ sent'[u] = sent[u]
  <1> USE DEF Local, store, reader, Goto
  <1>a. TypeOK /\ Workers \subseteq Threads
    BY DEF Base, Threads
  <1> DEFINE Goal == /\ key'[u] = key[u] /\ found'[u] = found[u]
                     /\ \/ OpenHit(u)
                        \/ SendChunk(u)
                        \/ pc[u] = "serve" /\ sent'[u] = sent[u]
  <1>1. ASSUME NEW w \in Workers, Lookup(w) PROVE Goal
    BY <1>1, <1>a DEF Lookup, StartLookup, LookupHit, LookupExpired, LookupMiss,
       LookupError, CanScan, Fetch, Leave, TypeOK
  <1>2. ASSUME NEW w \in Workers, Serve(w) PROVE Goal
    <2>1. CASE OpenHit(w)
      BY <2>1, <1>a DEF OpenHit, TypeOK
    <2>2. CASE OpenHitError(w)
      BY <2>2, <1>a DEF OpenHitError, Fetch, TypeOK
    <2>3. CASE SendChunk(w)
      BY <2>3, <1>a DEF SendChunk, progress, TypeOK
    <2>4. CASE EndHit(w)
      BY <2>4, <1>a DEF EndHit, CloseHit, Leave, TypeOK
    <2>5. CASE BreakHit(w)
      BY <2>5, <1>a DEF BreakHit, CloseHit, Fetch, TypeOK
    <2> QED BY <1>2, <2>1, <2>2, <2>3, <2>4, <2>5 DEF Serve
  <1>3. ASSUME NEW w \in Workers, Save(w) PROVE Goal
    <2>1. CASE StartSave(w) \/ FetchNothing(w) \/ OpenCacheFileError(w)
      BY <2>1, <1>a DEF StartSave, FetchNothing, OpenCacheFileError, Leave, TypeOK
    <2>2. CASE OpenCacheFile(w) \/ WriteChunk(w) \/ FlushError(w)
      BY <2>2, <1>a DEF OpenCacheFile, WriteChunk, FlushError, TypeOK
    <2>3. CASE WriteError(w) \/ RegisterEntry(w) \/ RegisterError(w) \/ RegisterLost(w)
      BY <2>3, <1>a DEF WriteError, RegisterEntry, RegisterError, RegisterLost,
                        Leave, TypeOK
    <2> QED BY <1>3, <2>1, <2>2, <2>3 DEF Save
  <1>4. ASSUME NEW t \in Threads, Rewrite(t) PROVE Goal
    <2>1. CASE Rename(t)
      BY <2>1, <1>a, AfterKnown DEF Rename
    <2>2. CASE RenameError(t)
      BY <2>2, <1>a, AfterKnown DEF RenameError
    <2>3. CASE RewriteError(t)
      BY <2>3, <1>a, AfterKnown DEF RewriteError
    <2>4. CASE StartRewrite(t) \/ RewriteLine(t)
      BY <2>4, <1>a DEF StartRewrite, RewriteLine, TypeOK
    <2> QED BY <1>4, <2>1, <2>2, <2>3, <2>4 DEF Rewrite
  <1>5. ASSUME NEW w \in Workers, NEW k \in KeysOf[w], StartDelete(w, k)
        PROVE  Goal
    BY <1>5, <1>a DEF StartDelete, TypeOK
  <1>6. CASE WakeCleaner \/ Tick \/ Crash
    BY <1>6, <1>a DEF WakeCleaner, Tick, Crash, progress, TypeOK, Threads
  <1> QED BY <1>1, <1>2, <1>3, <1>4, <1>5, <1>6 DEF Next, Work

\* How a thread gets its key and its time, and how it comes to the places where
\* something is promised about the index, or leaves the place where it sends.
LEMMA ThreadEffect ==
    ASSUME Base, Next, ~IOFaults, NEW u \in Threads
    PROVE  /\ \/ key'[u] \in {None, key[u]}
              \/ u \in Workers /\ key'[u] \in KeysOf[u]
           /\ now'[u] \in {0, now[u], clock}
           /\ pc'[u] \in {"save", "write", "register"} =>
                 /\ key'[u] = key[u]
                 /\ \/ pc[u] \in {"save", "write", "register"}
                    \/ Rename(u) /\ call[u] = "save"
           /\ pc'[u] = "open" =>
                 /\ key'[u] = key[u]
                 /\ \/ pc[u] = "open" /\ found'[u] = found[u]
                    \/ u \in Workers /\ LookupHit(u)
           /\ pc[u] = "serve" /\ pc'[u] = "idle" => EndHit(u) \/ Crash
  <1> USE DEF Local, store, reader, Goto
  <1>a. TypeOK /\ Workers \subseteq Threads
    BY DEF Base, Threads
  <1> DEFINE Goal ==
           /\ \/ key'[u] \in {None, key[u]}
              \/ u \in Workers /\ key'[u] \in KeysOf[u]
           /\ now'[u] \in {0, now[u], clock}
           /\ pc'[u] \in {"save", "write", "register"} =>
                 /\ key'[u] = key[u]
                 /\ \/ pc[u] \in {"save", "write", "register"}
                    \/ Rename(u) /\ call[u] = "save"
           /\ pc'[u] = "open" =>
                 /\ key'[u] = key[u]
                 /\ \/ pc[u] = "open" /\ found'[u] = found[u]
                    \/ u \in Workers /\ LookupHit(u)
           /\ pc[u] = "serve" /\ pc'[u] = "idle" => EndHit(u) \/ Crash
  <1>1. ASSUME NEW w \in Workers, NEW k \in KeysOf[w],
               StartLookup(w, k) \/ StartDelete(w, k)
        PROVE  Goal
    BY <1>a, <1>1 DEF StartLookup, StartDelete, TypeOK
  <1>2. ASSUME NEW w \in Workers, LookupHit(w) \/ LookupExpired(w) PROVE Goal
    <2>1. CASE u = w
      BY <1>a, <1>2, <2>1 DEF LookupHit, LookupExpired, CanScan, TypeOK
    <2>2. CASE u # w
      BY <1>a, <1>2, <2>2 DEF LookupHit, LookupExpired, CanScan, TypeOK
    <2> QED BY <2>1, <2>2
  <1>3. ASSUME NEW w \in Workers, LookupMiss(w) \/ OpenHitError(w) PROVE Goal
    BY <1>a, <1>3 DEF LookupMiss, OpenHitError, CanScan, Fetch, TypeOK
  <1>4. ASSUME NEW w \in Workers, OpenHit(w) \/ SendChunk(w) PROVE Goal
    BY <1>a, <1>4 DEF OpenHit, SendChunk, progress, TypeOK
  <1>5. ASSUME NEW w \in Workers, EndHit(w) PROVE Goal
    <2>1. CASE u = w
      <3>1. /\ pc[u] = "serve" /\ pc'[u] = "idle"
            /\ key'[u] = None /\ now'[u] = 0
        <4>1. /\ pc \in [Threads -> Places] /\ key \in [Threads -> Keys \union {None}]
              /\ now \in [Threads -> Nat]
          BY <1>a DEF TypeOK
        <4>2. /\ pc[w] = "serve" /\ pc' = [pc EXCEPT ![w] = "idle"]
              /\ key' = [key EXCEPT ![w] = None] /\ now' = [now EXCEPT ![w] = 0]
          BY <1>5 DEF EndHit, Leave
        <4> QED BY <2>1, <4>1, <4>2
      <3> QED BY <1>5, <2>1, <3>1
    <2>2. CASE u # w
      <3>1. pc'[u] = pc[u] /\ key'[u] = key[u] /\ now'[u] = now[u]
        BY <1>a, <1>5, <2>2 DEF EndHit, Leave, TypeOK
      <3>2. found'[u] = found[u]
        BY <1>a, <1>5, <2>2 DEF EndHit, CloseHit, TypeOK
      <3> QED BY <3>1, <3>2
    <2> QED BY <2>1, <2>2
  <1>6. ASSUME NEW w \in Workers, FetchNothing(w) \/ StartSave(w) PROVE Goal
    BY <1>a, <1>6 DEF FetchNothing, Leave, StartSave, TypeOK
  <1>7. ASSUME NEW w \in Workers, OpenCacheFile(w) \/ WriteChunk(w) PROVE Goal
    BY <1>a, <1>7 DEF OpenCacheFile, WriteChunk, TypeOK
  <1>8. ASSUME NEW w \in Workers, RegisterEntry(w) PROVE Goal
    BY <1>a, <1>8 DEF RegisterEntry, Leave, TypeOK
  <1>9. ASSUME NEW t \in Threads, StartRewrite(t) \/ RewriteLine(t) PROVE Goal
    BY <1>a, <1>9 DEF StartRewrite, RewriteLine, TypeOK
  <1>10. ASSUME NEW t \in Threads, Rename(t) PROVE Goal
    <2>1. CASE u # t
      BY <1>a, <1>10, <2>1, AfterKnown DEF Rename
    <2>2. CASE u = t
      <3>1. key'[t] \in {None, key[t]} /\ now'[t] \in {0, now[t], clock}
        BY <1>a, <1>10 DEF Rename, AfterRewrite, Leave, Fetch, TypeOK
      <3> QED BY <1>a, <1>10, <2>2, <3>1, AfterKnown DEF Rename
    <2> QED BY <2>1, <2>2
  <1>11. CASE WakeCleaner
    BY <1>a, <1>11 DEF WakeCleaner, Threads, TypeOK
  <1>12. CASE Tick \/ Crash
    BY <1>a, <1>12 DEF Tick, Crash, progress
  <1>13. ASSUME NEW w \in Workers
         PROVE  /\ ~LookupError(w) /\ ~BreakHit(w) /\ ~OpenCacheFileError(w)
                /\ ~WriteError(w) /\ ~FlushError(w)
                /\ ~RegisterError(w) /\ ~RegisterLost(w)
    BY DEF LookupError, BreakHit, OpenCacheFileError, WriteError, FlushError,
           RegisterError, RegisterLost
  <1>14. ASSUME NEW t \in Threads PROVE ~RenameError(t) /\ ~RewriteError(t)
    BY DEF RenameError, RewriteError
  <1> QED BY <1>1, <1>2, <1>3, <1>4, <1>5, <1>6, <1>7, <1>8, <1>9, <1>10, <1>11,
             <1>12, <1>13, <1>14 DEF Next, Work, Lookup, Serve, Save, Rewrite

\* Every line after a step was there before, and is not one that a rewrite that
\* ends removes, or is the line that a cache_save adds.
LEMMA LineStep ==
    ASSUME Base, TempKnown, PlainKeys, Next, NEW e \in Lines'
    PROVE  \/ /\ e \in Lines
              /\ \A t \in Threads : Rename(t) => ~ShouldRemove(t, e)
           \/ \E w \in Workers : RegisterEntry(w) /\ e = Entry(w) /\ e.key = key[w]
  <1>1. \A t \in Threads : Rename(t) => e \in Lines /\ ~ShouldRemove(t, e)
    BY RenameLines
  <1>2. CASE index' = index
    BY <1>1, <1>2 DEF Lines
  <1>3. ASSUME NEW w \in Workers, RegisterEntry(w)
        PROVE  e \in Lines \/ (e = Entry(w) /\ e.key = key[w])
    <2>1. key[w] \in Keys /\ DOMAIN Rest[key[w]] = {}
      BY <1>3, Registers DEF PlainKeys
    <2>2. PICK i \in DOMAIN index' : e = index'[i]
      BY DEF Lines
    <2>3. e \in Lines \/ e = Entry(w)
      BY <1>3, <2>1, <2>2, Registers DEF Lines
    <2> QED BY <2>1, <2>3 DEF Entry, PlainKeys
  <1> QED BY <1>1, <1>2, <1>3, IndexEffect

\* A saver that removes the lines of its key leaves none, and nobody adds one.
LEMMA ClearedStep ==
    ASSUME Base, TempKnown, Own, OwnKeys, Next, NEW u \in Threads
    PROVE  Cleared(u)'
  <1>a. TypeOK /\ Workers \subseteq Threads /\ ~IOFaults /\ None \notin Keys
    BY ConstantsAssumption DEF Base, Threads, OwnKeys
  <1> SUFFICES ASSUME pc'[u] \in {"save", "write", "register"}, NEW e \in Lines'
               PROVE  e.key # key'[u]
    BY DEF Cleared
  <1>1. /\ key'[u] = key[u]
        /\ \/ pc[u] \in {"save", "write", "register"}
           \/ Rename(u) /\ call[u] = "save"
    BY <1>a, ThreadEffect
  <1>2. key[u] \in Keys
    BY <1>1, BaseKnown DEF Rename, KeyKnown
  <1>3. CASE e \in Lines /\ \A t \in Threads : Rename(t) => ~ShouldRemove(t, e)
    BY <1>1, <1>3 DEF Own, Cleared, ShouldRemove
  <1>4. ASSUME NEW w \in Workers, RegisterEntry(w), e.key = key[w]
        PROVE  e.key # key[u]
    <2>1. pc'[w] = "idle"
      BY <1>a, <1>4 DEF RegisterEntry, Leave, Goto, TypeOK
    <2>2. key[u] # key[w]
      BY <1>a, <1>2, <2>1, KeysDiffer DEF Own
    <2> QED BY <1>4, <2>2
  <1> QED BY <1>1, <1>3, <1>4, LineStep DEF OwnKeys

\* A step leaves the file of a key alone, or removes it, or writes a response to
\* this very key into it.
LEMMA FileOfKey ==
    ASSUME Base, OwnKeys, Next, NEW k \in Keys
    PROVE  \/ file'[FilePath[k]] \in {file[FilePath[k]], NoFile}
           \/ \E w \in Workers : /\ OpenCacheFile(w) \/ WriteChunk(w)
                                 /\ key[w] = k /\ pc[w] \in {"save", "write"}
  <1> DEFINE p == FilePath[k]
  <1>a. TypeOK /\ Workers \subseteq Threads /\ p \in Paths
    BY ConstantsAssumption DEF Base, Threads
  <1>1. ASSUME NEW q \in Paths, Remove(q) PROVE file'[p] \in {file[p], NoFile}
    BY <1>a, <1>1 DEF Remove, TypeOK
  <1>2. ASSUME NEW w \in Workers, OpenCacheFile(w) \/ WriteChunk(w), file'[p] # file[p]
        PROVE  key[w] = k /\ pc[w] \in {"save", "write"}
    <2>1. pc[w] \in {"save", "write"}
      BY <1>2 DEF OpenCacheFile, WriteChunk
    <2>2. key[w] \in Keys
      BY <1>a, <2>1, BaseKnown DEF KeyKnown
    <2>3. p = Path(w)
      <3>1. CASE OpenCacheFile(w)
        BY <1>a, <1>2, <3>1 DEF OpenCacheFile, TypeOK
      <3>2. CASE WriteChunk(w)
        BY <1>a, <1>2, <3>2, WriteAppends
      <3> QED BY <1>2, <3>1, <3>2
    <2> QED BY <2>1, <2>2, <2>3 DEF OwnKeys, HashInjective, Path
  <1>3. CASE file' = file
    BY <1>3
  <1>4. ASSUME \E w \in Workers : OpenCacheFile(w) \/ WriteChunk(w),
               file'[p] # file[p]
        PROVE  \E w \in Workers : /\ OpenCacheFile(w) \/ WriteChunk(w)
                                  /\ key[w] = k /\ pc[w] \in {"save", "write"}
    BY <1>2, <1>4
  <1> QED BY <1>1, <1>3, <1>4, FileEffect

\* The file of a line is whole when the line comes, and nobody writes it after.
LEMMA LinesWholeStep ==
    ASSUME Base, TempKnown, Own, OwnKeys, \A t \in Threads : Written(t), Next
    PROVE  LinesWhole'
  <1>a. TypeOK /\ Workers \subseteq Threads
    BY DEF Base, Threads
  <1> DEFINE Good(e) == /\ e.path = FilePath[e.key]
                        /\ file'[e.path] # NoFile => IsWhole(file'[e.path])
  <1> SUFFICES ASSUME NEW e \in Lines' PROVE Good(e)
    BY DEF LinesWhole, IsWhole
  <1>1. CASE e \in Lines
    <2>1. e.key \in Keys
      <3>1. e \in Line
        BY <1>a, <1>1 DEF Lines, TypeOK
      <3> QED BY <3>1 DEF Line
    <2>2. \A w \in Workers : pc[w] \in {"save", "write"} => key[w] # e.key
      BY <1>a, <1>1 DEF Own, Cleared
    <2>3. file'[FilePath[e.key]] \in {file[FilePath[e.key]], NoFile}
      BY <2>1, <2>2, FileOfKey
    <2>4. /\ e.path = FilePath[e.key]
          /\ file[e.path] # NoFile => IsWhole(file[e.path])
      BY <1>1 DEF Own, LinesWhole
    <2> QED BY <2>3, <2>4
  <1>2. ASSUME NEW w \in Workers, RegisterEntry(w), e = Entry(w), e.key = key[w]
        PROVE  Good(e)
    <2>1. file' = file /\ pc[w] = "register" /\ e.path = FilePath[e.key] /\ e.path = Path(w)
      BY <1>2 DEF RegisterEntry, Entry, Path
    <2> QED BY <1>a, <2>1, ReadyIsWhole
  <1> HIDE DEF Good
  <1> QED BY <1>1, <1>2, LineStep DEF OwnKeys

\* Nobody writes the file of a key that another thread works on.
LEMMA OwnFileStays ==
    ASSUME Base, Own, OwnKeys, Next, NEW u \in Threads,
           pc[u] \in {"open", "serve"}
    PROVE  /\ file'[Path(u)] \in {file[Path(u)], NoFile}
           /\ Path(u) \in Paths /\ key[u] \in Keys
  <1>1. key[u] \in Keys /\ None \notin Keys /\ Workers \subseteq Threads
    BY BaseKnown, ConstantsAssumption DEF KeyKnown, Threads
  <1>2. ASSUME NEW w \in Workers, key[w] = key[u], pc[w] \in {"save", "write"}
        PROVE  FALSE
    <2>1. u # w
      BY <1>2
    <2> QED BY <1>1, <1>2, <2>1, KeysDiffer DEF Own
  <1>3. file'[Path(u)] \in {file[Path(u)], NoFile}
    BY <1>1, <1>2, FileOfKey DEF Path
  <1>4. Path(u) \in Paths
    BY ConstantsAssumption, <1>1 DEF Path
  <1> QED BY <1>1, <1>3, <1>4

\* A reader keeps seeing the same bytes, whatever happens to the name.
LEMMA ViewStays ==
    ASSUME Base, Base', Own, OwnKeys, Next, NEW u \in Threads,
           pc[u] = "serve", pc'[u] = "serve"
    PROVE  View(u)' = View(u)
  <1>a. TypeOK /\ Workers \subseteq Threads /\ FileKnown(u) /\ FileKnown(u)'
    BY DEF Base, Threads
  <1>1. found'[u] = found[u] /\ found[u] = Path(u)
    BY SentEffect DEF Own, Reads
  <1>2. file'[found[u]] \in {file[found[u]], NoFile} /\ found[u] \in Paths
    BY <1>1, OwnFileStays
  <1>3. orphan'[u] = NoFile => file'[found[u]] # NoFile
    BY <1>a, <1>1 DEF FileKnown
  <1>4. CASE orphan'[u] = orphan[u]
    BY <1>1, <1>2, <1>3, <1>4 DEF View
  <1>5. ASSUME NEW p \in Paths, Remove(p) PROVE View(u)' = View(u)
    <2>1. CASE orphan[u] = NoFile /\ found[u] = p
      <3>1. orphan'[u] = file[p] /\ file[p] # NoFile
        BY <1>5, <1>a, <2>1 DEF Remove, FileKnown
      <3> QED BY <2>1, <3>1 DEF View
    <2>2. CASE ~(orphan[u] = NoFile /\ found[u] = p)
      BY <1>4, <1>5, <2>2 DEF Remove
    <2> QED BY <2>1, <2>2
  <1>6. ASSUME NEW w \in Workers, OpenCacheFile(w) \/ WriteChunk(w)
        PROVE  orphan'[u] = orphan[u]
    BY <1>6 DEF OpenCacheFile, WriteChunk, reader
  <1> QED BY <1>4, <1>5, <1>6, FileEffect

\* The next part that a reader sends is the next part of what it sees.
LEMMA SentIsSeen ==
    ASSUME NEW S, NEW seen \in Seq(S), NEW done \in Seq(S), Len(done) < Len(seen),
           \A i \in DOMAIN done : done[i] = seen[i]
    PROVE  /\ Len(Append(done, seen[Len(done) + 1])) <= Len(seen)
           /\ \A i \in DOMAIN Append(done, seen[Len(done) + 1]) :
                 Append(done, seen[Len(done) + 1])[i] = seen[i]
  <1> DEFINE next == seen[Len(done) + 1]
             more == Append(done, next)
  <1>1. next \in S
    OBVIOUS
  <1>2. /\ Len(more) = Len(done) + 1
        /\ \A i \in DOMAIN done : more[i] = done[i]
        /\ more[Len(done) + 1] = next
        /\ DOMAIN more = DOMAIN done \union {Len(done) + 1}
    BY <1>1
  <1>3. Len(done) + 1 <= Len(seen)
    OBVIOUS
  <1> HIDE DEF more
  <1>4. Len(more) <= Len(seen) /\ \A i \in DOMAIN more : more[i] = seen[i]
    BY <1>2, <1>3
  <1> QED BY <1>4 DEF more

\* A reader finds a whole response and sends it from its start.
LEMMA ReadsStep ==
    ASSUME Base, Base', Own, OwnKeys, Next, NEW u \in Threads
    PROVE  Reads(u)'
  <1>a. /\ TypeOK /\ KeyKnown(u) /\ FileKnown(u) /\ FileKnown(u)'
        /\ ~IOFaults /\ Workers \subseteq Threads /\ Reads(u)
    BY DEF Base, Own, OwnKeys, Threads
  <1>1. CASE pc'[u] \notin {"open", "serve"}
    BY <1>1 DEF Reads
  <1>2. CASE pc'[u] = "open"
    <2>1. /\ key'[u] = key[u] /\ orphan'[u] = NoFile
          /\ \/ pc[u] = "open" /\ found'[u] = found[u]
             \/ u \in Workers /\ LookupHit(u)
      BY <1>a, <1>2, ThreadEffect DEF FileKnown
    <2>2. View(u)' = file'[found'[u]] /\ Path(u)' = Path(u)
      BY <2>1 DEF View, Path
    <2>3. /\ found'[u] = Path(u)
          /\ file'[found'[u]] # NoFile => IsWhole(file'[found'[u]])
      <3>1. CASE pc[u] = "open" /\ found'[u] = found[u]
        <4>1. file'[Path(u)] \in {file[Path(u)], NoFile}
          BY <3>1, OwnFileStays
        <4>2. View(u) = file[Path(u)] /\ found[u] = Path(u)
          BY <1>a, <3>1 DEF Reads, View, FileKnown
        <4> QED BY <1>a, <3>1, <4>1, <4>2 DEF Reads
      <3>2. ASSUME u \in Workers, LookupHit(u)
            PROVE  /\ found'[u] = Path(u)
                   /\ file'[found'[u]] # NoFile => IsWhole(file'[found'[u]])
        <4>1. PICK i \in DOMAIN index :
                 index[i].key = key[u] /\ found' = [found EXCEPT ![u] = index[i].path]
          BY <3>2 DEF LookupHit, FirstMatch
        <4>2. file' = file /\ found'[u] = index[i].path /\ index[i] \in Lines
          BY <1>a, <3>2, <4>1 DEF LookupHit, store, TypeOK, Lines
        <4> QED BY <4>1, <4>2 DEF Own, LinesWhole, Path
      <3> QED BY <2>1, <3>1, <3>2
    <2> QED BY <1>2, <2>2, <2>3 DEF Reads, IsWhole
  <1>3. CASE OpenHit(u)
    <2>1. /\ View(u)' = View(u) /\ pc[u] = "open" /\ sent'[u] = <<>>
          /\ file[found[u]] # NoFile /\ orphan[u] = NoFile
          /\ found'[u] = found[u] /\ Path(u)' = Path(u)
      BY <1>a, <1>3 DEF OpenHit, View, Path, FileKnown, store, reader
    <2>2. found[u] \in Paths /\ found[u] = Path(u)
      BY <1>a, <2>1 DEF KeyKnown, Reads
    <2>3. View(u) = file[found[u]] /\ View(u) \in Seq(Chunk)
      BY <1>a, <2>1, <2>2 DEF View, TypeOK
    <2>4. IsWhole(View(u))
      BY <1>a, <2>1, <2>3 DEF Reads
    <2>5. Len(<<>>) <= Len(View(u)) /\ DOMAIN <<>> = {}
      BY <2>3
    <2> QED BY <2>1, <2>2, <2>4, <2>5 DEF Reads, IsWhole
  <1>4. CASE SendChunk(u)
    <2>1. /\ pc[u] = "serve" /\ Len(sent[u]) < Len(View(u)) /\ View(u)' = View(u)
          /\ sent'[u] = Append(sent[u], View(u)[Len(sent[u]) + 1])
          /\ found'[u] = found[u] /\ Path(u)' = Path(u) /\ found[u] = Path(u)
      BY <1>a, <1>4 DEF Reads, SendChunk, View, Path, store, progress, TypeOK
    <2>2. View(u) \in Seq(Chunk) /\ sent[u] \in Seq(Chunk)
      BY <1>a, <2>1, OwnFileStays DEF View, FileKnown, TypeOK
    <2>3. View(u) # NoFile
      BY <2>2, ConstantsAssumption
    <2>4. IsWhole(View(u)) /\ \A i \in DOMAIN sent[u] : sent[u][i] = View(u)[i]
      BY <1>a, <2>1, <2>3 DEF Reads
    <2>5. Len(sent'[u]) <= Len(View(u)) /\ \A i \in DOMAIN sent'[u] : sent'[u][i] = View(u)[i]
      BY <2>1, <2>2, <2>4, SentIsSeen
    <2> QED BY <2>1, <2>4, <2>5 DEF Reads, IsWhole
  <1>5. CASE pc[u] = "serve" /\ pc'[u] = "serve" /\ sent'[u] = sent[u]
    <2>1. View(u)' = View(u) /\ found'[u] = found[u] /\ Path(u)' = Path(u)
      BY <1>5, ViewStays, SentEffect DEF Path
    <2> QED BY <1>a, <1>5, <2>1 DEF Reads, IsWhole
  <1> QED BY <1>1, <1>2, <1>3, <1>4, <1>5, SentEffect

\* A thread takes a key of its own requests, and a time that has come.
LEMMA BusyStep ==
    ASSUME Base, Own, OwnKeys, Next, NEW u \in Threads
    PROVE  Busy(u)'
  <1>a. Busy(u) /\ ~IOFaults /\ now[u] \in Nat
    BY DEF Own, OwnKeys, Base, TypeOK
  <1>b. clock \in Nat /\ clock' \in Nat /\ clock' >= clock
    BY FileEffect DEF Base, TypeOK
  <1>1. key'[u] # None => u \in Workers /\ key'[u] \in KeysOf[u]
    BY <1>a, ThreadEffect DEF Busy
  <1>2. now'[u] \in {0, now[u], clock} /\ now[u] <= clock
    BY <1>a, ThreadEffect DEF Busy
  <1>3. now'[u] <= clock'
    BY <1>a, <1>b, <1>2
  <1> QED BY <1>1, <1>3 DEF Busy

\* Clients that share no key find whole responses.
LEMMA OwnInvariant == Spec => [](OwnKeys => Own)
  <1>1. Init => Own
    BY DEF Init, Own, Busy, Cleared, Reads, LinesWhole, Lines
  <1>2. Base /\ Base' /\ TempKnown /\ (~IOFaults => \A t \in Threads : Written(t))
             /\ (OwnKeys => Own) /\ [Next]_vars
            => (OwnKeys => Own)'
    <2> SUFFICES ASSUME Base, Base', TempKnown, \A t \in Threads : Written(t),
                        OwnKeys, Own, [Next]_vars
                 PROVE  Own'
      BY DEF OwnKeys
    <2>1. CASE Next
      <3>1. LinesWhole'
        BY <2>1, LinesWholeStep
      <3>2. \A t \in Threads : Busy(t)' /\ Cleared(t)' /\ Reads(t)'
        BY <2>1, BusyStep, ClearedStep, ReadsStep
      <3> QED BY <3>1, <3>2 DEF Own
    <2>2. CASE UNCHANGED vars
      BY <2>2 DEF vars, Own, Busy, Cleared, Reads, View, LinesWhole, Lines, IsWhole, Path
    <2> QED BY <2>1, <2>2
  <1> QED BY BaseInvariant, TempInvariant, WrittenInvariant, <1>1, <1>2, PTL
             DEF Spec

\* Clients that share no key and no file name are never answered with a part of a
\* response or with a mixture, although send_cached_response opens and reads the
\* file without the mutex, the cleaner may unlink it meanwhile, and the proxy may
\* have died before, in the middle of anything.
THEOREM AnswersAreWhole ==
    ASSUME OwnKeys PROVE Spec => ServedWhole
  <1>1. Base /\ Base' /\ (OwnKeys => Own) /\ [Next]_vars
          => [\A w \in Workers :
                 pc[w] = "serve" /\ pc'[w] = "idle" /\ crashes' = crashes
                     => IsWhole(sent[w])]_vars
    <2> SUFFICES ASSUME Base, Own, Next, NEW w \in Workers,
                        pc[w] = "serve", pc'[w] = "idle", crashes' = crashes
                 PROVE  IsWhole(sent[w])
      OBVIOUS
    <2>1. TypeOK /\ w \in Threads /\ FileKnown(w) /\ KeyKnown(w) /\ Reads(w) /\ ~IOFaults
      BY DEF Base, Own, Threads, OwnKeys
    <2>2. ~Crash
      BY <2>1 DEF Crash, TypeOK
    <2>3. Len(sent[w]) >= Len(View(w))
      BY <2>1, <2>2, ThreadEffect DEF EndHit
    <2>4. found[w] \in Paths
      BY <2>1 DEF KeyKnown
    <2>5. View(w) \in Seq(Chunk) /\ sent[w] \in Seq(Chunk) /\ View(w) # NoFile
      BY <2>1, <2>4, ConstantsAssumption DEF View, FileKnown, TypeOK
    <2>6. /\ IsWhole(View(w)) /\ Len(sent[w]) <= Len(View(w))
          /\ \A i \in DOMAIN sent[w] : sent[w][i] = View(w)[i]
      BY <2>1, <2>5 DEF Reads
    <2>7. Len(sent[w]) = Len(View(w)) /\ DOMAIN sent[w] = DOMAIN View(w)
      BY <2>3, <2>5, <2>6
    <2>8. \A i \in DOMAIN sent[w] : sent[w][i].response = View(w)[1].response
                                     /\ sent[w][i].part = i
      BY <2>6, <2>7 DEF IsWhole
    <2>9. DOMAIN sent[w] # {} => 1 \in DOMAIN sent[w]
      BY <2>5
    <2> QED BY <2>6, <2>7, <2>8, <2>9 DEF IsWhole
  <1> QED BY BaseInvariant, OwnInvariant, <1>1, PTL DEF Spec, ServedWhole

\* The conclusion of FilesAreWhole where the proxy may die at any point, if clients
\* share no key: no line of the index names a part of a response.
THEOREM OwnFilesAreWhole ==
    ASSUME OwnKeys PROVE Spec => []IndexedFilesWhole
  <1>1. (OwnKeys => Own) => IndexedFilesWhole
    BY DEF Own, LinesWhole, Lines, IndexedFilesWhole
  <1> QED BY OwnInvariant, <1>1, PTL
==============================================================================
