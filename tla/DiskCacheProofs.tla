--------------------------- MODULE DiskCacheProofs ---------------------------
(***************************************************************************)
(* Proofs about DiskCache, for every set of threads and keys, every hash,  *)
(* TTL and response length, with I/O failures and crashes.                 *)
(***************************************************************************)
EXTENDS DiskCache, TLAPS

(***************************************************************************)
(* What a thread knows at each place: its key, that the file it writes or  *)
(* reads is there, and that only a reader has an unlinked file or has sent *)
(* anything.  Type correctness is not inductive without it.                *)
(***************************************************************************)
KeyKnown(t) ==
    /\ pc[t] \in {"lookup", "open", "serve", "fetch", "save", "write", "register"}
          => key[t] \in Keys
    /\ pc[t] \in {"purge", "rewrite"} /\ call[t] # "cleanup" => key[t] \in Keys
    /\ pc[t] \in {"open", "serve"} => found[t] \in Paths
    /\ pc[t] = "rewrite" => cursor[t] >= 1

FileKnown(t) ==
    /\ pc[t] \in {"write", "register"} => file[Path(t)] # NoFile
    /\ pc[t] = "serve" /\ orphan[t] = NoFile => file[found[t]] # NoFile
    /\ pc[t] # "serve" => orphan[t] = NoFile /\ sent[t] = <<>>

Base ==
    /\ TypeOK
    /\ OneHolder
    /\ \A t \in Threads : KeyKnown(t) /\ FileKnown(t)

\* At the start nobody holds the mutex and nobody has a call under way.
LEMMA BaseInit == Init => Base
  <1> SUFFICES ASSUME Init PROVE Base
    OBVIOUS
  <1> USE ConstantsAssumption DEF Init
  <1>1. TypeOK
    BY DEF TypeOK, Places, Calls, Threads
  <1>2. OneHolder
    BY DEF OneHolder, Critical, Threads
  <1>3. ASSUME NEW t \in Threads PROVE KeyKnown(t) /\ FileKnown(t)
    BY <1>3 DEF KeyKnown, FileKnown
  <1> QED BY <1>1, <1>2, <1>3 DEF Base

(***************************************************************************)
(* Type correctness is preserved by every step.                            *)
(***************************************************************************)
\* The file of a key has one of the names that the hash gives.
LEMMA PathType == ASSUME Base, NEW t \in Threads, key[t] \in Keys
                  PROVE  Path(t) \in Paths
  BY ConstantsAssumption DEF Path

\* remove() leaves directory entries and open descriptors of their types.
LEMMA RemoveType ==
    ASSUME TypeOK, NEW p \in Paths, Remove(p)
    PROVE  /\ file' \in [Paths -> Seq(Chunk) \union {NoFile}]
           /\ orphan' \in [Threads -> Seq(Chunk) \union {NoFile}]
  BY DEF Remove, TypeOK

\* A thread that goes idle, or on to its save, keeps the types.
LEMMA LeaveType ==
    ASSUME TypeOK, NEW t \in Threads, Leave(t)
    PROVE  /\ pc' \in [Threads -> Places] /\ call' \in [Threads -> Calls]
           /\ key' \in [Threads -> Keys \union {None}]
           /\ now' \in [Threads -> Nat] /\ expires' \in [Threads -> Int]
           /\ cursor' \in [Threads -> Nat] /\ id' \in [Threads -> Nat]
  <1>1. pc' \in [Threads -> Places] /\ call' \in [Threads -> Calls]
    BY DEF Leave, Goto, TypeOK, Places, Calls
  <1>2. key' \in [Threads -> Keys \union {None}]
    BY DEF Leave, TypeOK
  <1>3. now' \in [Threads -> Nat] /\ expires' \in [Threads -> Int]
    BY DEF Leave, TypeOK
  <1>4. cursor' \in [Threads -> Nat] /\ id' \in [Threads -> Nat]
    BY DEF Leave, TypeOK
  <1> QED BY <1>1, <1>2, <1>3, <1>4

\* So does a thread that goes on to fetch from the server,
LEMMA FetchType ==
    ASSUME TypeOK, NEW t \in Threads, Fetch(t)
    PROVE  /\ pc' \in [Threads -> Places] /\ call' \in [Threads -> Calls]
           /\ key' \in [Threads -> Keys \union {None}]
           /\ now' \in [Threads -> Nat] /\ expires' \in [Threads -> Int]
           /\ cursor' \in [Threads -> Nat] /\ id' \in [Threads -> Nat]
  BY DEF Fetch, Goto, TypeOK, Places

\* one that closes the file it reads,
LEMMA CloseType ==
    ASSUME TypeOK, NEW t \in Threads, CloseHit(t)
    PROVE  /\ found' \in [Threads -> Paths \union {None}]
           /\ orphan' \in [Threads -> Seq(Chunk) \union {NoFile}]
           /\ sent' \in [Threads -> Seq(Chunk)]
  <1>1. <<>> \in Seq(Chunk)
    OBVIOUS
  <1> QED BY <1>1 DEF CloseHit, TypeOK

\* and one that leaves rewrite_index.
LEMMA AfterType ==
    ASSUME TypeOK, NEW t \in Threads, AfterRewrite(t) \/ AfterFailure(t)
    PROVE  /\ pc' \in [Threads -> Places] /\ call' \in [Threads -> Calls]
           /\ key' \in [Threads -> Keys \union {None}]
           /\ now' \in [Threads -> Nat] /\ expires' \in [Threads -> Int]
           /\ cursor' \in [Threads -> Nat] /\ id' \in [Threads -> Nat]
  <1>1. CASE Leave(t)
    BY <1>1, LeaveType
  <1>2. CASE Fetch(t)
    BY <1>2, FetchType
  <1>3. CASE /\ Goto(t, "save")
             /\ now' = [now EXCEPT ![t] = 0]
             /\ cursor' = [cursor EXCEPT ![t] = 0]
             /\ UNCHANGED <<call, key, expires, id>>
    BY <1>3 DEF Goto, TypeOK, Places
  <1>4. Leave(t) \/ AfterRewrite(t)
    BY DEF AfterFailure
  <1> QED BY <1>1, <1>2, <1>3, <1>4 DEF AfterRewrite

\* write() appends one chunk to the file of the key.
LEMMA WriteType ==
    ASSUME Base, NEW w \in Workers, WriteChunk(w)
    PROVE  /\ Path(w) \in Paths
           /\ file[Path(w)] \in Seq(Chunk)
           /\ \E chunk \in Chunk :
                 /\ chunk.at = clock /\ chunk.key = key[w]
                 /\ file' = [file EXCEPT ![Path(w)] = Append(file[Path(w)], chunk)]
                 /\ Append(file[Path(w)], chunk) \in Seq(Chunk)
  <1> DEFINE written == file[Path(w)]
             chunk == [key |-> key[w], response |-> id[w],
                       part |-> Len(written) + 1, at |-> clock]
  <1>a. TypeOK /\ w \in Threads /\ KeyKnown(w) /\ FileKnown(w)
    BY DEF Base, Threads
  <1>1. key[w] \in Keys /\ Path(w) \in Paths
    BY ConstantsAssumption, <1>a DEF WriteChunk, KeyKnown, Path
  <1>2. written \in Seq(Chunk)
    BY <1>a, <1>1 DEF WriteChunk, FileKnown, TypeOK
  <1>3. Len(written) + 1 \in Nat
    BY <1>2
  <1>4. chunk \in Chunk
    BY <1>a, <1>1, <1>3 DEF Chunk, TypeOK
  <1>5. Append(written, chunk) \in Seq(Chunk)
    BY <1>2, <1>4
  <1>6. file' = [file EXCEPT ![Path(w)] = Append(written, chunk)]
    BY DEF WriteChunk
  <1>7. chunk.at = clock /\ chunk.key = key[w]
    OBVIOUS
  <1> QED BY <1>1, <1>2, <1>4, <1>5, <1>6, <1>7

\* One sequence after another.
LEMMA ConcatElements ==
    ASSUME NEW S, NEW s \in Seq(S), NEW t \in Seq(S), NEW both, both = s \o t
    PROVE  /\ both \in Seq(S)
           /\ \A i \in DOMAIN both :
                 \/ i \in DOMAIN s /\ both[i] = s[i]
                 \/ \E j \in DOMAIN t : both[i] = t[j]
           /\ \A i \in DOMAIN s : i \in DOMAIN both /\ both[i] = s[i]
           /\ \A j \in DOMAIN t :
                 Len(s) + j \in DOMAIN both /\ both[Len(s) + j] = t[j]
  <1>1. /\ both \in Seq(S) /\ Len(both) = Len(s) + Len(t)
        /\ Len(s) \in Nat /\ Len(t) \in Nat
        /\ DOMAIN both = 1..Len(both) /\ DOMAIN s = 1..Len(s) /\ DOMAIN t = 1..Len(t)
    OBVIOUS
  <1>2. \A i \in DOMAIN both : both[i] = IF i <= Len(s) THEN s[i] ELSE t[i - Len(s)]
    OBVIOUS
  <1>3. ASSUME NEW i \in DOMAIN both
        PROVE  \/ i \in DOMAIN s /\ both[i] = s[i]
               \/ \E j \in DOMAIN t : both[i] = t[j]
    <2>1. CASE i <= Len(s)
      BY <1>1, <1>2, <2>1
    <2>2. CASE ~(i <= Len(s))
      <3>1. i - Len(s) \in DOMAIN t
        BY <1>1, <2>2
      <3> QED BY <1>2, <2>2, <3>1
    <2> QED BY <2>1, <2>2
  <1>4. ASSUME NEW i \in DOMAIN s PROVE i \in DOMAIN both /\ both[i] = s[i]
    BY <1>1, <1>2
  <1>5. ASSUME NEW j \in DOMAIN t
        PROVE  Len(s) + j \in DOMAIN both /\ both[Len(s) + j] = t[j]
    <2>1. /\ Len(s) + j \in DOMAIN both /\ ~(Len(s) + j <= Len(s))
          /\ (Len(s) + j) - Len(s) = j
      BY <1>1
    <2> QED BY <1>2, <2>1
  <1> QED BY <1>1, <1>3, <1>4, <1>5

\* The line that a cache_save means to add.
Entry(w) == [key |-> KeyRead[key[w]], path |-> Path(w), expires |-> expires[w]]

\* The lines that it adds are this one, and those of the rest of its key.
LEMMA Registers ==
    ASSUME Base, NEW w \in Workers, RegisterEntry(w)
    PROVE  /\ index' \in Seq(Line) /\ Entry(w) \in Line /\ key[w] \in Keys
           /\ pc[w] = "register" /\ Path(w) \in Paths
           /\ \A i \in DOMAIN index' :
                 \/ i \in DOMAIN index /\ index'[i] = index[i]
                 \/ index'[i] = Entry(w)
                 \/ \E j \in DOMAIN Rest[key[w]] : index'[i] = Rest[key[w]][j]
           /\ \A i \in DOMAIN index : i \in DOMAIN index' /\ index'[i] = index[i]
           /\ \E i \in DOMAIN index' : index'[i] = Entry(w)
           /\ \A j \in DOMAIN Rest[key[w]] : Rest[key[w]][j] \in Line
           /\ \A j \in DOMAIN Rest[key[w]] :
                 \E i \in DOMAIN index' : index'[i] = Rest[key[w]][j]
  <1> DEFINE rest  == Rest[key[w]]
             first == <<Entry(w)>>
             added == first \o rest
  <1>a. TypeOK /\ w \in Threads /\ pc[w] = "register"
    BY DEF Base, Threads, RegisterEntry
  <1>1. key[w] \in Keys
    BY <1>a DEF Base, KeyKnown
  <1>2. /\ Path(w) \in Paths /\ KeyRead[key[w]] \in Keys /\ rest \in Seq(Line)
    BY <1>1, ConstantsAssumption DEF Path
  <1>3. Entry(w) \in Line
    BY <1>a, <1>2 DEF Entry, Line, TypeOK
  <1>4. first \in Seq(Line) /\ DOMAIN first = {1} /\ first[1] = Entry(w)
    BY <1>3
  <1>5. index' = index \o added
    BY DEF RegisterEntry, EntryLines, Entry, Path
  <1>6. index \in Seq(Line)
    BY <1>a DEF TypeOK
  <1> HIDE DEF rest, first
  <1>7. /\ added \in Seq(Line)
        /\ \A i \in DOMAIN added :
              \/ i \in DOMAIN first /\ added[i] = first[i]
              \/ \E j \in DOMAIN rest : added[i] = rest[j]
        /\ \A i \in DOMAIN first : i \in DOMAIN added /\ added[i] = first[i]
        /\ \A j \in DOMAIN rest :
              Len(first) + j \in DOMAIN added /\ added[Len(first) + j] = rest[j]
    BY <1>2, <1>4, ConcatElements
  <1> HIDE DEF added
  <1>8. /\ \A i \in DOMAIN added :
              added[i] = Entry(w) \/ \E j \in DOMAIN rest : added[i] = rest[j]
        /\ \E i \in DOMAIN added : added[i] = Entry(w)
        /\ \A j \in DOMAIN rest : \E i \in DOMAIN added : added[i] = rest[j]
    BY <1>4, <1>7
  <1>9. /\ index' \in Seq(Line)
        /\ \A i \in DOMAIN index' :
              \/ i \in DOMAIN index /\ index'[i] = index[i]
              \/ \E j \in DOMAIN added : index'[i] = added[j]
        /\ \A i \in DOMAIN index : i \in DOMAIN index' /\ index'[i] = index[i]
        /\ \A j \in DOMAIN added :
              Len(index) + j \in DOMAIN index' /\ index'[Len(index) + j] = added[j]
    BY <1>5, <1>6, <1>7, ConcatElements
  <1>10. \A j \in DOMAIN rest : rest[j] \in Line
    BY <1>2
  <1> QED BY <1>a, <1>1, <1>2, <1>3, <1>8, <1>9, <1>10 DEF rest

\* Every step keeps the types.
LEMMA TypeStep == ASSUME Base, Next PROVE TypeOK'
  <1> USE DEF Local, store, reader, Goto
  <1>a. TypeOK /\ Workers \subseteq Threads /\ None \notin Threads
    BY ConstantsAssumption DEF Base, Threads
  <1>b. \A t \in Threads : KeyKnown(t) /\ FileKnown(t)
    BY DEF Base
  <1>c. \A w \in Workers : KeysOf[w] \subseteq Keys
    BY ConstantsAssumption
  <1>1. ASSUME NEW w \in Workers, NEW k \in KeysOf[w], StartLookup(w, k)
        PROVE  TypeOK'
    BY <1>1, <1>a, <1>c DEF StartLookup, TypeOK, Places, Calls
  <1>2. ASSUME NEW w \in Workers, LookupHit(w) PROVE TypeOK'
    <2>1. PICK i \in DOMAIN index :
             /\ expires' = [expires EXCEPT ![w] = index[i].expires]
             /\ found' = [found EXCEPT ![w] = index[i].path]
      BY <1>2 DEF LookupHit
    <2>2. index[i] \in Line
      BY <2>1, <1>a DEF TypeOK
    <2>3. index[i].expires \in Int /\ index[i].path \in Paths
      BY <2>2 DEF Line
    <2> QED BY <1>2, <1>a, <2>1, <2>3 DEF LookupHit, TypeOK, Places
  <1>3. ASSUME NEW w \in Workers, LookupExpired(w) PROVE TypeOK'
    BY <1>3, <1>a DEF LookupExpired, TypeOK, Places
  <1>4. ASSUME NEW w \in Workers, LookupMiss(w) PROVE TypeOK'
    BY <1>4, <1>a, FetchType DEF LookupMiss, TypeOK
  <1>5. ASSUME NEW w \in Workers, LookupError(w) PROVE TypeOK'
    BY <1>5, <1>a, LeaveType DEF LookupError, TypeOK
  <1>6. ASSUME NEW w \in Workers, OpenHit(w) PROVE TypeOK'
    BY <1>6, <1>a DEF OpenHit, TypeOK, Places
  <1>7. ASSUME NEW w \in Workers, OpenHitError(w) PROVE TypeOK'
    BY <1>7, <1>a, FetchType DEF OpenHitError, TypeOK
  <1>8. ASSUME NEW w \in Workers, SendChunk(w) PROVE TypeOK'
    <2>1. found[w] \in Paths
      BY <1>8, <1>a, <1>b DEF SendChunk, KeyKnown
    <2>2. View(w) \in Seq(Chunk)
      BY <1>8, <1>a, <1>b, <2>1 DEF SendChunk, View, FileKnown, TypeOK
    <2>3. View(w)[Len(sent[w]) + 1] \in Chunk
      BY <1>8, <1>a, <2>2 DEF SendChunk, TypeOK
    <2>4. sent' \in [Threads -> Seq(Chunk)]
      BY <1>8, <1>a, <2>3 DEF SendChunk, TypeOK
    <2> QED BY <1>8, <1>a, <2>4 DEF SendChunk, TypeOK, progress
  <1>9. ASSUME NEW w \in Workers, EndHit(w) PROVE TypeOK'
    BY <1>9, <1>a, LeaveType, CloseType DEF EndHit, TypeOK
  <1>10. ASSUME NEW w \in Workers, BreakHit(w) PROVE TypeOK'
    BY <1>10, <1>a, FetchType, CloseType DEF BreakHit, TypeOK
  <1>11. ASSUME NEW w \in Workers, FetchNothing(w) PROVE TypeOK'
    BY <1>11, <1>a, LeaveType DEF FetchNothing, TypeOK
  <1>12. ASSUME NEW w \in Workers, StartSave(w) PROVE TypeOK'
    <2>1. clock + TTL \in Int /\ responses' \in Nat
      BY <1>12, <1>a, ConstantsAssumption DEF StartSave, TypeOK
    <2> QED BY <1>12, <1>a, <2>1 DEF StartSave, TypeOK, Places, Calls
  <1>13. ASSUME NEW w \in Workers, NEW k \in KeysOf[w], StartDelete(w, k)
         PROVE  TypeOK'
    BY <1>13, <1>a, <1>c DEF StartDelete, TypeOK, Places, Calls
  <1>14. CASE WakeCleaner
    BY <1>14, <1>a DEF WakeCleaner, TypeOK, Places, Calls, Threads
  <1>15. ASSUME NEW t \in Threads, StartRewrite(t) PROVE TypeOK'
    <2>1. <<>> \in Seq(Line)
      OBVIOUS
    <2> QED BY <1>15, <1>a, <2>1 DEF StartRewrite, TypeOK, Places
  <1>16. ASSUME NEW t \in Threads, RewriteLine(t) PROVE TypeOK'
    <2> DEFINE line == index[cursor[t]]
    <2>1. line \in Line
      BY <1>16, <1>a, <1>b DEF RewriteLine, TypeOK, KeyKnown
    <2>2. cursor' \in [Threads -> Nat]
      BY <1>16, <1>a DEF RewriteLine, TypeOK
    <2>3. CASE ShouldRemove(t, line)
      <3>1. line.path \in Paths
        BY <2>1 DEF Line
      <3>2. Remove(line.path) /\ UNCHANGED temp
        BY <1>16, <2>3 DEF RewriteLine
      <3>3. /\ file' \in [Paths -> Seq(Chunk) \union {NoFile}]
            /\ orphan' \in [Threads -> Seq(Chunk) \union {NoFile}]
        BY <1>a, <3>1, <3>2, RemoveType
      <3> QED BY <1>16, <1>a, <2>2, <3>2, <3>3 DEF RewriteLine, TypeOK
    <2>4. CASE ~ShouldRemove(t, line)
      <3>1. KeepLine(line) /\ UNCHANGED <<file, orphan>>
        BY <1>16, <2>4 DEF RewriteLine
      <3>2. temp' \in Seq(Line)
        <4>1. temp \in Seq(Line) /\ Append(temp, line) \in Seq(Line)
          BY <1>a, <2>1 DEF TypeOK
        <4>2. temp' = temp \/ temp' = Append(temp, line)
          BY <3>1 DEF KeepLine
        <4> QED BY <4>1, <4>2
      <3> QED BY <1>16, <1>a, <2>2, <3>1, <3>2 DEF RewriteLine, TypeOK
    <2> QED BY <2>3, <2>4
  <1>17. ASSUME NEW t \in Threads, Rename(t) PROVE TypeOK'
    <2>1. <<>> \in Seq(Line)
      OBVIOUS
    <2> QED BY <1>17, <1>a, <2>1, AfterType DEF Rename, TypeOK
  <1>18. ASSUME NEW t \in Threads, RenameError(t) PROVE TypeOK'
    <2>1. <<>> \in Seq(Line)
      OBVIOUS
    <2> QED BY <1>18, <1>a, <2>1, AfterType DEF RenameError, TypeOK
  <1>19. ASSUME NEW t \in Threads, RewriteError(t) PROVE TypeOK'
    BY <1>19, <1>a, AfterType DEF RewriteError, TypeOK
  <1>20. ASSUME NEW w \in Workers, OpenCacheFile(w) PROVE TypeOK'
    <2>1. <<>> \in Seq(Chunk)
      OBVIOUS
    <2> QED BY <1>20, <1>a, <2>1 DEF OpenCacheFile, TypeOK, Places
  <1>21. ASSUME NEW w \in Workers, OpenCacheFileError(w) PROVE TypeOK'
    BY <1>21, <1>a, LeaveType DEF OpenCacheFileError, TypeOK
  <1>22. ASSUME NEW w \in Workers, WriteChunk(w) PROVE TypeOK'
    <2>1. file' \in [Paths -> Seq(Chunk) \union {NoFile}]
      <3>1. \E text \in Seq(Chunk) : file' = [file EXCEPT ![Path(w)] = text]
        BY <1>22, WriteType
      <3>2. file \in [Paths -> Seq(Chunk) \union {NoFile}]
        BY <1>a DEF TypeOK
      <3> QED BY <3>1, <3>2
    <2>2. pc' \in [Threads -> Places]
      <3>1. \E place \in {"write", "register"} : pc' = [pc EXCEPT ![w] = place]
        BY <1>22 DEF WriteChunk
      <3>2. pc \in [Threads -> Places]
        BY <1>a DEF TypeOK
      <3> QED BY <3>1, <3>2 DEF Places
    <2> QED BY <1>22, <1>a, <2>1, <2>2 DEF WriteChunk, TypeOK
  <1>23. ASSUME NEW w \in Workers, WriteError(w) PROVE TypeOK'
    BY <1>23, <1>a, LeaveType DEF WriteError, TypeOK
  <1>24. ASSUME NEW w \in Workers, FlushError(w) PROVE TypeOK'
    BY <1>24, <1>a DEF FlushError, TypeOK, Places
  <1>25. ASSUME NEW w \in Workers, RegisterEntry(w) PROVE TypeOK'
    <2>1. index' \in Seq(Line)
      BY <1>25, Registers
    <2> QED BY <1>25, <1>a, <2>1, LeaveType DEF RegisterEntry, TypeOK
  <1>26. ASSUME NEW w \in Workers, RegisterError(w) PROVE TypeOK'
    <2>1. Path(w) \in Paths
      BY ConstantsAssumption, <1>26, <1>a, <1>b DEF RegisterError, KeyKnown, Path
    <2>2. /\ file' \in [Paths -> Seq(Chunk) \union {NoFile}]
          /\ orphan' \in [Threads -> Seq(Chunk) \union {NoFile}]
      BY <1>26, <1>a, <2>1, RemoveType DEF RegisterError
    <2> QED BY <1>26, <1>a, <2>2, LeaveType DEF RegisterError, TypeOK
  <1>27. ASSUME NEW w \in Workers, RegisterLost(w) PROVE TypeOK'
    BY <1>27, <1>a, LeaveType DEF RegisterLost, TypeOK
  <1>28. CASE Tick
    BY <1>28, <1>a DEF Tick, TypeOK, progress
  <1>29. CASE Crash
    <2>1. <<>> \in Seq(Chunk)
      OBVIOUS
    <2> QED BY <1>29, <1>a, <2>1 DEF Crash, TypeOK, Places, Calls
  <1> QED BY <1>1, <1>2, <1>3, <1>4, <1>5, <1>6, <1>7, <1>8, <1>9, <1>10, <1>11,
             <1>12, <1>13, <1>14, <1>15, <1>16, <1>17, <1>18, <1>19, <1>20,
             <1>21, <1>22, <1>23, <1>24, <1>25, <1>26, <1>27, <1>28, <1>29
          DEF Next, Work, Lookup, Serve, Save, Rewrite
------------------------------------------------------------------------------
(***************************************************************************)
(* The mutex: four kinds of moves, one lemma each.                         *)
(***************************************************************************)
\* A move from outside a critical section to outside one.
LEMMA MoveOutside ==
    ASSUME TypeOK, OneHolder, NEW t \in Threads, NEW place, Goto(t, place),
           pc[t] \notin Critical, place \notin Critical, mutex' = mutex
    PROVE  OneHolder'
  BY DEF TypeOK, OneHolder, Goto

\* A move of the holder that stays inside.
LEMMA MoveInside ==
    ASSUME TypeOK, OneHolder, NEW t \in Threads, NEW place, Goto(t, place),
           pc[t] \in Critical, place \in Critical, mutex' = mutex
    PROVE  OneHolder'
  BY DEF TypeOK, OneHolder, Goto

\* Entering a critical section with a free mutex.
LEMMA Acquire ==
    ASSUME TypeOK, OneHolder, NEW t \in Threads, NEW place, Goto(t, place),
           mutex = None, place \in Critical, mutex' = t
    PROVE  OneHolder'
  BY ConstantsAssumption DEF TypeOK, OneHolder, Goto

\* Leaving a critical section and freeing the mutex.
LEMMA Release ==
    ASSUME TypeOK, OneHolder, NEW t \in Threads, NEW place, Goto(t, place),
           pc[t] \in Critical, place \notin Critical, mutex' = None
    PROVE  OneHolder'
  BY ConstantsAssumption DEF TypeOK, OneHolder, Goto

\* After rewrite_index a thread is outside, wherever it goes.
LEMMA AfterOutside ==
    ASSUME NEW t \in Threads, AfterRewrite(t) \/ AfterFailure(t)
    PROVE  \E place \in {"idle", "save", "fetch"} : Goto(t, place)
  BY DEF AfterRewrite, AfterFailure, Leave, Fetch

\* Every step is one of the four kinds of moves.
LEMMA HolderStep == ASSUME Base, Next PROVE OneHolder'
  <1> USE DEF Local, Critical
  <1>a. TypeOK /\ OneHolder /\ Workers \subseteq Threads
    BY DEF Base, Threads
  <1>1. ASSUME NEW w \in Workers, NEW k \in KeysOf[w], StartLookup(w, k)
         PROVE  OneHolder'
    <2>1. Goto(w, "lookup") /\ pc[w] \notin Critical /\ mutex' = mutex
      BY <1>1 DEF StartLookup
    <2> QED BY <1>a, <2>1, MoveOutside
  <1>2. ASSUME NEW w \in Workers, LookupHit(w) PROVE OneHolder'
    <2>1. Goto(w, "open") /\ pc[w] \notin Critical /\ mutex' = mutex
      BY <1>2 DEF LookupHit, CanScan
    <2> QED BY <1>a, <2>1, MoveOutside
  <1>3. ASSUME NEW w \in Workers, LookupExpired(w) PROVE OneHolder'
    <2>1. Goto(w, "purge") /\ pc[w] \notin Critical /\ mutex' = mutex
      BY <1>3 DEF LookupExpired, CanScan
    <2> QED BY <1>a, <2>1, MoveOutside
  <1>4. ASSUME NEW w \in Workers, LookupMiss(w) PROVE OneHolder'
    <2>1. Goto(w, "fetch") /\ pc[w] \notin Critical /\ mutex' = mutex
      BY <1>4 DEF LookupMiss, Fetch, CanScan
    <2> QED BY <1>a, <2>1, MoveOutside
  <1>5. ASSUME NEW w \in Workers, LookupError(w) PROVE OneHolder'
    <2>1. Goto(w, "idle") /\ pc[w] \notin Critical /\ mutex' = mutex
      BY <1>5 DEF LookupError, Leave, CanScan
    <2> QED BY <1>a, <2>1, MoveOutside
  <1>6. ASSUME NEW w \in Workers, OpenHit(w) PROVE OneHolder'
    <2>1. Goto(w, "serve") /\ pc[w] \notin Critical /\ mutex' = mutex
      BY <1>6 DEF OpenHit
    <2> QED BY <1>a, <2>1, MoveOutside
  <1>7. ASSUME NEW w \in Workers, OpenHitError(w) PROVE OneHolder'
    <2>1. Goto(w, "fetch") /\ pc[w] \notin Critical /\ mutex' = mutex
      BY <1>7 DEF OpenHitError, Fetch
    <2> QED BY <1>a, <2>1, MoveOutside
  <1>8. ASSUME NEW w \in Workers, SendChunk(w) PROVE OneHolder'
    BY <1>8, <1>a DEF SendChunk, OneHolder, progress
  <1>9. ASSUME NEW w \in Workers, EndHit(w) PROVE OneHolder'
    <2>1. Goto(w, "idle") /\ pc[w] \notin Critical /\ mutex' = mutex
      BY <1>9 DEF EndHit, Leave
    <2> QED BY <1>a, <2>1, MoveOutside
  <1>10. ASSUME NEW w \in Workers, BreakHit(w) PROVE OneHolder'
    <2>1. Goto(w, "fetch") /\ pc[w] \notin Critical /\ mutex' = mutex
      BY <1>10 DEF BreakHit, Fetch
    <2> QED BY <1>a, <2>1, MoveOutside
  <1>11. ASSUME NEW w \in Workers, FetchNothing(w) PROVE OneHolder'
    <2>1. Goto(w, "idle") /\ pc[w] \notin Critical /\ mutex' = mutex
      BY <1>11 DEF FetchNothing, Leave
    <2> QED BY <1>a, <2>1, MoveOutside
  <1>12. ASSUME NEW w \in Workers, StartSave(w) PROVE OneHolder'
    <2>1. Goto(w, "purge") /\ pc[w] \notin Critical /\ mutex' = mutex
      BY <1>12 DEF StartSave
    <2> QED BY <1>a, <2>1, MoveOutside
  <1>13. ASSUME NEW w \in Workers, NEW k \in KeysOf[w], StartDelete(w, k)
         PROVE  OneHolder'
    <2>1. Goto(w, "purge") /\ pc[w] \notin Critical /\ mutex' = mutex
      BY <1>13 DEF StartDelete
    <2> QED BY <1>a, <2>1, MoveOutside
  <1>14. CASE WakeCleaner
    <2>1. Goto(Cleaner, "purge") /\ pc[Cleaner] \notin Critical /\ mutex' = mutex
      BY <1>14 DEF WakeCleaner, Threads
    <2> QED BY <1>a, <2>1, MoveOutside DEF Threads
  <1>15. ASSUME NEW t \in Threads, StartRewrite(t) PROVE OneHolder'
    BY <1>15, <1>a, Acquire DEF StartRewrite
  <1>16. ASSUME NEW t \in Threads, RewriteLine(t) PROVE OneHolder'
    BY <1>16, <1>a DEF RewriteLine, OneHolder, progress
  <1>17. ASSUME NEW t \in Threads, Rename(t) PROVE OneHolder'
    <2>1. PICK place \in {"idle", "save", "fetch"} : Goto(t, place)
      BY <1>17, AfterOutside DEF Rename
    <2>2. pc[t] \in Critical /\ mutex' = None
      BY <1>17 DEF Rename
    <2> QED BY <1>a, <2>1, <2>2, Release
  <1>18. ASSUME NEW t \in Threads, RenameError(t) PROVE OneHolder'
    <2>1. PICK place \in {"idle", "save", "fetch"} : Goto(t, place)
      BY <1>18, AfterOutside DEF RenameError
    <2>2. pc[t] \in Critical /\ mutex' = None
      BY <1>18 DEF RenameError
    <2> QED BY <1>a, <2>1, <2>2, Release
  <1>19. ASSUME NEW t \in Threads, RewriteError(t) PROVE OneHolder'
    <2>1. PICK place \in {"idle", "save", "fetch"} : Goto(t, place)
      BY <1>19, AfterOutside DEF RewriteError
    <2>2. pc[t] \notin Critical /\ mutex' = mutex
      BY <1>19 DEF RewriteError
    <2> QED BY <1>a, <2>1, <2>2, MoveOutside
  <1>20. ASSUME NEW w \in Workers, OpenCacheFile(w) PROVE OneHolder'
    BY <1>20, <1>a, Acquire DEF OpenCacheFile
  <1>21. ASSUME NEW w \in Workers, OpenCacheFileError(w) PROVE OneHolder'
    <2>1. Goto(w, "idle") /\ pc[w] \notin Critical /\ mutex' = mutex
      BY <1>21 DEF OpenCacheFileError, Leave
    <2> QED BY <1>a, <2>1, MoveOutside
  <1>22. ASSUME NEW w \in Workers, WriteChunk(w) PROVE OneHolder'
    <2>1. PICK place \in {"write", "register"} : Goto(w, place)
      BY <1>22 DEF WriteChunk
    <2>2. pc[w] \in Critical /\ mutex' = mutex
      BY <1>22 DEF WriteChunk
    <2> QED BY <1>a, <2>1, <2>2, MoveInside
  <1>23. ASSUME NEW w \in Workers, WriteError(w) PROVE OneHolder'
    <2>1. Goto(w, "idle") /\ pc[w] \in Critical /\ mutex' = None
      BY <1>23 DEF WriteError, Leave
    <2> QED BY <1>a, <2>1, Release
  <1>24. ASSUME NEW w \in Workers, FlushError(w) PROVE OneHolder'
    BY <1>24, <1>a, MoveInside DEF FlushError
  <1>25. ASSUME NEW w \in Workers, RegisterEntry(w) PROVE OneHolder'
    <2>1. Goto(w, "idle") /\ pc[w] \in Critical /\ mutex' = None
      BY <1>25 DEF RegisterEntry, Leave
    <2> QED BY <1>a, <2>1, Release
  <1>26. ASSUME NEW w \in Workers, RegisterError(w) PROVE OneHolder'
    <2>1. Goto(w, "idle") /\ pc[w] \in Critical /\ mutex' = None
      BY <1>26 DEF RegisterError, Leave
    <2> QED BY <1>a, <2>1, Release
  <1>27. ASSUME NEW w \in Workers, RegisterLost(w) PROVE OneHolder'
    <2>1. Goto(w, "idle") /\ pc[w] \in Critical /\ mutex' = None
      BY <1>27 DEF RegisterLost, Leave
    <2> QED BY <1>a, <2>1, Release
  <1>28. CASE Tick
    BY <1>28, <1>a DEF Tick, OneHolder, progress
  <1>29. CASE Crash
    BY <1>29, ConstantsAssumption DEF Crash, OneHolder
  <1> QED BY <1>1, <1>2, <1>3, <1>4, <1>5, <1>6, <1>7, <1>8, <1>9, <1>10, <1>11,
             <1>12, <1>13, <1>14,
             <1>15, <1>16, <1>17, <1>18, <1>19, <1>20, <1>21, <1>22,
             <1>23, <1>24, <1>25, <1>26, <1>27, <1>28, <1>29
          DEF Next, Work, Lookup, Serve, Save, Rewrite
------------------------------------------------------------------------------
(***************************************************************************)
(* What a thread knows is preserved: its own moves establish it, and those *)
(* of the others do not touch it but through the files.                    *)
(***************************************************************************)
\* The last part of Base, by name.
LEMMA BaseKnown == Base => \A t \in Threads : KeyKnown(t) /\ FileKnown(t)
  BY DEF Base

\* What a thread knows depends on these of its variables only.
LEMMA KnownFrame ==
    ASSUME NEW u \in Threads, KeyKnown(u), FileKnown(u),
           pc'[u] = pc[u], call'[u] = call[u], key'[u] = key[u],
           cursor'[u] = cursor[u], found'[u] = found[u],
           orphan'[u] = orphan[u], sent'[u] = sent[u], file' = file
    PROVE  KeyKnown(u)' /\ FileKnown(u)'
  BY DEF KeyKnown, FileKnown, Path

\* The end of rewrite_index: where its thread goes, and what it keeps.
LEMMA AfterKnown ==
    ASSUME TypeOK, NEW t \in Threads, AfterRewrite(t) \/ AfterFailure(t)
    PROVE  /\ pc'[t] \in {"idle", "save", "fetch"}
           /\ pc'[t] # "idle" => /\ key'[t] = key[t] /\ call'[t] = call[t]
                                 /\ call[t] # "cleanup"
           /\ expires'[t] \in {0, expires[t]}
           /\ pc'[t] = "save" => expires'[t] = expires[t] /\ call[t] = "save"
           /\ \A u \in Threads \ {t} :
                 /\ pc'[u] = pc[u] /\ call'[u] = call[u] /\ key'[u] = key[u]
                 /\ now'[u] = now[u] /\ expires'[u] = expires[u]
                 /\ cursor'[u] = cursor[u]
  <1>1. CASE Leave(t)
    BY <1>1 DEF Leave, Goto, TypeOK
  <1>2. CASE Fetch(t) /\ call[t] = "lookup"
    BY <1>2 DEF Fetch, Goto, TypeOK
  <1>3. CASE /\ Goto(t, "save")
             /\ call[t] = "save"
             /\ now' = [now EXCEPT ![t] = 0]
             /\ cursor' = [cursor EXCEPT ![t] = 0]
             /\ UNCHANGED <<call, key, expires, id>>
    BY <1>3 DEF Goto, TypeOK
  <1>4. Leave(t) \/ AfterRewrite(t)
    BY DEF AfterFailure
  <1> QED BY <1>1, <1>2, <1>3, <1>4 DEF AfterRewrite

\* remove() under the mutex: nobody is writing, and every reader keeps its file.
LEMMA RemoveKnown ==
    ASSUME Base, NEW u \in Threads, NEW p \in Paths, Remove(p),
           pc[u] \notin {"write", "register"} \/ pc'[u] # pc[u],
           pc'[u] = pc[u] \/ pc'[u] = "idle",
           key'[u] = key[u] \/ pc'[u] = "idle", found' = found, sent' = sent,
           pc'[u] # pc[u] => pc[u] # "serve"
    PROVE  FileKnown(u)'
  <1>a. TypeOK /\ KeyKnown(u) /\ FileKnown(u)
    BY DEF Base
  <1>1. CASE pc[u] = "serve"
    <2>1. found[u] \in Paths /\ found'[u] = found[u]
      BY <1>a, <1>1 DEF KeyKnown
    <2>2. ASSUME orphan'[u] = NoFile
          PROVE  file'[found[u]] # NoFile
      BY <1>a, <1>1, <2>1, <2>2 DEF Remove, TypeOK, FileKnown
    <2> QED BY <1>1, <2>1, <2>2 DEF FileKnown
  <1>2. CASE pc[u] # "serve"
    BY <1>a, <1>2 DEF FileKnown, Remove
  <1> QED BY <1>1, <1>2

\* Every step keeps what every thread knows.
LEMMA KnownStep ==
    ASSUME Base, Next, NEW u \in Threads
    PROVE  KeyKnown(u)' /\ FileKnown(u)'
  <1> USE DEF Local, store, reader, Goto
  <1>a. TypeOK /\ OneHolder /\ Workers \subseteq Threads
    BY DEF Base, Threads
  <1>b. KeyKnown(u) /\ FileKnown(u)
    BY DEF Base
  <1>c. \A w \in Workers : KeysOf[w] \subseteq Keys
    BY ConstantsAssumption
  <1>1. ASSUME NEW w \in Workers, NEW k \in KeysOf[w], StartLookup(w, k)
        PROVE  KeyKnown(u)' /\ FileKnown(u)'
    <2>1. CASE u = w
      BY <1>1, <1>a, <1>b, <1>c, <2>1 DEF StartLookup, TypeOK, KeyKnown,
         FileKnown, Path
    <2>2. CASE u # w
      BY <1>1, <1>a, <1>b, <2>2, KnownFrame DEF StartLookup, TypeOK
    <2> QED BY <2>1, <2>2
  <1>2. ASSUME NEW w \in Workers, LookupHit(w)
        PROVE  KeyKnown(u)' /\ FileKnown(u)'
    <2>1. CASE u = w
      <3>1. PICK i \in DOMAIN index : found'[w] = index[i].path
        BY <1>2, <1>a DEF LookupHit, TypeOK
      <3>2. index[i] \in Line
        BY <1>a, <3>1 DEF TypeOK
      <3>3. found'[w] \in Paths
        BY <3>1, <3>2 DEF Line
      <3> QED BY <1>2, <1>a, <1>b, <2>1, <3>3 DEF LookupHit, CanScan, TypeOK,
              KeyKnown, FileKnown
    <2>2. CASE u # w
      BY <1>2, <1>a, <1>b, <2>2, KnownFrame DEF LookupHit, CanScan, TypeOK
    <2> QED BY <2>1, <2>2
  <1>3. ASSUME NEW w \in Workers, LookupExpired(w)
        PROVE  KeyKnown(u)' /\ FileKnown(u)'
    <2>1. CASE u = w
      BY <1>3, <1>a, <1>b, <1>c, <2>1 DEF LookupExpired, CanScan, TypeOK,
         KeyKnown, FileKnown, Path
    <2>2. CASE u # w
      BY <1>3, <1>a, <1>b, <2>2, KnownFrame DEF LookupExpired, CanScan, TypeOK
    <2> QED BY <2>1, <2>2
  <1>4. ASSUME NEW w \in Workers, LookupMiss(w)
        PROVE  KeyKnown(u)' /\ FileKnown(u)'
    <2>1. CASE u = w
      BY <1>4, <1>a, <1>b, <1>c, <2>1 DEF LookupMiss, CanScan, Fetch, TypeOK,
         KeyKnown, FileKnown, Path
    <2>2. CASE u # w
      BY <1>4, <1>a, <1>b, <2>2, KnownFrame DEF LookupMiss, CanScan, Fetch, TypeOK
    <2> QED BY <2>1, <2>2
  <1>5. ASSUME NEW w \in Workers, LookupError(w)
        PROVE  KeyKnown(u)' /\ FileKnown(u)'
    <2>1. CASE u = w
      BY <1>5, <1>a, <1>b, <1>c, <2>1 DEF LookupError, CanScan, Leave, TypeOK,
         KeyKnown, FileKnown, Path
    <2>2. CASE u # w
      BY <1>5, <1>a, <1>b, <2>2, KnownFrame DEF LookupError, CanScan, Leave, TypeOK
    <2> QED BY <2>1, <2>2
  <1>6. ASSUME NEW w \in Workers, OpenHit(w)
        PROVE  KeyKnown(u)' /\ FileKnown(u)'
    <2>1. CASE u = w
      BY <1>6, <1>a, <1>b, <1>c, <2>1 DEF OpenHit, TypeOK, KeyKnown, FileKnown, Path
    <2>2. CASE u # w
      BY <1>6, <1>a, <1>b, <2>2, KnownFrame DEF OpenHit, TypeOK
    <2> QED BY <2>1, <2>2
  <1>7. ASSUME NEW w \in Workers, OpenHitError(w)
        PROVE  KeyKnown(u)' /\ FileKnown(u)'
    <2>1. CASE u = w
      BY <1>7, <1>a, <1>b, <1>c, <2>1 DEF OpenHitError, Fetch, TypeOK, KeyKnown,
         FileKnown, Path
    <2>2. CASE u # w
      BY <1>7, <1>a, <1>b, <2>2, KnownFrame DEF OpenHitError, Fetch, TypeOK
    <2> QED BY <2>1, <2>2
  <1>8. ASSUME NEW w \in Workers, SendChunk(w)
        PROVE  KeyKnown(u)' /\ FileKnown(u)'
    <2>1. CASE u = w
      BY <1>8, <1>a, <1>b, <1>c, <2>1 DEF SendChunk, progress, TypeOK, KeyKnown,
         FileKnown, Path
    <2>2. CASE u # w
      BY <1>8, <1>a, <1>b, <2>2, KnownFrame DEF SendChunk, progress, TypeOK
    <2> QED BY <2>1, <2>2
  <1>9. ASSUME NEW w \in Workers, EndHit(w)
        PROVE  KeyKnown(u)' /\ FileKnown(u)'
    <2>1. CASE u = w
      BY <1>9, <1>a, <1>b, <1>c, <2>1 DEF EndHit, CloseHit, Leave, TypeOK,
         KeyKnown, FileKnown, Path
    <2>2. CASE u # w
      BY <1>9, <1>a, <1>b, <2>2, KnownFrame DEF EndHit, CloseHit, Leave, TypeOK
    <2> QED BY <2>1, <2>2
  <1>10. ASSUME NEW w \in Workers, BreakHit(w)
        PROVE  KeyKnown(u)' /\ FileKnown(u)'
    <2>1. CASE u = w
      BY <1>10, <1>a, <1>b, <1>c, <2>1 DEF BreakHit, CloseHit, Fetch, TypeOK,
         KeyKnown, FileKnown, Path
    <2>2. CASE u # w
      BY <1>10, <1>a, <1>b, <2>2, KnownFrame DEF BreakHit, CloseHit, Fetch, TypeOK
    <2> QED BY <2>1, <2>2
  <1>11. ASSUME NEW w \in Workers, FetchNothing(w)
        PROVE  KeyKnown(u)' /\ FileKnown(u)'
    <2>1. CASE u = w
      BY <1>11, <1>a, <1>b, <1>c, <2>1 DEF FetchNothing, Leave, TypeOK, KeyKnown,
         FileKnown, Path
    <2>2. CASE u # w
      BY <1>11, <1>a, <1>b, <2>2, KnownFrame DEF FetchNothing, Leave, TypeOK
    <2> QED BY <2>1, <2>2
  <1>12. ASSUME NEW w \in Workers, StartSave(w)
        PROVE  KeyKnown(u)' /\ FileKnown(u)'
    <2>1. CASE u = w
      BY <1>12, <1>a, <1>b, <1>c, <2>1 DEF StartSave, TypeOK, KeyKnown,
         FileKnown, Path
    <2>2. CASE u # w
      BY <1>12, <1>a, <1>b, <2>2, KnownFrame DEF StartSave, TypeOK
    <2> QED BY <2>1, <2>2
  <1>13. ASSUME NEW w \in Workers, NEW k \in KeysOf[w], StartDelete(w, k)
        PROVE  KeyKnown(u)' /\ FileKnown(u)'
    <2>1. CASE u = w
      BY <1>13, <1>a, <1>b, <1>c, <2>1 DEF StartDelete, TypeOK, KeyKnown,
         FileKnown, Path
    <2>2. CASE u # w
      BY <1>13, <1>a, <1>b, <2>2, KnownFrame DEF StartDelete, TypeOK
    <2> QED BY <2>1, <2>2
  <1>14. CASE WakeCleaner
    <2>1. CASE u = Cleaner
      BY <1>14, <1>a, <1>b, <1>c, <2>1 DEF WakeCleaner, Threads, TypeOK,
         KeyKnown, FileKnown, Path
    <2>2. CASE u # Cleaner
      BY <1>14, <1>a, <1>b, <2>2, KnownFrame DEF WakeCleaner, Threads, TypeOK
    <2> QED BY <2>1, <2>2
  <1>15. ASSUME NEW t \in Threads, StartRewrite(t)
        PROVE  KeyKnown(u)' /\ FileKnown(u)'
    <2>1. CASE u = t
      BY <1>15, <1>a, <1>b, <1>c, <2>1 DEF StartRewrite, TypeOK, KeyKnown,
         FileKnown, Path
    <2>2. CASE u # t
      BY <1>15, <1>a, <1>b, <2>2, KnownFrame DEF StartRewrite, TypeOK
    <2> QED BY <2>1, <2>2
  <1>16. ASSUME NEW t \in Threads, RewriteLine(t)
         PROVE  KeyKnown(u)' /\ FileKnown(u)'
    <2> DEFINE line == index[cursor[t]]
    <2>1. KeyKnown(u)'
      BY <1>16, <1>a, <1>b DEF RewriteLine, TypeOK, KeyKnown
    <2>2. pc[u] \notin {"write", "register"}
      BY <1>16, <1>a DEF RewriteLine, OneHolder, Critical
    <2>3. CASE ShouldRemove(t, line)
      <3>1. line \in Line
        BY <1>16, <1>a DEF RewriteLine, TypeOK, Base, KeyKnown
      <3>2. line.path \in Paths
        BY <3>1 DEF Line
      <3>3. Remove(line.path)
        BY <1>16, <2>3 DEF RewriteLine
      <3>4. pc'[u] = pc[u] /\ key'[u] = key[u] /\ found' = found /\ sent' = sent
        BY <1>16 DEF RewriteLine
      <3>5. FileKnown(u)'
        BY <2>2, <3>2, <3>3, <3>4, RemoveKnown
      <3> QED BY <2>1, <3>5
    <2>4. CASE ~ShouldRemove(t, line)
      BY <1>16, <1>b, <2>1, <2>4 DEF RewriteLine, FileKnown, Path
    <2> QED BY <2>3, <2>4
  <1>17. ASSUME NEW t \in Threads, Rename(t)
         PROVE  KeyKnown(u)' /\ FileKnown(u)'
    <2>1. CASE u = t
      <3>1. KeyKnown(u)'
        BY <1>17, <1>a, <1>b, <2>1, AfterKnown DEF Rename, KeyKnown
      <3>2. FileKnown(u)'
        BY <1>17, <1>a, <1>b, <2>1, AfterKnown DEF Rename, FileKnown
      <3> QED BY <3>1, <3>2
    <2>2. CASE u # t
      BY <1>17, <1>a, <1>b, <2>2, AfterKnown, KnownFrame DEF Rename
    <2> QED BY <2>1, <2>2
  <1>18. ASSUME NEW t \in Threads, RenameError(t)
         PROVE  KeyKnown(u)' /\ FileKnown(u)'
    <2>1. CASE u = t
      <3>1. KeyKnown(u)'
        BY <1>18, <1>a, <1>b, <2>1, AfterKnown DEF RenameError, KeyKnown
      <3>2. FileKnown(u)'
        BY <1>18, <1>a, <1>b, <2>1, AfterKnown DEF RenameError, FileKnown
      <3> QED BY <3>1, <3>2
    <2>2. CASE u # t
      BY <1>18, <1>a, <1>b, <2>2, AfterKnown, KnownFrame DEF RenameError
    <2> QED BY <2>1, <2>2
  <1>19. ASSUME NEW t \in Threads, RewriteError(t)
         PROVE  KeyKnown(u)' /\ FileKnown(u)'
    <2>1. CASE u = t
      <3>1. KeyKnown(u)'
        BY <1>19, <1>a, <1>b, <2>1, AfterKnown DEF RewriteError, KeyKnown
      <3>2. FileKnown(u)'
        BY <1>19, <1>a, <1>b, <2>1, AfterKnown DEF RewriteError, FileKnown
      <3> QED BY <3>1, <3>2
    <2>2. CASE u # t
      BY <1>19, <1>a, <1>b, <2>2, AfterKnown, KnownFrame DEF RewriteError
    <2> QED BY <2>1, <2>2
  <1>20. ASSUME NEW w \in Workers, OpenCacheFile(w)
         PROVE  KeyKnown(u)' /\ FileKnown(u)'
    <2>1. KeyKnown(u)'
      BY <1>20, <1>a, <1>b DEF OpenCacheFile, TypeOK, KeyKnown
    <2>2. <<>> # NoFile
      <3>1. <<>> \in Seq(Chunk)
        OBVIOUS
      <3> QED BY <3>1, ConstantsAssumption
    <2>3. key[w] \in Keys /\ Path(w) \in Paths
      BY ConstantsAssumption, <1>20, <1>a, BaseKnown DEF OpenCacheFile, KeyKnown, Path
    <2>4. /\ file[Path(u)] # NoFile \/ u = w => file'[Path(u)] # NoFile
          /\ file[found[u]] # NoFile => file'[found[u]] # NoFile
      BY <1>20, <1>a, <2>2, <2>3 DEF OpenCacheFile, TypeOK
    <2>5. \A x \in Threads : x # w => pc'[x] = pc[x]
      BY <1>20, <1>a DEF OpenCacheFile, TypeOK
    <2>6. pc[w] = "save" /\ pc'[w] = "write"
      BY <1>20, <1>a DEF OpenCacheFile, TypeOK
    <2>7. Path(u)' = Path(u) /\ found' = found /\ orphan' = orphan /\ sent' = sent
      BY <1>20 DEF OpenCacheFile, Path
    <2> QED BY <1>b, <2>1, <2>4, <2>5, <2>6, <2>7 DEF FileKnown
  <1>21. ASSUME NEW w \in Workers, OpenCacheFileError(w)
        PROVE  KeyKnown(u)' /\ FileKnown(u)'
    <2>1. CASE u = w
      BY <1>21, <1>a, <1>b, <1>c, <2>1 DEF OpenCacheFileError, Leave, TypeOK,
         KeyKnown, FileKnown, Path
    <2>2. CASE u # w
      BY <1>21, <1>a, <1>b, <2>2, KnownFrame DEF OpenCacheFileError, Leave, TypeOK
    <2> QED BY <2>1, <2>2
  <1>22. ASSUME NEW w \in Workers, WriteChunk(w)
         PROVE  KeyKnown(u)' /\ FileKnown(u)'
    <2>1. KeyKnown(u)'
      BY <1>22, <1>a, <1>b DEF WriteChunk, TypeOK, KeyKnown
    <2>2. ASSUME NEW p, file[p] # NoFile
          PROVE  file'[p] # NoFile
      <3>1. PICK chunk \in Chunk :
               /\ file' = [file EXCEPT ![Path(w)] = Append(file[Path(w)], chunk)]
               /\ Append(file[Path(w)], chunk) \in Seq(Chunk)
        BY <1>22, WriteType
      <3>2. Append(file[Path(w)], chunk) # NoFile
        BY <3>1, ConstantsAssumption
      <3>3. p \in Paths \/ file'[p] = file[p]
        BY <3>1, <1>a DEF TypeOK
      <3> QED BY <1>a, <2>2, <3>1, <3>2, <3>3 DEF TypeOK
    <2>3. \A x \in Threads : x # w => pc'[x] = pc[x]
      BY <1>22, <1>a DEF WriteChunk, TypeOK
    <2>4. pc[w] = "write" /\ pc'[w] \in {"write", "register"}
      BY <1>22, <1>a DEF WriteChunk, TypeOK
    <2>5. Path(u)' = Path(u) /\ found' = found /\ orphan' = orphan /\ sent' = sent
      BY <1>22 DEF WriteChunk, Path
    <2> QED BY <1>b, <2>1, <2>2, <2>3, <2>4, <2>5 DEF FileKnown
  <1>23. ASSUME NEW w \in Workers, WriteError(w)
        PROVE  KeyKnown(u)' /\ FileKnown(u)'
    <2>1. CASE u = w
      BY <1>23, <1>a, <1>b, <1>c, <2>1 DEF WriteError, Leave, TypeOK, KeyKnown,
         FileKnown, Path
    <2>2. CASE u # w
      BY <1>23, <1>a, <1>b, <2>2, KnownFrame DEF WriteError, Leave, TypeOK
    <2> QED BY <2>1, <2>2
  <1>24. ASSUME NEW w \in Workers, FlushError(w)
        PROVE  KeyKnown(u)' /\ FileKnown(u)'
    <2>1. CASE u = w
      BY <1>24, <1>a, <1>b, <1>c, <2>1 DEF FlushError, TypeOK, KeyKnown,
         FileKnown, Path
    <2>2. CASE u # w
      BY <1>24, <1>a, <1>b, <2>2, KnownFrame DEF FlushError, TypeOK
    <2> QED BY <2>1, <2>2
  <1>25. ASSUME NEW w \in Workers, RegisterEntry(w)
        PROVE  KeyKnown(u)' /\ FileKnown(u)'
    <2>1. CASE u = w
      BY <1>25, <1>a, <1>b, <1>c, <2>1 DEF RegisterEntry, Leave, TypeOK,
         KeyKnown, FileKnown, Path
    <2>2. CASE u # w
      BY <1>25, <1>a, <1>b, <2>2, KnownFrame DEF RegisterEntry, Leave, TypeOK
    <2> QED BY <2>1, <2>2
  <1>26. ASSUME NEW w \in Workers, RegisterError(w)
        PROVE  KeyKnown(u)' /\ FileKnown(u)'
    BY <1>26, <1>a, <1>b, ConstantsAssumption DEF RegisterError, Leave, Remove,
       TypeOK, OneHolder, Critical, KeyKnown, FileKnown, Path
  <1>27. ASSUME NEW w \in Workers, RegisterLost(w)
        PROVE  KeyKnown(u)' /\ FileKnown(u)'
    <2>1. CASE u = w
      BY <1>27, <1>a, <1>b, <1>c, <2>1 DEF RegisterLost, Leave, TypeOK, KeyKnown,
         FileKnown, Path
    <2>2. CASE u # w
      BY <1>27, <1>a, <1>b, <2>2, KnownFrame DEF RegisterLost, Leave, TypeOK
    <2> QED BY <2>1, <2>2
  <1>28. CASE Tick
    BY <1>28, <1>a, <1>b DEF Tick, progress, KeyKnown, FileKnown, Path
  <1>29. CASE Crash
    BY <1>29, <1>a, <1>b DEF Crash, KeyKnown, FileKnown, Path
  <1> QED BY <1>1, <1>2, <1>3, <1>4, <1>5, <1>6, <1>7, <1>8, <1>9, <1>10, <1>11,
             <1>12, <1>13, <1>14,
             <1>15, <1>16, <1>17, <1>18, <1>19, <1>20, <1>21, <1>22,
             <1>23, <1>24, <1>25, <1>26, <1>27, <1>28, <1>29
          DEF Next, Work, Lookup, Serve, Save, Rewrite

\* Types, the mutex, and what each thread knows of its key and file hold in
\* every reachable state.
THEOREM BaseInvariant == Spec => []Base
  <1>1. Base /\ [Next]_vars => Base'
    <2>1. CASE Base /\ Next
      BY <2>1, TypeStep, HolderStep, KnownStep DEF Base
    <2>2. CASE Base /\ UNCHANGED vars
      BY <2>2 DEF Base, vars, TypeOK, OneHolder, KeyKnown, FileKnown, Path
    <2> QED BY <2>1, <2>2
  <1> QED BY BaseInit, <1>1, PTL DEF Spec

\* The state of the cache is always well formed, failures and crashes included.
THEOREM TypeCorrect == Spec => []TypeOK
  <1>1. Base => TypeOK
    BY DEF Base
  <1> QED BY BaseInvariant, <1>1, PTL

\* The mutex always belongs to the one thread that is in a critical section.
THEOREM MutualExclusion == Spec => []OneHolder
  <1>1. Base => OneHolder
    BY DEF Base
  <1> QED BY BaseInvariant, <1>1, PTL
------------------------------------------------------------------------------
(***************************************************************************)
(* Freshness.  A line expires TTL after a moment that has passed, and all  *)
(* the file under its name was written at that moment or later; so is what *)
(* a reader that found the line has open, even when the file has since     *)
(* been unlinked, emptied in place or written again.                       *)
(***************************************************************************)
\* Every chunk of content was written at moment n - TTL or later.
From(content, n) ==
    content # NoFile => \A i \in DOMAIN content : content[i].at + TTL >= n

FreshLine(line) ==
    /\ line.expires <= clock + TTL
    /\ From(file[line.path], line.expires)

FreshThread(t) ==
    /\ expires[t] <= clock + TTL
    /\ pc[t] \in {"write", "register"} => From(file[Path(t)], expires[t])
    /\ pc[t] \in {"open", "serve"} =>
          /\ now[t] < expires[t]
          /\ From(View(t), expires[t])
          /\ \A i \in DOMAIN sent[t] : sent[t][i].at + TTL >= expires[t]

\* While t rewrites the index, the .tmp file holds the lines that t has read
\* and does not remove, and no others; all of them, if no write fails.
Copied(t) ==
    /\ cursor[t] <= Len(index) + 1
    /\ now[t] <= clock
    /\ \A j \in DOMAIN temp : \E i \in DOMAIN index :
          i < cursor[t] /\ temp[j] = index[i] /\ ~ShouldRemove(t, index[i])
    /\ \A i \in DOMAIN index :
          ~IOFaults /\ i < cursor[t] /\ ~ShouldRemove(t, index[i])
             => \E j \in DOMAIN temp : temp[j] = index[i]

TempKnown == \A t \in Threads : pc[t] = "rewrite" => Copied(t)

Fresh ==
    /\ \A i \in DOMAIN index : FreshLine(index[i])
    /\ \A t \in Threads : FreshThread(t)

\* What a newline in a key adds to the index is no entry with a date.
Undated == \A k \in Keys : \A i \in DOMAIN Rest[k] : Rest[k][i].expires <= 0

\* Nothing is old at the start, as there is nothing.
LEMMA FreshInit == Init => Fresh /\ TempKnown
  BY ConstantsAssumption
     DEF Init, Fresh, FreshThread, TempKnown

\* What a step does to the files and to the readers that have one open.
LEMMA FileEffect ==
    ASSUME Base, Next
    PROVE  /\ clock' \in Nat /\ clock' >= clock
           /\ \/ /\ file' = file
                 /\ \A u \in Threads : pc'[u] \in {"open", "serve"}
                                         => orphan'[u] = orphan[u]
              \/ \E p \in Paths : Remove(p)
              \/ \E w \in Workers : OpenCacheFile(w)
              \/ \E w \in Workers : WriteChunk(w)
  <1> USE DEF Local, store, reader
  <1>a. TypeOK /\ Workers \subseteq Threads
    BY DEF Base, Threads
  <1>1. clock' \in Nat /\ clock' >= clock
    <2>1. clock' = clock \/ Tick
      BY DEF Next, Work, Lookup, Serve, Save, Rewrite, StartLookup, LookupHit,
             LookupExpired, LookupMiss, LookupError, OpenHit, OpenHitError,
             SendChunk, EndHit, BreakHit, FetchNothing, StartSave, StartDelete,
             WakeCleaner, StartRewrite, RewriteLine, Rename, RenameError,
             RewriteError, OpenCacheFile, OpenCacheFileError, WriteChunk,
             WriteError, FlushError, RegisterEntry, RegisterError,
             RegisterLost, Crash
    <2> QED BY <2>1, <1>a DEF Tick, TypeOK
  <1> DEFINE Still == /\ file' = file
                      /\ \A u \in Threads : pc'[u] \in {"open", "serve"}
                                              => orphan'[u] = orphan[u]
  <1>2. ASSUME NEW w \in Workers, Lookup(w) PROVE Still
    BY <1>2 DEF Lookup, StartLookup, LookupHit, LookupExpired, LookupMiss,
                LookupError
  <1>3. ASSUME NEW w \in Workers, Serve(w) PROVE Still
    <2>1. CASE OpenHit(w) \/ OpenHitError(w) \/ SendChunk(w)
      BY <2>1 DEF OpenHit, OpenHitError, SendChunk
    <2>2. CASE EndHit(w) \/ BreakHit(w)
      <3>1. pc'[w] \notin {"open", "serve"} /\ file' = file
        BY <2>2, <1>a DEF EndHit, BreakHit, Leave, Fetch, Goto, TypeOK
      <3>2. \A u \in Threads : u # w => orphan'[u] = orphan[u]
        BY <2>2, <1>a DEF EndHit, BreakHit, CloseHit, TypeOK
      <3> QED BY <3>1, <3>2
    <2> QED BY <1>3, <2>1, <2>2 DEF Serve
  <1>4. ASSUME NEW w \in Workers, Save(w)
        PROVE  Still \/ OpenCacheFile(w) \/ WriteChunk(w) \/ \E p \in Paths : Remove(p)
    <2>1. CASE RegisterError(w)
      <3>1. Path(w) \in Paths
        BY ConstantsAssumption, <2>1, <1>a, BaseKnown DEF RegisterError, KeyKnown, Path
      <3> QED BY <2>1, <3>1 DEF RegisterError
    <2> QED BY <1>4, <2>1 DEF Save, StartSave, FetchNothing, OpenCacheFileError,
            WriteError, FlushError, RegisterEntry, RegisterLost
  <1>5. ASSUME NEW t \in Threads, Rewrite(t)
        PROVE  Still \/ \E p \in Paths : Remove(p)
    <2>1. CASE RewriteLine(t)
      <3>1. index[cursor[t]] \in Line
        BY <2>1, <1>a, BaseKnown DEF RewriteLine, TypeOK, KeyKnown
      <3>2. index[cursor[t]].path \in Paths
        BY <3>1 DEF Line
      <3> QED BY <2>1, <3>2 DEF RewriteLine
    <2> QED BY <1>5, <2>1 DEF Rewrite, StartRewrite, Rename, RenameError,
            RewriteError
  <1>6. ASSUME NEW w \in Workers, NEW k \in KeysOf[w], StartDelete(w, k)
        PROVE  Still
    BY <1>6 DEF StartDelete
  <1>7. ASSUME WakeCleaner \/ Tick PROVE Still
    BY <1>7 DEF WakeCleaner, Tick
  <1>8. ASSUME Crash PROVE Still
    BY <1>8 DEF Crash
  <1> QED BY <1>1, <1>2, <1>3, <1>4, <1>5, <1>6, <1>7, <1>8 DEF Next, Work

\* No step puts anything old under a name: what is written is written now.
LEMMA FileFresh ==
    ASSUME Base, Next, NEW p \in Paths, NEW n \in Int, n <= clock + TTL,
           From(file[p], n)
    PROVE  From(file'[p], n)
  <1>a. TypeOK
    BY DEF Base
  <1>1. CASE file' = file
    BY <1>1
  <1>2. ASSUME NEW q \in Paths, Remove(q) PROVE From(file'[p], n)
    BY <1>2, <1>a DEF Remove, TypeOK, From
  <1>3. ASSUME NEW w \in Workers, OpenCacheFile(w) PROVE From(file'[p], n)
    <2>1. file'[p] = file[p] \/ file'[p] = <<>>
      BY <1>3, <1>a DEF OpenCacheFile, TypeOK
    <2> QED BY <2>1 DEF From
  <1>4. ASSUME NEW w \in Workers, WriteChunk(w) PROVE From(file'[p], n)
    <2>1. PICK chunk \in Chunk :
             /\ chunk.at = clock
             /\ file' = [file EXCEPT ![Path(w)] = Append(file[Path(w)], chunk)]
      BY <1>4, WriteType
    <2>2. file[Path(w)] \in Seq(Chunk) /\ Path(w) \in Paths
      BY <1>4, WriteType
    <2>3. CASE p # Path(w)
      BY <2>1, <2>3, <1>a DEF TypeOK
    <2>4. CASE p = Path(w)
      <3>1. file'[p] = Append(file[p], chunk) /\ file[p] \in Seq(Chunk)
        BY <2>1, <2>2, <2>4, <1>a DEF TypeOK
      <3>2. file[p] # NoFile
        BY <3>1, ConstantsAssumption
      <3>3. \A i \in DOMAIN file[p] : file[p][i].at + TTL >= n
        BY <3>2 DEF From
      <3>4. ASSUME NEW i \in DOMAIN file'[p]
            PROVE  file'[p][i].at + TTL >= n
        <4>1. CASE i \in DOMAIN file[p]
          BY <3>1, <3>3, <4>1
        <4>2. CASE i = Len(file[p]) + 1
          <5>1. file'[p][i] = chunk
            BY <3>1, <4>2
          <5> QED BY <5>1, <2>1
        <4> QED BY <3>1, <4>1, <4>2
      <3> QED BY <3>4 DEF From
    <2> QED BY <2>3, <2>4
  <1> QED BY <1>1, <1>2, <1>3, <1>4, FileEffect

\* Nor does what a reader sees get older.
LEMMA ViewFresh ==
    ASSUME Base, Next, NEW u \in Threads, NEW n \in Int, n <= clock + TTL,
           pc[u] \in {"open", "serve"}, pc'[u] \in {"open", "serve"},
           found'[u] = found[u], From(View(u), n)
    PROVE  From(View(u)', n)
  <1>a. TypeOK /\ KeyKnown(u) /\ FileKnown(u)
    BY DEF Base
  <1>1. found[u] \in Paths
    BY <1>a DEF KeyKnown
  <1>2. CASE orphan'[u] = orphan[u]
    BY <1>1, <1>2, FileFresh DEF View
  <1>3. ASSUME NEW p \in Paths, Remove(p) PROVE From(View(u)', n)
    <2>1. CASE pc[u] = "serve" /\ orphan[u] = NoFile /\ found[u] = p
      <3>1. orphan'[u] = file[p] /\ file[p] # NoFile
        BY <1>3, <1>a, <2>1 DEF Remove, FileKnown
      <3> QED BY <2>1, <3>1 DEF View
    <2>2. CASE ~(pc[u] = "serve" /\ orphan[u] = NoFile /\ found[u] = p)
      BY <1>2, <1>3, <2>2 DEF Remove
    <2> QED BY <2>1, <2>2
  <1>4. ASSUME NEW w \in Workers, OpenCacheFile(w) \/ WriteChunk(w)
        PROVE  orphan'[u] = orphan[u]
    BY <1>4 DEF OpenCacheFile, WriteChunk, reader
  <1> QED BY <1>2, <1>3, <1>4, FileEffect

\* The lines of the index stay fresh, and so does the .tmp file's origin.
LEMMA FreshLineStep ==
    ASSUME Base, Next, NEW line \in Line, FreshLine(line)
    PROVE  FreshLine(line)'
  <1>a. TypeOK
    BY DEF Base
  <1>1. line.path \in Paths /\ line.expires \in Int
    BY DEF Line
  <1>2. clock' >= clock /\ clock' \in Nat
    BY FileEffect
  <1>3. From(file'[line.path], line.expires)
    BY <1>1, FileFresh DEF FreshLine
  <1>4. line.expires <= clock' + TTL
    BY <1>a, <1>1, <1>2, ConstantsAssumption DEF FreshLine, TypeOK
  <1> QED BY <1>3, <1>4 DEF FreshLine, From

\* What a step does to the index and to the .tmp file.
LEMMA IndexEffect ==
    ASSUME Base, Next
    PROVE  \/ index' = index
           \/ \E t \in Threads : Rename(t)
           \/ \E w \in Workers : RegisterEntry(w)
  <1> USE DEF Local, store
  <1>1. ASSUME NEW w \in Workers, Lookup(w) \/ Serve(w) PROVE index' = index
    BY <1>1 DEF Lookup, StartLookup, LookupHit, LookupExpired, LookupMiss,
                LookupError, Serve, OpenHit, OpenHitError, SendChunk, EndHit,
                BreakHit
  <1>2. ASSUME NEW w \in Workers, Save(w)
        PROVE  index' = index \/ RegisterEntry(w)
    BY <1>2 DEF Save, StartSave, FetchNothing, OpenCacheFile,
                OpenCacheFileError, WriteChunk, WriteError, FlushError,
                RegisterError, RegisterLost
  <1>3. ASSUME NEW t \in Threads, Rewrite(t)
        PROVE  index' = index \/ Rename(t)
    BY <1>3 DEF Rewrite, StartRewrite, RewriteLine, RenameError, RewriteError
  <1>4. ASSUME WakeCleaner \/ Tick \/ Crash
               \/ \E w \in Workers : \E k \in KeysOf[w] : StartDelete(w, k)
        PROVE  index' = index
    BY <1>4 DEF WakeCleaner, Tick, Crash, StartDelete
  <1> QED BY <1>1, <1>2, <1>3, <1>4 DEF Next, Work

\* One more element at the end of a sequence.
LEMMA AppendElements ==
    ASSUME NEW S, NEW s \in Seq(S), NEW e \in S
    PROVE  /\ Append(s, e) \in Seq(S)
           /\ DOMAIN Append(s, e) = DOMAIN s \union {Len(s) + 1}
           /\ \A i \in DOMAIN s : Append(s, e)[i] = s[i]
           /\ Append(s, e)[Len(s) + 1] = e
  <1>1. Append(s, e) \in Seq(S)
    OBVIOUS
  <1>2. Len(s) \in Nat /\ DOMAIN s = 1..Len(s) /\ Len(Append(s, e)) = Len(s) + 1
    OBVIOUS
  <1>3. DOMAIN Append(s, e) = 1..(Len(s) + 1)
    BY <1>1, <1>2
  <1>4. 1..(Len(s) + 1) = 1..Len(s) \union {Len(s) + 1}
    BY <1>2
  <1>5. \A i \in DOMAIN s : Append(s, e)[i] = s[i]
    OBVIOUS
  <1>6. Append(s, e)[Len(s) + 1] = e
    OBVIOUS
  <1> QED BY <1>1, <1>2, <1>3, <1>4, <1>5, <1>6

\* The lines of the index stay fresh through every step.
LEMMA FreshIndexStep ==
    ASSUME Base, Fresh, TempKnown, Undated, Next
    PROVE  \A i \in DOMAIN index' : FreshLine(index[i])'
  <1>a. TypeOK /\ OneHolder /\ Workers \subseteq Threads
    BY DEF Base, Threads
  <1>b. \A i \in DOMAIN index : index[i] \in Line /\ FreshLine(index[i])
    BY <1>a DEF Fresh, TypeOK
  <1>1. CASE index' = index
    BY <1>1, <1>b, FreshLineStep DEF FreshLine
  <1>2. ASSUME NEW t \in Threads, Rename(t)
        PROVE  \A i \in DOMAIN index' : FreshLine(index[i])'
    <2>1. index' = temp /\ pc[t] = "rewrite"
      BY <1>2 DEF Rename
    <2>2. \A j \in DOMAIN temp : \E i \in DOMAIN index : temp[j] = index[i]
      BY <2>1 DEF TempKnown, Copied
    <2>3. ASSUME NEW j \in DOMAIN index'
          PROVE  FreshLine(index[j])'
      <3>1. PICK i \in DOMAIN index : index'[j] = index[i]
        BY <2>1, <2>2
      <3>2. index[i] \in Line /\ FreshLine(index[i])
        BY <1>b
      <3> QED BY <3>1, <3>2, FreshLineStep DEF FreshLine
    <2> QED BY <2>3
  <1>3. ASSUME NEW w \in Workers, RegisterEntry(w)
        PROVE  \A i \in DOMAIN index' : FreshLine(index[i])'
    <2>1. FreshLine(Entry(w))
      BY <1>a, <1>3, Registers DEF Fresh, FreshThread, FreshLine, Entry
    <2>2. ASSUME NEW j \in DOMAIN Rest[key[w]] PROVE FreshLine(Rest[key[w]][j])
      <3> DEFINE line == Rest[key[w]][j]
      <3>1. line \in Line /\ line.expires <= 0
        BY <1>3, Registers DEF Undated
      <3>2. line.expires \in Int /\ line.path \in Paths
        BY <3>1 DEF Line
      <3>3. clock \in Nat /\ TTL \in Nat
        BY <1>a, ConstantsAssumption DEF TypeOK
      <3>4. ASSUME file[line.path] # NoFile, NEW i \in DOMAIN file[line.path]
            PROVE  file[line.path][i].at + TTL >= line.expires
        <4>1. file[line.path][i] \in Chunk
          BY <1>a, <3>2, <3>4 DEF TypeOK
        <4>2. file[line.path][i].at \in Nat
          BY <4>1 DEF Chunk
        <4> QED BY <3>1, <3>2, <3>3, <4>2
      <3>5. line.expires <= clock + TTL
        BY <3>1, <3>2, <3>3
      <3> QED BY <3>4, <3>5 DEF FreshLine, From
    <2>3. ASSUME NEW i \in DOMAIN index'
          PROVE  FreshLine(index[i])'
      <3>1. index'[i] \in Line
        BY <1>3, Registers
      <3>2. FreshLine(index'[i])
        BY <1>b, <1>3, <2>1, <2>2, Registers
      <3> QED BY <3>1, <3>2, FreshLineStep DEF FreshLine
    <2> QED BY <2>3
  <1> QED BY <1>1, <1>2, <1>3, IndexEffect

\* The copy: rewrite_index starts with an empty .tmp file and adds to it the
\* lines it keeps; no other thread touches the index while it is at it.
LEMMA CopyLine ==
    ASSUME Base, TempKnown, NEW t \in Threads, RewriteLine(t)
    PROVE  Copied(t)'
  <1> DEFINE line == index[cursor[t]]
  <1>a. TypeOK /\ cursor[t] \in Nat /\ cursor[t] >= 1 /\ pc[t] = "rewrite"
    BY BaseKnown DEF Base, RewriteLine, KeyKnown, TypeOK
  <1>b. Copied(t) /\ cursor[t] \in DOMAIN index
    BY <1>a DEF TempKnown, RewriteLine, TypeOK
  <1>c. /\ cursor'[t] = cursor[t] + 1
        /\ index' = index /\ clock' = clock /\ now' = now
        /\ call' = call /\ key' = key
    BY <1>a DEF RewriteLine, TypeOK, Local
  <1>d. \A l : ShouldRemove(t, l)' <=> ShouldRemove(t, l)
    BY <1>c DEF ShouldRemove
  <1>1. CASE ShouldRemove(t, line)
    <2>1. temp' = temp
      BY <1>1 DEF RewriteLine
    <2>2. cursor[t] + 1 <= Len(index) + 1 /\ now[t] <= clock
      BY <1>a, <1>b DEF Copied, TypeOK
    <2>3. \A i \in DOMAIN index : i < cursor[t] => i < cursor[t] + 1
      BY <1>a DEF TypeOK
    <2>4. \A i \in DOMAIN index :
             i < cursor[t] + 1 /\ ~ShouldRemove(t, index[i]) => i < cursor[t]
      <3>1. \A i \in DOMAIN index : i < cursor[t] + 1 => i < cursor[t] \/ i = cursor[t]
        BY <1>a DEF TypeOK
      <3> QED BY <1>1, <3>1
    <2> QED BY <1>b, <1>c, <1>d, <2>1, <2>2, <2>3, <2>4 DEF Copied
  <1>2. CASE ~ShouldRemove(t, line) /\ temp' = temp /\ IOFaults
    <2>1. cursor[t] + 1 <= Len(index) + 1 /\ now[t] <= clock
      BY <1>a, <1>b DEF Copied, TypeOK
    <2>2. \A i \in DOMAIN index : i < cursor[t] => i < cursor[t] + 1
      BY <1>a DEF TypeOK
    <2> QED BY <1>b, <1>c, <1>d, <1>2, <2>1, <2>2 DEF Copied
  <1>3. CASE ~ShouldRemove(t, line) /\ temp' = Append(temp, line)
    <2>0. temp \in Seq(Line) /\ line \in Line
      BY <1>a, <1>b DEF TypeOK
    <2>1. temp' = Append(temp, line) /\ line \in Line
      BY <1>3, <2>0
    <2>2. ASSUME NEW j \in DOMAIN temp'
          PROVE  \E i \in DOMAIN index : i < cursor[t] + 1 /\ temp'[j] = index[i]
                                           /\ ~ShouldRemove(t, index[i])
      <3>1. CASE j \in DOMAIN temp
        <4>1. temp'[j] = temp[j]
          BY <2>0, <2>1, <3>1, AppendElements
        <4>2. PICK i \in DOMAIN index : i < cursor[t] /\ temp[j] = index[i]
                                          /\ ~ShouldRemove(t, index[i])
          BY <1>b, <3>1 DEF Copied
        <4>3. i < cursor[t] + 1
          BY <1>a, <4>2 DEF TypeOK
        <4> QED BY <4>1, <4>2, <4>3
      <3>2. CASE j = Len(temp) + 1
        <4>1. temp'[j] = line
          BY <2>0, <2>1, <3>2, AppendElements
        <4> QED BY <1>a, <1>b, <1>3, <4>1
      <3>3. j \in DOMAIN temp \/ j = Len(temp) + 1
        BY <2>0, <2>1, AppendElements
      <3> QED BY <3>1, <3>2, <3>3
    <2>3. ASSUME NEW i \in DOMAIN index, i < cursor[t] + 1,
                 ~ShouldRemove(t, index[i]), ~IOFaults
          PROVE  \E j \in DOMAIN temp' : temp'[j] = index[i]
      <3>1. CASE i < cursor[t]
        <4>1. PICK j \in DOMAIN temp : temp[j] = index[i]
          BY <1>b, <2>3, <3>1 DEF Copied
        <4>2. j \in DOMAIN temp' /\ temp'[j] = temp[j]
          BY <2>0, <2>1, <4>1, AppendElements
        <4> QED BY <4>1, <4>2
      <3>2. CASE i = cursor[t]
        <4>1. Len(temp) + 1 \in DOMAIN temp' /\ temp'[Len(temp) + 1] = line
          BY <2>0, <2>1, AppendElements
        <4> QED BY <3>2, <4>1
      <3>3. i < cursor[t] \/ i = cursor[t]
        BY <1>a, <2>3 DEF TypeOK
      <3> QED BY <3>1, <3>2, <3>3
    <2>4. cursor[t] + 1 <= Len(index) + 1 /\ now[t] <= clock
      BY <1>a, <1>b DEF Copied, TypeOK
    <2> QED BY <1>c, <1>d, <2>2, <2>3, <2>4 DEF Copied
  <1> QED BY <1>1, <1>2, <1>3 DEF RewriteLine, KeepLine

\* What a step does to a rewrite in progress.
LEMMA TempEffect ==
    ASSUME Base, Next, NEW u \in Threads, pc'[u] = "rewrite"
    PROVE  \/ StartRewrite(u)
           \/ RewriteLine(u)
           \/ /\ pc[u] = "rewrite" /\ cursor'[u] = cursor[u]
              /\ index' = index /\ temp' = temp /\ now'[u] = now[u]
              /\ call'[u] = call[u] /\ key'[u] = key[u]
  <1> USE DEF Local, store, reader, Goto
  <1>a. TypeOK /\ Workers \subseteq Threads
    BY DEF Base, Threads
  <1>c. mutex' = u
    BY HolderStep DEF OneHolder, Critical
  <1>d. mutex' # None
    BY <1>c, ConstantsAssumption
  <1> DEFINE Goal == \/ StartRewrite(u)
                     \/ RewriteLine(u)
                     \/ /\ pc[u] = "rewrite" /\ cursor'[u] = cursor[u]
                        /\ index' = index /\ temp' = temp /\ now'[u] = now[u]
                        /\ call'[u] = call[u] /\ key'[u] = key[u]
  <1>1. ASSUME NEW w \in Workers, Lookup(w) PROVE Goal
    <2>1. ASSUME NEW k \in KeysOf[w], StartLookup(w, k) PROVE Goal
      BY <2>1, <1>a DEF StartLookup, TypeOK
    <2>2. CASE LookupHit(w) \/ LookupExpired(w)
      BY <2>2, <1>a DEF LookupHit, LookupExpired, CanScan, TypeOK
    <2>3. CASE LookupMiss(w) \/ LookupError(w)
      BY <2>3, <1>a DEF LookupMiss, LookupError, CanScan, Fetch, Leave, TypeOK
    <2> QED BY <1>1, <2>1, <2>2, <2>3 DEF Lookup
  <1>2. ASSUME NEW w \in Workers, Serve(w) PROVE Goal
    BY <1>2, <1>a DEF Serve, OpenHit, OpenHitError, SendChunk, EndHit, BreakHit,
       Fetch, Leave, progress, TypeOK
  <1>3. ASSUME NEW w \in Workers, Save(w) PROVE Goal
    <2>1. CASE StartSave(w) \/ FetchNothing(w) \/ OpenCacheFileError(w)
      BY <2>1, <1>a DEF StartSave, FetchNothing, OpenCacheFileError, Leave, TypeOK
    <2>2. CASE OpenCacheFile(w) \/ WriteChunk(w) \/ FlushError(w)
      BY <2>2, <1>a DEF OpenCacheFile, WriteChunk, FlushError, TypeOK
    <2>3. CASE WriteError(w) \/ RegisterEntry(w) \/ RegisterError(w) \/ RegisterLost(w)
      BY <2>3, <1>d DEF WriteError, RegisterEntry, RegisterError, RegisterLost
    <2> QED BY <1>3, <2>1, <2>2, <2>3 DEF Save
  <1>4. ASSUME NEW t \in Threads, Rewrite(t) PROVE Goal
    <2>1. CASE Rename(t) \/ RenameError(t)
      BY <2>1, <1>d DEF Rename, RenameError
    <2>2. CASE RewriteError(t)
      BY <2>2, <1>a, AfterKnown DEF RewriteError
    <2>3. CASE StartRewrite(t)
      BY <2>3, <1>c DEF StartRewrite
    <2>4. CASE RewriteLine(t)
      BY <2>4, <1>c DEF RewriteLine, Base, OneHolder, Critical
    <2> QED BY <1>4, <2>1, <2>2, <2>3, <2>4 DEF Rewrite
  <1>5. ASSUME NEW w \in Workers, NEW k \in KeysOf[w], StartDelete(w, k)
        PROVE  Goal
    BY <1>5, <1>a DEF StartDelete, TypeOK
  <1>6. CASE WakeCleaner \/ Tick \/ Crash
    BY <1>6, <1>a DEF WakeCleaner, Tick, Crash, progress, TypeOK, Threads
  <1> QED BY <1>1, <1>2, <1>3, <1>4, <1>5, <1>6 DEF Next, Work

\* The .tmp file stays a copy of the lines that were kept so far.
LEMMA TempStep == ASSUME Base, TempKnown, Next PROVE TempKnown'
  <1> SUFFICES ASSUME NEW u \in Threads, pc'[u] = "rewrite" PROVE Copied(u)'
    BY DEF TempKnown
  <1>a. TypeOK
    BY DEF Base
  <1>1. CASE StartRewrite(u)
    <2>1. cursor'[u] = 1 /\ now'[u] = clock /\ temp' = <<>>
          /\ index' = index /\ clock' = clock
      BY <1>a, <1>1 DEF StartRewrite, TypeOK
    <2>2. 1 <= Len(index) + 1 /\ clock <= clock
      BY <1>a DEF TypeOK
    <2>3. \A i \in DOMAIN index : ~(i < 1)
      BY <1>a DEF TypeOK
    <2> QED BY <2>1, <2>2, <2>3 DEF Copied
  <1>2. CASE RewriteLine(u)
    BY <1>2, CopyLine
  <1>3. CASE /\ pc[u] = "rewrite" /\ cursor'[u] = cursor[u]
             /\ index' = index /\ temp' = temp /\ now'[u] = now[u]
             /\ call'[u] = call[u] /\ key'[u] = key[u]
    <2>1. now[u] <= clock'
      BY <1>a, <1>3, FileEffect DEF TempKnown, Copied, TypeOK
    <2>2. \A l : ShouldRemove(u, l)' <=> ShouldRemove(u, l)
      BY <1>3 DEF ShouldRemove
    <2> QED BY <1>3, <2>1, <2>2 DEF TempKnown, Copied
  <1> QED BY <1>1, <1>2, <1>3, TempEffect

\* The .tmp file of a rewrite holds what it should at every moment.
THEOREM TempInvariant == Spec => []TempKnown
  <1>1. Base /\ TempKnown /\ [Next]_vars => TempKnown'
    <2>1. CASE Base /\ TempKnown /\ Next
      BY <2>1, TempStep
    <2>2. CASE TempKnown /\ UNCHANGED vars
      BY <2>2 DEF vars, TempKnown, Copied, ShouldRemove
    <2> QED BY <2>1, <2>2
  <1> QED BY FreshInit, BaseInvariant, <1>1, PTL DEF Spec

\* A thread that did not move, or that moved away from the cache, is as fresh
\* as it was.
LEMMA FreshFrame ==
    ASSUME Base, Next, NEW u \in Threads, FreshThread(u),
           \/ pc'[u] = pc[u]
           \/ pc[u] = "open" /\ pc'[u] = "serve"
           \/ pc[u] = "write" /\ pc'[u] = "register",
           key'[u] = key[u], now'[u] = now[u], expires'[u] = expires[u],
           found'[u] = found[u], sent'[u] = sent[u]
    PROVE  FreshThread(u)'
  <1>a. TypeOK /\ KeyKnown(u)
    BY DEF Base
  <1>b. expires[u] \in Int /\ clock \in Nat /\ clock' \in Nat /\ clock' >= clock
    BY <1>a, FileEffect DEF TypeOK
  <1>1. expires[u] <= clock' + TTL
    BY <1>b, ConstantsAssumption DEF FreshThread
  <1>2. pc'[u] \in {"write", "register"} => From(file'[Path(u)], expires[u])
    <2>1. SUFFICES ASSUME pc[u] \in {"write", "register"}
                   PROVE  From(file'[Path(u)], expires[u])
      OBVIOUS
    <2>2. Path(u) \in Paths
      BY ConstantsAssumption, <1>a, <2>1 DEF KeyKnown, Path
    <2> QED BY <1>b, <2>1, <2>2, FileFresh DEF FreshThread
  <1>3. pc'[u] \in {"open", "serve"} => From(View(u)', expires[u])
    BY <1>b, ViewFresh DEF FreshThread
  <1>4. Path(u)' = Path(u)
    BY DEF Path
  <1> QED BY <1>1, <1>2, <1>3, <1>4 DEF FreshThread, From

\* A thread that left the cache has nothing to be fresh about but its deadline.
LEMMA FreshAway ==
    ASSUME Base, Next, NEW u \in Threads, FreshThread(u),
           pc'[u] \notin {"open", "serve", "write", "register"},
           expires'[u] \in {0, expires[u], clock + TTL}
    PROVE  FreshThread(u)'
  <1>1. /\ expires[u] \in Int /\ expires[u] <= clock + TTL
        /\ clock \in Nat /\ clock' \in Nat /\ clock' >= clock /\ TTL \in Nat
    BY FileEffect, ConstantsAssumption DEF Base, TypeOK, FreshThread
  <1>2. expires'[u] <= clock' + TTL
    BY <1>1
  <1> QED BY <1>2 DEF FreshThread

\* Every step leaves every thread fresh.
LEMMA FreshThreadStep ==
    ASSUME Base, Fresh, Next, NEW u \in Threads
    PROVE  FreshThread(u)'
  <1> USE DEF Local, store, reader, Goto
  <1>a. TypeOK /\ Workers \subseteq Threads /\ FreshThread(u)
    BY DEF Base, Threads, Fresh
  <1>b. \A i \in DOMAIN index : index[i] \in Line /\ FreshLine(index[i])
    BY <1>a DEF Fresh, TypeOK
  <1>c. /\ clock \in Nat /\ clock' \in Nat /\ clock' >= clock /\ TTL \in Nat
    BY <1>a, FileEffect, ConstantsAssumption DEF TypeOK
  <1>1. ASSUME NEW w \in Workers, NEW k \in KeysOf[w], StartLookup(w, k)
        PROVE  FreshThread(u)'
    <2>1. CASE u # w
      BY <1>1, <1>a, <2>1, FreshFrame DEF StartLookup, TypeOK
    <2>2. CASE u = w
      BY <1>1, <1>a, <2>2, FreshAway DEF StartLookup, TypeOK
    <2> QED BY <2>1, <2>2
  <1>2. ASSUME NEW w \in Workers, LookupHit(w) PROVE FreshThread(u)'
    <2>1. CASE u # w
      BY <1>2, <1>a, <2>1, FreshFrame DEF LookupHit, CanScan, TypeOK
    <2>2. CASE u = w
      <3>1. PICK i \in DOMAIN index :
               /\ index[i].key = key[w] /\ index[i].expires > now[w]
               /\ expires' = [expires EXCEPT ![w] = index[i].expires]
               /\ found' = [found EXCEPT ![w] = index[i].path]
        BY <1>2 DEF LookupHit, FirstMatch
      <3>2. /\ pc[w] = "lookup" /\ pc'[w] = "open" /\ expires'[w] = index[i].expires
            /\ found'[w] = index[i].path
            /\ UNCHANGED <<clock, file, orphan, sent, key, now>>
        BY <1>2, <1>a, <3>1 DEF LookupHit, CanScan, TypeOK
      <3>3. orphan[w] = NoFile /\ sent[w] = <<>>
        BY <3>2, <1>a, BaseKnown DEF FileKnown
      <3>4. FreshLine(index[i])
        BY <1>b
      <3>5. From(View(w)', expires'[w]) /\ expires'[w] <= clock + TTL
        BY <3>1, <3>2, <3>3, <3>4 DEF FreshLine, View
      <3>6. now[w] < expires'[w]
        BY <1>a, <1>b, <3>1, <3>2 DEF TypeOK, Line
      <3> QED BY <2>2, <3>2, <3>3, <3>5, <3>6 DEF FreshThread
    <2> QED BY <2>1, <2>2
  <1>3. ASSUME NEW w \in Workers, LookupExpired(w) PROVE FreshThread(u)'
    <2>1. CASE u # w
      BY <1>3, <1>a, <2>1, FreshFrame DEF LookupExpired, CanScan, TypeOK
    <2>2. CASE u = w
      BY <1>3, <1>a, <2>2, FreshAway DEF LookupExpired, CanScan, TypeOK
    <2> QED BY <2>1, <2>2
  <1>4. ASSUME NEW w \in Workers, LookupMiss(w) PROVE FreshThread(u)'
    <2>1. CASE u # w
      BY <1>4, <1>a, <2>1, FreshFrame DEF LookupMiss, CanScan, Fetch, TypeOK
    <2>2. CASE u = w
      BY <1>4, <1>a, <2>2, FreshAway DEF LookupMiss, CanScan, Fetch, TypeOK
    <2> QED BY <2>1, <2>2
  <1>5. ASSUME NEW w \in Workers, LookupError(w) PROVE FreshThread(u)'
    <2>1. CASE u # w
      BY <1>5, <1>a, <2>1, FreshFrame DEF LookupError, CanScan, Leave, TypeOK
    <2>2. CASE u = w
      BY <1>5, <1>a, <2>2, FreshAway DEF LookupError, CanScan, Leave, TypeOK
    <2> QED BY <2>1, <2>2
  <1>6. ASSUME NEW w \in Workers, OpenHit(w) PROVE FreshThread(u)'
    <2>1. CASE u # w
      BY <1>6, <1>a, <2>1, FreshFrame DEF OpenHit, TypeOK
    <2>2. CASE u = w
      BY <1>6, <1>a, <2>2, FreshFrame DEF OpenHit, TypeOK
    <2> QED BY <2>1, <2>2
  <1>7. ASSUME NEW w \in Workers, OpenHitError(w) PROVE FreshThread(u)'
    <2>1. CASE u # w
      BY <1>7, <1>a, <2>1, FreshFrame DEF OpenHitError, Fetch, TypeOK
    <2>2. CASE u = w
      BY <1>7, <1>a, <2>2, FreshAway DEF OpenHitError, Fetch, TypeOK
    <2> QED BY <2>1, <2>2
  <1>8. ASSUME NEW w \in Workers, SendChunk(w) PROVE FreshThread(u)'
    <2>1. CASE u # w
      BY <1>8, <1>a, <2>1, FreshFrame DEF SendChunk, progress, TypeOK
    <2>2. CASE u = w
      <3>1. View(w) \in Seq(Chunk)
        BY <1>8, <1>a, BaseKnown DEF SendChunk, KeyKnown, View, FileKnown, TypeOK
      <3>2. View(w) # NoFile
        BY <3>1, ConstantsAssumption
      <3>3. Len(sent[w]) + 1 \in DOMAIN View(w)
        BY <1>8, <1>a, <3>1 DEF SendChunk, TypeOK
      <3>4. View(w)[Len(sent[w]) + 1].at + TTL >= expires[w]
        BY <1>8, <1>a, <2>2, <3>2, <3>3 DEF SendChunk, FreshThread, From
      <3>5. sent'[w] = Append(sent[w], View(w)[Len(sent[w]) + 1])
        BY <1>8, <1>a DEF SendChunk, TypeOK
      <3>6. \A i \in DOMAIN sent'[w] : sent'[w][i].at + TTL >= expires[w]
        <4>1. View(w)[Len(sent[w]) + 1] \in Chunk /\ sent[w] \in Seq(Chunk)
          BY <1>a, <3>1, <3>3 DEF TypeOK
        <4>2. \A i \in DOMAIN sent[w] : sent[w][i].at + TTL >= expires[w]
          BY <1>8, <1>a, <2>2 DEF SendChunk, FreshThread
        <4>3. ASSUME NEW i \in DOMAIN sent'[w]
              PROVE  \/ i \in DOMAIN sent[w] /\ sent'[w][i] = sent[w][i]
                     \/ sent'[w][i] = View(w)[Len(sent[w]) + 1]
          BY <3>5, <4>1
        <4> QED BY <3>4, <4>2, <4>3
      <3>7. UNCHANGED <<clock, file, found, orphan, pc, key, now, expires>>
        BY <1>8 DEF SendChunk, progress
      <3> QED BY <1>8, <1>a, <2>2, <3>6, <3>7 DEF SendChunk, FreshThread, View, Path
    <2> QED BY <2>1, <2>2
  <1>9. ASSUME NEW w \in Workers, EndHit(w) PROVE FreshThread(u)'
    <2>1. CASE u # w
      BY <1>9, <1>a, <2>1, FreshFrame DEF EndHit, CloseHit, Leave, TypeOK
    <2>2. CASE u = w
      BY <1>9, <1>a, <2>2, FreshAway DEF EndHit, CloseHit, Leave, TypeOK
    <2> QED BY <2>1, <2>2
  <1>10. ASSUME NEW w \in Workers, BreakHit(w) PROVE FreshThread(u)'
    <2>1. CASE u # w
      BY <1>10, <1>a, <2>1, FreshFrame DEF BreakHit, CloseHit, Fetch, TypeOK
    <2>2. CASE u = w
      BY <1>10, <1>a, <2>2, FreshAway DEF BreakHit, CloseHit, Fetch, TypeOK
    <2> QED BY <2>1, <2>2
  <1>11. ASSUME NEW w \in Workers, FetchNothing(w) PROVE FreshThread(u)'
    <2>1. CASE u # w
      BY <1>11, <1>a, <2>1, FreshFrame DEF FetchNothing, Leave, TypeOK
    <2>2. CASE u = w
      BY <1>11, <1>a, <2>2, FreshAway DEF FetchNothing, Leave, TypeOK
    <2> QED BY <2>1, <2>2
  <1>12. ASSUME NEW w \in Workers, StartSave(w) PROVE FreshThread(u)'
    <2>1. CASE u # w
      BY <1>12, <1>a, <2>1, FreshFrame DEF StartSave, TypeOK
    <2>2. CASE u = w
      BY <1>12, <1>a, <2>2, FreshAway DEF StartSave, TypeOK
    <2> QED BY <2>1, <2>2
  <1>13. ASSUME NEW w \in Workers, NEW k \in KeysOf[w], StartDelete(w, k)
        PROVE  FreshThread(u)'
    <2>1. CASE u # w
      BY <1>13, <1>a, <2>1, FreshFrame DEF StartDelete, TypeOK
    <2>2. CASE u = w
      BY <1>13, <1>a, <2>2, FreshAway DEF StartDelete, TypeOK
    <2> QED BY <2>1, <2>2
  <1>14. CASE WakeCleaner
    <2>1. CASE u # Cleaner
      BY <1>14, <1>a, <2>1, FreshFrame DEF WakeCleaner, Threads, TypeOK
    <2>2. CASE u = Cleaner
      BY <1>14, <1>a, <2>2, FreshAway DEF WakeCleaner, Threads, TypeOK
    <2> QED BY <2>1, <2>2
  <1>15. ASSUME NEW t \in Threads, StartRewrite(t) PROVE FreshThread(u)'
    <2>1. CASE u # t
      BY <1>15, <1>a, <2>1, FreshFrame DEF StartRewrite, TypeOK
    <2>2. CASE u = t
      BY <1>15, <1>a, <2>2, FreshAway DEF StartRewrite, TypeOK
    <2> QED BY <2>1, <2>2
  <1>16. ASSUME NEW t \in Threads, RewriteLine(t) PROVE FreshThread(u)'
    BY <1>16, <1>a, FreshFrame DEF RewriteLine
  <1>17. ASSUME NEW t \in Threads, Rename(t) PROVE FreshThread(u)'
    <2>1. CASE u # t
      BY <1>17, <1>a, <2>1, AfterKnown, FreshFrame DEF Rename
    <2>2. CASE u = t
      BY <1>17, <1>a, <2>2, AfterKnown, FreshAway DEF Rename
    <2> QED BY <2>1, <2>2
  <1>18. ASSUME NEW t \in Threads, RenameError(t) PROVE FreshThread(u)'
    <2>1. CASE u # t
      BY <1>18, <1>a, <2>1, AfterKnown, FreshFrame DEF RenameError
    <2>2. CASE u = t
      BY <1>18, <1>a, <2>2, AfterKnown, FreshAway DEF RenameError
    <2> QED BY <2>1, <2>2
  <1>19. ASSUME NEW t \in Threads, RewriteError(t) PROVE FreshThread(u)'
    <2>1. CASE u # t
      BY <1>19, <1>a, <2>1, AfterKnown, FreshFrame DEF RewriteError
    <2>2. CASE u = t
      BY <1>19, <1>a, <2>2, AfterKnown, FreshAway DEF RewriteError
    <2> QED BY <2>1, <2>2
  <1>20. ASSUME NEW w \in Workers, OpenCacheFile(w) PROVE FreshThread(u)'
    <2>1. CASE u # w
      BY <1>20, <1>a, <2>1, FreshFrame DEF OpenCacheFile, TypeOK
    <2>2. CASE u = w
      <3>1. Path(w) \in Paths
        BY ConstantsAssumption, <1>20, <1>a, BaseKnown DEF OpenCacheFile, KeyKnown, Path
      <3>2. /\ pc'[w] = "write" /\ file'[Path(w)] = <<>> /\ Path(w)' = Path(w)
            /\ expires' = expires /\ clock' = clock
        BY <1>20, <1>a, <3>1 DEF OpenCacheFile, TypeOK, Path
      <3>3. From(file'[Path(w)], expires[w])
        BY <3>2 DEF From
      <3> QED BY <1>a, <2>2, <3>2, <3>3 DEF FreshThread
    <2> QED BY <2>1, <2>2
  <1>21. ASSUME NEW w \in Workers, OpenCacheFileError(w) PROVE FreshThread(u)'
    <2>1. CASE u # w
      BY <1>21, <1>a, <2>1, FreshFrame DEF OpenCacheFileError, Leave, TypeOK
    <2>2. CASE u = w
      BY <1>21, <1>a, <2>2, FreshAway DEF OpenCacheFileError, Leave, TypeOK
    <2> QED BY <2>1, <2>2
  <1>22. ASSUME NEW w \in Workers, WriteChunk(w) PROVE FreshThread(u)'
    <2>1. CASE u # w
      BY <1>22, <1>a, <2>1, FreshFrame DEF WriteChunk, TypeOK
    <2>2. CASE u = w
      BY <1>22, <1>a, <2>2, FreshFrame DEF WriteChunk, TypeOK
    <2> QED BY <2>1, <2>2
  <1>23. ASSUME NEW w \in Workers, WriteError(w) PROVE FreshThread(u)'
    <2>1. CASE u # w
      BY <1>23, <1>a, <2>1, FreshFrame DEF WriteError, Leave, TypeOK
    <2>2. CASE u = w
      BY <1>23, <1>a, <2>2, FreshAway DEF WriteError, Leave, TypeOK
    <2> QED BY <2>1, <2>2
  <1>24. ASSUME NEW w \in Workers, FlushError(w) PROVE FreshThread(u)'
    <2>1. CASE u # w
      BY <1>24, <1>a, <2>1, FreshFrame DEF FlushError, TypeOK
    <2>2. CASE u = w
      BY <1>24, <1>a, <2>2, FreshFrame DEF FlushError, TypeOK
    <2> QED BY <2>1, <2>2
  <1>25. ASSUME NEW w \in Workers, RegisterEntry(w) PROVE FreshThread(u)'
    <2>1. CASE u # w
      BY <1>25, <1>a, <2>1, FreshFrame DEF RegisterEntry, Leave, TypeOK
    <2>2. CASE u = w
      BY <1>25, <1>a, <2>2, FreshAway DEF RegisterEntry, Leave, TypeOK
    <2> QED BY <2>1, <2>2
  <1>26. ASSUME NEW w \in Workers, RegisterError(w) PROVE FreshThread(u)'
    <2>1. CASE u # w
      BY <1>26, <1>a, <2>1, FreshFrame DEF RegisterError, Leave, TypeOK
    <2>2. CASE u = w
      BY <1>26, <1>a, <2>2, FreshAway DEF RegisterError, Leave, TypeOK
    <2> QED BY <2>1, <2>2
  <1>27. ASSUME NEW w \in Workers, RegisterLost(w) PROVE FreshThread(u)'
    <2>1. CASE u # w
      BY <1>27, <1>a, <2>1, FreshFrame DEF RegisterLost, Leave, TypeOK
    <2>2. CASE u = w
      BY <1>27, <1>a, <2>2, FreshAway DEF RegisterLost, Leave, TypeOK
    <2> QED BY <2>1, <2>2
  <1>28. CASE Tick
    BY <1>28, <1>a, FreshFrame DEF Tick, progress
  <1>29. CASE Crash
    BY <1>29, <1>a, FreshAway DEF Crash
  <1> QED BY <1>1, <1>2, <1>3, <1>4, <1>5, <1>6, <1>7, <1>8, <1>9, <1>10, <1>11,
             <1>12, <1>13, <1>14,
             <1>15, <1>16, <1>17, <1>18, <1>19, <1>20, <1>21, <1>22,
             <1>23, <1>24, <1>25, <1>26, <1>27, <1>28, <1>29
          DEF Next, Work, Lookup, Serve, Save, Rewrite

\* No file, line or open descriptor is ever older than the clock and TTL allow.
THEOREM FreshInvariant ==
    ASSUME Undated PROVE Spec => []Fresh
  <1>1. Base /\ TempKnown /\ Fresh /\ [Next]_vars => Fresh'
    <2>1. CASE Base /\ TempKnown /\ Fresh /\ Next
      <3>1. \A i \in DOMAIN index' : FreshLine(index[i])'
        BY <2>1, FreshIndexStep
      <3>2. \A t \in Threads : FreshThread(t)'
        BY <2>1, FreshThreadStep
      <3> QED BY <3>1, <3>2 DEF Fresh
    <2>2. CASE Fresh /\ UNCHANGED vars
      BY <2>2 DEF Fresh, vars, FreshLine, FreshThread, From, View, Path
    <2> QED BY <2>1, <2>2
  <1> QED BY FreshInit, BaseInvariant, TempInvariant, <1>1, PTL DEF Spec

\* No byte written TTL or more before the request looked it up is ever sent
\* from the cache, for any number of threads, failures and crashes, and even
\* when the hash gives several keys the same file or a newline in a key makes
\* lines of its own, if none of those reads as an entry with a date.
THEOREM NothingStaleIsServed ==
    ASSUME Undated PROVE Spec => []ServedFresh
  <1>1. Base /\ Fresh => ServedFresh
    <2> SUFFICES ASSUME Base, Fresh, NEW t \in Threads, NEW i \in DOMAIN sent[t]
                 PROVE  sent[t][i].at + TTL > now[t]
      BY DEF ServedFresh
    <2>1. pc[t] = "serve"
      BY BaseKnown DEF FileKnown
    <2>2. now[t] < expires[t] /\ sent[t][i].at + TTL >= expires[t]
      BY <2>1 DEF Fresh, FreshThread
    <2>3. sent[t][i] \in Chunk
      BY DEF Base, TypeOK
    <2>4. /\ now[t] \in Int /\ expires[t] \in Int
          /\ sent[t][i].at + TTL \in Int
      BY <2>3, ConstantsAssumption DEF Base, TypeOK, Chunk
    <2> QED BY <2>2, <2>4
  <1> QED BY BaseInvariant, FreshInvariant, <1>1, PTL
------------------------------------------------------------------------------
(***************************************************************************)
(* Refinement: the index changes by whole calls.  The one thing still      *)
(* missing is that the expiry a cache_save registers is TTL after some     *)
(* moment since the start.                                                 *)
(***************************************************************************)
Stamped(t) ==
    /\ pc[t] = "lookup" => call[t] = "lookup"
    /\ \/ pc[t] \in {"save", "write", "register"}
       \/ pc[t] \in {"purge", "rewrite"} /\ call[t] = "save"
       => expires[t] >= TTL /\ expires[t] <= clock + TTL

\* The deadline of a thread whose place, call and deadline stay is a full TTL.
LEMMA StampedFrame ==
    ASSUME Base, Next, NEW u \in Threads, Stamped(u),
           \/ pc'[u] = pc[u]
           \/ pc[u] = "purge" /\ pc'[u] = "rewrite"
           \/ pc[u] = "save" /\ pc'[u] = "write"
           \/ pc[u] = "write" /\ pc'[u] = "register",
           call'[u] = call[u], expires'[u] = expires[u]
    PROVE  Stamped(u)'
  <1>1. /\ clock \in Nat /\ clock' \in Nat /\ clock' >= clock
        /\ expires[u] \in Int /\ TTL \in Nat
    BY FileEffect, ConstantsAssumption DEF Base, TypeOK
  <1>2. expires[u] <= clock + TTL => expires[u] <= clock' + TTL
    BY <1>1
  <1> QED BY <1>2 DEF Stamped

\* A thread outside a save promises nothing.
LEMMA StampedAway ==
    ASSUME NEW u \in Threads,
           \/ pc'[u] \in {"idle", "fetch", "open", "serve"}
           \/ pc'[u] = "lookup" /\ call'[u] = "lookup"
           \/ pc'[u] = "purge" /\ call'[u] # "save"
    PROVE  Stamped(u)'
  BY DEF Stamped

\* cache_save computes its deadline before anything that reads it.
LEMMA StampedStep ==
    ASSUME Base, Next, NEW u \in Threads, Stamped(u)
    PROVE  Stamped(u)'
  <1> USE DEF Local, store, reader, Goto
  <1>a. TypeOK /\ Workers \subseteq Threads
    BY DEF Base, Threads
  <1>1. ASSUME NEW w \in Workers, NEW k \in KeysOf[w], StartLookup(w, k)
        PROVE  Stamped(u)'
    <2>1. CASE u # w
      BY <1>1, <1>a, <2>1, StampedFrame DEF StartLookup, TypeOK
    <2>2. CASE u = w
      BY <1>1, <1>a, <2>2, StampedAway DEF StartLookup, TypeOK
    <2> QED BY <2>1, <2>2
  <1>2. ASSUME NEW w \in Workers, LookupHit(w) PROVE Stamped(u)'
    <2>1. CASE u # w
      BY <1>2, <1>a, <2>1, StampedFrame DEF LookupHit, CanScan, TypeOK
    <2>2. CASE u = w
      BY <1>2, <1>a, <2>2, StampedAway DEF LookupHit, CanScan, TypeOK
    <2> QED BY <2>1, <2>2
  <1>3. ASSUME NEW w \in Workers, LookupExpired(w) PROVE Stamped(u)'
    <2>1. CASE u # w
      BY <1>3, <1>a, <2>1, StampedFrame DEF LookupExpired, CanScan, TypeOK
    <2>2. CASE u = w
      BY <1>3, <1>a, <2>2, StampedAway DEF LookupExpired, CanScan, TypeOK, Stamped
    <2> QED BY <2>1, <2>2
  <1>4. ASSUME NEW w \in Workers, LookupMiss(w) PROVE Stamped(u)'
    <2>1. CASE u # w
      BY <1>4, <1>a, <2>1, StampedFrame DEF LookupMiss, CanScan, Fetch, TypeOK
    <2>2. CASE u = w
      BY <1>4, <1>a, <2>2, StampedAway DEF LookupMiss, CanScan, Fetch, TypeOK
    <2> QED BY <2>1, <2>2
  <1>5. ASSUME NEW w \in Workers, LookupError(w) PROVE Stamped(u)'
    <2>1. CASE u # w
      BY <1>5, <1>a, <2>1, StampedFrame DEF LookupError, CanScan, Leave, TypeOK
    <2>2. CASE u = w
      BY <1>5, <1>a, <2>2, StampedAway DEF LookupError, CanScan, Leave, TypeOK
    <2> QED BY <2>1, <2>2
  <1>6. ASSUME NEW w \in Workers, OpenHit(w) PROVE Stamped(u)'
    BY <1>6, <1>a, StampedFrame, StampedAway DEF OpenHit, TypeOK
  <1>7. ASSUME NEW w \in Workers, OpenHitError(w) PROVE Stamped(u)'
    <2>1. CASE u # w
      BY <1>7, <1>a, <2>1, StampedFrame DEF OpenHitError, Fetch, TypeOK
    <2>2. CASE u = w
      BY <1>7, <1>a, <2>2, StampedAway DEF OpenHitError, Fetch, TypeOK
    <2> QED BY <2>1, <2>2
  <1>8. ASSUME NEW w \in Workers, SendChunk(w) PROVE Stamped(u)'
    BY <1>8, StampedFrame DEF SendChunk, progress
  <1>9. ASSUME NEW w \in Workers, EndHit(w) PROVE Stamped(u)'
    <2>1. CASE u # w
      BY <1>9, <1>a, <2>1, StampedFrame DEF EndHit, CloseHit, Leave, TypeOK
    <2>2. CASE u = w
      BY <1>9, <1>a, <2>2, StampedAway DEF EndHit, CloseHit, Leave, TypeOK
    <2> QED BY <2>1, <2>2
  <1>10. ASSUME NEW w \in Workers, BreakHit(w) PROVE Stamped(u)'
    <2>1. CASE u # w
      BY <1>10, <1>a, <2>1, StampedFrame DEF BreakHit, CloseHit, Fetch, TypeOK
    <2>2. CASE u = w
      BY <1>10, <1>a, <2>2, StampedAway DEF BreakHit, CloseHit, Fetch, TypeOK
    <2> QED BY <2>1, <2>2
  <1>11. ASSUME NEW w \in Workers, FetchNothing(w) PROVE Stamped(u)'
    <2>1. CASE u # w
      BY <1>11, <1>a, <2>1, StampedFrame DEF FetchNothing, Leave, TypeOK
    <2>2. CASE u = w
      BY <1>11, <1>a, <2>2, StampedAway DEF FetchNothing, Leave, TypeOK
    <2> QED BY <2>1, <2>2
  <1>12. ASSUME NEW w \in Workers, StartSave(w) PROVE Stamped(u)'
    <2>1. CASE u # w
      BY <1>12, <1>a, <2>1, StampedFrame DEF StartSave, TypeOK
    <2>2. CASE u = w
      <3>1. pc'[u] = "purge" /\ expires'[u] = clock + TTL
        BY <1>12, <1>a, <2>2 DEF StartSave, TypeOK
      <3>2. clock + TTL >= TTL /\ clock + TTL <= clock + TTL /\ clock' = clock
        BY <1>12, <1>a, ConstantsAssumption DEF StartSave, TypeOK
      <3> QED BY <3>1, <3>2 DEF Stamped
    <2> QED BY <2>1, <2>2
  <1>13. ASSUME NEW w \in Workers, NEW k \in KeysOf[w], StartDelete(w, k)
        PROVE  Stamped(u)'
    <2>1. CASE u # w
      BY <1>13, <1>a, <2>1, StampedFrame DEF StartDelete, TypeOK
    <2>2. CASE u = w
      BY <1>13, <1>a, <2>2, StampedAway DEF StartDelete, TypeOK
    <2> QED BY <2>1, <2>2
  <1>14. CASE WakeCleaner
    <2>1. CASE u # Cleaner
      BY <1>14, <1>a, <2>1, StampedFrame DEF WakeCleaner, Threads, TypeOK
    <2>2. CASE u = Cleaner
      BY <1>14, <1>a, <2>2, StampedAway DEF WakeCleaner, Threads, TypeOK
    <2> QED BY <2>1, <2>2
  <1>15. ASSUME NEW t \in Threads, StartRewrite(t) PROVE Stamped(u)'
    BY <1>15, <1>a, StampedFrame DEF StartRewrite, TypeOK
  <1>16. ASSUME NEW t \in Threads, RewriteLine(t) PROVE Stamped(u)'
    BY <1>16, StampedFrame DEF RewriteLine
  <1>17. ASSUME NEW t \in Threads, Rename(t) PROVE Stamped(u)'
    <2>1. CASE u # t
      BY <1>17, <1>a, <2>1, AfterKnown, StampedFrame DEF Rename
    <2>2. CASE u = t /\ pc'[u] # "save"
      BY <1>17, <1>a, <2>2, AfterKnown, StampedAway DEF Rename
    <2>3. CASE u = t /\ pc'[u] = "save"
      BY <1>17, <1>a, <2>3, AfterKnown DEF Rename, Stamped
    <2> QED BY <2>1, <2>2, <2>3
  <1>18. ASSUME NEW t \in Threads, RenameError(t) PROVE Stamped(u)'
    <2>1. CASE u # t
      BY <1>18, <1>a, <2>1, AfterKnown, StampedFrame DEF RenameError
    <2>2. CASE u = t /\ pc'[u] # "save"
      BY <1>18, <1>a, <2>2, AfterKnown, StampedAway DEF RenameError
    <2>3. CASE u = t /\ pc'[u] = "save"
      BY <1>18, <1>a, <2>3, AfterKnown DEF RenameError, Stamped
    <2> QED BY <2>1, <2>2, <2>3
  <1>19. ASSUME NEW t \in Threads, RewriteError(t) PROVE Stamped(u)'
    <2>1. CASE u # t
      BY <1>19, <1>a, <2>1, AfterKnown, StampedFrame DEF RewriteError
    <2>2. CASE u = t /\ pc'[u] # "save"
      BY <1>19, <1>a, <2>2, AfterKnown, StampedAway DEF RewriteError
    <2>3. CASE u = t /\ pc'[u] = "save"
      BY <1>19, <1>a, <2>3, AfterKnown DEF RewriteError, Stamped
    <2> QED BY <2>1, <2>2, <2>3
  <1>20. ASSUME NEW w \in Workers, OpenCacheFile(w) PROVE Stamped(u)'
    BY <1>20, <1>a, StampedFrame DEF OpenCacheFile, TypeOK
  <1>21. ASSUME NEW w \in Workers, OpenCacheFileError(w) PROVE Stamped(u)'
    <2>1. CASE u # w
      BY <1>21, <1>a, <2>1, StampedFrame DEF OpenCacheFileError, Leave, TypeOK
    <2>2. CASE u = w
      BY <1>21, <1>a, <2>2, StampedAway DEF OpenCacheFileError, Leave, TypeOK
    <2> QED BY <2>1, <2>2
  <1>22. ASSUME NEW w \in Workers, WriteChunk(w) PROVE Stamped(u)'
    BY <1>22, <1>a, StampedFrame DEF WriteChunk, TypeOK
  <1>23. ASSUME NEW w \in Workers, WriteError(w) PROVE Stamped(u)'
    <2>1. CASE u # w
      BY <1>23, <1>a, <2>1, StampedFrame DEF WriteError, Leave, TypeOK
    <2>2. CASE u = w
      BY <1>23, <1>a, <2>2, StampedAway DEF WriteError, Leave, TypeOK
    <2> QED BY <2>1, <2>2
  <1>24. ASSUME NEW w \in Workers, FlushError(w) PROVE Stamped(u)'
    BY <1>24, <1>a, StampedFrame DEF FlushError, TypeOK
  <1>25. ASSUME NEW w \in Workers, RegisterEntry(w) PROVE Stamped(u)'
    <2>1. CASE u # w
      BY <1>25, <1>a, <2>1, StampedFrame DEF RegisterEntry, Leave, TypeOK
    <2>2. CASE u = w
      BY <1>25, <1>a, <2>2, StampedAway DEF RegisterEntry, Leave, TypeOK
    <2> QED BY <2>1, <2>2
  <1>26. ASSUME NEW w \in Workers, RegisterError(w) PROVE Stamped(u)'
    <2>1. CASE u # w
      BY <1>26, <1>a, <2>1, StampedFrame DEF RegisterError, Leave, TypeOK
    <2>2. CASE u = w
      BY <1>26, <1>a, <2>2, StampedAway DEF RegisterError, Leave, TypeOK
    <2> QED BY <2>1, <2>2
  <1>27. ASSUME NEW w \in Workers, RegisterLost(w) PROVE Stamped(u)'
    <2>1. CASE u # w
      BY <1>27, <1>a, <2>1, StampedFrame DEF RegisterLost, Leave, TypeOK
    <2>2. CASE u = w
      BY <1>27, <1>a, <2>2, StampedAway DEF RegisterLost, Leave, TypeOK
    <2> QED BY <2>1, <2>2
  <1>28. CASE Tick
    BY <1>28, StampedFrame DEF Tick, progress
  <1>29. CASE Crash
    BY <1>29, StampedAway DEF Crash
  <1> QED BY <1>1, <1>2, <1>3, <1>4, <1>5, <1>6, <1>7, <1>8, <1>9, <1>10, <1>11,
             <1>12, <1>13, <1>14,
             <1>15, <1>16, <1>17, <1>18, <1>19, <1>20, <1>21, <1>22,
             <1>23, <1>24, <1>25, <1>26, <1>27, <1>28, <1>29
          DEF Next, Work, Lookup, Serve, Save, Rewrite

\* A line is registered with a deadline that a save computed, never with the 0
\* of a thread that has not saved yet.
THEOREM StampedInvariant == Spec => [](\A t \in Threads : Stamped(t))
  <1>1. Init => \A t \in Threads : Stamped(t)
    BY DEF Init, Stamped
  <1>2. Base /\ (\A t \in Threads : Stamped(t)) /\ [Next]_vars
            => (\A t \in Threads : Stamped(t))'
    BY StampedStep DEF vars, Stamped
  <1> QED BY BaseInvariant, <1>1, <1>2, PTL DEF Spec

\* When the copy is complete, the rename keeps the lines that are not removed,
\* or those of them that were written.
LEMMA RenameLines ==
    ASSUME Base, TempKnown, NEW t \in Threads, Rename(t)
    PROVE  /\ Lines' \subseteq {e \in Lines : ~ShouldRemove(t, e)}
           /\ ~IOFaults => Lines' = {e \in Lines : ~ShouldRemove(t, e)}
  <1>a. TypeOK
    BY DEF Base
  <1>1. index' = temp /\ pc[t] = "rewrite" /\ cursor[t] > Len(index)
    BY DEF Rename
  <1>2. Copied(t)
    BY <1>1 DEF TempKnown
  <1>3. \A i \in DOMAIN index : i < cursor[t]
    BY <1>a, <1>1 DEF TypeOK
  <1>4. ASSUME NEW e \in Lines' PROVE e \in Lines /\ ~ShouldRemove(t, e)
    BY <1>1, <1>2, <1>4 DEF Lines, Copied
  <1>5. ASSUME ~IOFaults, NEW e \in Lines, ~ShouldRemove(t, e) PROVE e \in Lines'
    BY <1>1, <1>2, <1>3, <1>5 DEF Lines, Copied
  <1> QED BY <1>4, <1>5

\* Only Tick moves the clock.
LEMMA ClockEffect ==
    ASSUME Base, Next
    PROVE  clock' = clock \/ Tick
  BY DEF Next, Work, Lookup, Serve, Save, Rewrite, Local, StartLookup, LookupHit,
     LookupExpired, LookupMiss, LookupError, OpenHit, OpenHitError, SendChunk,
     EndHit, BreakHit, FetchNothing, StartSave, StartDelete, WakeCleaner,
     StartRewrite, RewriteLine, Rename, RenameError, RewriteError,
     OpenCacheFile, OpenCacheFileError, WriteChunk, WriteError, FlushError,
     RegisterEntry, RegisterError, RegisterLost, Crash

\* Every step is a step of the abstract index or leaves the index as it was.
LEMMA IndexStep ==
    ASSUME Base, TempKnown, \A t \in Threads : Stamped(t), Next
    PROVE  Index!Next \/ UNCHANGED <<clock, Lines>>
  <1>a. TypeOK /\ Workers \subseteq Threads
    BY DEF Base, Threads
  <1>1. CASE index' = index
    <2>1. Lines' = Lines
      BY <1>1 DEF Lines
    <2>2. CASE Tick
      BY <2>1, <2>2 DEF Tick, Index!Next, Index!Tick
    <2> QED BY <2>1, <2>2, ClockEffect
  <1>2. ASSUME NEW t \in Threads, Rename(t) PROVE Index!Next
    <2>1. clock' = clock
      BY <1>2 DEF Rename
    <2>2. CASE call[t] = "cleanup"
      <3>1. \A e \in Lines : e \in Line
        BY <1>a DEF Lines, TypeOK
      <3>2. \A e \in Lines : ~ShouldRemove(t, e) <=> e.expires > now[t]
        BY <1>a, <2>2, <3>1 DEF ShouldRemove, Line, TypeOK
      <3>3. Index!Keep({e \in Lines : e.expires > now[t]})
        BY <1>2, <3>2, RenameLines, ConstantsAssumption DEF Index!Keep
      <3>4. now[t] \in 0..clock
        BY <1>2, <1>a DEF Rename, TempKnown, Copied, TypeOK
      <3> QED BY <2>1, <3>3, <3>4 DEF Index!Next, Index!Cleanup
    <2>3. CASE call[t] # "cleanup"
      <3>1. Index!Keep({e \in Lines : e.key # key[t]})
        BY <1>2, <2>3, RenameLines, ConstantsAssumption DEF Index!Keep, ShouldRemove
      <3>2. key[t] \in Keys
        BY <1>2, <2>3, BaseKnown DEF Rename, KeyKnown
      <3> QED BY <2>1, <3>1, <3>2 DEF Index!Next, Index!Delete
    <2> QED BY <2>2, <2>3
  <1>3. ASSUME NEW w \in Workers, RegisterEntry(w) PROVE Index!Next
    <2> DEFINE n == expires[w] - TTL
               rest == {Rest[key[w]][j] : j \in DOMAIN Rest[key[w]]}
    <2>1. clock' = clock /\ key[w] \in Keys
      BY <1>3, Registers DEF RegisterEntry
    <2>2. Lines' = Lines \union {Entry(w)} \union rest
      <3>1. ASSUME NEW e \in Lines' PROVE e \in Lines \union {Entry(w)} \union rest
        <4>1. PICK i \in DOMAIN index' : e = index'[i]
          BY <3>1 DEF Lines
        <4> QED BY <1>3, <4>1, Registers DEF Lines
      <3>2. ASSUME NEW e \in Lines PROVE e \in Lines'
        <4>1. PICK i \in DOMAIN index : e = index[i]
          BY <3>2 DEF Lines
        <4> QED BY <1>3, <4>1, Registers DEF Lines
      <3>3. Entry(w) \in Lines' /\ rest \subseteq Lines'
        BY <1>3, Registers DEF Lines
      <3> QED BY <3>1, <3>2, <3>3
    <2>3. n \in 0..clock /\ n + TTL = expires[w]
      <3>1. w \in Threads /\ Stamped(w) /\ pc[w] = "register"
        BY <1>a, <1>3 DEF RegisterEntry
      <3>2. expires[w] >= TTL /\ expires[w] <= clock + TTL
        BY <3>1 DEF Stamped
      <3>3. expires[w] \in Int /\ clock \in Nat /\ TTL \in Nat
        BY <1>a, <3>1, ConstantsAssumption DEF TypeOK
      <3> QED BY <3>2, <3>3
    <2> HIDE DEF n
    <2>4. Entry(w) = [key |-> KeyRead[key[w]], path |-> FilePath[key[w]],
                      expires |-> n + TTL]
      BY <2>3 DEF Entry, Path
    <2>5. Index!Add(key[w], n)
      BY <2>1, <2>2, <2>4 DEF Index!Add
    <2> QED BY <2>1, <2>3, <2>5 DEF Index!Next
  <1> QED BY <1>1, <1>2, <1>3, IndexEffect

\* The index changes as one whole call after the other, whatever interleaving,
\* failure or crash happens in the middle of a rewrite.
THEOREM IndexIsAtomic == Spec => IndexAtomic
  <1>1. Init => Index!Init
    BY DEF Init, Index!Init, Lines
  <1>2. Base /\ TempKnown /\ (\A t \in Threads : Stamped(t)) /\ [Next]_vars
            => [Index!Next]_<<clock, Lines>>
    BY IndexStep DEF vars, Lines
  <1> QED BY BaseInvariant, TempInvariant, StampedInvariant, <1>1, <1>2, PTL
          DEF Spec, IndexAtomic, Index!Spec
==============================================================================
