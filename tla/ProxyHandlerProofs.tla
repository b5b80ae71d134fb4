-------------------------- MODULE ProxyHandlerProofs --------------------------
(***************************************************************************)
(* Theorems about ProxyHandler, for any number of clients, connections,    *)
(* requests, failures and parts of a response.                             *)
(***************************************************************************)
EXTENDS ProxyHandler, FiniteSetTheorems, SequenceTheorems, TLAPS

\* The places before the cache is asked, between it and the server's answer, and
\* from that answer on.
Before   == {"idle", "start", "recv", "unsupported", "tunnel", "options", "pick",
             "decide"}
Waiting  == {"connect", "send", "backend"}
Answered == {"relay", "after", "invalidate"}

\* What has been counted and sent at each place.
Counted(t) ==
    /\ pc[t] \in Before => got[t] = 0 /\ buffered[t] = 0 /\ sent[t] = <<>>
    /\ pc[t] = "serve" => got[t] = Len(sent[t]) /\ buffered[t] = 0
    /\ pc[t] \in Waiting => got[t] = 0 /\ buffered[t] = 0
    /\ pc[t] \in Answered => buffered[t] <= got[t]

\* What every other invariant rests on.
Base == TypeOK /\ \A t \in Clients : Counted(t)

\* The initial state.
LEMMA BaseInit == Init => Base
  <1> SUFFICES ASSUME Init PROVE Base
    OBVIOUS
  <1>1. NoEntry \in Entry
    BY ProxyAssumption DEF NoEntry, Entry
  <1>2. NoRequest \in Request
    BY DEF NoRequest, Request, Methods, Cached, Modifies
  <1>3. \A S : <<>> \in Seq(S)
    BY EmptySeq
  <1>4. TypeOK
    BY <1>1, <1>2, <1>3, ProxyAssumption DEF Init, TypeOK, Places
  <1>5. \A t \in Clients : Counted(t)
    BY DEF Init, Counted, Before, Waiting, Answered
  <1> QED BY <1>4, <1>5 DEF Base

\* The end of a thread keeps the types of what it touches.
LEMMA ReturnType ==
    ASSUME Base, NEW t \in Clients, NEW r, Return(t, r),
           accepts' \in Nat, writes' \in Nat, setting' = setting,
           cache' \in [Cached -> Entry], invalidated' \in [Cached -> Nat],
           overtaken' \in [Clients -> BOOLEAN]
    PROVE  Base'
  <1>1. NoEntry \in Entry
    BY ProxyAssumption DEF NoEntry, Entry
  <1>2. NoRequest \in Request
    BY DEF NoRequest, Request, Methods, Cached, Modifies
  <1>3. \A S : <<>> \in Seq(S)
    BY EmptySeq
  <1>a. 0 \in 0..NParts /\ "idle" \in Places
    BY ProxyAssumption DEF Places
  <1>b. held' \in [Clients -> SUBSET Resources]
    BY DEF Base, TypeOK, Return
  <1>4. TypeOK'
    BY <1>1, <1>2, <1>3, <1>a, <1>b DEF Base, TypeOK, Return, Goto
  <1>5. \A u \in Clients : Counted(u)'
    BY DEF Base, TypeOK, Counted, Return, Goto, Before, Waiting, Answered
  <1> QED BY <1>4, <1>5 DEF Base

\* A close keeps the types.
LEMMA CloseType ==
    ASSUME Base, NEW t \in Clients, NEW r, Close(t, r), setting' = setting
    PROVE  Base'
  <1>1. /\ accepts' \in Nat /\ writes' \in Nat
        /\ cache' \in [Cached -> Entry] /\ invalidated' \in [Cached -> Nat]
        /\ overtaken' \in [Clients -> BOOLEAN]
    BY DEF Base, TypeOK, Close, shared
  <1> QED BY <1>1, ReturnType DEF Close

\* Every step keeps the types: from the accept to the parsed request.
LEMMA BeginType ==
    ASSUME Base, NEW t \in Clients, Begin(t), setting' = setting
    PROVE  Base'
  <1> USE DEF flags, reading, shared, outside, thread, Goto, Acquire
  <1>1. CASE Accept(t)
    <2>1. TypeOK'
      BY <1>1 DEF Base, TypeOK, Accept, Places, Resources
    <2>2. \A u \in Clients : Counted(u)'
      BY <1>1 DEF Base, TypeOK, Accept, Counted, Before, Waiting, Answered
    <2> QED BY <2>1, <2>2 DEF Base
  <1>2. CASE StartThread(t)
    <2>1. TypeOK'
      BY <1>2 DEF Base, TypeOK, StartThread, Places
    <2>2. \A u \in Clients : Counted(u)'
      BY <1>2 DEF Base, TypeOK, StartThread, Counted, Before, Waiting, Answered
    <2> QED BY <2>1, <2>2 DEF Base
  <1>3. CASE \E r \in setting.requests : Receive(t, r)
    <2>1. PICK r \in setting.requests : Receive(t, r)
      BY <1>3
    <2>2. r \in Request
      BY ProxyAssumption DEF Base, TypeOK
    <2>3. TypeOK'
      BY <2>1, <2>2 DEF Base, TypeOK, Receive, Places, Resources
    <2>4. \A u \in Clients : Counted(u)'
      BY <2>1 DEF Base, TypeOK, Receive, Counted, Before, Waiting, Answered
    <2> QED BY <2>3, <2>4 DEF Base
  <1>4. CASE OptionsForwarded(t)
    <2>1. TypeOK'
      BY <1>4 DEF Base, TypeOK, OptionsForwarded, Places, Resources
    <2>2. \A u \in Clients : Counted(u)'
      BY <1>4 DEF Base, TypeOK, OptionsForwarded, Counted, Before, Waiting, Answered
    <2> QED BY <2>1, <2>2 DEF Base
  <1>5. CASE Pick(t)
    <2>1. TypeOK'
      BY <1>5 DEF Base, TypeOK, Pick, Places
    <2>2. \A u \in Clients : Counted(u)'
      BY <1>5 DEF Base, TypeOK, Pick, Counted, Before, Waiting, Answered
    <2> QED BY <2>1, <2>2 DEF Base
  <1>6. CASE \E r : Close(t, r)
    BY <1>6, CloseType
  <1>7. CASE \/ StartError(t) \/ RecvNothing(t) \/ BadRequest(t) \/ Unsupported(t)
             \/ Tunnel(t) \/ OptionsAnswered(t) \/ PickNone(t)
    BY <1>7, <1>6 DEF StartError, RecvNothing, BadRequest, Unsupported, Tunnel,
                      OptionsAnswered, PickNone
  <1> QED BY <1>1, <1>2, <1>3, <1>4, <1>5, <1>7 DEF Begin

\* Going on to the server keeps the types.
LEMMA ContinueType ==
    ASSUME Base, NEW t \in Clients, NEW mayCache \in BOOLEAN,
           NEW mayInvalidate \in BOOLEAN, Continue(t, mayCache, mayInvalidate),
           pc[t] \in {"decide", "serve"},
           UNCHANGED <<sent, accepts, writes, invalidated, overtaken, setting>>,
           cache' \in [Cached -> Entry],
           gone' \in [Clients -> {"here", "left", "reset"}]
    PROVE  Base'
  <1>1. NoEntry \in Entry
    BY ProxyAssumption DEF NoEntry, Entry
  <1>a. 0 \in 0..NParts /\ "connect" \in Places
    BY ProxyAssumption DEF Places, Fetching
  <1>2. TypeOK'
    BY <1>1, <1>a DEF Base, TypeOK, Continue, Goto
  <1>3. \A u \in Clients : Counted(u)'
    BY DEF Base, TypeOK, Counted, Continue, Goto, Before, Waiting, Answered
  <1> QED BY <1>2, <1>3 DEF Base

\* Every step keeps the types: the decision whether to look in the cache.
LEMMA LookupType ==
    ASSUME Base, NEW t \in Clients, Lookup(t), setting' = setting
    PROVE  Base'
  <1> USE DEF flags, reading, shared, outside, thread, Goto, Acquire
  <1>e. NoEntry \in Entry
    BY ProxyAssumption DEF NoEntry, Entry
  <1>1. CASE \/ PassBy(t) \/ LookupError(t) \/ LookupMiss(t) \/ ServeError(t)
    <2>1. \E a, b \in BOOLEAN : Continue(t, a, b)
      <3>1. CASE PassBy(t)
        <4> DEFINE b == Method(t) \in {"PUT", "DELETE"}
        <4>1. Continue(t, FALSE, b)
          BY <3>1 DEF PassBy
        <4>2. b \in BOOLEAN
          OBVIOUS
        <4> HIDE DEF b
        <4> QED BY <4>1, <4>2
      <3>2. CASE LookupError(t)
        BY <3>2 DEF LookupError
      <3>3. CASE LookupMiss(t)
        BY <3>3 DEF LookupMiss
      <3>4. CASE ServeError(t)
        BY <3>4 DEF ServeError
      <3> QED BY <1>1, <3>1, <3>2, <3>3, <3>4
    <2>5. pc[t] \in {"decide", "serve"}
      BY <1>1 DEF PassBy, LookupError, LookupMiss, ServeError, MayLookup
    <2>2. UNCHANGED <<sent, accepts, writes, invalidated, overtaken, setting>>
      BY <1>1 DEF PassBy, LookupError, LookupMiss, ServeError
    <2>3. cache' \in [Cached -> Entry]
      BY <1>1, <1>e DEF PassBy, LookupError, LookupMiss, ServeError, Base, TypeOK
    <2>4. gone' \in [Clients -> {"here", "left", "reset"}]
      BY <1>1 DEF PassBy, LookupError, LookupMiss, ServeError, SendFails, Base,
         TypeOK
    <2> QED BY <2>1, <2>2, <2>3, <2>4, <2>5, ContinueType
  <1>2. CASE LookupHit(t)
    <2>1. Method(t) \in Cached
      BY <1>2 DEF LookupHit, MayLookup, IsCacheable, Method
    <2>2. TypeOK'
      BY <1>2, <2>1 DEF Base, TypeOK, LookupHit, MayLookup, Places
    <2>3. Len(<<>>) = 0
      OBVIOUS
    <2>4. \A u \in Clients : Counted(u)'
      BY <1>2, <2>3 DEF Base, TypeOK, LookupHit, MayLookup, Counted, Before,
                        Waiting, Answered
    <2> QED BY <2>2, <2>4 DEF Base
  <1>3. CASE ServePart(t)
    <2>1. got[t] + 1 \in 0..NParts
      BY <1>3, ProxyAssumption DEF Base, TypeOK, ServePart, Entry
    <2>2. /\ Append(sent[t], "cache") \in Seq({"cache", "backend"})
          /\ Len(Append(sent[t], "cache")) = Len(sent[t]) + 1
      BY AppendProperties DEF Base, TypeOK
    <2>3. TypeOK'
      BY <1>3, <2>1, <2>2 DEF Base, TypeOK, ServePart, Send
    <2>4. \A u \in Clients : Counted(u)'
      BY <1>3, <2>2 DEF Base, TypeOK, ServePart, Send, Counted, Before, Waiting,
                        Answered
    <2> QED BY <2>3, <2>4 DEF Base
  <1>4. CASE ServeEnd(t) \/ ServeCut(t)
    BY <1>4, CloseType DEF ServeEnd, ServeCut
  <1> QED BY <1>1, <1>2, <1>3, <1>4 DEF Lookup

\* Every step keeps the types: the exchange with the server.
LEMMA ExchangeType ==
    ASSUME Base, NEW t \in Clients, Exchange(t), setting' = setting
    PROVE  Base'
  <1> USE DEF flags, reading, shared, outside, thread, Goto, Acquire
  <1>1. CASE ConnectBackend(t)
    <2>1. TypeOK'
      BY <1>1 DEF Base, TypeOK, ConnectBackend, Places, Fetching, Resources
    <2>2. \A u \in Clients : Counted(u)'
      BY <1>1 DEF Base, TypeOK, ConnectBackend, Counted, Before, Waiting, Answered
    <2> QED BY <2>1, <2>2 DEF Base
  <1>2. CASE SendRequest(t)
    <2>1. TypeOK'
      BY <1>2 DEF Base, TypeOK, SendRequest, Places, Fetching
    <2>2. \A u \in Clients : Counted(u)'
      BY <1>2 DEF Base, TypeOK, SendRequest, Counted, Before, Waiting, Answered
    <2> QED BY <2>1, <2>2 DEF Base
  <1>3. CASE BackendAnswers(t)
    <2>1. PICK status \in {"ok", "error"}, changed \in BOOLEAN,
               parts \in IF MayFail("backend") THEN 0..NParts ELSE {NParts} :
            /\ writes' = IF changed THEN writes + 1 ELSE writes
            /\ reply' = [reply EXCEPT ![t] =
                  [at |-> writes', parts |-> parts, status |-> status,
                   public |-> request[t].public, overtaken |-> FALSE]]
      BY <1>3 DEF BackendAnswers
    <2>6. parts \in 0..NParts
      BY ProxyAssumption
    <2>2. writes' \in Nat /\ request[t].public \in BOOLEAN
      BY <2>1 DEF Base, TypeOK, Request
    <2>3. [at |-> writes', parts |-> parts, status |-> status,
           public |-> request[t].public, overtaken |-> FALSE] \in Entry
      BY <2>2, <2>6 DEF Entry
    <2>4. TypeOK'
      BY <1>3, <2>1, <2>2, <2>3 DEF Base, TypeOK, BackendAnswers, Places, Fetching
    <2>5. \A u \in Clients : Counted(u)'
      BY <1>3 DEF Base, TypeOK, BackendAnswers, Counted, Before, Waiting, Answered
    <2> QED BY <2>4, <2>5 DEF Base
  <1>4. CASE RelayPart(t)
    <2>1. buffered[t] + 1 \in 0..NParts /\ got[t] + 1 \in 0..NParts
      <3>1. /\ NParts \in Nat /\ reply[t] \in Entry
            /\ got[t] \in 0..NParts /\ buffered[t] \in 0..NParts
        BY ProxyAssumption DEF Base, TypeOK
      <3>2. got[t] < reply[t].parts /\ buffered[t] <= got[t]
        BY <1>4 DEF Base, RelayPart, Counted, Answered
      <3>3. reply[t].parts \in 0..NParts
        BY <3>1 DEF Entry
      <3> QED BY <3>1, <3>2, <3>3
    <2>2. Append(sent[t], "backend") \in Seq({"cache", "backend"})
      BY AppendProperties DEF Base, TypeOK
    <2>3. buffered' \in [Clients -> 0..NParts] /\ held' \in [Clients -> SUBSET Resources]
      <3>1. CASE shouldCache[t]
        <4>1. /\ buffered' = [buffered EXCEPT ![t] = @ + 1]
              /\ held' = [held EXCEPT ![t] = @ \union {"response"}]
          BY <1>4, <3>1 DEF RelayPart
        <4>2. /\ buffered \in [Clients -> 0..NParts]
              /\ held \in [Clients -> SUBSET Resources]
          BY DEF Base, TypeOK
        <4>3. {"response"} \subseteq Resources
          BY DEF Resources
        <4>4. buffered' \in [Clients -> 0..NParts]
          BY <2>1, <4>1, <4>2
        <4>5. held' \in [Clients -> SUBSET Resources]
          BY <4>1, <4>2, <4>3
        <4> QED BY <4>4, <4>5
      <3>2. CASE ~shouldCache[t]
        BY <1>4, <3>2 DEF Base, TypeOK, RelayPart
      <3> QED BY <3>1, <3>2
    <2>4. TypeOK'
      BY <1>4, <2>1, <2>2, <2>3 DEF Base, TypeOK, RelayPart, Send
    <2>5. \A u \in Clients : Counted(u)'
      BY <1>4 DEF Base, TypeOK, RelayPart, Send, Counted, Before, Waiting, Answered
    <2> QED BY <2>4, <2>5 DEF Base
  <1>5. CASE RelayError(t)
    <2>1. TypeOK'
      BY <1>5 DEF Base, TypeOK, RelayError, SendFails, Places, Fetching
    <2>2. \A u \in Clients : Counted(u)'
      BY <1>5 DEF Base, TypeOK, RelayError, SendFails, Counted, Before, Waiting,
                  Answered
    <2> QED BY <2>1, <2>2 DEF Base
  <1>6. CASE RelayEnd(t)
    <2>1. TypeOK'
      BY <1>6 DEF Base, TypeOK, RelayEnd, Places, Fetching
    <2>2. \A u \in Clients : Counted(u)'
      BY <1>6 DEF Base, TypeOK, RelayEnd, Counted, Before, Waiting, Answered
    <2> QED BY <2>1, <2>2 DEF Base
  <1>7. CASE ConnectError(t) \/ SendRequestError(t) \/ RecvError(t)
    BY <1>7, CloseType DEF ConnectError, SendRequestError, RecvError
  <1> QED BY <1>1, <1>2, <1>3, <1>4, <1>5, <1>6, <1>7 DEF Exchange

\* What cache_delete leaves.
LEMMA DeleteType ==
    ASSUME Base, NEW t \in Clients, NEW m \in Cached, Delete(t, m) \/ DeleteFails(t)
    PROVE  /\ cache' \in [Cached -> Entry] /\ invalidated' \in [Cached -> Nat]
           /\ overtaken' \in [Clients -> BOOLEAN]
  <1>1. NoEntry \in Entry
    BY ProxyAssumption DEF NoEntry, Entry
  <1>2. reply[t].at \in Nat \union {-1}
    BY DEF Base, TypeOK, Entry
  <1>3. CASE Delete(t, m)
    <2>1. cache' \in [Cached -> Entry]
      BY <1>1, <1>3 DEF Delete, Base, TypeOK
    <2>2. invalidated' \in [Cached -> Nat]
      BY <1>2, <1>3 DEF Delete, Base, TypeOK
    <2>3. overtaken' \in [Clients -> BOOLEAN]
      <3>1. \A u \in Clients :
               (overtaken[u] \/ (pc[u] \in Fetching /\ Method(u) = m)) \in BOOLEAN
        OBVIOUS
      <3> QED BY <1>3, <3>1 DEF Delete
    <2> QED BY <2>1, <2>2, <2>3
  <1>4. CASE DeleteFails(t)
    BY <1>4 DEF DeleteFails, shared, Base, TypeOK
  <1> QED BY <1>3, <1>4

\* Every step keeps the types: after the response, and what the cache does.
LEMMA EndType ==
    ASSUME Base, NEW t \in Clients, End(t), setting' = setting
    PROVE  Base'
  <1> USE DEF flags, reading, shared, outside, thread, Goto
  <1>e. NoEntry \in Entry
    BY ProxyAssumption DEF NoEntry, Entry
  <1>1. CASE InvalidateGet(t)
    <2>1. /\ cache' \in [Cached -> Entry] /\ invalidated' \in [Cached -> Nat]
          /\ overtaken' \in [Clients -> BOOLEAN]
      BY <1>1, DeleteType DEF InvalidateGet, Cached
    <2>2. TypeOK'
      BY <1>1, <2>1 DEF Base, TypeOK, InvalidateGet, Places
    <2>3. \A u \in Clients : Counted(u)'
      BY <1>1 DEF Base, TypeOK, InvalidateGet, Counted, Before, Waiting, Answered
    <2> QED BY <2>2, <2>3 DEF Base
  <1>2. CASE InvalidateHead(t)
    <2>1. /\ cache' \in [Cached -> Entry] /\ invalidated' \in [Cached -> Nat]
          /\ overtaken' \in [Clients -> BOOLEAN]
      BY <1>2, DeleteType DEF InvalidateHead, Cached
    <2>2. accepts' \in Nat /\ writes' \in Nat
      BY <1>2 DEF InvalidateHead, Base, TypeOK
    <2> QED BY <1>2, <2>1, <2>2, ReturnType DEF InvalidateHead
  <1>3. CASE Save(t) \/ SaveError(t)
    <2>1. buffered[t] \in 0..NParts /\ NParts \in Nat
      BY ProxyAssumption DEF Base, TypeOK
    <2> DEFINE stored(parts) ==
                  [reply[t] EXCEPT !.parts = parts, !.overtaken = overtaken[t]]
    <2>2. ASSUME NEW parts \in 0..buffered[t] PROVE stored(parts) \in Entry
      <3>1. parts \in 0..NParts
        BY <2>1
      <3>2. reply[t] \in Entry /\ overtaken[t] \in BOOLEAN
        BY DEF Base, TypeOK
      <3> QED BY <3>1, <3>2 DEF Entry
    <2> HIDE DEF stored
    <2>3. \A e \in Entry : [cache EXCEPT ![Method(t)] = e] \in [Cached -> Entry]
      BY DEF Base, TypeOK
    <2>4. cache' \in [Cached -> Entry]
      <3>1. CASE Save(t)
        <4>1. cache' = [cache EXCEPT ![Method(t)] = stored(buffered[t])]
          BY <3>1 DEF Save, stored
        <4>2. stored(buffered[t]) \in Entry
          BY <2>1, <2>2
        <4> QED BY <4>1, <4>2, <2>3
      <3>2. CASE SaveError(t)
        <4>1. \/ cache' = [cache EXCEPT ![Method(t)] = NoEntry]
              \/ cache' = cache
              \/ \E parts \in 0..(buffered[t] - 1) :
                    cache' = [cache EXCEPT ![Method(t)] = stored(parts)]
          BY <3>2 DEF SaveError, stored
        <4>2. \A parts \in 0..(buffered[t] - 1) : stored(parts) \in Entry
          BY <2>1, <2>2
        <4>3. cache \in [Cached -> Entry]
          BY DEF Base, TypeOK
        <4> QED BY <4>1, <4>2, <4>3, <2>3, <1>e
      <3> QED BY <1>3, <3>1, <3>2
    <2>5. /\ accepts' \in Nat /\ writes' \in Nat
          /\ invalidated' \in [Cached -> Nat] /\ overtaken' \in [Clients -> BOOLEAN]
      BY <1>3 DEF Save, SaveError, Base, TypeOK
    <2> QED BY <1>3, <2>4, <2>5, ReturnType DEF Save, SaveError
  <1>4. CASE Finish(t)
    BY <1>4, CloseType DEF Finish
  <1> QED BY <1>1, <1>2, <1>3, <1>4 DEF End

\* Every step keeps Base.
LEMMA BaseStep == Base /\ [Next]_vars => Base'
  <1> SUFFICES ASSUME Base, [Next]_vars PROVE Base'
    OBVIOUS
  <1>1. ASSUME NEW t \in Clients, Leave(t), setting' = setting PROVE Base'
    <2>1. TypeOK'
      BY <1>1 DEF Leave, Base, TypeOK, thread, flags, reading, shared
    <2>2. \A u \in Clients : Counted(u)'
      BY <1>1 DEF Leave, Base, TypeOK, thread, flags, reading, Counted, Before,
                  Waiting, Answered
    <2> QED BY <2>1, <2>2 DEF Base
  <1>2. ASSUME NEW m \in Cached, Expire(m), setting' = setting PROVE Base'
    <2>1. NoEntry \in Entry
      BY ProxyAssumption DEF NoEntry, Entry
    <2>2. TypeOK'
      BY <1>2, <2>1 DEF Expire, Base, TypeOK, thread, flags, reading, outside
    <2>3. \A u \in Clients : Counted(u)'
      BY <1>2 DEF Expire, Base, TypeOK, thread, flags, reading, Counted, Before,
                  Waiting, Answered
    <2> QED BY <2>2, <2>3 DEF Base
  <1>3. CASE UNCHANGED vars
    BY <1>3 DEF vars, Base, TypeOK, Counted
  <1> QED BY <1>1, <1>2, <1>3, BeginType, LookupType, ExchangeType, EndType DEF Next

\* Every variable has its type, and the counters agree with the place.
LEMMA BaseHolds == Spec => []Base
  BY BaseInit, BaseStep, PTL DEF Spec

\* Types: whatever clients, servers, disk and system do, no thread counts beyond
\* the parts of the response it reads, none buffers more than it has read, and
\* what is stored has the form that a lookup expects.
THEOREM TypeCorrect == Spec => []TypeOK
  <1>1. Base => TypeOK
    BY DEF Base
  <1> QED BY <1>1, BaseHolds, PTL
------------------------------------------------------------------------------
(***************************************************************************)
(* What a thread holds.                                                    *)
(***************************************************************************)
\* No more than each return from the place gives back.
Holds(t) ==
    /\ pc[t] = "idle" => held[t] = {}
    /\ pc[t] \in {"start", "recv"} => held[t] \subseteq Early
    /\ pc[t] \in {"unsupported", "tunnel", "options"} =>
          held[t] \subseteq Early \union {"request"}
    /\ pc[t] \in {"pick", "decide", "serve", "connect"} => held[t] \subseteq Middle
    /\ pc[t] \in {"send", "backend"} => held[t] \subseteq Late
    /\ pc[t] \in Answered => held[t] \subseteq Late \union {"response"}

\* A return that gives back all of it.
LEMMA ReturnHolds ==
    ASSUME Base, \A u \in Clients : Holds(u),
           NEW t \in Clients, NEW r, Return(t, r), held[t] \subseteq r
    PROVE  \A u \in Clients : Holds(u)'
  BY DEF Base, TypeOK, Return, Goto, Holds, Answered

\* Of the other threads nothing changes; so the place of t and what it holds decide.
LEMMA MoveHolds ==
    ASSUME Base, \A u \in Clients : Holds(u), NEW t \in Clients,
           \A u \in Clients \ {t} : pc'[u] = pc[u] /\ held'[u] = held[u],
           Holds(t)'
    PROVE  \A u \in Clients : Holds(u)'
  <1>1. \A u \in Clients \ {t} : Holds(u)'
    BY DEF Holds
  <1> QED BY <1>1

\* No step leaves a thread with less or more than it holds at its next place.
LEMMA HoldsStep ==
    ASSUME Base, \A u \in Clients : Holds(u), [Next]_vars
    PROVE  \A u \in Clients : Holds(u)'
  <1> USE DEF flags, reading, shared, outside, thread, Goto, Acquire, Answered
  <1>1. ASSUME NEW t \in Clients, Begin(t) PROVE \A u \in Clients : Holds(u)'
    <2>1. CASE Accept(t) \/ StartThread(t) \/ OptionsForwarded(t) \/ Pick(t)
      <3>1. \A u \in Clients \ {t} : pc'[u] = pc[u] /\ held'[u] = held[u]
        BY <2>1 DEF Base, TypeOK, Accept, StartThread, OptionsForwarded, Pick
      <3>2. /\ pc'[t] \in {"start", "recv", "pick", "decide"}
            /\ pc'[t] \in {"start", "recv"} => held'[t] \subseteq Early
            /\ held'[t] \subseteq Middle
        BY <2>1 DEF Base, TypeOK, Accept, StartThread, OptionsForwarded, Pick,
                    Holds, Early, Middle
      <3>3. Holds(t)'
        BY <3>2 DEF Holds
      <3> QED BY <3>1, <3>3, MoveHolds
    <2>2. CASE \E r \in setting.requests : Receive(t, r)
      BY <2>2 DEF Base, TypeOK, Receive, Holds, Early, Middle
    <2>3. CASE \/ StartError(t) \/ RecvNothing(t) \/ BadRequest(t) \/ Unsupported(t)
               \/ Tunnel(t) \/ OptionsAnswered(t) \/ PickNone(t)
      <3>1. \E r : Return(t, r) /\ held[t] \subseteq r
        BY <2>3 DEF StartError, RecvNothing, BadRequest, Unsupported, Tunnel,
                    OptionsAnswered, PickNone, Close, Holds, Early, Middle
      <3> QED BY <3>1, ReturnHolds
    <2> QED BY <1>1, <2>1, <2>2, <2>3 DEF Begin
  <1>2. ASSUME NEW t \in Clients, Lookup(t) PROVE \A u \in Clients : Holds(u)'
    <2>1. CASE \/ PassBy(t) \/ LookupError(t) \/ LookupMiss(t) \/ LookupHit(t)
               \/ ServePart(t) \/ ServeError(t)
      <3>1. \A u \in Clients \ {t} : pc'[u] = pc[u] /\ held'[u] = held[u]
        BY <2>1 DEF Base, TypeOK, PassBy, LookupError, LookupMiss, LookupHit,
                    ServePart, ServeError, Continue
      <3>2. pc'[t] \in {"connect", "serve"} /\ held'[t] \subseteq Middle
        BY <2>1 DEF Base, TypeOK, PassBy, LookupError, LookupMiss, LookupHit,
                    ServePart, ServeError, MayLookup, Continue, Holds
      <3>3. Holds(t)'
        BY <3>2 DEF Holds
      <3> QED BY <3>1, <3>3, MoveHolds
    <2>2. CASE ServeEnd(t) \/ ServeCut(t)
      <3>1. Return(t, Middle) /\ held[t] \subseteq Middle
        BY <2>2 DEF ServeEnd, ServeCut, Close, Holds
      <3> QED BY <3>1, ReturnHolds
    <2> QED BY <1>2, <2>1, <2>2 DEF Lookup
  <1>3. ASSUME NEW t \in Clients, Exchange(t) PROVE \A u \in Clients : Holds(u)'
    <2>1. CASE \/ ConnectBackend(t) \/ SendRequest(t) \/ BackendAnswers(t)
               \/ RelayError(t) \/ RelayEnd(t)
      <3>1. \A u \in Clients \ {t} : pc'[u] = pc[u] /\ held'[u] = held[u]
        BY <2>1 DEF Base, TypeOK, ConnectBackend, SendRequest, BackendAnswers,
                    RelayError, RelayEnd
      <3>2. /\ pc'[t] \in {"send", "backend", "relay", "after"}
            /\ pc'[t] \in {"send", "backend"} => held'[t] \subseteq Late
            /\ held'[t] \subseteq Late \union {"response"}
        BY <2>1 DEF Base, TypeOK, ConnectBackend, SendRequest, BackendAnswers,
                    RelayError, RelayEnd, Holds, Late
      <3>3. Holds(t)'
        BY <3>2 DEF Holds
      <3> QED BY <3>1, <3>3, MoveHolds
    <2>2. CASE RelayPart(t)
      <3>1. \/ held' = held
            \/ held' = [held EXCEPT ![t] = @ \union {"response"}]
        BY <2>2 DEF RelayPart
      <3>2. \A u \in Clients \ {t} : pc'[u] = pc[u] /\ held'[u] = held[u]
        BY <2>2, <3>1 DEF Base, TypeOK, RelayPart
      <3>3. pc'[t] = "relay" /\ held[t] \subseteq Late \union {"response"}
        BY <2>2 DEF RelayPart, Holds
      <3>4. held'[t] \subseteq Late \union {"response"}
        BY <3>1, <3>3 DEF Base, TypeOK
      <3>5. Holds(t)'
        BY <3>3, <3>4 DEF Holds
      <3> QED BY <3>2, <3>5, MoveHolds
    <2>3. CASE ConnectError(t) \/ SendRequestError(t) \/ RecvError(t)
      <3>1. \E r : Return(t, r) /\ held[t] \subseteq r
        BY <2>3 DEF ConnectError, SendRequestError, RecvError, Close, Holds
      <3> QED BY <3>1, ReturnHolds
    <2> QED BY <1>3, <2>1, <2>2, <2>3 DEF Exchange
  <1>4. ASSUME NEW t \in Clients, End(t) PROVE \A u \in Clients : Holds(u)'
    <2>1. CASE InvalidateGet(t)
      BY <2>1 DEF Base, TypeOK, InvalidateGet, Holds
    <2>2. CASE InvalidateHead(t) \/ Save(t) \/ SaveError(t) \/ Finish(t)
      <3>1. /\ Return(t, Late \union {"response"})
            /\ held[t] \subseteq Late \union {"response"}
        BY <2>2 DEF InvalidateHead, Save, SaveError, Finish, Close, Holds
      <3> QED BY <3>1, ReturnHolds
    <2> QED BY <1>4, <2>1, <2>2 DEF End
  <1>5. ASSUME NEW t \in Clients, Leave(t) PROVE \A u \in Clients : Holds(u)'
    BY <1>5 DEF Leave, Holds
  <1>6. ASSUME NEW m \in Cached, Expire(m) PROVE \A u \in Clients : Holds(u)'
    BY <1>6 DEF Expire, Holds
  <1>7. CASE UNCHANGED vars
    BY <1>7 DEF vars, Holds
  <1> QED BY <1>1, <1>2, <1>3, <1>4, <1>5, <1>6, <1>7 DEF Next

\* However many clients there are and whatever fails, a thread that ends, by any
\* of the returns of manage_client or in the accept loop, has closed both sockets
\* and freed the request, the buffers and its arguments.
THEOREM NoThreadLeaks == Spec => []NothingLeaks
  <1> DEFINE HInv == \A t \in Clients : Holds(t)
  <1>1. Init => HInv
    BY DEF Init, Holds, Answered
  <1>2. Base /\ HInv /\ [Next]_vars => HInv'
    BY HoldsStep
  <1>3. HInv => NothingLeaks
    BY DEF Holds, NothingLeaks
  <1> HIDE DEF HInv
  <1> QED BY <1>1, <1>2, <1>3, BaseHolds, PTL DEF Spec
------------------------------------------------------------------------------
(***************************************************************************)
(* Whose response is stored, and who is served.                            *)
(***************************************************************************)
\* A thread that may store or serve a response has looked at its request.
Judged(t) ==
    /\ pc[t] \in Before => ~shouldCache[t]
    /\ pc[t] = "serve" \/ shouldCache[t] => IsCacheable(request[t])
    /\ pc[t] \in Answered => reply[t].public = request[t].public

StoredPublic == \A m \in Cached : cache[m].public

\* A thread that returns has judged nothing.
LEMMA ReturnJudged ==
    ASSUME Base, \A u \in Clients : Judged(u), NEW t \in Clients, NEW r, Return(t, r)
    PROVE  \A u \in Clients : Judged(u)'
  BY DEF Base, TypeOK, Return, Goto, Judged, Before, Answered

\* No step makes a thread cache what it has not found to be public.
LEMMA JudgedStep ==
    ASSUME Base, \A u \in Clients : Judged(u), [Next]_vars
    PROVE  \A u \in Clients : Judged(u)'
  <1> USE DEF flags, reading, shared, outside, thread, Goto, Acquire, Before, Answered
  <1>r. ASSUME NEW t \in Clients, \E r : Return(t, r)
        PROVE  \A u \in Clients : Judged(u)'
    BY <1>r, ReturnJudged
  <1>1. ASSUME NEW t \in Clients, Begin(t) PROVE \A u \in Clients : Judged(u)'
    <2>1. CASE Accept(t) \/ StartThread(t) \/ OptionsForwarded(t) \/ Pick(t)
      BY ZenonT(30), <2>1 DEF Base, TypeOK, Accept, StartThread, OptionsForwarded, Pick, Judged
    <2>2. CASE \E r \in setting.requests : Receive(t, r)
      BY <2>2 DEF Base, TypeOK, Receive, Judged
    <2>3. CASE \/ StartError(t) \/ RecvNothing(t) \/ BadRequest(t) \/ Unsupported(t)
               \/ Tunnel(t) \/ OptionsAnswered(t) \/ PickNone(t)
      BY <2>3, <1>r DEF StartError, RecvNothing, BadRequest, Unsupported, Tunnel,
                        OptionsAnswered, PickNone, Close
    <2> QED BY <1>1, <2>1, <2>2, <2>3 DEF Begin
  <1>2. ASSUME NEW t \in Clients, Lookup(t) PROVE \A u \in Clients : Judged(u)'
    <2>1. CASE PassBy(t) \/ LookupError(t) \/ LookupMiss(t) \/ ServeError(t)
      BY ZenonT(30), <2>1 DEF Base, TypeOK, PassBy, LookupError, LookupMiss, ServeError,
                  MayLookup, Continue, Judged
    <2>2. CASE LookupHit(t) \/ ServePart(t)
      BY <2>2 DEF Base, TypeOK, LookupHit, ServePart, MayLookup, Judged
    <2>3. CASE ServeEnd(t) \/ ServeCut(t)
      BY <2>3, <1>r DEF ServeEnd, ServeCut, Close
    <2> QED BY <1>2, <2>1, <2>2, <2>3 DEF Lookup
  <1>3. ASSUME NEW t \in Clients, Exchange(t) PROVE \A u \in Clients : Judged(u)'
    <2>1. CASE \/ ConnectBackend(t) \/ SendRequest(t) \/ RelayPart(t)
               \/ RelayError(t) \/ RelayEnd(t)
      BY <2>1 DEF Base, TypeOK, ConnectBackend, SendRequest, RelayPart, RelayError,
                  RelayEnd, Judged
    <2>2. CASE BackendAnswers(t)
      <3>1. /\ reply'[t].public = request[t].public
            /\ \A u \in Clients \ {t} : reply'[u] = reply[u]
        BY <2>2 DEF Base, TypeOK, BackendAnswers
      <3> QED BY <2>2, <3>1 DEF Base, TypeOK, BackendAnswers, Judged
    <2>3. CASE ConnectError(t) \/ SendRequestError(t) \/ RecvError(t)
      BY <2>3, <1>r DEF ConnectError, SendRequestError, RecvError, Close
    <2> QED BY <1>3, <2>1, <2>2, <2>3 DEF Exchange
  <1>4. ASSUME NEW t \in Clients, End(t) PROVE \A u \in Clients : Judged(u)'
    <2>1. CASE InvalidateGet(t)
      BY <2>1 DEF Base, TypeOK, InvalidateGet, Judged
    <2>2. CASE InvalidateHead(t) \/ Save(t) \/ SaveError(t) \/ Finish(t)
      BY <2>2, <1>r DEF InvalidateHead, Save, SaveError, Finish, Close
    <2> QED BY <1>4, <2>1, <2>2 DEF End
  <1>5. ASSUME NEW t \in Clients, Leave(t) PROVE \A u \in Clients : Judged(u)'
    BY <1>5 DEF Leave, Judged
  <1>6. ASSUME NEW m \in Cached, Expire(m) PROVE \A u \in Clients : Judged(u)'
    BY <1>6 DEF Expire, Judged
  <1>7. CASE UNCHANGED vars
    BY <1>7 DEF vars, Judged
  <1> QED BY <1>1, <1>2, <1>3, <1>4, <1>5, <1>6, <1>7 DEF Next

\* An entry changes by a delete, an expiry or a save of the thread's own reply.
Stores(t, m) ==
    /\ pc[t] = "after" /\ shouldCache[t] /\ m = Method(t)
    /\ \E parts \in Nat :
          cache'[m] = [reply[t] EXCEPT !.parts = parts, !.overtaken = overtaken[t]]

\* An entry stays, goes, or is made by a thread that stores it.
LEMMA CacheChanges ==
    ASSUME Base, [Next]_vars, NEW m \in Cached
    PROVE  \/ cache'[m] = cache[m]
           \/ cache'[m] = NoEntry
           \/ \E t \in Clients : Stores(t, m)
  <1> USE DEF flags, reading, shared, outside, thread
  <1>1. ASSUME NEW t \in Clients, Begin(t) \/ Leave(t) \/ Exchange(t)
        PROVE  cache' = cache
    BY <1>1 DEF Begin, Leave, Exchange, Accept, StartThread, StartError,
       RecvNothing,
                BadRequest, Unsupported, Receive, Tunnel, OptionsAnswered,
                OptionsForwarded, Pick, PickNone, ConnectBackend, ConnectError,
                SendRequest, SendRequestError, BackendAnswers, RelayPart, RelayError,
                RelayEnd, RecvError, Close
  <1>2. ASSUME NEW t \in Clients, Lookup(t)
        PROVE  cache'[m] = cache[m] \/ cache'[m] = NoEntry
    BY <1>2 DEF Base, TypeOK, Lookup, PassBy, LookupError, LookupMiss, LookupHit,
                ServePart, ServeEnd, ServeCut, ServeError, Close
  <1>3. ASSUME NEW n \in Cached, Expire(n)
        PROVE  cache'[m] = cache[m] \/ cache'[m] = NoEntry
    BY <1>3 DEF Base, TypeOK, Expire
  <1>4. ASSUME NEW t \in Clients, End(t)
        PROVE  cache'[m] = cache[m] \/ cache'[m] = NoEntry \/ Stores(t, m)
    <2>1. CASE InvalidateGet(t) \/ InvalidateHead(t) \/ Finish(t)
      BY <2>1 DEF Base, TypeOK, InvalidateGet, InvalidateHead, Finish, Close,
         Delete,
                  DeleteFails
    <2>2. CASE Save(t) \/ SaveError(t)
      <3>1. buffered[t] \in 0..NParts /\ NParts \in Nat
        BY ProxyAssumption DEF Base, TypeOK
      <3> DEFINE stored(parts) ==
                    [reply[t] EXCEPT !.parts = parts, !.overtaken = overtaken[t]]
      <3>2. \/ cache' = cache
            \/ cache' = [cache EXCEPT ![Method(t)] = NoEntry]
            \/ \E parts \in Nat : cache' = [cache EXCEPT ![Method(t)] = stored(parts)]
        <4>1. CASE Save(t)
          <5>1. cache' = [cache EXCEPT ![Method(t)] = stored(buffered[t])]
            BY <4>1 DEF Save
          <5> HIDE DEF stored
          <5>2. buffered[t] \in Nat
            BY <3>1
          <5> QED BY <5>1, <5>2
        <4>2. CASE SaveError(t)
          <5>1. \/ cache' = [cache EXCEPT ![Method(t)] = NoEntry]
                \/ cache' = cache
                \/ \E parts \in 0..(buffered[t] - 1) :
                      cache' = [cache EXCEPT ![Method(t)] = stored(parts)]
            BY <4>2 DEF SaveError
          <5> HIDE DEF stored
          <5>2. 0..(buffered[t] - 1) \subseteq Nat
            BY <3>1
          <5> QED BY <5>1, <5>2
        <4> QED BY <2>2, <4>1, <4>2
      <3>3. pc[t] = "after" /\ shouldCache[t]
        BY <2>2 DEF Save, SaveError, MustSave
      <3> HIDE DEF stored
      <3>4. CASE \E parts \in Nat : cache' = [cache EXCEPT ![Method(t)] = stored(parts)]
        <4>1. PICK parts \in Nat : cache' = [cache EXCEPT ![Method(t)] = stored(parts)]
          BY <3>4
        <4>2. CASE m = Method(t)
          <5>1. cache'[m] = stored(parts)
            BY <4>1, <4>2 DEF Base, TypeOK
          <5> QED BY <3>3, <4>2, <5>1 DEF Stores, stored
        <4>3. CASE m # Method(t)
          BY <4>1, <4>3 DEF Base, TypeOK
        <4> QED BY <4>2, <4>3
      <3>5. CASE ~\E parts \in Nat : cache' = [cache EXCEPT ![Method(t)] = stored(parts)]
        BY <3>2, <3>5 DEF Base, TypeOK
      <3> QED BY <3>4, <3>5
    <2> QED BY <1>4, <2>1, <2>2 DEF End
  <1>5. CASE UNCHANGED vars
    BY <1>5 DEF vars
  <1> QED BY <1>1, <1>2, <1>3, <1>4, <1>5 DEF Next

\* No step puts a private answer in the cache.
LEMMA PublicStep ==
    ASSUME Base, StoredPublic, \A u \in Clients : Judged(u), [Next]_vars
    PROVE  StoredPublic'
  <1> SUFFICES ASSUME NEW m \in Cached PROVE cache'[m].public
    BY DEF StoredPublic
  <1>1. CASE cache'[m] = cache[m]
    BY <1>1 DEF StoredPublic
  <1>2. CASE cache'[m] = NoEntry
    BY <1>2 DEF NoEntry
  <1>3. ASSUME NEW t \in Clients, Stores(t, m) PROVE cache'[m].public
    <2>1. PICK parts \in Nat :
             cache'[m] = [reply[t] EXCEPT !.parts = parts, !.overtaken = overtaken[t]]
      BY <1>3 DEF Stores
    <2>2. reply[t] \in Entry /\ reply[t].public
      BY <1>3 DEF Base, TypeOK, Stores, Judged, Answered, IsCacheable
    <2>3. cache'[m].public = reply[t].public
      BY <2>1, <2>2 DEF Entry
    <2> QED BY <2>2, <2>3
  <1> QED BY <1>1, <1>2, <1>3, CacheChanges

\* Every thread has judged its request, in every state.
Judging == \A t \in Clients : Judged(t)

\* manage_client.c decides on caching from the request and the response it has.
LEMMA JudgingHolds == Spec => []Judging
  <1>1. Init => Judging
    BY DEF Init, Judging, Judged, Before, Answered
  <1>2. Base /\ Judging /\ [Next]_vars => Judging'
    BY JudgedStep DEF Judging
  <1> QED BY <1>1, <1>2, BaseHolds, PTL DEF Spec

\* A request that carries credentials or forbids storing, and its response, stay
\* out of the cache: no thread stores the one or is served another's for it.
THEOREM PrivateStaysOut == Spec => []PrivateNotCached
  <1>1. Init => StoredPublic
    BY DEF Init, StoredPublic, NoEntry
  <1>2. Base /\ Judging /\ StoredPublic /\ [Next]_vars => StoredPublic'
    BY PublicStep DEF Judging
  <1>3. Judging /\ StoredPublic => PrivateNotCached
    BY DEF Judging, StoredPublic, Judged, IsCacheable, PrivateNotCached
  <1> QED BY <1>1, <1>2, <1>3, BaseHolds, JudgingHolds, PTL DEF Spec
------------------------------------------------------------------------------
(***************************************************************************)
(* Where the parts come from that the client was sent.                     *)
(***************************************************************************)
OnlyFrom(t, source) == \A i \in DOMAIN sent[t] : sent[t][i] = source

\* Until the server answers, only the cache has been sent; and if that ended
\* before its end, the client knows of no more, or the disk failed.
Sourced(t) ==
    /\ pc[t] = "serve" => OnlyFrom(t, "cache")
    /\ pc[t] \in Waiting =>
          /\ OnlyFrom(t, "cache")
          /\ sent[t] = <<>> \/ gone[t] = "reset" \/ MayFail("disk")
    /\ pc[t] \in Answered =>
          \/ OnlyFrom(t, "backend")
          \/ OnlyFrom(t, "cache") /\ gone[t] = "reset"
          \/ MayFail("disk")

\* A part more.
LEMMA SentMore ==
    ASSUME Base, NEW t \in Clients, NEW source \in {"cache", "backend"}, Send(t, source)
    PROVE  /\ DOMAIN sent[t] = 1..Len(sent[t]) /\ Len(sent[t]) \in Nat
           /\ DOMAIN sent'[t] = 1..(Len(sent[t]) + 1)
           /\ \A i \in 1..Len(sent[t]) : sent'[t][i] = sent[t][i]
           /\ sent'[t][Len(sent[t]) + 1] = source
           /\ \A u \in Clients \ {t} : sent'[u] = sent[u]
  <1>1. sent \in [Clients -> Seq({"cache", "backend"})]
    BY DEF Base, TypeOK
  <1>2. sent'[t] = Append(sent[t], source)
    BY <1>1 DEF Send
  <1>3. \A u \in Clients \ {t} : sent'[u] = sent[u]
    BY <1>1 DEF Send
  <1>4. sent[t] \in Seq({"cache", "backend"})
    BY <1>1
  <1>5. DOMAIN sent[t] = 1..Len(sent[t]) /\ Len(sent[t]) \in Nat
    BY <1>4, LenProperties
  <1>6. /\ Append(sent[t], source) \in Seq({"cache", "backend"})
        /\ Len(Append(sent[t], source)) = Len(sent[t]) + 1
        /\ \A i \in 1..Len(sent[t]) : Append(sent[t], source)[i] = sent[t][i]
        /\ Append(sent[t], source)[Len(sent[t]) + 1] = source
    BY <1>4, AppendProperties
  <1>7. DOMAIN Append(sent[t], source) = 1..(Len(sent[t]) + 1)
    BY <1>6, LenProperties
  <1> QED BY <1>2, <1>3, <1>5, <1>6, <1>7

\* A thread that returns has sent from one source.
LEMMA ReturnSourced ==
    ASSUME Base, \A u \in Clients : Sourced(u), setting' = setting,
           NEW t \in Clients, NEW r, Return(t, r)
    PROVE  \A u \in Clients : Sourced(u)'
  BY DEF Base, TypeOK, Return, Goto, Sourced, OnlyFrom, MayFail, Waiting, Answered

\* No step makes a thread send from a second source.
LEMMA SourcedStep ==
    ASSUME Base, \A u \in Clients : Sourced(u), [Next]_vars
    PROVE  \A u \in Clients : Sourced(u)'
  <1> USE DEF flags, reading, shared, outside, thread, Goto, Acquire, Waiting, Answered,
              MayFail
  <1>s. setting' = setting
    BY DEF Next, vars
  <1>r. ASSUME NEW t \in Clients, \E r : Return(t, r)
        PROVE  \A u \in Clients : Sourced(u)'
    BY <1>r, <1>s, ReturnSourced
  <1>1. ASSUME NEW t \in Clients, Begin(t) PROVE \A u \in Clients : Sourced(u)'
    <2>1. CASE Accept(t) \/ StartThread(t) \/ OptionsForwarded(t) \/ Pick(t)
      <3>1. UNCHANGED <<sent, gone>>
        BY <2>1 DEF Accept, StartThread, OptionsForwarded, Pick
      <3>2. \E place \in Before : Goto(t, place)
        BY <2>1 DEF Accept, StartThread, OptionsForwarded, Pick, Before
      <3> QED BY <3>1, <3>2, <1>s DEF Base, TypeOK, Sourced, OnlyFrom, Before
    <2>2. CASE \E r \in setting.requests : Receive(t, r)
      BY <2>2, <1>s DEF Base, TypeOK, Receive, Sourced, OnlyFrom
    <2>3. CASE \/ StartError(t) \/ RecvNothing(t) \/ BadRequest(t) \/ Unsupported(t)
               \/ Tunnel(t) \/ OptionsAnswered(t) \/ PickNone(t)
      BY <2>3, <1>r DEF StartError, RecvNothing, BadRequest, Unsupported, Tunnel,
                        OptionsAnswered, PickNone, Close
    <2> QED BY <1>1, <2>1, <2>2, <2>3 DEF Begin
  <1>2. ASSUME NEW t \in Clients, Lookup(t) PROVE \A u \in Clients : Sourced(u)'
    <2>1. CASE PassBy(t) \/ LookupError(t) \/ LookupMiss(t)
      BY <2>1, <1>s DEF Base, TypeOK, PassBy, LookupError, LookupMiss, MayLookup,
                        Continue, Counted, Before, Sourced, OnlyFrom
    <2>2. CASE ServeError(t)
      <3>1. OnlyFrom(t, "cache") /\ sent' = sent /\ sent[t] \in Seq({"cache", "backend"})
        BY <2>2 DEF ServeError, Sourced, Base, TypeOK
      <3>2. sent[t] = <<>> \/ gone'[t] = "reset" \/ MayFail("disk")
        <4>1. CASE got[t] = 0
          <5>1. Len(sent[t]) = 0
            BY <2>2, <4>1 DEF ServeError, Base, Counted
          <5> QED BY <3>1, <5>1, EmptySeq
        <4>2. CASE got[t] # 0
          BY <2>2, <4>2 DEF ServeError, SendFails, Base, TypeOK
        <4> QED BY <4>1, <4>2
      <3>3. \A u \in Clients \ {t} : pc'[u] = pc[u] /\ gone'[u] = gone[u]
        BY <2>2 DEF ServeError, Continue, SendFails, Base, TypeOK
      <3>4. pc'[t] = "connect"
        BY <2>2 DEF ServeError, Continue, Base, TypeOK
      <3> QED BY <3>1, <3>2, <3>3, <3>4, <1>s DEF Sourced, OnlyFrom
    <2>3. CASE LookupHit(t)
      BY <2>3, <1>s DEF Base, TypeOK, LookupHit, MayLookup, Counted, Before,
         Sourced,
                        OnlyFrom
    <2>4. CASE ServePart(t)
      <3>1. Send(t, "cache") /\ pc[t] = "serve" /\ pc' = pc /\ gone' = gone
        BY <2>4 DEF ServePart, Send
      <3>2. OnlyFrom(t, "cache")'
        BY <3>1, SentMore DEF Sourced, OnlyFrom
      <3>3. \A u \in Clients \ {t} : sent'[u] = sent[u]
        BY <3>1, SentMore
      <3> QED BY <3>1, <3>2, <3>3, <1>s DEF Sourced, OnlyFrom
    <2>5. CASE ServeEnd(t) \/ ServeCut(t)
      BY <2>5, <1>r DEF ServeEnd, ServeCut, Close
    <2> QED BY <1>2, <2>1, <2>2, <2>3, <2>4, <2>5 DEF Lookup
  <1>3. ASSUME NEW t \in Clients, Exchange(t) PROVE \A u \in Clients : Sourced(u)'
    <2>1. CASE ConnectBackend(t) \/ SendRequest(t) \/ RelayEnd(t)
      <3>1. UNCHANGED <<sent, gone>>
        BY <2>1 DEF ConnectBackend, SendRequest, RelayEnd
      <3>2. \/ pc[t] \in Waiting /\ pc'[t] \in Waiting
            \/ pc[t] \in Answered /\ pc'[t] \in Answered
        BY <2>1 DEF ConnectBackend, SendRequest, RelayEnd, Base, TypeOK
      <3>3. \A u \in Clients \ {t} : pc'[u] = pc[u]
        BY <2>1 DEF ConnectBackend, SendRequest, RelayEnd, Base, TypeOK
      <3>4. \A u \in Clients : Sourced(u)
        OBVIOUS
      <3>5. Sourced(t)'
        BY <3>1, <3>2, <3>4, <1>s DEF Sourced, OnlyFrom
      <3>6. ASSUME NEW u \in Clients \ {t} PROVE Sourced(u)'
        BY <3>1, <3>3, <3>4, <1>s DEF Sourced, OnlyFrom
      <3> QED BY <3>5, <3>6
    <2>2. CASE BackendAnswers(t)
      <3>1. /\ pc' = [pc EXCEPT ![t] = "relay"] /\ sent' = sent /\ gone' = gone
            /\ pc[t] = "backend"
        BY <2>2 DEF BackendAnswers
      <3> QED BY <3>1, <1>s DEF Base, TypeOK, Sourced, OnlyFrom
    <2>3. CASE RelayPart(t)
      <3>1. /\ Send(t, "backend") /\ pc[t] = "relay" /\ pc' = pc /\ gone' = gone
            /\ gone[t] # "reset"
        BY <2>3 DEF RelayPart, Send
      <3>2. OnlyFrom(t, "backend")' \/ MayFail("disk")
        BY <3>1, SentMore DEF Sourced, OnlyFrom
      <3>3. \A u \in Clients \ {t} : sent'[u] = sent[u]
        BY <3>1, SentMore
      <3> QED BY <3>1, <3>2, <3>3, <1>s DEF Sourced, OnlyFrom
    <2>4. CASE RelayError(t)
      BY <2>4, <1>s DEF Base, TypeOK, RelayError, SendFails, Sourced, OnlyFrom
    <2>5. CASE ConnectError(t) \/ SendRequestError(t) \/ RecvError(t)
      BY <2>5, <1>r DEF ConnectError, SendRequestError, RecvError, Close
    <2> QED BY <1>3, <2>1, <2>2, <2>3, <2>4, <2>5 DEF Exchange
  <1>4. ASSUME NEW t \in Clients, End(t) PROVE \A u \in Clients : Sourced(u)'
    <2>1. CASE InvalidateGet(t)
      BY <2>1, <1>s DEF Base, TypeOK, InvalidateGet, Sourced, OnlyFrom
    <2>2. CASE InvalidateHead(t) \/ Save(t) \/ SaveError(t) \/ Finish(t)
      BY <2>2, <1>r DEF InvalidateHead, Save, SaveError, Finish, Close
    <2> QED BY <1>4, <2>1, <2>2 DEF End
  <1>5. ASSUME NEW t \in Clients, Leave(t) PROVE \A u \in Clients : Sourced(u)'
    BY <1>5, <1>s DEF Base, TypeOK, Leave, Sourced, OnlyFrom
  <1>6. ASSUME NEW m \in Cached, Expire(m) PROVE \A u \in Clients : Sourced(u)'
    BY <1>6, <1>s DEF Expire, Sourced, OnlyFrom
  <1>7. CASE UNCHANGED vars
    BY <1>7, <1>s DEF vars, Sourced, OnlyFrom
  <1> QED BY <1>1, <1>2, <1>3, <1>4, <1>5, <1>6, <1>7 DEF Next

\* What is known of the sources holds in every state.
Sources == \A t \in Clients : Sourced(t)

\* What a thread has sent comes from where its place in the code says.
LEMMA SourcesHold == Spec => []Sources
  <1>1. Init => Sources
    BY DEF Init, Sources, Sourced, Waiting, Answered
  <1>2. Base /\ Sources /\ [Next]_vars => Sources'
    BY SourcedStep DEF Sources
  <1> QED BY <1>1, <1>2, BaseHolds, PTL DEF Spec

\* As long as the disk works, no client gets a part of a cached response and then
\* a part of the server's, however its connection breaks: a thread falls back from
\* the file to the server only before the first part, or to a client that is gone.
THEOREM SourcesDoNotMix == Spec => []OneSource
  <1>1. Base /\ Sources => OneSource
    <2> SUFFICES ASSUME Base, \A t \in Clients : Sourced(t), ~MayFail("disk"),
                        NEW t \in Clients, NEW i \in DOMAIN sent[t],
                        NEW j \in DOMAIN sent[t]
                 PROVE  sent[t][i] = sent[t][j]
      BY DEF OneSource, Sources
    <2>1. pc[t] \in Before \union {"serve"} \union Waiting \union Answered
      BY DEF Base, TypeOK, Places, Fetching, Before, Waiting, Answered
    <2>2. CASE pc[t] \in Before
      BY <2>2 DEF Base, Counted
    <2>3. CASE pc[t] \in {"serve"} \union Waiting \union Answered
      BY <2>3 DEF Sourced, OnlyFrom
    <2> QED BY <2>1, <2>2, <2>3
  <1> QED BY <1>1, BaseHolds, SourcesHold, PTL
------------------------------------------------------------------------------
(***************************************************************************)
(* What is in the buffer of a response.                                    *)
(***************************************************************************)
FromBackend(t) == {i \in DOMAIN sent[t] : sent[t][i] = "backend"}

\* While the response is being read, the buffer is what has been sent of it.
Buffers(t) ==
    pc[t] \in {"relay", "after"} /\ shouldCache[t] =>
        buffered[t] = Cardinality(FromBackend(t))

Buffering == \A t \in Clients : Buffers(t)

\* Before the answer there is none of it.
LEMMA NoneYet ==
    ASSUME NEW t \in Clients, OnlyFrom(t, "cache")
    PROVE  Cardinality(FromBackend(t)) = 0
  <1>1. FromBackend(t) = {}
    BY DEF OnlyFrom, FromBackend
  <1> QED BY <1>1, FS_EmptySet

\* A part that is relayed is also added to what will be cached.
LEMMA RelayBuffers ==
    ASSUME Base, Buffering, NEW t \in Clients, RelayPart(t)
    PROVE  Buffers(t)'
  <1>1. Send(t, "backend") /\ pc[t] = "relay" /\ shouldCache' = shouldCache
    BY DEF RelayPart, flags
  <1> SUFFICES ASSUME shouldCache[t] PROVE buffered'[t] = Cardinality(FromBackend(t)')
    BY <1>1 DEF Buffers
  <1>2. buffered'[t] = Cardinality(FromBackend(t)) + 1
    BY <1>1 DEF RelayPart, Base, TypeOK, Buffering, Buffers
  <1> DEFINE n == Len(sent[t]) + 1
  <1>3. n \notin FromBackend(t) /\ FromBackend(t)' = FromBackend(t) \union {n}
    BY <1>1, SentMore DEF FromBackend
  <1>4. IsFiniteSet(FromBackend(t))
    <2>1. FromBackend(t) \subseteq 1..Len(sent[t]) /\ Len(sent[t]) \in Nat
      BY <1>1, SentMore DEF FromBackend
    <2>2. IsFiniteSet(1..Len(sent[t]))
      BY <2>1, FS_Interval
    <2> QED BY <2>1, <2>2, FS_Subset
  <1>5. Cardinality(FromBackend(t) \union {n}) = Cardinality(FromBackend(t)) + 1
    BY <1>3, <1>4, FS_AddElement
  <1> QED BY <1>2, <1>3, <1>5

\* No step makes what will be cached differ from what was relayed.
LEMMA BuffersStep ==
    ASSUME Base, Sources, Buffering, [Next]_vars
    PROVE  Buffering'
  <1> USE DEF flags, reading, shared, outside, thread, Goto, Acquire
  <1> DEFINE Same(u) == /\ pc'[u] = pc[u] /\ shouldCache'[u] = shouldCache[u]
                        /\ buffered'[u] = buffered[u] /\ sent'[u] = sent[u]
  <1>m. ASSUME NEW t \in Clients, \A u \in Clients \ {t} : Same(u), Buffers(t)'
        PROVE  Buffering'
    <2>1. \A u \in Clients \ {t} : Buffers(u)'
      BY <1>m DEF Buffering, Buffers, FromBackend
    <2> HIDE DEF Same
    <2> QED BY <2>1, <1>m DEF Buffering
  <1>r. ASSUME NEW t \in Clients, \E r : Return(t, r) PROVE Buffering'
    <2>1. \A u \in Clients \ {t} : Same(u)
      BY <1>r DEF Return, Base, TypeOK
    <2>2. pc'[t] = "idle"
      BY <1>r DEF Return, Base, TypeOK
    <2> QED BY <2>1, <2>2, <1>m DEF Buffers
  <1>1. ASSUME NEW t \in Clients, Begin(t) PROVE Buffering'
    <2>1. CASE \/ Accept(t) \/ StartThread(t) \/ OptionsForwarded(t) \/ Pick(t)
               \/ \E r \in setting.requests : Receive(t, r)
      <3>1. \A u \in Clients \ {t} : Same(u)
        BY <2>1 DEF Base, TypeOK, Accept, StartThread, OptionsForwarded, Pick,
           Receive
      <3>2. pc'[t] \notin {"relay", "after"}
        BY <2>1 DEF Base, TypeOK, Accept, StartThread, OptionsForwarded, Pick,
           Receive
      <3> QED BY <3>1, <3>2, <1>m DEF Buffers
    <2>2. CASE \/ StartError(t) \/ RecvNothing(t) \/ BadRequest(t) \/ Unsupported(t)
               \/ Tunnel(t) \/ OptionsAnswered(t) \/ PickNone(t)
      BY <2>2, <1>r DEF StartError, RecvNothing, BadRequest, Unsupported, Tunnel,
                        OptionsAnswered, PickNone, Close
    <2> QED BY <1>1, <2>1, <2>2 DEF Begin
  <1>2. ASSUME NEW t \in Clients, Lookup(t) PROVE Buffering'
    <2>1. CASE ServeEnd(t) \/ ServeCut(t)
      BY <2>1, <1>r DEF ServeEnd, ServeCut, Close
    <2>2. CASE ~(ServeEnd(t) \/ ServeCut(t))
      <3>1. \A u \in Clients \ {t} : Same(u)
        BY <1>2, <2>2 DEF Lookup, PassBy, LookupError, LookupMiss, LookupHit,
           ServePart,
                          ServeError, Send, Continue, Base, TypeOK
      <3>2. pc'[t] \notin {"relay", "after"}
        BY <1>2, <2>2 DEF Lookup, PassBy, LookupError, LookupMiss, LookupHit,
           ServePart,
                          ServeError, Continue, Base, TypeOK
      <3> QED BY <3>1, <3>2, <1>m DEF Buffers
    <2> QED BY <2>1, <2>2
  <1>3. ASSUME NEW t \in Clients, Exchange(t) PROVE Buffering'
    <2>1. CASE ConnectBackend(t) \/ SendRequest(t)
      <3>1. \A u \in Clients \ {t} : Same(u)
        BY <2>1 DEF ConnectBackend, SendRequest, Base, TypeOK
      <3>2. pc'[t] \notin {"relay", "after"}
        BY <2>1 DEF ConnectBackend, SendRequest, Base, TypeOK
      <3> QED BY <3>1, <3>2, <1>m DEF Buffers
    <2>2. CASE BackendAnswers(t)
      <3>1. \A u \in Clients \ {t} : Same(u)
        BY <2>2 DEF BackendAnswers, Base, TypeOK
      <3>2. buffered'[t] = 0 /\ sent' = sent
        BY <2>2 DEF BackendAnswers, Base, Counted, Waiting
      <3>3. Cardinality(FromBackend(t)) = 0
        BY <2>2, NoneYet DEF BackendAnswers, Sources, Sourced, Waiting
      <3> QED BY <3>1, <3>2, <3>3, <1>m DEF Buffers, FromBackend
    <2>3. CASE RelayPart(t)
      <3>1. \A u \in Clients \ {t} : pc'[u] = pc[u] /\ shouldCache'[u] = shouldCache[u]
        BY <2>3 DEF RelayPart
      <3>2. \A u \in Clients \ {t} : sent'[u] = sent[u]
        BY <2>3, SentMore DEF RelayPart
      <3>3. \A u \in Clients \ {t} : buffered'[u] = buffered[u]
        BY <2>3 DEF RelayPart, Base, TypeOK
      <3> QED BY <2>3, <3>1, <3>2, <3>3, <1>m, RelayBuffers
    <2>4. CASE RelayError(t) \/ RelayEnd(t)
      <3>1. /\ pc[t] = "relay" /\ pc' = [pc EXCEPT ![t] = "after"]
            /\ UNCHANGED <<shouldCache, buffered, sent>>
        BY <2>4 DEF RelayError, RelayEnd
      <3>2. \A u \in Clients \ {t} : Same(u)
        BY <3>1 DEF Base, TypeOK
      <3> QED BY <3>1, <3>2, <1>m DEF Buffering, Buffers, FromBackend
    <2>5. CASE ConnectError(t) \/ SendRequestError(t) \/ RecvError(t)
      BY <2>5, <1>r DEF ConnectError, SendRequestError, RecvError, Close
    <2> QED BY <1>3, <2>1, <2>2, <2>3, <2>4, <2>5 DEF Exchange
  <1>4. ASSUME NEW t \in Clients, End(t) PROVE Buffering'
    <2>1. CASE InvalidateGet(t)
      <3>1. \A u \in Clients \ {t} : Same(u)
        BY <2>1 DEF InvalidateGet, Base, TypeOK
      <3>2. pc'[t] = "invalidate"
        BY <2>1 DEF InvalidateGet, Base, TypeOK
      <3> QED BY <3>1, <3>2, <1>m DEF Buffers
    <2>2. CASE InvalidateHead(t) \/ Save(t) \/ SaveError(t) \/ Finish(t)
      BY <2>2, <1>r DEF InvalidateHead, Save, SaveError, Finish, Close
    <2> QED BY <1>4, <2>1, <2>2 DEF End
  <1>5. ASSUME NEW t \in Clients, Leave(t) PROVE Buffering'
    BY <1>5 DEF Leave, Buffering, Buffers, FromBackend
  <1>6. ASSUME NEW m \in Cached, Expire(m) PROVE Buffering'
    BY <1>6 DEF Expire, Buffering, Buffers, FromBackend
  <1>7. CASE UNCHANGED vars
    BY <1>7 DEF vars, Buffering, Buffers, FromBackend
  <1> QED BY <1>1, <1>2, <1>3, <1>4, <1>5, <1>6, <1>7 DEF Next

\* The response that will be stored is what the client was sent of it, part by
\* part, also after a send or a recv has failed, and never contains a part of the
\* cached response that the thread tried to serve first.
THEOREM BufferIsWhatWasSent == Spec => []BufferedIsSent
  <1>1. Init => Buffering
    BY DEF Init, Buffering, Buffers
  <1>2. Base /\ Sources /\ Buffering /\ [Next]_vars => Buffering'
    BY BuffersStep
  <1>3. Base /\ Sources /\ Buffering => BufferedIsSent
    <2> SUFFICES ASSUME Base, Sources, Buffering, NEW t \in Clients,
                        shouldCache[t], pc[t] \in Fetching
                 PROVE  buffered[t] = Cardinality(FromBackend(t))
      BY DEF BufferedIsSent, FromBackend
    <2>1. CASE pc[t] \in Waiting
      BY <2>1, NoneYet DEF Base, Counted, Sources, Sourced
    <2>2. CASE pc[t] \in {"relay", "after"}
      BY <2>2 DEF Buffering, Buffers
    <2> QED BY <2>1, <2>2 DEF Fetching, Waiting
  <1> QED BY <1>1, <1>2, <1>3, BaseHolds, SourcesHold, PTL DEF Spec
------------------------------------------------------------------------------
(***************************************************************************)
(* Writes, invalidations, and the responses they overtake.                 *)
(***************************************************************************)
Step(t) == Begin(t) \/ Leave(t) \/ Lookup(t) \/ Exchange(t) \/ End(t)

\* A thread touches its own request, flags and reply only.
LEMMA OthersKeep ==
    ASSUME Base, NEW t \in Clients, Step(t), NEW u \in Clients \ {t}
    PROVE  /\ pc'[u] = pc[u] /\ request'[u] = request[u] /\ reply'[u] = reply[u]
           /\ shouldInvalidate'[u] = shouldInvalidate[u]
  <1> USE DEF flags, reading, shared, outside, thread, Goto, Acquire, Close, Return,
              Base, TypeOK
  <1>1. CASE Begin(t)
    BY <1>1 DEF Begin, Accept, StartThread, StartError, RecvNothing, BadRequest,
                Unsupported, Receive, Tunnel, OptionsAnswered, OptionsForwarded, Pick,
                PickNone
  <1>2. CASE Lookup(t) \/ Leave(t)
    BY <1>2 DEF Lookup, PassBy, LookupError, LookupMiss, LookupHit, ServePart,
                ServeEnd, ServeCut, ServeError, Continue, Leave
  <1>3. CASE Exchange(t)
    BY <1>3 DEF Exchange, ConnectBackend, ConnectError, SendRequest,
       SendRequestError,
                BackendAnswers, RelayPart, RelayError, RelayEnd, RecvError
  <1>4. CASE End(t)
    BY <1>4 DEF End, InvalidateGet, InvalidateHead, Save, SaveError, Finish
  <1> QED BY <1>1, <1>2, <1>3, <1>4 DEF Step

\* No change that a server has made is taken back.
LEMMA WritesGrow ==
    ASSUME Base, [Next]_vars
    PROVE  writes \in Nat /\ writes' \in Nat /\ writes <= writes'
  <1> USE DEF flags, reading, shared, outside, thread, Close, Base, TypeOK
  <1>0. writes \in Nat
    OBVIOUS
  <1> DEFINE Grows == writes' = writes \/ writes' = writes + 1
  <1>1. ASSUME NEW t \in Clients, Step(t) PROVE Grows
    <2>1. CASE Begin(t)
      BY <2>1 DEF Begin, Accept, StartThread, StartError, RecvNothing, BadRequest,
                  Unsupported, Receive, Tunnel, OptionsAnswered, OptionsForwarded,
                  Pick, PickNone
    <2>2. CASE Lookup(t) \/ Leave(t)
      BY <2>2 DEF Lookup, PassBy, LookupError, LookupMiss, LookupHit, ServePart,
                  ServeEnd, ServeCut, ServeError, Leave
    <2>3. CASE Exchange(t)
      BY <2>3 DEF Exchange, ConnectBackend, ConnectError, SendRequest,
                  SendRequestError, BackendAnswers, RelayPart, RelayError, RelayEnd,
                  RecvError
    <2>4. CASE End(t)
      BY <2>4 DEF End, InvalidateGet, InvalidateHead, Save, SaveError, Finish
    <2> QED BY <1>1, <2>1, <2>2, <2>3, <2>4 DEF Step
  <1>2. ASSUME NEW m \in Cached, Expire(m) PROVE Grows
    BY <1>2 DEF Expire
  <1>3. ASSUME UNCHANGED vars PROVE Grows
    BY <1>3 DEF vars
  <1>4. Grows
    BY <1>1, <1>2, <1>3 DEF Next, Step
  <1> QED BY <1>0, <1>4

\* invalidated and overtaken change only by a cache_delete, on account of a reply
\* that has been read; an accept starts a thread anew.
LEMMA InvalidationChanges ==
    ASSUME Base, [Next]_vars
    PROVE  \/ /\ invalidated' = invalidated
              /\ \A u \in Clients : pc[u] # "idle" => overtaken'[u] = overtaken[u]
           \/ \E t \in Clients, m \in Cached :
                 pc[t] \in {"after", "invalidate"} /\ Delete(t, m)
  <1> USE DEF flags, reading, shared, outside, thread, Close
  <1>1. ASSUME NEW t \in Clients, Begin(t) \/ Leave(t) \/ Exchange(t) \/ Lookup(t)
        PROVE  /\ invalidated' = invalidated
               /\ \A u \in Clients : pc[u] # "idle" => overtaken'[u] = overtaken[u]
    <2>1. CASE Accept(t)
      BY <2>1 DEF Accept, Base, TypeOK
    <2>2. CASE ~Accept(t)
      BY <1>1, <2>2 DEF Begin, Leave, Exchange, Lookup, StartThread, StartError,
                RecvNothing, BadRequest, Unsupported, Receive, Tunnel, OptionsAnswered,
                OptionsForwarded, Pick, PickNone, ConnectBackend, ConnectError,
                SendRequest, SendRequestError, BackendAnswers, RelayPart, RelayError,
                RelayEnd, RecvError, PassBy, LookupError, LookupMiss, LookupHit,
                ServePart, ServeEnd, ServeCut, ServeError
    <2> QED BY <2>1, <2>2
  <1>2. ASSUME NEW t \in Clients, End(t)
        PROVE  \/ invalidated' = invalidated /\ overtaken' = overtaken
               \/ \E m \in Cached : pc[t] \in {"after", "invalidate"} /\ Delete(t, m)
    <2>1. CASE InvalidateGet(t)
      BY <2>1 DEF InvalidateGet, DeleteFails, Cached
    <2>2. CASE InvalidateHead(t)
      BY <2>2 DEF InvalidateHead, DeleteFails, Cached
    <2>3. CASE Save(t) \/ SaveError(t) \/ Finish(t)
      BY <2>3 DEF Save, SaveError, Finish
    <2> QED BY <1>2, <2>1, <2>2, <2>3 DEF End
  <1>3. CASE \E m \in Cached : Expire(m)
    BY <1>3 DEF Expire
  <1>4. CASE UNCHANGED vars
    BY <1>4 DEF vars
  <1> QED BY <1>1, <1>2, <1>3, <1>4 DEF Next

\* A reply stays with its thread until the end, and is as new as the last change
\* when it is made.
LEMMA ReplyKept ==
    ASSUME Base, [Next]_vars, NEW u \in Clients, pc'[u] \in Answered
    PROVE  /\ request'[u] = request[u]
           /\ \/ /\ pc[u] \in Answered /\ reply'[u] = reply[u]
                 /\ pc[u] = "invalidate" => pc'[u] = "invalidate"
              \/ /\ pc[u] = "backend" /\ reply'[u].at = writes'
                 /\ invalidated' = invalidated
  <1> USE DEF flags, reading, shared, outside, thread, Goto, Acquire, Answered
  <1>1. ASSUME NEW t \in Clients \ {u}, Step(t)
        PROVE  pc'[u] = pc[u] /\ request'[u] = request[u] /\ reply'[u] = reply[u]
    BY <1>1, OthersKeep
  <1>2. CASE Begin(u) \/ Lookup(u) \/ Leave(u)
    BY <1>2 DEF Begin, Accept, StartThread, StartError, RecvNothing, BadRequest,
                Unsupported, Receive, Tunnel, OptionsAnswered, OptionsForwarded, Pick,
                PickNone, Close, Return, Lookup, PassBy, LookupError, LookupMiss,
                LookupHit, ServePart, ServeEnd, ServeCut, ServeError, Continue, Leave,
                Base, TypeOK
  <1>3. CASE Exchange(u)
    <2>1. CASE BackendAnswers(u)
      <3>1. reply'[u].at = writes'
        BY <2>1 DEF BackendAnswers, Base, TypeOK
      <3> QED BY <2>1, <3>1 DEF BackendAnswers
    <2>2. CASE ~BackendAnswers(u)
      BY <1>3, <2>2 DEF Exchange, ConnectBackend, ConnectError, SendRequest,
                  SendRequestError, RelayPart, RelayError, RelayEnd, RecvError, Close,
                  Return, Base, TypeOK
    <2> QED BY <2>1, <2>2
  <1>4. CASE End(u)
    BY <1>4 DEF End, InvalidateGet, InvalidateHead, Save, SaveError, Finish, Close,
                Return, Base, TypeOK
  <1>5. CASE \E m \in Cached : Expire(m)
    BY <1>5 DEF Expire
  <1>6. CASE UNCHANGED vars
    BY <1>6 DEF vars
  <1> QED BY <1>1, <1>2, <1>3, <1>4, <1>5, <1>6 DEF Next, Step

\* No reply and no invalidation is of the future.
Dated ==
    /\ \A m \in Cached : invalidated[m] <= writes
    /\ \A t \in Clients : pc[t] \in Answered => reply[t].at <= writes

\* No step makes an answer or an invalidation younger than the last write.
LEMMA DatedStep ==
    ASSUME Base, Dated, [Next]_vars
    PROVE  Dated'
  <1>0. Base' /\ writes \in Nat /\ writes' \in Nat /\ writes <= writes'
    BY BaseStep, WritesGrow
  <1>1. ASSUME NEW t \in Clients, pc'[t] \in Answered PROVE reply'[t].at <= writes'
    <2>1. CASE pc[t] \in Answered /\ reply'[t] = reply[t]
      <3>1. reply[t].at <= writes /\ reply[t].at \in Nat \union {-1}
        BY <2>1 DEF Dated, Base, TypeOK, Entry
      <3> QED BY <2>1, <3>1, <1>0
    <2>2. CASE reply'[t].at = writes'
      BY <2>2, <1>0
    <2> QED BY <1>1, <2>1, <2>2, ReplyKept
  <1>2. ASSUME NEW m \in Cached PROVE invalidated'[m] <= writes'
    <2>1. invalidated[m] \in Nat /\ invalidated[m] <= writes
      BY DEF Dated, Base, TypeOK
    <2>2. ASSUME NEW t \in Clients, NEW n \in Cached,
                 pc[t] \in {"after", "invalidate"}, Delete(t, n)
          PROVE  invalidated'[m] = invalidated[m] \/ invalidated'[m] <= writes
      BY <2>2 DEF Delete, Dated, Answered, Base, TypeOK
    <2>3. invalidated'[m] \in Nat
      BY <1>0 DEF Base, TypeOK
    <2>4. invalidated'[m] = invalidated[m] \/ invalidated'[m] <= writes
      BY <2>2, InvalidationChanges
    <2> QED BY <1>0, <2>1, <2>3, <2>4
  <1> QED BY <1>1, <1>2 DEF Dated

\* Who still holds a response that is older than an invalidation knows it.
Knows(t) ==
    pc[t] \in {"relay", "after"} /\ Method(t) \in Cached
        /\ reply[t].at < invalidated[Method(t)] => overtaken[t]

\* No step invalidates under a thread without marking it overtaken.
LEMMA KnowsStep ==
    ASSUME Base, Dated, NEW t \in Clients, Knows(t), [Next]_vars
    PROVE  Knows(t)'
  <1> SUFFICES ASSUME pc'[t] \in {"relay", "after"}, Method(t)' \in Cached,
                      reply'[t].at < invalidated'[Method(t)']
               PROVE  overtaken'[t]
    BY DEF Knows
  <1> DEFINE m == Method(t)
  <1>1. m' = m
    BY ReplyKept DEF Method, Answered
  <1>2. CASE reply'[t].at = writes' /\ invalidated' = invalidated
    <2>1. invalidated[m] \in Nat /\ invalidated[m] <= writes
      BY <1>1 DEF Dated, Base, TypeOK
    <2>2. writes \in Nat /\ writes' \in Nat /\ writes <= writes'
      BY WritesGrow
    <2> QED BY <1>1, <1>2, <2>1, <2>2
  <1>3. CASE pc[t] \in {"relay", "after"} /\ reply'[t] = reply[t]
    <2>1. CASE invalidated' = invalidated /\ (pc[t] # "idle" => overtaken'[t] = overtaken[t])
      BY <1>1, <1>3, <2>1 DEF Knows
    <2>2. ASSUME NEW u \in Clients, NEW n \in Cached, Delete(u, n)
          PROVE  overtaken'[t]
      <3>1. overtaken'[t] = (overtaken[t] \/ (pc[t] \in Fetching /\ m = n))
        BY <2>2 DEF Delete
      <3>2. CASE m = n
        BY <1>3, <3>1, <3>2 DEF Fetching
      <3>3. CASE m # n
        <4>1. invalidated'[m] = invalidated[m]
          BY <1>1, <2>2, <3>3 DEF Delete, Base, TypeOK
        <4>2. overtaken[t]
          BY <1>1, <1>3, <4>1 DEF Knows
        <4> QED BY <3>1, <4>2
      <3> QED BY <3>2, <3>3
    <2> QED BY <2>1, <2>2, InvalidationChanges
  <1> QED BY <1>2, <1>3, ReplyKept DEF Answered

\* No step stores an old answer, or makes a stored one old, but one overtaken.
LEMMA StaleStep ==
    ASSUME Base, \A t \in Clients : Knows(t), StaleOnlyByOvertaking, [Next]_vars
    PROVE  StaleOnlyByOvertaking'
  <1> SUFFICES ASSUME NEW m \in Cached, cache'[m] # NoEntry,
                      cache'[m].at < invalidated'[m]
               PROVE  cache'[m].overtaken
    BY DEF StaleOnlyByOvertaking
  <1>1. invalidated'[m] = invalidated[m]
    <2>1. ASSUME NEW t \in Clients, NEW n \in Cached, Delete(t, n) PROVE n # m
      BY <2>1 DEF Delete, Base, TypeOK
    <2>2. ASSUME NEW t \in Clients, NEW n \in Cached, Delete(t, n)
          PROVE  invalidated'[m] = invalidated[m]
      BY <2>1, <2>2 DEF Delete, Base, TypeOK
    <2> QED BY <2>2, InvalidationChanges
  <1>2. CASE cache'[m] = cache[m]
    BY <1>1, <1>2 DEF StaleOnlyByOvertaking
  <1>3. ASSUME NEW t \in Clients, Stores(t, m) PROVE cache'[m].overtaken
    <2>1. PICK parts \in Nat :
             cache'[m] = [reply[t] EXCEPT !.parts = parts, !.overtaken = overtaken[t]]
      BY <1>3 DEF Stores
    <2>2. reply[t] \in Entry
      BY DEF Base, TypeOK
    <2>3. cache'[m].at = reply[t].at /\ cache'[m].overtaken = overtaken[t]
      BY <2>1, <2>2 DEF Entry
    <2> QED BY <1>1, <1>3, <2>3 DEF Stores, Knows
  <1> QED BY <1>2, <1>3, CacheChanges

\* An invalidation removes every older response, but for those that other threads
\* have fetched and not yet stored; this is the only way in which one survives.
THEOREM StaleIsOvertaken == Spec => []StaleOnlyByOvertaking
  <1> DEFINE KInv == Dated /\ StaleOnlyByOvertaking /\ \A t \in Clients : Knows(t)
  <1>1. Init => KInv
    BY DEF Init, Dated, StaleOnlyByOvertaking, Knows, Answered
  <1>2. Base /\ KInv /\ [Next]_vars => KInv'
    BY DatedStep, KnowsStep, StaleStep
  <1>3. KInv => StaleOnlyByOvertaking
    OBVIOUS
  <1> HIDE DEF KInv
  <1> QED BY <1>1, <1>2, <1>3, BaseHolds, PTL DEF Spec
------------------------------------------------------------------------------
\* A thread with a PUT or DELETE remembers to invalidate, and has invalidated the
\* entry of GET when that of HEAD is to follow.
Remembers(t) ==
    /\ pc[t] \in Waiting \union Answered /\ Method(t) \in {"PUT", "DELETE"} =>
          shouldInvalidate[t]
    /\ pc[t] = "invalidate" /\ request[t].host /\ ~MayFail("disk") =>
          reply[t].at <= invalidated["GET"]

\* What an invalidation achieves.
LEMMA DeleteReaches ==
    ASSUME Base, NEW t \in Clients, NEW m \in Cached, Delete(t, m)
    PROVE  /\ reply[t].at <= invalidated'[m]
           /\ \A n \in Cached : invalidated[n] <= invalidated'[n]
  <1>1. /\ invalidated \in [Cached -> Nat] /\ reply[t].at \in Nat \union {-1}
    BY DEF Base, TypeOK, Entry
  <1>2. invalidated' = [invalidated EXCEPT ![m] = IF @ < reply[t].at THEN reply[t].at
                                                  ELSE @]
    BY DEF Delete
  <1> QED BY <1>1, <1>2

\* An invalidation is never undone.
LEMMA InvalidatedGrows ==
    ASSUME Base, [Next]_vars, NEW n \in Cached
    PROVE  /\ invalidated[n] \in Nat /\ invalidated'[n] \in Nat
           /\ invalidated[n] <= invalidated'[n]
  <1>1. Base'
    BY BaseStep
  <1>2. invalidated[n] \in Nat /\ invalidated'[n] \in Nat
    BY <1>1 DEF Base, TypeOK
  <1> QED BY <1>2, InvalidationChanges, DeleteReaches

\* No step makes a thread forget the write it forwarded.
LEMMA RemembersStep ==
    ASSUME Base, Judging, NEW t \in Clients, Remembers(t), [Next]_vars
    PROVE  Remembers(t)'
  <1> USE DEF flags, reading, shared, outside, thread, Goto, Acquire, Waiting, Answered
  <1>s. setting' = setting
    BY DEF Next, vars
  <1>m. reply[t].at \in Nat \union {-1} /\ "GET" \in Cached
    BY DEF Base, TypeOK, Entry, Cached
  <1>1. CASE /\ pc'[t] = pc[t] /\ request'[t] = request[t]
             /\ shouldInvalidate'[t] = shouldInvalidate[t]
             /\ pc[t] = "invalidate" => reply'[t] = reply[t]
    BY <1>1, <1>s, <1>m, InvalidatedGrows DEF Remembers, Method, MayFail
  <1>2. ASSUME NEW u \in Clients \ {t}, Step(u) PROVE Remembers(t)'
    BY <1>2, <1>1, OthersKeep
  <1>3. CASE Begin(t)
    <2>1. pc'[t] \notin Waiting \union Answered
      BY ZenonT(30), <1>3 DEF Begin, Accept, StartThread, StartError, RecvNothing, BadRequest,
                  Unsupported, Receive, Tunnel, OptionsAnswered, OptionsForwarded, Pick,
                  PickNone, Close, Return, Base, TypeOK
    <2> QED BY <2>1 DEF Remembers
  <1>4. CASE Lookup(t)
    <2>1. CASE PassBy(t)
      <3>1. /\ pc'[t] = "connect" /\ request' = request
            /\ shouldInvalidate'[t] = (Method(t) \in {"PUT", "DELETE"})
        BY <2>1 DEF PassBy, Continue, Base, TypeOK
      <3> QED BY <3>1 DEF Remembers, Method
    <2>2. CASE LookupError(t) \/ LookupMiss(t) \/ ServeError(t)
      <3>1. pc'[t] = "connect" /\ request' = request /\ IsCacheable(request[t])
        BY <2>2 DEF LookupError, LookupMiss, MayLookup, ServeError, Continue,
           Judging,
                    Judged, Base, TypeOK
      <3> QED BY <3>1 DEF Remembers, Method, IsCacheable, Cached
    <2>3. CASE LookupHit(t) \/ ServePart(t) \/ ServeEnd(t) \/ ServeCut(t)
      <3>1. pc'[t] \in {"serve", "idle"}
        BY <2>3 DEF LookupHit, ServePart, ServeEnd, ServeCut, Close, Return,
           Base, TypeOK
      <3> QED BY <3>1 DEF Remembers
    <2> QED BY <1>4, <2>1, <2>2, <2>3 DEF Lookup
  <1>5. CASE Exchange(t)
    <2>1. CASE ConnectError(t) \/ SendRequestError(t) \/ RecvError(t)
      <3>1. pc'[t] = "idle"
        BY <2>1 DEF ConnectError, SendRequestError, RecvError, Close, Return,
           Base, TypeOK
      <3> QED BY <3>1 DEF Remembers
    <2>2. CASE ~(ConnectError(t) \/ SendRequestError(t) \/ RecvError(t))
      <3>1. /\ pc[t] \in Waiting \union Answered /\ pc'[t] # "invalidate"
            /\ UNCHANGED <<request, shouldInvalidate>>
        BY <1>5, <2>2 DEF Exchange, ConnectBackend, SendRequest, BackendAnswers,
                          RelayPart, RelayError, RelayEnd, Base, TypeOK
      <3> QED BY <3>1 DEF Remembers, Method
    <2> QED BY <2>1, <2>2
  <1>6. CASE End(t)
    <2>1. CASE InvalidateGet(t)
      <3>1. pc[t] = "after" /\ UNCHANGED <<request, shouldInvalidate, reply>>
        BY <2>1 DEF InvalidateGet
      <3>2. request[t].host /\ ~MayFail("disk") => reply[t].at <= invalidated'["GET"]
        BY <2>1, <1>m, DeleteReaches DEF InvalidateGet, DeleteFails
      <3> QED BY <3>1, <3>2, <1>s DEF Remembers, Method, MayFail
    <2>2. CASE InvalidateHead(t) \/ Save(t) \/ SaveError(t) \/ Finish(t)
      <3>1. pc'[t] = "idle"
        BY <2>2 DEF InvalidateHead, Save, SaveError, Finish, Close, Return, Base,
           TypeOK
      <3> QED BY <3>1 DEF Remembers
    <2> QED BY <1>6, <2>1, <2>2 DEF End
  <1>7. CASE Leave(t)
    BY <1>7, <1>1 DEF Leave
  <1>8. CASE \E m \in Cached : Expire(m)
    BY <1>8, <1>1 DEF Expire
  <1>9. CASE UNCHANGED vars
    BY <1>9, <1>1 DEF vars
  <1> QED BY <1>2, <1>3, <1>4, <1>5, <1>6, <1>7, <1>8, <1>9 DEF Next, Step

\* The end of a thread that has changed the document.
LEMMA EndInvalidates ==
    ASSUME Base, Judging, NEW t \in Clients, Remembers(t), [Next]_vars,
           ~MayFail("disk"), pc[t] \in {"after", "invalidate"}, pc'[t] = "idle",
           Method(t) \in {"PUT", "DELETE"}, request[t].host, parsed[t],
           reply[t].status = "ok"
    PROVE  \A m \in Cached : invalidated'[m] >= reply[t].at
  <1> USE DEF flags, reading, shared, outside, thread, Goto
  <1>1. End(t)
    <2>1. ASSUME NEW u \in Clients \ {t}, Step(u) PROVE FALSE
      BY <2>1, OthersKeep
    <2>2. ~(Begin(t) \/ Leave(t) \/ Lookup(t) \/ Exchange(t))
      BY DEF Begin, Accept, StartThread, StartError, RecvNothing, BadRequest,
             Unsupported, Receive, Tunnel, OptionsAnswered, OptionsForwarded, Pick,
             PickNone, Lookup, PassBy, LookupError, LookupMiss, LookupHit, ServePart,
             ServeEnd, ServeCut, ServeError, MayLookup, Exchange, ConnectBackend,
             ConnectError, SendRequest, SendRequestError, BackendAnswers, RelayPart,
             RelayError, RelayEnd, RecvError, Leave
    <2>3. ~\E m \in Cached : Expire(m)
      BY DEF Expire
    <2>4. ~UNCHANGED vars
      BY DEF vars
    <2> QED BY <2>1, <2>2, <2>3, <2>4 DEF Next, Step
  <1>2. ~MustSave(t)
    BY DEF MustSave, Judging, Judged, IsCacheable, Method, Cached
  <1>3. pc[t] = "after" => MustInvalidate(t)
    BY DEF MustInvalidate, Remembers, Answered
  <1>4. InvalidateHead(t)
    <2>1. ~InvalidateGet(t)
      BY DEF InvalidateGet, Base, TypeOK
    <2> QED BY <1>1, <1>2, <1>3, <2>1 DEF End, Save, SaveError, Finish
  <1>5. pc[t] = "invalidate" /\ Delete(t, "HEAD")
    BY <1>4 DEF InvalidateHead, DeleteFails
  <1>6. reply[t].at <= invalidated["GET"]
    BY <1>5 DEF Remembers
  <1>7. ASSUME NEW m \in Cached PROVE invalidated'[m] >= reply[t].at
    <2>1. reply[t].at \in Nat \union {-1}
      BY DEF Base, TypeOK, Entry
    <2>2. CASE m = "HEAD"
      BY <1>5, <2>1, <2>2, DeleteReaches, InvalidatedGrows
    <2>3. CASE m = "GET"
      BY <1>6, <2>1, <2>3, InvalidatedGrows
    <2> QED BY <2>2, <2>3 DEF Cached
  <1> QED BY <1>7

\* A PUT or DELETE whose success the proxy has read removes what the cache holds of
\* the document for GET and for HEAD before its thread ends, whoever has left and
\* whatever other threads do, unless the disk fails or the recv that follows.
THEOREM WritesInvalidate == Spec => WriteInvalidates
  <1> DEFINE RInv == \A t \in Clients : Remembers(t)
  <1>1. Init => RInv
    BY DEF Init, Remembers, Waiting, Answered
  <1>2. Base /\ Judging /\ RInv /\ [Next]_vars => RInv'
    BY RemembersStep
  <1> DEFINE Done ==
        \A t \in Clients :
          /\ ~MayFail("disk")
          /\ pc[t] \in {"after", "invalidate"} /\ pc'[t] = "idle"
          /\ Method(t) \in {"PUT", "DELETE"} /\ request[t].host
          /\ parsed[t] /\ reply[t].status = "ok"
          => \A m \in Cached : invalidated'[m] >= reply[t].at
  <1>3. Base /\ Judging /\ RInv /\ [Next]_vars => [Done]_vars
    BY EndInvalidates
  <1> HIDE DEF RInv, Done
  <1>4. Spec => [][Done]_vars
    BY <1>1, <1>2, <1>3, BaseHolds, JudgingHolds, PTL DEF Spec
  <1> QED BY <1>4 DEF Done, WriteInvalidates
===============================================================================
