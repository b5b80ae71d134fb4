-------------------------- MODULE LoadBalancerProofs --------------------------
(***************************************************************************)
(* Proofs about LoadBalancer, for every number of servers and any clients. *)
(***************************************************************************)
EXTENDS LoadBalancer, FiniteSetTheorems, TLAPS

\* The threads that are inside the critical section, or in the first ping.
Inside(t) == pc[t] \in {"ping", "pick"}

\* How far server i is in front of current.
Ahead(i) == IF i >= current THEN i - current ELSE i + N - current

\* Who may be inside: the holder of the mutex, or Main before any client.
Discipline ==
    /\ pc[Main] \in {"ping", "accept"}
    /\ pc[Main] = "ping" => \A c \in Clients : pc[c] = "idle"
    /\ \A t \in Threads : pc[t] = "ping" => found[t] <= probe[t]
    /\ \A c \in Clients : /\ pc[c] # "accept"
                          /\ Inside(c) <=> mutex = c

\* A server that is passed over comes one place nearer every time.
Turns ==
    \A i \in Servers : /\ passed[i] + Ahead(i) <= N - 1
                       /\ ~alive[i] => passed[i] = 0

\* The scan has tried all the places behind the first live server.
Scan ==
    \A c \in Clients : pc[c] = "pick" =>
        \A i \in Servers : alive[i] => Ahead(i) + attempts[c] < N

\* The live ones of the first n servers, by the flags a.
Live(a, n) == {i \in 0..(n - 1) : a[i]}

\* While a thread pings, it has counted the servers it has been through.
Count ==
    /\ \A t \in Threads : pc[t] = "ping" => found[t] = Cardinality(Live(alive, probe[t]))
    /\ (\A t \in Threads : pc[t] # "ping") => aliveCount = Cardinality(Live(alive, N))

IInv == TypeOK /\ Discipline /\ Turns /\ Scan

USE DEF Servers, Threads

\* (current + 1) % N without the remainder, for a place in the array.
LEMMA NextPlace ==
    ASSUME NEW n \in Nat, NEW k \in 0..(n - 1)
    PROVE  (k + 1) % n = IF k + 1 = n THEN 0 ELSE k + 1
  OBVIOUS

\* The servers in front of current are numbered from 0 to N - 1.
LEMMA AheadType ==
    ASSUME TypeOK, NEW i \in Servers
    PROVE  Ahead(i) \in 0..(N - 1)
  BY LBAssumption DEF Ahead, TypeOK

\* Advance moves the server at current to the end and the others one nearer.
LEMMA AheadAdvance ==
    ASSUME TypeOK, Advance, NEW i \in Servers
    PROVE  /\ i = current => Ahead(i)' = N - 1
           /\ i # current => Ahead(i)' = Ahead(i) - 1
  <1>1. N \in Nat /\ current \in 0..(N - 1) /\ i \in 0..(N - 1)
    BY LBAssumption DEF TypeOK
  <1>2. current' = IF current + 1 = N THEN 0 ELSE current + 1
    BY <1>1, NextPlace DEF Advance
  <1> QED BY <1>1, <1>2 DEF Ahead

\* The invariant holds before the first ping, when Main is alone.
LEMMA InitInvariant ==
    Init => IInv
  <1> SUFFICES ASSUME Init PROVE IInv
    OBVIOUS
  <1>1. TypeOK
    BY LBAssumption DEF Init, TypeOK
  <1>2. Discipline
    BY LBAssumption DEF Init, Discipline, Inside
  <1>3. Turns
    BY LBAssumption DEF Init, Turns, Ahead
  <1>4. Scan
    BY LBAssumption DEF Init, Scan
  <1> QED BY <1>1, <1>2, <1>3, <1>4 DEF IInv

\* A function that is changed at one place.
LEMMA Change ==
    ASSUME NEW A, NEW B, NEW f \in [A -> B], NEW a \in A, NEW b \in B
    PROVE  [f EXCEPT ![a] = b] \in [A -> B]
  OBVIOUS

\* Counting up to N stays in range.
LEMMA Increment ==
    ASSUME NEW k \in 0..(N - 1)
    PROVE  k \in 0..N /\ k + 1 \in 0..N
  BY LBAssumption

\* Every step keeps the types,
LEMMA StepType ==
    ASSUME TypeOK, Discipline, Next
    PROVE  TypeOK'
  <1> USE LBAssumption DEF TypeOK, Goto, cluster, locals
  <1>1. ASSUME NEW c \in Clients, Arrive(c) PROVE TypeOK'
    BY <1>1 DEF Arrive
  <1>2. ASSUME NEW c \in Clients, Lock(c) PROVE TypeOK'
    BY <1>2 DEF Lock
  <1>3. ASSUME NEW t \in Threads, Probe(t) PROVE TypeOK'
    <2>1. found[t] \in 0..(N - 1) /\ probe[t] \in 0..(N - 1)
      BY <1>3 DEF Probe, Discipline
    <2>2. PICK connected \in BOOLEAN :
             /\ alive' = [alive EXCEPT ![probe[t]] = connected]
             /\ found' = [found EXCEPT ![t] = IF connected THEN @ + 1 ELSE @]
             /\ passed' = [passed EXCEPT ![probe[t]] =
                             IF connected THEN @ ELSE 0]
      BY <1>3 DEF Probe
    <2>3. alive' \in [Servers -> BOOLEAN]
      BY <2>2
    <2>4. found' \in [Threads -> 0..N]
      <3>1. found[t] \in 0..N /\ found[t] + 1 \in 0..N
        <4> HIDE DEF TypeOK
        <4> QED BY <2>1, Increment
      <3>2. (IF connected THEN found[t] + 1 ELSE found[t]) \in 0..N
        BY <3>1
      <3>3. found' = [found EXCEPT ![t] = IF connected THEN found[t] + 1 ELSE found[t]]
        BY <2>2
      <3>4. found \in [Threads -> 0..N]
        OBVIOUS
      <3> HIDE DEF TypeOK, Threads
      <3> QED BY <3>2, <3>3, <3>4, Change
    <2>5. passed' \in [Servers -> Nat]
      BY <2>2
    <2>6. probe' \in [Threads -> 0..N]
      <3>1. probe[t] + 1 \in 0..N
        <4> HIDE DEF TypeOK
        <4> QED BY <2>1, Increment
      <3>2. probe' = [probe EXCEPT ![t] = probe[t] + 1]
        BY <1>3 DEF Probe
      <3>3. probe \in [Threads -> 0..N]
        OBVIOUS
      <3> HIDE DEF TypeOK, Threads
      <3> QED BY <3>1, <3>2, <3>3, Change
    <2> QED BY <1>3, <2>3, <2>4, <2>5, <2>6 DEF Probe
  <1>4. ASSUME NEW t \in Threads, EndPing(t) PROVE TypeOK'
    BY <1>4 DEF EndPing
  <1>5. ASSUME NEW c \in Clients, PickAlive(c) PROVE TypeOK'
    <2>1. current' \in Servers
      <3>1. N \in Nat /\ current \in 0..(N - 1)
        <4>1. attempts[c] \in 0..N /\ attempts[c] < N
          BY <1>5 DEF PickAlive
        <4>2. current \in Servers \union {0}
          OBVIOUS
        <4> HIDE DEF TypeOK
        <4> QED BY <4>1, <4>2
      <3>2. current' = (current + 1) % N
        BY <1>5 DEF PickAlive, Advance
      <3> QED BY <3>1, <3>2, NextPlace
    <2>2. passed' \in [Servers -> Nat]
      <3>1. \A i \in Servers : passed[i] \in Nat /\ passed[i] + 1 \in Nat
        OBVIOUS
      <3>2. passed' = [i \in Servers |-> IF i = current \/ ~alive[i] THEN 0
                                         ELSE passed[i] + 1]
        BY <1>5 DEF PickAlive
      <3> QED BY <3>1, <3>2
    <2> QED BY <1>5, <2>1, <2>2 DEF PickAlive
  <1>6. ASSUME NEW c \in Clients, SkipDead(c) PROVE TypeOK'
    <2>1. current' \in Servers
      <3>1. N \in Nat /\ current \in 0..(N - 1)
        <4>1. attempts[c] \in 0..N /\ attempts[c] < N
          BY <1>6 DEF SkipDead
        <4>2. current \in Servers \union {0}
          OBVIOUS
        <4> HIDE DEF TypeOK
        <4> QED BY <4>1, <4>2
      <3>2. current' = (current + 1) % N
        BY <1>6 DEF SkipDead, Advance
      <3> QED BY <3>1, <3>2, NextPlace
    <2>2. attempts' \in [Threads -> 0..N]
      <3>1. attempts[c] \in 0..(N - 1)
        <4>1. attempts[c] \in 0..N /\ attempts[c] < N
          BY <1>6 DEF SkipDead
        <4> HIDE DEF TypeOK
        <4> QED BY <4>1
      <3>2. attempts[c] + 1 \in 0..N
        <4> HIDE DEF TypeOK
        <4> QED BY <3>1, Increment
      <3>3. attempts' = [attempts EXCEPT ![c] = attempts[c] + 1]
        BY <1>6 DEF SkipDead
      <3>4. attempts \in [Threads -> 0..N] /\ c \in Threads
        OBVIOUS
      <3> HIDE DEF TypeOK, Threads
      <3> QED BY <3>2, <3>3, <3>4, Change
    <2> QED BY <1>6, <2>1, <2>2 DEF SkipDead
  <1>7. ASSUME NEW c \in Clients, PickNone(c) PROVE TypeOK'
    BY <1>7 DEF PickNone
  <1> QED BY <1>1, <1>2, <1>3, <1>4, <1>5, <1>6, <1>7 DEF Next, Step, Pick

\* the discipline that only the holder of the mutex is inside,
LEMMA StepDiscipline ==
    ASSUME TypeOK, Discipline, Next
    PROVE  Discipline'
  <1> USE LBAssumption DEF TypeOK, Discipline, Inside, Goto, cluster, locals
  <1>1. ASSUME NEW c \in Clients, Arrive(c) PROVE Discipline'
    BY <1>1 DEF Arrive
  <1>2. ASSUME NEW c \in Clients, Lock(c) PROVE Discipline'
    BY <1>2 DEF Lock
  <1>3. ASSUME NEW t \in Threads, Probe(t) PROVE Discipline'
    BY <1>3 DEF Probe
  <1>4. ASSUME NEW t \in Threads, EndPing(t) PROVE Discipline'
    BY <1>4 DEF EndPing
  <1>5. ASSUME NEW c \in Clients, PickAlive(c) PROVE Discipline'
    BY <1>5 DEF PickAlive
  <1>6. ASSUME NEW c \in Clients, SkipDead(c) PROVE Discipline'
    BY <1>6 DEF SkipDead
  <1>7. ASSUME NEW c \in Clients, PickNone(c) PROVE Discipline'
    BY <1>7 DEF PickNone
  <1> QED BY <1>1, <1>2, <1>3, <1>4, <1>5, <1>6, <1>7 DEF Next, Step, Pick

\* the order in which the servers get their turns,
LEMMA StepTurns ==
    ASSUME TypeOK, Turns, Next
    PROVE  Turns'
  <1> SUFFICES ASSUME NEW i \in Servers
               PROVE  /\ passed'[i] + Ahead(i)' <= N - 1
                      /\ ~alive'[i] => passed'[i] = 0
    BY DEF Turns
  <1>1. /\ passed[i] + Ahead(i) <= N - 1
        /\ ~alive[i] => passed[i] = 0
        /\ Ahead(i) \in 0..(N - 1)
        /\ passed[i] \in Nat
    BY AheadType DEF Turns, TypeOK
  <1> USE LBAssumption
  <1>2. ASSUME UNCHANGED <<current, passed, alive>>
        PROVE  /\ passed'[i] + Ahead(i)' <= N - 1
               /\ ~alive'[i] => passed'[i] = 0
    BY <1>1, <1>2 DEF Ahead
  <1>3. ASSUME NEW t \in Threads, Probe(t)
        PROVE  /\ passed'[i] + Ahead(i)' <= N - 1
               /\ ~alive'[i] => passed'[i] = 0
    <2>1. Ahead(i)' = Ahead(i)
      BY <1>3 DEF Probe, Ahead
    <2>2. PICK connected \in BOOLEAN :
             /\ alive' = [alive EXCEPT ![probe[t]] = connected]
             /\ passed' = [passed EXCEPT ![probe[t]] =
                             IF connected THEN @ ELSE 0]
      BY <1>3 DEF Probe
    <2>3. CASE i = probe[t]
      BY <1>1, <2>1, <2>2, <2>3 DEF TypeOK
    <2>4. CASE i # probe[t]
      BY <1>1, <2>1, <2>2, <2>4 DEF TypeOK
    <2> QED BY <2>3, <2>4
  <1>4. ASSUME NEW c \in Clients, PickAlive(c)
        PROVE  /\ passed'[i] + Ahead(i)' <= N - 1
               /\ ~alive'[i] => passed'[i] = 0
    <2>1. /\ i = current => Ahead(i)' = N - 1
          /\ i # current => Ahead(i)' = Ahead(i) - 1
      BY <1>4, AheadAdvance DEF PickAlive
    <2>2. /\ passed'[i] = IF i = current \/ ~alive[i] THEN 0 ELSE passed[i] + 1
          /\ alive' = alive
      BY <1>4 DEF PickAlive
    <2> QED BY <1>1, <2>1, <2>2
  <1>5. ASSUME NEW c \in Clients, SkipDead(c)
        PROVE  /\ passed'[i] + Ahead(i)' <= N - 1
               /\ ~alive'[i] => passed'[i] = 0
    <2>1. /\ i = current => Ahead(i)' = N - 1
          /\ i # current => Ahead(i)' = Ahead(i) - 1
      BY <1>5, AheadAdvance DEF SkipDead
    <2>2. ~alive[current] /\ passed' = passed /\ alive' = alive
      BY <1>5 DEF SkipDead
    <2> QED BY <1>1, <2>1, <2>2
  <1> QED BY <1>2, <1>3, <1>4, <1>5
          DEF Next, Step, Pick, Arrive, Lock, EndPing, PickNone, cluster

\* Nobody pings while a client scans.
LEMMA AloneInside ==
    ASSUME Discipline, NEW s \in Threads, NEW t \in Threads,
           Inside(s), Inside(t)
    PROVE  s = t
  BY LBAssumption DEF Discipline, Inside

\* and what the scan has passed over so far.
LEMMA StepScan ==
    ASSUME TypeOK, Discipline, Scan, Next
    PROVE  Scan'
  <1> SUFFICES ASSUME NEW d \in Clients, pc'[d] = "pick",
                      NEW i \in Servers, alive'[i]
               PROVE  Ahead(i)' + attempts'[d] < N
    BY DEF Scan
  <1> USE LBAssumption DEF cluster, locals, Goto
  <1>1. Ahead(i) \in 0..(N - 1) /\ attempts[d] \in 0..N
    BY AheadType DEF TypeOK
  <1>2. ASSUME pc[d] = "pick", UNCHANGED <<current, alive, attempts>>
        PROVE  Ahead(i)' + attempts'[d] < N
    BY <1>2 DEF Ahead, Scan
  <1>3. ASSUME NEW c \in Clients, Arrive(c) PROVE Ahead(i)' + attempts'[d] < N
    BY <1>2, <1>3 DEF Arrive, TypeOK
  <1>4. ASSUME NEW c \in Clients, Lock(c) PROVE Ahead(i)' + attempts'[d] < N
    BY <1>2, <1>4 DEF Lock, TypeOK
  <1>5. ASSUME NEW t \in Threads, Probe(t) PROVE Ahead(i)' + attempts'[d] < N
    BY <1>5, AloneInside DEF Probe, Inside, TypeOK
  <1>6. ASSUME NEW t \in Threads, EndPing(t)
        PROVE  Ahead(i)' + attempts'[d] < N
    <2>1. CASE d = t
      BY <1>1, <1>6, <2>1 DEF EndPing, TypeOK, Ahead
    <2>2. CASE d # t
      BY <1>6, <2>2, AloneInside DEF EndPing, Inside, TypeOK
    <2> QED BY <2>1, <2>2
  <1>7. ASSUME NEW c \in Clients, PickAlive(c)
        PROVE  Ahead(i)' + attempts'[d] < N
    BY <1>7, AloneInside DEF PickAlive, Inside, TypeOK
  <1>8. ASSUME NEW c \in Clients, SkipDead(c)
        PROVE  Ahead(i)' + attempts'[d] < N
    <2>1. d = c
      BY <1>8, AloneInside DEF SkipDead, Inside, TypeOK
    <2>2. i # current /\ alive[i] /\ pc[d] = "pick"
      BY <1>8, <2>1 DEF SkipDead
    <2>3. Ahead(i)' = Ahead(i) - 1
      BY <1>8, <2>2, AheadAdvance DEF SkipDead
    <2>4. attempts'[d] = attempts[d] + 1
      BY <1>8, <2>1 DEF SkipDead, TypeOK
    <2> QED BY <1>1, <2>2, <2>3, <2>4 DEF Scan
  <1>9. ASSUME NEW c \in Clients, PickNone(c)
        PROVE  Ahead(i)' + attempts'[d] < N
    BY <1>2, <1>9 DEF PickNone, TypeOK
  <1> QED BY <1>3, <1>4, <1>5, <1>6, <1>7, <1>8, <1>9 DEF Next, Step, Pick

\* The inductive invariant: types, who is inside, and how far the turns and
\* the scan have come.
THEOREM Invariant == Spec => []IInv
  <1>1. Init => IInv
    BY InitInvariant
  <1>2. IInv /\ [Next]_vars => IInv'
    <2>1. ASSUME IInv, Next PROVE IInv'
      BY <2>1, StepType, StepDiscipline, StepTurns, StepScan DEF IInv
    <2>2. ASSUME IInv, UNCHANGED vars PROVE IInv'
      BY <2>2 DEF IInv, TypeOK, Discipline, Inside, Turns, Scan, Ahead, vars,
                  cluster, locals
    <2> QED BY <2>1, <2>2
  <1> QED BY <1>1, <1>2, PTL DEF Spec

\* Every variable of the balancer keeps its type.
THEOREM TypeCorrect == Spec => []TypeOK
  <1>1. IInv => TypeOK
    BY DEF IInv
  <1> QED BY <1>1, Invariant, PTL

\* The cluster has one user at a time, the first ping without the mutex
\* included, since Main accepts no client before it is over.
THEOREM ClusterHasOneUser == Spec => []OneAtATime
  <1>1. IInv => OneAtATime
    BY AloneInside DEF IInv, OneAtATime, Inside
  <1> QED BY <1>1, Invariant, PTL

\* No live server is passed over more than N - 1 times in a row.
THEOREM RoundRobinIsFair == Spec => []RoundRobinFair
  <1>1. IInv => RoundRobinFair
    <2> SUFFICES ASSUME IInv, NEW i \in Servers PROVE passed[i] <= N - 1
      BY DEF RoundRobinFair
    <2>1. Ahead(i) \in 0..(N - 1) /\ passed[i] \in Nat
      BY AheadType DEF IInv, TypeOK
    <2>2. passed[i] + Ahead(i) <= N - 1
      BY DEF IInv, Turns
    <2> QED BY <2>1, <2>2, LBAssumption
  <1> QED BY <1>1, Invariant, PTL

\* A request is closed without an answer only when no server is alive.
THEOREM NoLiveServerIsMissed == Spec => []GivesUpOnlyIfAllDead
  <1>1. IInv => GivesUpOnlyIfAllDead
    <2> SUFFICES ASSUME IInv, NEW c \in Clients, pc[c] = "pick",
                        attempts[c] = N, NEW i \in Servers, alive[i]
                 PROVE  FALSE
      BY DEF GivesUpOnlyIfAllDead
    <2>1. Ahead(i) \in 0..(N - 1)
      BY AheadType DEF IInv
    <2>2. Ahead(i) + attempts[c] < N
      BY DEF IInv, Scan
    <2> QED BY <2>1, <2>2, LBAssumption
  <1> QED BY <1>1, Invariant, PTL

\* The live ones of some first servers are finitely many.
LEMMA LiveFinite ==
    ASSUME NEW n \in Nat
    PROVE  IsFiniteSet(Live(alive, n))
  <1>1. IsFiniteSet(0..(n - 1))
    BY FS_Interval
  <1> QED BY <1>1, FS_Subset DEF Live

\* One more probe adds its server to the live ones, if it answered.
LEMMA LiveGrows ==
    ASSUME TypeOK, NEW p \in Servers, NEW b \in BOOLEAN,
           alive' = [alive EXCEPT ![p] = b]
    PROVE  Cardinality(Live(alive', p + 1))
              = IF b THEN Cardinality(Live(alive, p)) + 1 ELSE Cardinality(Live(alive, p))
  <1>1. p \in Nat /\ N \in Nat
    BY LBAssumption
  <1>2. p \notin Live(alive, p)
    BY <1>1 DEF Live
  <1>3. CASE b
    <2>1. Live(alive', p + 1) = Live(alive, p) \union {p}
      BY <1>1, <1>3 DEF Live, TypeOK
    <2> QED BY <1>1, <1>2, <1>3, <2>1, LiveFinite, FS_AddElement
  <1>4. CASE ~b
    <2>1. Live(alive', p + 1) = Live(alive, p)
      BY <1>1, <1>4 DEF Live, TypeOK
    <2> QED BY <1>4, <2>1
  <1> QED BY <1>3, <1>4

\* Every step keeps the count of the live servers probed so far.
LEMMA StepCount ==
    ASSUME TypeOK, Discipline, Count, Next
    PROVE  Count'
  <1> USE LBAssumption DEF cluster, locals, Goto
  <1>1. ASSUME UNCHANGED <<alive, aliveCount, found, probe>>,
               \A t \in Threads : pc'[t] = "ping" <=> pc[t] = "ping"
        PROVE  Count'
    BY <1>1 DEF Count, Live
  <1>2. ASSUME NEW c \in Clients, Arrive(c) PROVE Count'
    BY <1>1, <1>2 DEF Arrive, TypeOK
  <1>3. ASSUME NEW c \in Clients, Lock(c) PROVE Count'
    <2>1. pc' = [pc EXCEPT ![c] = "ping"] /\ pc'[c] = "ping"
      BY <1>3 DEF Lock, TypeOK
    <2>2. ASSUME NEW t \in Threads, pc'[t] = "ping" PROVE t = c
      BY <1>3, <2>1, <2>2 DEF Lock, Discipline, Inside, TypeOK
    <2>3. found'[c] = 0 /\ probe'[c] = 0
      BY <1>3 DEF Lock, TypeOK
    <2>4. Live(alive', 0) = {}
      BY DEF Live
    <2>5. found'[c] = Cardinality(Live(alive', probe'[c]))
      BY <2>3, <2>4, FS_EmptySet DEF Live
    <2> QED BY <2>1, <2>2, <2>5 DEF Count, Live
  <1>4. ASSUME NEW t \in Threads, Probe(t) PROVE Count'
    <2>1. pc' = pc /\ pc[t] = "ping"
      BY <1>4 DEF Probe
    <2>2. ASSUME NEW s \in Threads, pc[s] = "ping" PROVE s = t
      BY <2>1, <2>2, AloneInside DEF Inside
    <2>3. probe[t] \in Servers
      BY <1>4 DEF Probe, TypeOK
    <2>4. PICK b \in BOOLEAN :
             /\ alive' = [alive EXCEPT ![probe[t]] = b]
             /\ found' = [found EXCEPT ![t] = IF b THEN @ + 1 ELSE @]
      BY <1>4 DEF Probe
    <2>5. found[t] = Cardinality(Live(alive, probe[t]))
      BY <2>1 DEF Count
    <2>6. found'[t] = Cardinality(Live(alive', probe[t] + 1))
      BY <2>3, <2>4, <2>5, LiveGrows DEF TypeOK
    <2>7. probe'[t] = probe[t] + 1
      BY <1>4 DEF Probe, TypeOK
    <2>8. found'[t] = Cardinality(Live(alive', probe'[t]))
      BY <2>6, <2>7 DEF Live
    <2> QED BY <2>1, <2>2, <2>8 DEF Count, Live
  <1>5. ASSUME NEW t \in Threads, EndPing(t) PROVE Count'
    <2>1. ASSUME NEW s \in Threads, pc'[s] = "ping" PROVE FALSE
      <3>1. s # t /\ pc[s] = "ping" /\ pc[t] = "ping"
        BY <1>5, <2>1 DEF EndPing, TypeOK
      <3> QED BY <3>1, AloneInside DEF Inside
    <2>2. aliveCount' = Cardinality(Live(alive, N)) /\ alive' = alive
      BY <1>5 DEF EndPing, Count
    <2> QED BY <2>1, <2>2 DEF Count, Live
  <1>6. ASSUME NEW c \in Clients, PickAlive(c) PROVE Count'
    BY <1>1, <1>6 DEF PickAlive, TypeOK
  <1>7. ASSUME NEW c \in Clients, SkipDead(c) PROVE Count'
    BY <1>1, <1>7 DEF SkipDead
  <1>8. ASSUME NEW c \in Clients, PickNone(c) PROVE Count'
    BY <1>1, <1>8 DEF PickNone, TypeOK
  <1> QED BY <1>2, <1>3, <1>4, <1>5, <1>6, <1>7, <1>8 DEF Next, Step, Pick

\* Whenever no ping is under way, alive_count is the number of servers that
\* are marked alive.
THEOREM AliveCountIsExact == Spec => []AliveCountExact
  <1>1. Init => Count
    <2> SUFFICES ASSUME Init PROVE Count
      OBVIOUS
    <2>1. Live(alive, 0) = {}
      BY DEF Live
    <2>2. \A t \in Threads : found[t] = 0 /\ probe[t] = 0
      BY DEF Init
    <2>3. pc[Main] = "ping"
      BY DEF Init
    <2> QED BY <2>1, <2>2, <2>3, FS_EmptySet DEF Count
  <1>2. IInv /\ Count /\ [Next]_vars => Count'
    <2>1. ASSUME IInv, Count, Next PROVE Count'
      BY <2>1, StepCount DEF IInv
    <2>2. ASSUME Count, UNCHANGED vars PROVE Count'
      BY <2>2 DEF Count, Live, vars, cluster, locals
    <2> QED BY <2>1, <2>2
  <1>3. Count => AliveCountExact
    <2>1. Live(alive, N) = {i \in Servers : alive[i]}
      BY DEF Live
    <2> QED BY <2>1 DEF Count, AliveCountExact
  <1> QED BY <1>1, <1>2, <1>3, Invariant, PTL DEF Spec
==============================================================================
