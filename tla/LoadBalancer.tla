----------------------------- MODULE LoadBalancer -----------------------------
(***************************************************************************)
(* The cluster of backends and its round robin (src/src/Proxy/Cluster.c    *)
(* and RoundRobin.c), used by the client threads under the mutex that      *)
(* proxy_main.c shares with them (ManageClient/manage_client.c).           *)
(*                                                                         *)
(* Every request pings all the servers, one connection after the other,    *)
(* and then takes the next live one, all in one critical section.  The     *)
(* servers come up and go down at any time, between two probes too.        *)
(***************************************************************************)
EXTENDS Integers, FiniteSets

CONSTANTS
    N,        \* server_count
    Clients,  \* client threads
    Main,     \* the thread of proxy_main, which pings before it accepts
    None      \* nobody

Servers == 0..(N - 1)
Threads == Clients \union {Main}

ASSUME LBAssumption ==
    /\ N \in Nat
    /\ Main \notin Clients
    /\ None \notin Threads

VARIABLES
    alive,       \* alive[i]: servers[i].is_alive
    aliveCount,  \* lb->alive_count
    current,     \* lb->current
    mutex,       \* holder of lb_mutex, or None
    pc,          \* pc[t]: where thread t is
    probe,       \* probe[t]: next server of its ping_servers
    found,       \* found[t]: its local alive_count
    attempts,    \* attempts[t]: the attempts of its lb_next_server
    passed       \* history: picks of others since i was picked or found dead

cluster == <<alive, aliveCount, current>>
locals  == <<probe, found, attempts>>
vars == <<alive, aliveCount, current, mutex, pc, probe, found, attempts,
          passed>>

Init ==
    /\ alive = [i \in Servers |-> FALSE]
    /\ aliveCount = 0
    /\ current = 0
    /\ mutex = None
    /\ pc = [t \in Threads |-> IF t = Main THEN "ping" ELSE "idle"]
    /\ probe = [t \in Threads |-> 0]
    /\ found = [t \in Threads |-> 0]
    /\ attempts = [t \in Threads |-> 0]
    /\ passed = [i \in Servers |-> 0]

Goto(t, place) == pc' = [pc EXCEPT ![t] = place]

\* Mutant: the accept loop starts before the first ping is over.
ArriveEarly(c) ==
    /\ pc[c] = "idle"
    /\ Goto(c, "wait")
    /\ UNCHANGED <<cluster, mutex, locals, passed>>

\* Main accepts a client, whose request reaches the balancer.
Arrive(c) ==
    /\ pc[Main] = "accept"
    /\ pc[c] = "idle"
    /\ Goto(c, "wait")
    /\ UNCHANGED <<cluster, mutex, locals, passed>>

\* Mutant: ping_servers goes on counting where its last call stopped.
LockKeepsCount(c) ==
    /\ pc[c] = "wait"
    /\ mutex = None
    /\ mutex' = c
    /\ Goto(c, "ping")
    /\ probe' = [probe EXCEPT ![c] = 0]
    /\ UNCHANGED <<cluster, found, attempts, passed>>

\* The client thread takes lb_mutex and calls ping_servers.
Lock(c) ==
    /\ pc[c] = "wait"
    /\ mutex = None
    /\ mutex' = c
    /\ Goto(c, "ping")
    /\ probe' = [probe EXCEPT ![c] = 0]
    /\ found' = [found EXCEPT ![c] = 0]
    /\ UNCHANGED <<cluster, attempts, passed>>

\* ping_servers: a connection to one server, which succeeds or not whatever the
\* probe before it found: servers come and go, and connect may fail on our side.
Probe(t) ==
    /\ pc[t] = "ping"
    /\ probe[t] < N
    /\ \E connected \in BOOLEAN :
          /\ alive' = [alive EXCEPT ![probe[t]] = connected]
          /\ found' = [found EXCEPT ![t] = IF connected THEN @ + 1 ELSE @]
          /\ passed' = [passed EXCEPT ![probe[t]] = IF connected THEN @ ELSE 0]
    /\ probe' = [probe EXCEPT ![t] = @ + 1]
    /\ UNCHANGED <<aliveCount, current, mutex, pc, attempts>>

\* Mutant: lb_next_server does not start its attempts from zero.
EndPingKeepsAttempts(t) ==
    /\ pc[t] = "ping"
    /\ probe[t] = N
    /\ aliveCount' = found[t]
    /\ Goto(t, IF t = Main THEN "accept" ELSE "pick")
    /\ UNCHANGED <<alive, current, mutex, locals, passed>>

\* ping_servers publishes its count; a client goes on to lb_next_server.
EndPing(t) ==
    /\ pc[t] = "ping"
    /\ probe[t] = N
    /\ aliveCount' = found[t]
    /\ Goto(t, IF t = Main THEN "accept" ELSE "pick")
    /\ attempts' = [attempts EXCEPT ![t] = 0]
    /\ UNCHANGED <<alive, current, mutex, probe, found, passed>>

\* Mutant: current never wraps around.
AdvanceWithoutWrap == current' = current + 1

Advance == current' = (current + 1) % N

\* Mutant: only a dead server moves current on.
PickSameAgain(c) ==
    /\ pc[c] = "pick"
    /\ attempts[c] < N
    /\ alive[current]
    /\ mutex' = None
    /\ Goto(c, "idle")
    /\ passed' = [i \in Servers |-> IF i = current \/ ~alive[i] THEN 0
                                    ELSE passed[i] + 1]
    /\ UNCHANGED <<alive, aliveCount, current, locals>>

\* lb_next_server: the server at current is alive.
PickAlive(c) ==
    /\ pc[c] = "pick"
    /\ attempts[c] < N
    /\ alive[current]
    /\ Advance
    /\ mutex' = None
    /\ Goto(c, "idle")
    /\ passed' = [i \in Servers |-> IF i = current \/ ~alive[i] THEN 0
                                    ELSE passed[i] + 1]
    /\ UNCHANGED <<alive, aliveCount, locals>>

\* lb_next_server: the server at current is dead, try the next one.
SkipDead(c) ==
    /\ pc[c] = "pick"
    /\ attempts[c] < N
    /\ ~alive[current]
    /\ Advance
    /\ attempts' = [attempts EXCEPT ![c] = @ + 1]
    /\ UNCHANGED <<alive, aliveCount, mutex, pc, probe, found, passed>>

\* Mutant: the NULL path returns with the mutex held.
PickNoneKeepsMutex(c) ==
    /\ pc[c] = "pick"
    /\ attempts[c] = N
    /\ Goto(c, "idle")
    /\ UNCHANGED <<cluster, mutex, locals, passed>>

\* NULL: the client is closed without an answer.
PickNone(c) ==
    /\ pc[c] = "pick"
    /\ attempts[c] = N
    /\ mutex' = None
    /\ Goto(c, "idle")
    /\ UNCHANGED <<cluster, locals, passed>>

Step(t) == Probe(t) \/ EndPing(t)
Pick(c) == PickAlive(c) \/ SkipDead(c) \/ PickNone(c)

Next ==
    \/ \E c \in Clients : Arrive(c) \/ Lock(c) \/ Pick(c)
    \/ \E t \in Threads : Step(t)

Spec == Init /\ [][Next]_vars

(***************************************************************************)
(* Fairness: a connection attempt ends, and a waiting thread gets the      *)
(* mutex at last if it keeps being released.                               *)
(***************************************************************************)
Fairness ==
    /\ \A t \in Threads : WF_vars(Step(t))
    /\ \A c \in Clients : WF_vars(Pick(c)) /\ SF_vars(Lock(c))

FairSpec == Spec /\ Fairness
------------------------------------------------------------------------------
TypeOK ==
    /\ alive \in [Servers -> BOOLEAN]
    /\ aliveCount \in 0..N
    /\ current \in Servers \union {0}
    /\ mutex \in Clients \union {None}
    /\ pc \in [Threads -> {"idle", "wait", "ping", "pick", "accept"}]
    /\ probe \in [Threads -> 0..N]
    /\ found \in [Threads -> 0..N]
    /\ attempts \in [Threads -> 0..N]
    /\ passed \in [Servers -> Nat]

\* The cluster is touched by one thread at a time, although the first ping
\* of proxy_main takes no mutex.
OneAtATime ==
    \A s, t \in Threads :
        pc[s] \in {"ping", "pick"} /\ pc[t] \in {"ping", "pick"} => s = t

\* Outside ping_servers, alive_count is the number of servers marked alive.
AliveCountExact ==
    (\A t \in Threads : pc[t] # "ping")
        => aliveCount = Cardinality({i \in Servers : alive[i]})

\* A request is given up only if its own ping found every server dead: the scan
\* starts wherever current is and wraps around, and misses no live server.
GivesUpOnlyIfAllDead ==
    \A c \in Clients :
        pc[c] = "pick" /\ attempts[c] = N => \A i \in Servers : ~alive[i]

\* Round robin: a server that every ping finds alive is passed over at most
\* N - 1 times in a row, whichever servers die and come back in between.
RoundRobinFair == \A i \in Servers : passed[i] <= N - 1

\* Every request gets its turn at the balancer, however many others come.
EveryRequestDecided == \A c \in Clients : pc[c] = "wait" ~> pc[c] = "idle"
==============================================================================
