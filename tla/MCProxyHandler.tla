---------------------------- MODULE MCProxyHandler ----------------------------
(* Values for the constants of ProxyHandler. *)
EXTENDS ProxyHandler, TLC

Plain(m) == [method |-> m, public |-> TRUE, host |-> TRUE, hops |-> "absent"]

\* One request that fills the cache and one that invalidates it.
MCCacheRequests == {Plain(m) : m \in {"GET", "PUT"}}

\* One request of every kind.  TRACE takes the way of an OPTIONS request that
\* has no Max-Forwards.
MCAllRequests ==
    {Plain(m) : m \in Methods \ {"TRACE"}}
        \union {[Plain("OPTIONS") EXCEPT !.hops = h] : h \in {"bad", "zero", "positive"}}
        \union {[Plain("GET") EXCEPT !.public = FALSE],
                [Plain("GET") EXCEPT !.host = FALSE],
                [Plain("DELETE") EXCEPT !.host = FALSE]}

MCSettings ==
    {[requests |-> MCCacheRequests, faults |-> {"client", "backend"}],
     [requests |-> MCAllRequests, faults |-> {"disk", "system"}]}

\* A client that leaves is all that can go wrong.
MCLeaving == {[requests |-> MCCacheRequests, faults |-> {"client"}]}

MCSymmetry == Permutations(Clients)
==============================================================================
