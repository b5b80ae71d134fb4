------------------------------ MODULE MCBackend ------------------------------
(* Values for the constants of Backend. *)
EXTENDS Backend, TLC

Good(m, n) == [method |-> m, length |-> n, form |-> "good"]

\* Every kind of request, with two lengths of a PUT.
MCRequests ==
    {Good(m, 1) : m \in {"GET", "HEAD", "DELETE", "PUT", "POST", "TRACE",
                     "UNKNOWN", "PING"}}
        \union {Good("PUT", 2)}
        \union {[Good("GET", 1) EXCEPT !.form = f] : f \in {"malformed", "dots", "version"}}
        \union {[Good("POST", 1) EXCEPT !.form = "root"]}
==============================================================================
