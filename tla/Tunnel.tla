-------------------------------- MODULE Tunnel --------------------------------
(***************************************************************************)
(* The CONNECT tunnel (src/src/Network/connect_tunnel.c, with tcp_send_all *)
(* and tcp_recv of tcp.c): one thread of the proxy between the sockets of  *)
(* two ends that may speak, fall silent, finish or leave at any moment.    *)
(*                                                                         *)
(* The n-th byte that end e says is <<e, n>>, and <<"proxy", code>> is an  *)
(* answer of the proxy itself.  The sockets have bounded buffers, so that  *)
(* a send may take several calls, and waits while the other side does not  *)
(* read.  The request that asked for the tunnel is in module Connection.   *)
(***************************************************************************)
EXTENDS Integers, Sequences, SequencesExt

CONSTANTS
    Volume,       \* bound: bytes that each end says
    Window,       \* bytes that the buffer of a socket holds
    Buffer        \* TCP_TUNNEL_BUFFER_SIZE

Ends == {"client", "target"}
Other(e) == IF e = "client" THEN "target" ELSE "client"

ASSUME TunnelAssumption ==
    /\ Volume \in Nat
    /\ {Window, Buffer} \subseteq Nat \ {0}

VARIABLES
    pc,           \* where the thread is
    state,        \* state[e]: "absent", "open", "half" when it has finished to
                  \* speak, "gone" when it has closed, "reset" when the proxy's
                  \* next call on the socket may fail for it
    said,         \* said[e]: bytes it has said
    inbox,        \* inbox[e]: said and not yet received by the proxy
    outbox,       \* outbox[e]: sent to e and not yet read there
    got,          \* got[e]: what e has read
    sockets,      \* the ends whose socket the proxy has open
    ready,        \* read_fds after select
    source,       \* the end whose bytes are being sent on
    pending,      \* what remains of them in the buffer
    skipped,      \* history: bytes of the client that the request parser took
    cut           \* history: cut[e]: the proxy closed with bytes of e unread

world  == <<state, said, inbox, outbox, got, sockets, cut>>
loop   == <<ready, source, pending>>
tunnel == <<pc, world, loop, skipped>>

TunnelInit ==
    /\ state = [client |-> "open", target |-> "absent"]
    /\ said = [e \in Ends |-> 0]
    /\ inbox = [e \in Ends |-> <<>>]
    /\ outbox = [e \in Ends |-> <<>>]
    /\ got = [e \in Ends |-> <<>>]
    /\ sockets = {"client"}
    /\ ready = {}
    /\ source = "client"
    /\ pending = <<>>
    /\ skipped = 0
    /\ cut = [e \in Ends |-> FALSE]

Relaying  == {"select", "client", "target", "send"}
Listens(e) == state[e] \in {"open", "half"}
------------------------------------------------------------------------------
(***************************************************************************)
(* The ends.                                                               *)
(***************************************************************************)
Say(e) ==
    /\ e \in sockets /\ state[e] = "open"
    /\ said[e] < Volume /\ Len(inbox[e]) < Window
    /\ said' = [said EXCEPT ![e] = @ + 1]
    /\ inbox' = [inbox EXCEPT ![e] = Append(@, <<e, said[e] + 1>>)]
    /\ UNCHANGED <<pc, state, outbox, got, sockets, cut, loop, skipped>>

\* shutdown of the sending side only.
FinishSpeaking(e) ==
    /\ e \in sockets /\ state[e] = "open"
    /\ state' = [state EXCEPT ![e] = "half"]
    /\ UNCHANGED <<pc, said, inbox, outbox, got, sockets, cut, loop, skipped>>

\* An end that leaves something unread resets the connection.
Leave(e) ==
    /\ e \in sockets /\ Listens(e)
    /\ state' = [state EXCEPT ![e] = IF outbox[e] = <<>> THEN "gone" ELSE "reset"]
    /\ outbox' = [outbox EXCEPT ![e] = <<>>]
    /\ UNCHANGED <<pc, said, inbox, got, sockets, cut, loop, skipped>>

Read(e) ==
    /\ Listens(e) /\ outbox[e] # <<>>
    /\ got' = [got EXCEPT ![e] = @ \o outbox[e]]
    /\ outbox' = [outbox EXCEPT ![e] = <<>>]
    /\ UNCHANGED <<pc, state, said, inbox, sockets, cut, loop, skipped>>
------------------------------------------------------------------------------
(***************************************************************************)
(* tcp_handle_connect, up to the loop.                                     *)
(***************************************************************************)
\* A send that returns: the bytes are in the buffer, or lost if the end has
\* closed, which the proxy learns from a later call.
Send(e, bytes) ==
    \/ /\ Listens(e) /\ Len(outbox[e] \o bytes) <= Window
       /\ outbox' = [outbox EXCEPT ![e] = @ \o bytes]
       /\ UNCHANGED state
    \/ /\ state[e] \in {"gone", "reset"}
       /\ state' = [state EXCEPT ![e] = "reset"]
       /\ UNCHANGED outbox

\* An answer, the result of whose send nobody looks at; then the handler ends.
AnswerAndClose(code) ==
    /\ Send("client", <<<<"proxy", code>>>>)
    /\ pc' = "close client"
    /\ UNCHANGED <<said, inbox, got, sockets, cut, loop, skipped>>

Connect ==
    /\ pc = "connect"
    /\ pc' = "established"
    /\ sockets' = sockets \union {"target"}
    /\ state' = [state EXCEPT !["target"] = "open"]
    /\ UNCHANGED <<said, inbox, outbox, got, cut, loop, skipped>>

ConnectError ==
    /\ pc = "connect"
    /\ AnswerAndClose(502)

Established ==
    /\ pc = "established"
    /\ Send("client", <<<<"proxy", 200>>>>)
    /\ pc' = "select"
    /\ UNCHANGED <<said, inbox, got, sockets, cut, loop, skipped>>

EstablishedError ==
    /\ pc = "established"
    /\ state["client"] = "reset"
    /\ pc' = "close target"
    /\ UNCHANGED <<world, loop, skipped>>
------------------------------------------------------------------------------
(***************************************************************************)
(* tunnel_loop.                                                            *)
(***************************************************************************)
Readable(e) == inbox[e] # <<>> \/ state[e] # "open"

Select ==
    /\ pc = "select"
    /\ \E e \in Ends : Readable(e)
    /\ ready' = {e \in Ends : Readable(e)}
    /\ pc' = IF Readable("client") THEN "client" ELSE "target"
    /\ UNCHANGED <<world, source, pending, skipped>>

Recv(e) ==
    /\ pc = e
    /\ inbox[e] # <<>>
    /\ LET n == IF Len(inbox[e]) < Buffer THEN Len(inbox[e]) ELSE Buffer
       IN /\ pending' = SubSeq(inbox[e], 1, n)
          /\ inbox' = [inbox EXCEPT ![e] = SubSeq(@, n + 1, Len(@))]
    /\ source' = e
    /\ pc' = "send"
    /\ UNCHANGED <<state, said, outbox, got, sockets, cut, ready, skipped>>

Ended(e) == state[e] = "reset" \/ (state[e] # "open" /\ inbox[e] = <<>>)

\* Mutant: the end of one side is acted on before its last bytes are received.
RecvEndEarly(e) ==
    /\ pc = e
    /\ state[e] # "open"
    /\ pc' = "close target"
    /\ UNCHANGED <<world, loop, skipped>>

\* Mutant: the end of one side is not the end of the loop.
RecvEndGoesOn(e) ==
    /\ pc = e
    /\ Ended(e)
    /\ pc' = IF e = "client" /\ "target" \in ready THEN "target" ELSE "select"
    /\ UNCHANGED <<world, loop, skipped>>

\* recv returns 0 or -1: the loop ends, whatever the other end has said.
RecvEnd(e) ==
    /\ pc = e
    /\ Ended(e)
    /\ pc' = "close target"
    /\ UNCHANGED <<world, loop, skipped>>

\* Mutant: after a short send the buffer is sent from its start again.
SendSomeAgain ==
    /\ pc = "send"
    /\ \E n \in 1..Len(pending) :
          /\ Send(Other(source), SubSeq(pending, 1, n))
          /\ pending' = IF n = Len(pending) THEN <<>> ELSE pending
    /\ pc' = IF pending' # <<>> THEN "send"
             ELSE IF source = "client" /\ "target" \in ready THEN "target"
             ELSE "select"
    /\ UNCHANGED <<said, inbox, got, sockets, cut, ready, source, skipped>>

\* Mutant: the target has its turn only when the client is silent.
SendSomeUnfair ==
    /\ pc = "send"
    /\ \E n \in 1..Len(pending) :
          /\ Send(Other(source), SubSeq(pending, 1, n))
          /\ pending' = SubSeq(pending, n + 1, Len(pending))
    /\ pc' = IF pending' # <<>> THEN "send"
             ELSE IF source = "client" THEN "client" ELSE "select"
    /\ UNCHANGED <<said, inbox, got, sockets, cut, ready, source, skipped>>

\* One send of tcp_send_all.
SendSome ==
    /\ pc = "send"
    /\ \E n \in 1..Len(pending) :
          /\ Send(Other(source), SubSeq(pending, 1, n))
          /\ pending' = SubSeq(pending, n + 1, Len(pending))
    /\ pc' = IF pending' # <<>> THEN "send"
             ELSE IF source = "client" /\ "target" \in ready THEN "target"
             ELSE "select"
    /\ UNCHANGED <<said, inbox, got, sockets, cut, ready, source, skipped>>

SendError ==
    /\ pc = "send"
    /\ state[Other(source)] = "reset"
    /\ pc' = "close target"
    /\ UNCHANGED <<world, loop, skipped>>
------------------------------------------------------------------------------
\* tcp_close: an end that is closed with bytes of it unread may lose what it has
\* not read itself.
Close(e, unread) ==
    /\ sockets' = sockets \ {e}
    /\ cut' = [cut EXCEPT ![e] = unread]
    /\ \/ UNCHANGED outbox
       \/ unread /\ outbox' = [outbox EXCEPT ![e] = <<>>]
    /\ UNCHANGED <<state, said, inbox, got, loop, skipped>>

CloseTarget ==
    /\ pc = "close target"
    /\ Close("target", inbox["target"] # <<>>)
    /\ pc' = "close client"

TunnelStep ==
    \/ Connect \/ ConnectError
    \/ Established \/ EstablishedError
    \/ Select
    \/ \E e \in Ends : Recv(e) \/ RecvEnd(e)
    \/ SendSome \/ SendError
    \/ CloseTarget

EndStep == \E e \in Ends : Say(e) \/ FinishSpeaking(e) \/ Leave(e) \/ Read(e)
------------------------------------------------------------------------------
Byte == (Ends \X (1..Volume)) \union ({"proxy"} \X {200, 400, 405, 502})

TunnelTypeOK ==
    /\ state \in [Ends -> {"absent", "open", "half", "gone", "reset"}]
    /\ said \in [Ends -> 0..Volume]
    /\ \A queue \in {inbox, outbox} :
          queue \in [Ends -> Seq(Byte)] /\ \A e \in Ends : Len(queue[e]) <= Window
    /\ got \in [Ends -> Seq(Byte)]
    /\ sockets \subseteq Ends
    /\ ready \subseteq Ends
    /\ source \in Ends
    /\ pending \in Seq(Byte) /\ Len(pending) <= Buffer
    /\ skipped \in 0..Volume
    /\ cut \in [Ends -> BOOLEAN]

\* What e has said since the tunnel was asked for, and what of it is there.
Speech(e) == [n \in 1..said[e] |-> <<e, n>>]
ToRelay(e) == IF e = "client" THEN SubSeq(Speech(e), skipped + 1, said[e]) ELSE Speech(e)

\* What e has been sent: of the proxy its answer to the client, and then what
\* the other end has said.
Heard(e) == got[e] \o outbox[e]
AfterAnswer(e, heard) == IF e = "client" THEN SubSeq(heard, 2, Len(heard)) ELSE heard
Arrived(e) == AfterAnswer(Other(e), Heard(Other(e)))
InHand(e) == IF source = e THEN pending ELSE <<>>

\* Each end gets the bytes of the other in order, none twice and none left out,
\* and the client after the one answer of the proxy; and as long as nobody has
\* left, every byte said is on its way, however recv and send divide them.
InOrder ==
    /\ \A e \in Ends :
          /\ IsPrefix(Arrived(e), ToRelay(e))
          /\ pc \in Relaying /\ "reset" \notin {state[e], state[Other(e)]} =>
                Arrived(e) \o InHand(e) \o inbox[e] = ToRelay(e)
    /\ \A i \in DOMAIN Heard("client") : i = 1 <=> Heard("client")[i][1] = "proxy"

\* When an end finishes and the other one stays, all that the first has said
\* arrives before the tunnel is closed, unless the proxy closes with bytes of
\* the second unread, and the reset that follows from it destroys them.
LastWordsArrive ==
    \A e \in Ends :
        /\ pc = "closed"
        /\ state[e] \in {"half", "gone"}
        /\ state[Other(e)] = "open" /\ ~cut[Other(e)]
        => Arrived(e) = ToRelay(e)

\* The end of either side ends the tunnel, both sockets included.
TunnelEnds ==
    \A e \in Ends :
        pc \in Relaying /\ state[e] # "open" ~> pc = "closed"

\* As long as both ends stay and read, each byte that one says reaches the other;
\* a talkative client does not keep the target from being heard.
EverythingArrives ==
    \A e \in Ends : \A n \in 1..Volume :
        said[e] >= n ~>
            \/ <<e, n>> \in ToSet(got[Other(e)])
            \/ e = "client" /\ n <= skipped
            \/ \E end \in Ends : state[end] # "open"
            \/ pc = "closed"
==============================================================================
