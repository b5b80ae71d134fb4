--------------------------- MODULE ConnectionProofs ---------------------------
(***************************************************************************)
(* Theorems about the CONNECT tunnel of a connection, for any texts, any   *)
(* number of bytes and any size of the buffers, with ends that fall silent *)
(* or leave.                                                               *)
(***************************************************************************)
EXTENDS Connection, SequenceTheorems, TLAPS

\* Before the tunnel, while it relays, and when it is over.
Early == {"recv", "parsed", "forward", "connect"}
Over  == {"close target", "close client", "closed"}

USE DEF Ends, Other

\* A run: the bytes of s are the ones that e says after its first i.
Run(e, s, i) == \A k \in 1..Len(s) : s[k] = <<e, i + k>>

------------------------------------------------------------------------------
(***************************************************************************)
(* Sequences of bytes.                                                     *)
(***************************************************************************)
\* What a part of a sequence is.
LEMMA Part ==
    ASSUME NEW S, NEW s \in Seq(S), NEW m \in Nat \ {0}, NEW n \in 0..Len(s)
    PROVE  /\ SubSeq(s, m, n) \in Seq(S)
           /\ Len(SubSeq(s, m, n)) = IF m <= n THEN n - m + 1 ELSE 0
           /\ \A k \in 1..Len(SubSeq(s, m, n)) : SubSeq(s, m, n)[k] = s[m + k - 1]
  <1>1. Len(s) \in Nat /\ \A k \in 1..Len(s) : s[k] \in S
    BY LenProperties, ElementOfSeq
  <1>2. m \in Int /\ n \in Int /\ \A k \in m..n : s[k] \in S
    BY <1>1
  <1>3. /\ SubSeq(s, m, n) \in Seq(S)
        /\ Len(SubSeq(s, m, n)) = IF m <= n THEN n - m + 1 ELSE 0
        /\ \A k \in 1..(n - m + 1) : SubSeq(s, m, n)[k] = s[m + k - 1]
    BY <1>2, SubSeqProperties
  <1>4. 1..Len(SubSeq(s, m, n)) \subseteq 1..(n - m + 1)
    BY <1>1, <1>3
  <1> QED BY <1>3, <1>4

\* A sequence without its first element.
LEMMA WithoutFirst ==
    ASSUME NEW S, NEW s \in Seq(S), s # <<>>
    PROVE  /\ SubSeq(s, 2, Len(s)) \in Seq(S)
           /\ Len(SubSeq(s, 2, Len(s))) = Len(s) - 1
           /\ \A k \in 1..(Len(s) - 1) : SubSeq(s, 2, Len(s))[k] = s[k + 1]
  BY HeadTailProperties, TailIsSubSeq

\* Concatenation, as the proofs below need it.
LEMMA Assoc ==
    \A s, t, u \in Seq(Byte) : (s \o t) \o u = s \o (t \o u)
  BY ConcatAssociative

\* What comes behind leaves the first element where it is.
LEMMA FirstStays ==
    ASSUME NEW s \in Seq(Byte), NEW t \in Seq(Byte), s # <<>>
    PROVE  s \o t # <<>> /\ (s \o t)[1] = s[1]
  <1>1. Len(s) \in Nat \ {0} /\ Len(t) \in Nat
    BY EmptySeq, LenProperties
  <1>2. 1 \in 1..(Len(s) + Len(t)) /\ 1 <= Len(s)
    BY <1>1
  <1>3. (s \o t)[1] = s[1]
    BY <1>2, ConcatProperties
  <1>4. s \o t # <<>>
    BY ConcatEqualIffEmpty
  <1> QED BY <1>3, <1>4

\* Two runs that follow each other make one.
LEMMA RunConcat ==
    ASSUME NEW e, NEW s \in Seq(Byte), NEW t \in Seq(Byte), NEW i \in Nat
    PROVE  /\ s \o t \in Seq(Byte) /\ Len(s \o t) = Len(s) + Len(t)
           /\ Run(e, s \o t, i) <=> Run(e, s, i) /\ Run(e, t, i + Len(s))
  <1>1. /\ s \o t \in Seq(Byte) /\ Len(s \o t) = Len(s) + Len(t)
        /\ \A k \in 1..(Len(s) + Len(t)) :
              (s \o t)[k] = IF k <= Len(s) THEN s[k] ELSE t[k - Len(s)]
    BY ConcatProperties
  <1>2. Len(s) \in Nat /\ Len(t) \in Nat
    BY LenProperties
  <1>3. ASSUME Run(e, s \o t, i) PROVE Run(e, s, i)
    BY <1>1, <1>2, <1>3 DEF Run
  <1>4. ASSUME Run(e, s \o t, i) PROVE Run(e, t, i + Len(s))
    <2>1. ASSUME NEW k \in 1..Len(t) PROVE t[k] = <<e, i + Len(s) + k>>
      <3>1. Len(s) + k \in 1..(Len(s) + Len(t)) /\ ~(Len(s) + k <= Len(s))
        BY <1>2
      <3>2. (Len(s) + k) - Len(s) = k /\ i + (Len(s) + k) = i + Len(s) + k
        BY <1>2
      <3>3. (s \o t)[Len(s) + k] = t[k]
        BY <1>1, <3>1, <3>2
      <3>4. (s \o t)[Len(s) + k] = <<e, i + (Len(s) + k)>>
        BY <1>1, <1>4, <3>1 DEF Run
      <3> QED BY <3>2, <3>3, <3>4
    <2> QED BY <2>1 DEF Run
  <1>5. ASSUME Run(e, s, i), Run(e, t, i + Len(s)) PROVE Run(e, s \o t, i)
    <2>1. ASSUME NEW k \in 1..(Len(s) + Len(t)) PROVE (s \o t)[k] = <<e, i + k>>
      <3>1. CASE k <= Len(s)
        BY <1>1, <1>2, <1>5, <3>1 DEF Run
      <3>2. CASE ~(k <= Len(s))
        <4>1. k - Len(s) \in 1..Len(t) /\ i + Len(s) + (k - Len(s)) = i + k
          BY <1>2, <3>2
        <4>2. t[k - Len(s)] = <<e, i + Len(s) + (k - Len(s))>>
          BY <1>5, <4>1 DEF Run
        <4> QED BY <1>1, <3>2, <4>1, <4>2
      <3> QED BY <3>1, <3>2
    <2> QED BY <1>1, <2>1 DEF Run
  <1> QED BY <1>1, <1>3, <1>4, <1>5

\* A run cut in two, as recv and send do.
LEMMA RunSplit ==
    ASSUME NEW e, NEW s \in Seq(Byte), NEW i \in Nat, NEW n \in 0..Len(s)
    PROVE  /\ SubSeq(s, 1, n) \in Seq(Byte) /\ SubSeq(s, n + 1, Len(s)) \in Seq(Byte)
           /\ Len(SubSeq(s, 1, n)) = n /\ Len(SubSeq(s, n + 1, Len(s))) = Len(s) - n
           /\ Run(e, s, i) => /\ Run(e, SubSeq(s, 1, n), i)
                              /\ Run(e, SubSeq(s, n + 1, Len(s)), i + n)
  <1>1. Len(s) \in Nat /\ n \in Nat /\ n + 1 \in Nat \ {0} /\ Len(s) \in 0..Len(s)
    BY LenProperties
  <1>2. /\ SubSeq(s, 1, n) \in Seq(Byte) /\ Len(SubSeq(s, 1, n)) = n
        /\ \A k \in 1..n : SubSeq(s, 1, n)[k] = s[k]
    <2>1. \A k \in 1..n : 1 + k - 1 = k
      BY <1>1
    <2>2. (IF 1 <= n THEN n - 1 + 1 ELSE 0) = n
      BY <1>1
    <2> QED BY <1>1, <2>1, <2>2, Part
  <1>3. /\ SubSeq(s, n + 1, Len(s)) \in Seq(Byte)
        /\ Len(SubSeq(s, n + 1, Len(s))) = Len(s) - n
        /\ \A k \in 1..(Len(s) - n) : SubSeq(s, n + 1, Len(s))[k] = s[n + k]
    <2>1. \A k \in 1..(Len(s) - n) : (n + 1) + k - 1 = n + k
      BY <1>1
    <2>2. (IF n + 1 <= Len(s) THEN Len(s) - (n + 1) + 1 ELSE 0) = Len(s) - n
      BY <1>1
    <2> QED BY <1>1, <2>1, <2>2, Part
  <1>4. ASSUME Run(e, s, i)
        PROVE  Run(e, SubSeq(s, 1, n), i) /\ Run(e, SubSeq(s, n + 1, Len(s)), i + n)
    <2>1. \A k \in 1..n : k \in 1..Len(s)
      BY <1>1
    <2>2. \A k \in 1..(Len(s) - n) : n + k \in 1..Len(s) /\ i + (n + k) = i + n + k
      BY <1>1
    <2>3. \A k \in 1..n : SubSeq(s, 1, n)[k] = <<e, i + k>>
      BY <1>2, <1>4, <2>1 DEF Run
    <2>4. \A k \in 1..(Len(s) - n) : SubSeq(s, n + 1, Len(s))[k] = <<e, i + n + k>>
      BY <1>3, <1>4, <2>2 DEF Run
    <2> QED BY <1>2, <1>3, <2>3, <2>4 DEF Run
  <1> QED BY <1>2, <1>3, <1>4

\* Both parts together are the sequence.
LEMMA Parts ==
    ASSUME NEW s \in Seq(Byte), NEW n \in 0..Len(s)
    PROVE  /\ SubSeq(s, 1, n) \in Seq(Byte) /\ SubSeq(s, n + 1, Len(s)) \in Seq(Byte)
           /\ SubSeq(s, 1, n) \o SubSeq(s, n + 1, Len(s)) = s
  <1>1. Len(s) \in Nat
    BY LenProperties
  <1>2. /\ 1 \in 1..(Len(s) + 1) /\ n \in (1 - 1)..Len(s) /\ Len(s) \in n..Len(s)
        /\ Len(s) \in 0..Len(s)
    BY <1>1
  <1>3. SubSeq(s, 1, n) \o SubSeq(s, n + 1, Len(s)) = SubSeq(s, 1, Len(s))
    BY <1>2, ConcatAdjacentSubSeq
  <1>4. SubSeq(s, 1, Len(s)) = s
    BY SubSeqFull
  <1> QED BY <1>3, <1>4, RunSplit

\* Nothing is a run from anywhere.
LEMMA RunEmpty == <<>> \in Seq(Byte) /\ Len(<<>>) = 0 /\ \A e, i : Run(e, <<>>, i)
  BY EmptySeq DEF Run

\* A run that reaches to the last byte that e said is all there is to relay; one
\* that does not is the beginning of it.
LEMMA RunIsSpeech ==
    ASSUME TunnelTypeOK, NEW e \in Ends, NEW s \in Seq(Byte),
           NEW i \in Nat, i = IF e = "client" THEN skipped ELSE 0,
           i + Len(s) <= said[e], Run(e, s, i)
    PROVE  /\ IsPrefix(s, ToRelay(e))
           /\ i + Len(s) = said[e] => s = ToRelay(e)
  <1>1. said[e] \in 0..Volume /\ Volume \in Nat /\ Len(s) \in Nat
    BY TunnelAssumption, LenProperties DEF TunnelTypeOK
  <1>2. Speech(e) \in [1..said[e] -> Byte]
    BY <1>1 DEF Speech, Byte
  <1>3. Speech(e) \in Seq(Byte)
    BY SMTT(30), <1>1, <1>2, SeqDef
  <1>4. Len(Speech(e)) = said[e]
    BY <1>1, <1>3, LenProperties DEF Speech
  <1>5. /\ ToRelay(e) \in Seq(Byte) /\ Len(ToRelay(e)) = said[e] - i
        /\ Run(e, ToRelay(e), i)
    <2>1. Run(e, Speech(e), 0)
      <3>1. ASSUME NEW k \in 1..said[e] PROVE Speech(e)[k] = <<e, 0 + k>>
        <4>1. 0 + k = k
          BY <1>1
        <4> QED BY <4>1 DEF Speech
      <3> QED BY <1>4, <3>1 DEF Run
    <2>2. CASE e = "client"
      <3>1. i \in 0..Len(Speech(e)) /\ 0 \in Nat /\ 0 + i = i
        BY <1>1, <1>4
      <3>2. ToRelay(e) = SubSeq(Speech(e), i + 1, Len(Speech(e)))
        BY <1>4, <2>2 DEF ToRelay
      <3>3. /\ SubSeq(Speech(e), i + 1, Len(Speech(e))) \in Seq(Byte)
            /\ Len(SubSeq(Speech(e), i + 1, Len(Speech(e)))) = Len(Speech(e)) - i
            /\ Run(e, SubSeq(Speech(e), i + 1, Len(Speech(e))), 0 + i)
        BY <1>3, <2>1, <3>1, RunSplit
      <3> QED BY <1>4, <3>1, <3>2, <3>3
    <2>3. CASE e # "client"
      <3>1. said[e] - i = said[e] /\ i = 0
        BY <1>1, <2>3
      <3>2. ToRelay(e) = Speech(e)
        BY <2>3 DEF ToRelay
      <3> QED BY <1>3, <1>4, <2>1, <3>1, <3>2
    <2> QED BY <2>2, <2>3
  <1>6. Len(s) <= Len(ToRelay(e)) /\ Len(s) \in 0..Len(ToRelay(e))
    BY <1>1, <1>5
  <1>7. ASSUME NEW t \in Seq(Byte), Len(t) = Len(s), Run(e, t, i) PROVE s = t
    BY <1>7, SeqEqual DEF Run
  <1>8. SubSeq(s, 1, Len(s)) = SubSeq(ToRelay(e), 1, Len(s))
    <2>1. SubSeq(s, 1, Len(s)) = s
      BY SubSeqFull
    <2>2. /\ SubSeq(ToRelay(e), 1, Len(s)) \in Seq(Byte)
          /\ Len(SubSeq(ToRelay(e), 1, Len(s))) = Len(s)
          /\ Run(e, SubSeq(ToRelay(e), 1, Len(s)), i)
      BY <1>5, <1>6, RunSplit
    <2> QED BY <1>7, <2>1, <2>2
  <1>9. ASSUME i + Len(s) = said[e] PROVE s = ToRelay(e)
    <2>1. Len(ToRelay(e)) = Len(s)
      BY <1>1, <1>5, <1>9
    <2> QED BY <1>5, <1>7, <2>1
  <1> QED BY <1>6, <1>8, <1>9 DEF IsPrefix
------------------------------------------------------------------------------
(***************************************************************************)
(* What a step of a connection does to the tunnel.                         *)
(***************************************************************************)
\* One recv for the request, which may take bytes that are meant for the target.
Takes ==
    /\ pc = "recv" /\ pc' = "parsed"
    /\ UNCHANGED <<state, said, outbox, got, sockets, cut, loop>>
    /\ \/ UNCHANGED <<inbox, skipped>>
       \/ \E k \in 1..Len(inbox["client"]) :
             /\ inbox' = [inbox EXCEPT !["client"] = SubSeq(@, k + 1, Len(@))]
             /\ skipped' = k

\* The thread goes on.
Passes ==
    /\ UNCHANGED <<world, source, pending, skipped>> /\ ready' \subseteq Ends
    /\ \/ pc = "parsed" /\ pc' \in {"connect", "forward"}
       \/ pc = "select" /\ pc' \in Ends

\* The thread stops, because an end has.
Stops ==
    /\ UNCHANGED <<world, loop, skipped>>
    /\ \/ pc = "recv" /\ state["client"] # "open" /\ pc' = "close client"
       \/ pc = "established" /\ state["client"] = "reset" /\ pc' = "close target"
       \/ pc \in Ends /\ Ended(pc) /\ pc' = "close target"
       \/ pc = "send" /\ state[Other(source)] = "reset" /\ pc' = "close target"

\* An answer of the proxy instead of a tunnel.
Answers ==
    /\ pc \in {"parsed", "connect"}
    /\ \E code \in {200, 400, 405, 502} : AnswerAndClose(code)

Closes ==
    \/ /\ pc = "close target" /\ pc' = "close client"
       /\ \E unread \in BOOLEAN : Close("target", unread)
    \/ /\ pc = "close client" /\ pc' = "closed"
       /\ \E unread \in BOOLEAN : Close("client", unread)

\* There are no other steps.
LEMMA Kinds ==
    ASSUME TunnelTypeOK, [Next]_vars
    PROVE  \/ Takes \/ Passes \/ Stops \/ Answers \/ Connect \/ Established
           \/ \E e \in Ends : Recv(e)
           \/ SendSome \/ Closes \/ EndStep \/ UNCHANGED tunnel
  <1> USE DEF world, loop
  <1>1. CASE HandlerStep
    <2>1. CASE RecvRequest
      BY <2>1 DEF RecvRequest, Takes
    <2>2. CASE RecvNothing
      BY <2>2 DEF RecvNothing, Stops
    <2>3. CASE BadRequest \/ Unsupported \/ RefuseTarget \/ OptionsBad \/ OptionsLocally
      BY <2>3 DEF BadRequest, Unsupported, RefuseTarget, OptionsBad, OptionsLocally,
                  Accepts, Answers
    <2>4. CASE OpenTunnel \/ Forward \/ OptionsForwarded
      <3>1. /\ UNCHANGED <<world, loop, skipped>> /\ pc = "parsed"
            /\ pc' \in {"connect", "forward"}
        BY <2>4 DEF OpenTunnel, Forward, OptionsForwarded, Accepts
      <3> QED BY <3>1 DEF Passes, TunnelTypeOK
    <2>5. CASE CloseClient
      BY <2>5 DEF CloseClient, Closes, Close
    <2> QED BY <1>1, <2>1, <2>2, <2>3, <2>4, <2>5 DEF HandlerStep
  <1>2. CASE TunnelStep
    <2>1. CASE ConnectError
      BY <2>1 DEF ConnectError, Answers
    <2>2. CASE EstablishedError
      BY <2>2 DEF EstablishedError, Stops
    <2>3. CASE Select
      BY <2>3 DEF Select, Passes
    <2>4. ASSUME NEW e \in Ends, RecvEnd(e) PROVE Stops
      BY <2>4 DEF RecvEnd, Stops
    <2>5. CASE SendError
      BY <2>5 DEF SendError, Stops
    <2>6. CASE CloseTarget
      BY <2>6 DEF CloseTarget, Closes
    <2> QED BY <1>2, <2>1, <2>2, <2>3, <2>4, <2>5, <2>6 DEF TunnelStep
  <1>3. CASE EndStep
    BY <1>3
  <1>4. CASE UNCHANGED vars
    BY <1>4 DEF vars, tunnel
  <1> QED BY <1>1, <1>2, <1>3, <1>4 DEF Next
------------------------------------------------------------------------------
(***************************************************************************)
(* Types.                                                                  *)
(***************************************************************************)
States == {"absent", "open", "half", "gone", "reset"}

\* The types, one variable after the other.
LEMMA Types ==
    TunnelTypeOK <=>
        /\ state \in [Ends -> States] /\ said \in [Ends -> 0..Volume]
        /\ inbox \in [Ends -> Seq(Byte)] /\ \A e \in Ends : Len(inbox[e]) <= Window
        /\ outbox \in [Ends -> Seq(Byte)] /\ \A e \in Ends : Len(outbox[e]) <= Window
        /\ got \in [Ends -> Seq(Byte)]
        /\ sockets \subseteq Ends /\ ready \subseteq Ends /\ source \in Ends
        /\ pending \in Seq(Byte) /\ Len(pending) <= Buffer
        /\ skipped \in 0..Volume /\ cut \in [Ends -> BOOLEAN]
  BY DEF TunnelTypeOK, States

\* The same after a step.
LEMMA TypesNext ==
    ASSUME state' \in [Ends -> States], said' \in [Ends -> 0..Volume],
           inbox' \in [Ends -> Seq(Byte)], \A e \in Ends : Len(inbox'[e]) <= Window,
           outbox' \in [Ends -> Seq(Byte)], \A e \in Ends : Len(outbox'[e]) <= Window,
           got' \in [Ends -> Seq(Byte)],
           sockets' \subseteq Ends, ready' \subseteq Ends, source' \in Ends,
           pending' \in Seq(Byte), Len(pending') <= Buffer,
           skipped' \in 0..Volume, cut' \in [Ends -> BOOLEAN]
    PROVE  TunnelTypeOK'
  BY DEF TunnelTypeOK, States

\* A send leaves a queue that fits its socket.
LEMMA SendType ==
    ASSUME TunnelTypeOK, NEW e \in Ends, NEW bytes \in Seq(Byte), Send(e, bytes)
    PROVE  /\ state' \in [Ends -> States]
           /\ outbox' \in [Ends -> Seq(Byte)] /\ \A f \in Ends : Len(outbox'[f]) <= Window
  <1>1. outbox[e] \o bytes \in Seq(Byte)
    BY Types, ConcatProperties
  <1>2. CASE outbox' = [outbox EXCEPT ![e] = outbox[e] \o bytes]
             /\ Len(outbox[e] \o bytes) <= Window /\ UNCHANGED state
    BY <1>1, <1>2, Types
  <1>3. CASE state' = [state EXCEPT ![e] = "reset"] /\ UNCHANGED outbox
    BY <1>3, Types DEF States
  <1> QED BY <1>2, <1>3 DEF Send

\* A queue that stays or is emptied fits its socket.
LEMMA EmptiedType ==
    ASSUME TunnelTypeOK, NEW e \in Ends,
           outbox' = outbox \/ outbox' = [outbox EXCEPT ![e] = <<>>]
    PROVE  outbox' \in [Ends -> Seq(Byte)] /\ \A f \in Ends : Len(outbox'[f]) <= Window
  <1>1. <<>> \in Seq(Byte) /\ Len(<<>>) <= Window
    <2>1. <<>> \in Seq(Byte) /\ Len(<<>>) = 0
      BY EmptySeq
    <2> QED BY <2>1, TunnelAssumption
  <1>2. outbox \in [Ends -> Seq(Byte)] /\ \A f \in Ends : Len(outbox[f]) <= Window
    BY Types
  <1>3. CASE outbox' = [outbox EXCEPT ![e] = <<>>]
    <2>1. outbox' \in [Ends -> Seq(Byte)]
      BY <1>1, <1>2, <1>3
    <2>2. \A f \in Ends : outbox'[f] = IF f = e THEN <<>> ELSE outbox[f]
      BY <1>2, <1>3
    <2> QED BY <1>1, <1>2, <2>1, <2>2
  <1> QED BY <1>2, <1>3

\* An end has said what waits in its socket, so that a recv cannot take more.
Base == TunnelTypeOK /\ \A e \in Ends : Len(inbox[e]) <= said[e]

\* Every step keeps the types.
LEMMA TypeStep == ASSUME Base, [Next]_vars PROVE TunnelTypeOK'
  <1> USE DEF world, loop
  <1>t. TunnelTypeOK
    BY DEF Base
  <1>a. /\ Volume \in Nat /\ Window \in Nat \ {0} /\ Buffer \in Nat \ {0}
        /\ \A e \in Ends : Len(inbox[e]) \in Nat /\ inbox[e] \in Seq(Byte)
        /\ \A e \in Ends : Len(outbox[e]) \in Nat /\ outbox[e] \in Seq(Byte)
        /\ Len(pending) \in Nat
    BY <1>t, TunnelAssumption, Types, LenProperties
  <1>b. <<>> \in Seq(Byte) /\ Len(<<>>) = 0
    BY EmptySeq
  <1>c. \A code \in {200, 400, 405, 502} : <<<<"proxy", code>>>> \in Seq(Byte)
    BY DEF Byte
  <1>1. CASE Takes
    <2>1. CASE UNCHANGED <<inbox, skipped>>
      BY <1>t, <1>1, <2>1, Types, TypesNext DEF Takes
    <2>2. ASSUME NEW k \in 1..Len(inbox["client"]),
                 inbox' = [inbox EXCEPT !["client"] =
                              SubSeq(inbox["client"], k + 1, Len(inbox["client"]))],
                 skipped' = k
          PROVE  TunnelTypeOK'
      <3>1. skipped' \in 0..Volume
        BY SMTT(30), <1>t, <1>a, <2>2, Types DEF Base
      <3>2. /\ inbox'["client"] \in Seq(Byte)
            /\ Len(inbox'["client"]) = Len(inbox["client"]) - k
        BY SMTT(30), <1>t, <1>a, <2>2, RunSplit, Types
      <3>3. inbox' \in [Ends -> Seq(Byte)] /\ \A f \in Ends : Len(inbox'[f]) <= Window
        BY SMTT(30), <1>t, <1>a, <2>2, <3>2, Types
      <3> QED BY <1>t, <1>1, <2>2, <3>1, <3>3, Types, TypesNext DEF Takes
    <2> QED BY <1>1, <2>1, <2>2 DEF Takes
  <1>2. CASE Passes \/ Stops
    BY <1>t, <1>2, Types, TypesNext DEF Passes, Stops
  <1>3. CASE Answers
    <2>1. PICK code \in {200, 400, 405, 502} : AnswerAndClose(code)
      BY <1>3 DEF Answers
    <2>2. Send("client", <<<<"proxy", code>>>>)
      BY <2>1 DEF AnswerAndClose
    <2>3. /\ state' \in [Ends -> States]
          /\ outbox' \in [Ends -> Seq(Byte)] /\ \A f \in Ends : Len(outbox'[f]) <= Window
      <3>1. "client" \in Ends /\ <<<<"proxy", code>>>> \in Seq(Byte)
        BY <1>c
      <3> QED BY <1>t, <2>2, <3>1, SendType
    <2> QED BY ZenonT(30), <1>t, <1>c, <2>1, <2>2, <2>3, Types, TypesNext DEF AnswerAndClose
  <1>4. CASE Connect
    BY <1>t, <1>4, Types, TypesNext DEF Connect, States
  <1>5. CASE Established
    <2>1. Send("client", <<<<"proxy", 200>>>>)
      BY <1>5 DEF Established
    <2>3. /\ state' \in [Ends -> States]
          /\ outbox' \in [Ends -> Seq(Byte)] /\ \A f \in Ends : Len(outbox'[f]) <= Window
      <3>1. "client" \in Ends /\ <<<<"proxy", 200>>>> \in Seq(Byte)
        BY <1>c
      <3> QED BY <1>t, <2>1, <3>1, SendType
    <2> QED BY <1>t, <1>5, <1>c, <2>1, <2>3, Types, TypesNext DEF Established
  <1>6. ASSUME NEW e \in Ends, Recv(e) PROVE TunnelTypeOK'
    <2> DEFINE n == IF Len(inbox[e]) < Buffer THEN Len(inbox[e]) ELSE Buffer
    <2>1. n \in 0..Len(inbox[e]) /\ n <= Buffer
      BY <1>a
    <2>2. /\ pending' = SubSeq(inbox[e], 1, n)
          /\ inbox' = [inbox EXCEPT ![e] = SubSeq(inbox[e], n + 1, Len(inbox[e]))]
          /\ source' = e
          /\ UNCHANGED <<state, said, outbox, got, sockets, cut, ready, skipped>>
      BY <1>6 DEF Recv
    <2> HIDE DEF n
    <2>3. pending' \in Seq(Byte) /\ Len(pending') <= Buffer
      BY <1>t, <1>a, <2>1, <2>2, RunSplit
    <2>4. SubSeq(inbox[e], n + 1, Len(inbox[e])) \in Seq(Byte)
          /\ Len(SubSeq(inbox[e], n + 1, Len(inbox[e]))) = Len(inbox[e]) - n
      BY <1>t, <1>a, <2>1, RunSplit
    <2>5. Len(inbox[e]) - n <= Window
      BY SMTT(30), <1>t, <1>a, <2>1, Types
    <2>6. inbox' \in [Ends -> Seq(Byte)] /\ \A f \in Ends : Len(inbox'[f]) <= Window
      BY <1>t, <2>2, <2>4, <2>5, Types
    <2> QED BY <1>t, <2>2, <2>3, <2>6, Types, TypesNext
  <1>7. CASE SendSome
    <2>1. PICK n \in 1..Len(pending) :
             /\ Send(Other(source), SubSeq(pending, 1, n))
             /\ pending' = SubSeq(pending, n + 1, Len(pending))
      BY <1>7 DEF SendSome
    <2>2. n \in 0..Len(pending) /\ Len(pending) - n <= Buffer /\ Other(source) \in Ends
      BY <1>t, <1>a, Types
    <2>3. /\ SubSeq(pending, 1, n) \in Seq(Byte)
          /\ pending' \in Seq(Byte) /\ Len(pending') <= Buffer
      BY <1>t, <2>1, <2>2, Types, RunSplit
    <2> QED BY <1>t, <1>7, <2>1, <2>2, <2>3, SendType, Types, TypesNext DEF SendSome
  <1>8. CASE Closes
    <2>1. PICK e \in Ends : \E unread \in BOOLEAN : Close(e, unread)
      BY <1>8 DEF Closes
    <2>2. outbox' = outbox \/ outbox' = [outbox EXCEPT ![e] = <<>>]
      BY <2>1 DEF Close
    <2>3. /\ outbox' \in [Ends -> Seq(Byte)] /\ \A f \in Ends : Len(outbox'[f]) <= Window
      BY <1>t, <2>2, EmptiedType
    <2>4. cut' \in [Ends -> BOOLEAN]
      <3>1. PICK unread \in BOOLEAN : cut' = [cut EXCEPT ![e] = unread]
        BY <2>1 DEF Close
      <3> QED BY <1>t, <3>1, Types
    <2>5. sockets' \subseteq Ends /\ UNCHANGED <<state, said, inbox, got, loop, skipped>>
      BY <1>t, <2>1, Types DEF Close
    <2> QED BY <1>t, <2>3, <2>4, <2>5, Types, TypesNext
  <1>9. CASE EndStep
    <2>1. ASSUME NEW e \in Ends, Say(e) PROVE TunnelTypeOK'
      <3>1. said[e] + 1 \in 1..Volume /\ Len(inbox[e]) + 1 <= Window
        <4>1. said[e] \in 0..Volume /\ said[e] < Volume /\ Len(inbox[e]) < Window
          BY <1>t, <2>1, Types DEF Say
        <4> QED BY <1>a, <4>1
      <3>2. <<e, said[e] + 1>> \in Byte
        BY <3>1 DEF Byte
      <3>3. /\ Append(inbox[e], <<e, said[e] + 1>>) \in Seq(Byte)
            /\ Len(Append(inbox[e], <<e, said[e] + 1>>)) = Len(inbox[e]) + 1
        BY <1>a, <3>2, AppendProperties
      <3>4. inbox' \in [Ends -> Seq(Byte)] /\ \A f \in Ends : Len(inbox'[f]) <= Window
        BY <1>t, <2>1, <3>1, <3>3, Types DEF Say
      <3>5. said' \in [Ends -> 0..Volume]
        BY SMTT(30), <1>t, <2>1, <3>1, Types DEF Say
      <3> QED BY <1>t, <2>1, <3>4, <3>5, Types, TypesNext DEF Say
    <2>2. ASSUME NEW e \in Ends, FinishSpeaking(e) \/ Leave(e) PROVE TunnelTypeOK'
      <3>1. state' \in [Ends -> States]
        BY <1>t, <2>2, Types DEF FinishSpeaking, Leave, States
      <3>2. outbox' = outbox \/ outbox' = [outbox EXCEPT ![e] = <<>>]
        BY <2>2 DEF FinishSpeaking, Leave
      <3>3. /\ outbox' \in [Ends -> Seq(Byte)] /\ \A f \in Ends : Len(outbox'[f]) <= Window
        BY <1>t, <3>2, EmptiedType
      <3> QED BY <1>t, <2>2, <3>1, <3>3, Types, TypesNext DEF FinishSpeaking, Leave
    <2>3. ASSUME NEW e \in Ends, Read(e) PROVE TunnelTypeOK'
      <3>1. got[e] \o outbox[e] \in Seq(Byte)
        BY <1>t, <1>a, Types, ConcatProperties
      <3> QED BY SMTT(30), <1>t, <2>3, <1>a, <1>b, <3>1, Types, TypesNext DEF Read
    <2> QED BY <1>9, <2>1, <2>2, <2>3 DEF EndStep
  <1>10. CASE UNCHANGED tunnel
    BY <1>t, <1>10, Types, TypesNext DEF tunnel
  <1> QED BY <1>t, <1>1, <1>2, <1>3, <1>4, <1>5, <1>6, <1>7, <1>8, <1>9, <1>10,
             Kinds

\* No step receives more than was said.
LEMMA InboxStep ==
    ASSUME Base, [Next]_vars
    PROVE  \A e \in Ends : Len(inbox'[e]) <= said'[e]
  <1> USE DEF world, loop
  <1>a. /\ TunnelTypeOK
        /\ \A e \in Ends : /\ Len(inbox[e]) \in Nat /\ inbox[e] \in Seq(Byte)
                           /\ Len(inbox[e]) <= said[e] /\ said[e] \in Nat
        /\ Buffer \in Nat
    BY TunnelAssumption, Types, LenProperties DEF Base
  <1>1. CASE UNCHANGED <<inbox, said>>
    BY <1>1, <1>a
  <1>2. ASSUME NEW e \in Ends, NEW n \in 0..Len(inbox[e]), said' = said,
               inbox' = [inbox EXCEPT ![e] = SubSeq(inbox[e], n + 1, Len(inbox[e]))]
        PROVE  \A f \in Ends : Len(inbox'[f]) <= said'[f]
    <2>1. Len(SubSeq(inbox[e], n + 1, Len(inbox[e]))) = Len(inbox[e]) - n
      BY <1>a, RunSplit
    <2>2. Len(inbox[e]) - n <= said[e]
      BY <1>a
    <2> QED BY <1>a, <1>2, <2>1, <2>2, Types
  <1>3. CASE Takes
    <2>1. ASSUME NEW k \in 1..Len(inbox["client"]),
                 inbox' = [inbox EXCEPT !["client"] =
                              SubSeq(inbox["client"], k + 1, Len(inbox["client"]))]
          PROVE  \A f \in Ends : Len(inbox'[f]) <= said'[f]
      <3>1. k \in 0..Len(inbox["client"]) /\ said' = said /\ "client" \in Ends
        BY <1>3, <1>a DEF Takes
      <3> QED BY <1>2, <2>1, <3>1
    <2> QED BY <1>1, <1>3, <2>1 DEF Takes
  <1>4. ASSUME NEW e \in Ends, Recv(e) PROVE \A f \in Ends : Len(inbox'[f]) <= said'[f]
    <2> DEFINE n == IF Len(inbox[e]) < Buffer THEN Len(inbox[e]) ELSE Buffer
    <2>1. n \in 0..Len(inbox[e])
      BY <1>a
    <2>2. /\ inbox' = [inbox EXCEPT ![e] = SubSeq(inbox[e], n + 1, Len(inbox[e]))]
          /\ said' = said
      BY <1>4 DEF Recv
    <2> HIDE DEF n
    <2> QED BY <1>2, <2>1, <2>2
  <1>5. ASSUME NEW e \in Ends, Say(e) PROVE \A f \in Ends : Len(inbox'[f]) <= said'[f]
    <2>1. /\ said' = [said EXCEPT ![e] = said[e] + 1]
          /\ inbox' = [inbox EXCEPT ![e] = Append(inbox[e], <<e, said[e] + 1>>)]
          /\ said[e] < Volume
      BY <1>5 DEF Say
    <2>2. <<e, said[e] + 1>> \in Byte
      BY <1>a, <2>1, TunnelAssumption DEF Byte
    <2>3. Len(Append(inbox[e], <<e, said[e] + 1>>)) = Len(inbox[e]) + 1
      BY <1>a, <2>2, AppendProperties
    <2>4. Len(inbox[e]) + 1 <= said[e] + 1
      BY <1>a
    <2> QED BY <1>a, <2>1, <2>3, <2>4, Types
  <1>6. CASE EndStep
    BY <1>1, <1>5, <1>6 DEF EndStep, FinishSpeaking, Leave, Read
  <1> QED BY ZenonT(30), <1>a, <1>1, <1>3, <1>4, <1>6, Kinds DEF Passes, Stops, Answers,
             AnswerAndClose, Connect, Established,
          SendSome, Closes, Close, tunnel

\* What every other invariant rests on.
THEOREM BaseInvariant == Spec => []Base
  <1>1. Init => Base
    <2>1. <<>> \in Seq(Byte) /\ Len(<<>>) = 0
      BY EmptySeq
    <2> QED BY <2>1, TunnelAssumption, Types DEF Init, TunnelInit, States, Base
  <1>2. Base /\ [Next]_vars => Base'
    BY TypeStep, InboxStep DEF Base
  <1> QED BY <1>1, <1>2, PTL DEF Spec

\* The queues of both sockets are bounded and hold bytes of the two ends and of
\* the proxy only, and the request parser takes no more than was said.
THEOREM TunnelTypeCorrect == Spec => []TunnelTypeOK
  <1>1. Base => TunnelTypeOK
    BY DEF Base
  <1> QED BY <1>1, BaseInvariant, PTL
------------------------------------------------------------------------------
(***************************************************************************)
(* What an end has been sent.                                              *)
(***************************************************************************)
LEMMA HeardType ==
    ASSUME TunnelTypeOK, NEW e \in Ends
    PROVE  /\ got[e] \in Seq(Byte) /\ outbox[e] \in Seq(Byte) /\ inbox[e] \in Seq(Byte)
           /\ Heard(e) \in Seq(Byte) /\ InHand(e) \in Seq(Byte)
  BY Types, ConcatProperties, EmptySeq DEF Heard, InHand

\* The answer of the proxy is not of the target.
LEMMA AfterAnswerType ==
    ASSUME NEW e \in Ends, NEW h \in Seq(Byte)
    PROVE  /\ AfterAnswer(e, h) \in Seq(Byte)
           /\ h = <<>> => AfterAnswer(e, h) = <<>>
           /\ e = "client" => AfterAnswer(e, h) = SubSeq(h, 2, Len(h))
           /\ e = "target" => AfterAnswer(e, h) = h
           /\ \A x : AfterAnswer("client", <<x>>) = <<>>
  <1>1. Len(h) \in Nat /\ Len(h) \in 0..Len(h) /\ 2 \in Nat \ {0}
    BY LenProperties
  <1>2. SubSeq(h, 2, Len(h)) \in Seq(Byte)
    BY <1>1, Part
  <1>3. SubSeq(<<>>, 2, 0) = <<>> /\ Len(<<>>) = 0
    BY SubSeqEmpty, EmptySeq
  <1>4. \A x : SubSeq(<<x>>, 2, 1) = <<>> /\ Len(<<x>>) = 1
    BY SubSeqEmpty
  <1> QED BY <1>2, <1>3, <1>4 DEF AfterAnswer

\* What is sent after the answer comes after it.
LEMMA AfterAnswerConcat ==
    ASSUME NEW e \in Ends, NEW h \in Seq(Byte), NEW t \in Seq(Byte),
           e = "client" => h # <<>>
    PROVE  AfterAnswer(e, h \o t) = AfterAnswer(e, h) \o t
  <1>1. CASE e = "client"
    <2>1. Len(h) \in Nat \ {0} /\ Len(t) \in Nat
      BY <1>1, EmptySeq, LenProperties
    <2>2. /\ h \o t \in Seq(Byte) /\ Len(h \o t) = Len(h) + Len(t)
          /\ \A k \in 1..(Len(h) + Len(t)) :
                (h \o t)[k] = IF k <= Len(h) THEN h[k] ELSE t[k - Len(h)]
      BY ConcatProperties
    <2>3. h \o t # <<>>
      BY <2>1, <2>2, EmptySeq
    <2>4. PICK a \in Seq(Byte) :
             /\ a = SubSeq(h, 2, Len(h))
             /\ Len(a) = Len(h) - 1
             /\ \A k \in 1..(Len(h) - 1) : a[k] = h[k + 1]
      <3>1. h # <<>>
        BY <1>1
      <3>2. /\ SubSeq(h, 2, Len(h)) \in Seq(Byte)
            /\ Len(SubSeq(h, 2, Len(h))) = Len(h) - 1
            /\ \A k \in 1..(Len(h) - 1) : SubSeq(h, 2, Len(h))[k] = h[k + 1]
        BY <3>1, WithoutFirst
      <3> QED BY <3>2
    <2>5. PICK b \in Seq(Byte) :
             /\ b = SubSeq(h \o t, 2, Len(h \o t))
             /\ Len(b) = Len(h) + Len(t) - 1
             /\ \A k \in 1..(Len(h) + Len(t) - 1) : b[k] = (h \o t)[k + 1]
      <3> DEFINE all == h \o t
      <3>1. /\ SubSeq(all, 2, Len(all)) \in Seq(Byte)
            /\ Len(SubSeq(all, 2, Len(all))) = Len(all) - 1
            /\ \A k \in 1..(Len(all) - 1) : SubSeq(all, 2, Len(all))[k] = all[k + 1]
        <4>1. all \in Seq(Byte) /\ all # <<>>
          BY <2>2, <2>3
        <4> HIDE DEF all
        <4> QED BY <4>1, WithoutFirst
      <3> DEFINE rest == SubSeq(all, 2, Len(all))
      <3>2. /\ rest \in Seq(Byte) /\ Len(rest) = Len(h) + Len(t) - 1
            /\ \A k \in 1..(Len(h) + Len(t) - 1) : rest[k] = all[k + 1]
        <4>1. Len(all) = Len(h) + Len(t)
          BY <2>2
        <4> HIDE DEF all
        <4> QED BY <3>1, <4>1
      <3>3. rest = SubSeq(h \o t, 2, Len(h \o t))
        OBVIOUS
      <3> HIDE DEF rest
      <3> QED BY <3>2, <3>3
    <2>6. Len(a) = Len(h) - 1 /\ Len(b) = Len(h) + Len(t) - 1
      BY <2>4, <2>5
    <2>7. /\ a \o t \in Seq(Byte) /\ Len(a \o t) = Len(a) + Len(t)
          /\ \A k \in 1..(Len(a) + Len(t)) :
                (a \o t)[k] = IF k <= Len(a) THEN a[k] ELSE t[k - Len(a)]
      BY <2>4, ConcatProperties
    <2>8. ASSUME NEW k \in 1..Len(b) PROVE b[k] = (a \o t)[k]
      <3>1. k + 1 \in 1..(Len(h) + Len(t)) /\ k \in 1..(Len(a) + Len(t))
        BY <2>1, <2>6
      <3>2. b[k] = IF k + 1 <= Len(h) THEN h[k + 1] ELSE t[(k + 1) - Len(h)]
        BY <2>2, <2>5, <3>1
      <3>3. CASE k <= Len(a)
        <4>1. k + 1 <= Len(h) /\ k \in 1..Len(a)
          BY <2>1, <2>6, <3>3
        <4> QED BY <2>4, <2>7, <3>1, <3>2, <3>3, <4>1
      <3>4. CASE ~(k <= Len(a))
        <4>1. ~(k + 1 <= Len(h)) /\ (k + 1) - Len(h) = k - Len(a)
          BY <2>1, <2>6, <3>1, <3>4
        <4> QED BY <2>7, <3>1, <3>2, <3>4, <4>1
      <3> QED BY <3>3, <3>4
    <2>9. Len(b) = Len(a \o t)
      BY <2>1, <2>6, <2>7
    <2>10. b = a \o t
      BY <2>5, <2>7, <2>8, <2>9, SeqEqual
    <2> QED BY <1>1, <2>4, <2>5, <2>10 DEF AfterAnswer
  <1>2. CASE e # "client"
    BY <1>2 DEF AfterAnswer
  <1> QED BY <1>1, <1>2

\* Losing what was sent last leaves a run a run.
LEMMA AfterAnswerLess ==
    ASSUME NEW e \in Ends, NEW h \in Seq(Byte), NEW t \in Seq(Byte),
           NEW f, NEW i \in Nat, Run(f, AfterAnswer(e, h \o t), i)
    PROVE  /\ Run(f, AfterAnswer(e, h), i)
           /\ Len(AfterAnswer(e, h)) <= Len(AfterAnswer(e, h \o t))
  <1>1. h \o t \in Seq(Byte)
    BY ConcatProperties
  <1>2. /\ AfterAnswer(e, h) \in Seq(Byte) /\ AfterAnswer(e, h \o t) \in Seq(Byte)
        /\ h = <<>> => AfterAnswer(e, h) = <<>>
    BY <1>1, AfterAnswerType
  <1>3. /\ Len(AfterAnswer(e, h)) \in Nat /\ Len(t) \in Nat
        /\ Len(AfterAnswer(e, h \o t)) \in Nat
    BY <1>2, LenProperties
  <1>4. CASE h = <<>>
    BY <1>2, <1>3, <1>4, RunEmpty
  <1>5. CASE h # <<>>
    <2>1. AfterAnswer(e, h \o t) = AfterAnswer(e, h) \o t
      BY <1>5, AfterAnswerConcat
    <2>2. Len(AfterAnswer(e, h \o t)) = Len(AfterAnswer(e, h)) + Len(t)
      BY <1>2, <2>1, ConcatProperties
    <2> QED BY <1>2, <1>3, <2>1, <2>2, RunConcat
  <1> QED BY <1>4, <1>5

\* A send puts its bytes behind the others, or finds that the end has gone.
LEMMA SendHeard ==
    ASSUME TunnelTypeOK, NEW e \in Ends, NEW bytes \in Seq(Byte), Send(e, bytes), got' = got
    PROVE  /\ Heard(Other(e))' = Heard(Other(e)) /\ state'[Other(e)] = state[Other(e)]
           /\ \/ /\ Listens(e) /\ state'[e] = state[e]
                 /\ Heard(e)' = Heard(e) \o bytes
              \/ /\ state[e] \in {"gone", "reset"} /\ state'[e] = "reset"
                 /\ Heard(e)' = Heard(e)
  <1>1. CASE Listens(e) /\ outbox' = [outbox EXCEPT ![e] = outbox[e] \o bytes]
             /\ UNCHANGED state
    <2>1. outbox'[e] = outbox[e] \o bytes /\ outbox'[Other(e)] = outbox[Other(e)]
      BY <1>1, Types
    <2>2. got[e] \o (outbox[e] \o bytes) = (got[e] \o outbox[e]) \o bytes
      <3>1. got[e] \in Seq(Byte) /\ outbox[e] \in Seq(Byte)
        BY HeardType
      <3> QED BY <3>1, Assoc
    <2> QED BY <1>1, <2>1, <2>2 DEF Heard
  <1>2. CASE /\ state[e] \in {"gone", "reset"}
             /\ state' = [state EXCEPT ![e] = "reset"] /\ UNCHANGED outbox
    BY <1>2, Types DEF Heard
  <1> QED BY <1>1, <1>2 DEF Send

\* Who loses what is in its socket has read the beginning of what it was sent.
LEMMA HeardLost ==
    ASSUME TunnelTypeOK, NEW e \in Ends, outbox'[e] = <<>>, got'[e] = got[e]
    PROVE  /\ Heard(e)' = got[e] /\ Heard(e) = got[e] \o outbox[e]
           /\ Heard(e) = <<>> => Heard(e)' = <<>>
           /\ Heard(e)' # <<>> => Heard(e)'[1] = Heard(e)[1]
  <1>1. got[e] \in Seq(Byte) /\ outbox[e] \in Seq(Byte)
    BY HeardType
  <1>2. Heard(e)' = got[e]
    BY <1>1, ConcatEmptySeq DEF Heard
  <1>3. got[e] \o outbox[e] = <<>> => got[e] = <<>>
    BY <1>1, ConcatEqualIffEmpty
  <1>4. ASSUME got[e] # <<>> PROVE (got[e] \o outbox[e])[1] = got[e][1]
    BY <1>1, <1>4, FirstStays
  <1> QED BY <1>2, <1>3, <1>4 DEF Heard

\* What an end reads it was sent before.
LEMMA HeardRead ==
    ASSUME TunnelTypeOK, NEW e \in Ends, Read(e), NEW f \in Ends
    PROVE  Heard(f)' = Heard(f)
  <1>1. /\ got' = [got EXCEPT ![e] = got[e] \o outbox[e]]
        /\ outbox' = [outbox EXCEPT ![e] = <<>>]
    BY DEF Read
  <1>2. got[e] \in Seq(Byte) /\ outbox[e] \in Seq(Byte) /\ got[e] \o outbox[e] \in Seq(Byte)
    BY HeardType DEF Heard
  <1>3. CASE e = f
    <2>1. got'[e] = got[e] \o outbox[e] /\ outbox'[e] = <<>>
      BY <1>1, Types
    <2>2. (got[e] \o outbox[e]) \o <<>> = got[e] \o outbox[e]
      BY <1>2, ConcatEmptySeq
    <2> QED BY <1>3, <2>1, <2>2 DEF Heard
  <1>4. CASE e # f
    BY <1>1, <1>4, Types DEF Heard
  <1> QED BY <1>3, <1>4
------------------------------------------------------------------------------
(***************************************************************************)
(* The places of the thread.                                               *)
(***************************************************************************)
\* What holds where: before the tunnel there is no target, and nobody has been
\* sent anything; the first thing that the client is sent is the answer.
Phases ==
    /\ pc \in Early \union {"established"} \union Relaying \union Over
    /\ pc \in Early => state["target"] = "absent"
    /\ pc \in Early \union {"established"} => Heard("client") = <<>> /\ Heard("target") = <<>>
    /\ pc = "recv" => skipped = 0
    /\ pc \notin Over \union {"send"} => pending = <<>>
    /\ pc \in Relaying /\ Listens("client") => Heard("client") # <<>>
    /\ Heard("client") = <<>> \/ Heard("client")[1][1] = "proxy"

\* No step leaves a place without what must hold at the next.
LEMMA PhasesStep == ASSUME Base, Phases, [Next]_vars PROVE Phases'
  <1> USE DEF world, loop, Early, Over, Relaying, Listens
  <1>t. TunnelTypeOK
    BY DEF Base
  <1>h. ASSUME got' = got, outbox' = outbox PROVE \A e \in Ends : Heard(e)' = Heard(e)
    BY <1>h DEF Heard
  <1>1. CASE Takes
    BY <1>1, <1>h DEF Takes, Phases
  <1>2. CASE Passes
    BY <1>2, <1>h DEF Passes, Phases
  <1>3. CASE Stops
    BY <1>3, <1>h DEF Stops, Phases
  <1>4. ASSUME \E code \in {200, 400, 405, 502} : Send("client", <<<<"proxy", code>>>>),
               UNCHANGED <<said, inbox, got, sockets, cut, loop, skipped>>,
               pc \in Early \union {"established"},
               pc' = "select" \/ pc' \in Over
        PROVE  Phases'
    <2>0. PICK code \in {200, 400, 405, 502} : Send("client", <<<<"proxy", code>>>>)
      BY <1>4
    <2>1. <<<<"proxy", code>>>> \in Seq(Byte)
      BY DEF Byte
    <2>2. Heard("client") = <<>>
      BY ZenonT(30), <1>4 DEF Phases
    <2>3. \/ Heard("client")' = <<>> \o <<<<"proxy", code>>>>
          \/ Heard("client")' = <<>> /\ state'["client"] = "reset"
      <3>1. "client" \in Ends /\ got' = got
        BY ZenonT(30), <1>4
      <3>2. \/ Heard("client")' = Heard("client") \o <<<<"proxy", code>>>>
            \/ Heard("client")' = Heard("client") /\ state'["client"] = "reset"
        BY ZenonT(30), <1>t, <2>0, <2>1, <3>1, SendHeard
      <3> QED BY <2>2, <3>2
    <2>4. <<>> \o <<<<"proxy", code>>>> = <<<<"proxy", code>>>>
      BY <2>1, ConcatEmptySeq
    <2>5. \/ Heard("client")' # <<>> /\ Heard("client")'[1][1] = "proxy"
          \/ Heard("client")' = <<>> /\ state'["client"] = "reset"
      BY <2>3, <2>4
    <2>6. pc' # "send" => pending' = <<>>
      BY ZenonT(30), <1>4 DEF Phases
    <2> QED BY ZenonT(30), <1>4, <2>5, <2>6 DEF Phases
  <1>5. CASE Answers
    <2>1. PICK code \in {200, 400, 405, 502} : AnswerAndClose(code)
      BY <1>5 DEF Answers
    <2>2. Send("client", <<<<"proxy", code>>>>)
      BY <2>1 DEF AnswerAndClose
    <2>3. \E c \in {200, 400, 405, 502} : Send("client", <<<<"proxy", c>>>>)
      BY <2>2
    <2>4. /\ UNCHANGED <<said, inbox, got, sockets, cut, loop, skipped>>
          /\ pc \in Early \union {"established"}
          /\ pc' = "select" \/ pc' \in Over
      BY ZenonT(30), <1>5, <2>1 DEF Answers, AnswerAndClose
    <2> QED BY ZenonT(30), <1>4, <2>3, <2>4
  <1>6. CASE Connect
    BY <1>t, <1>6, <1>h, Types DEF Connect, Phases
  <1>7. CASE Established
    <2>1. /\ Send("client", <<<<"proxy", 200>>>>)
          /\ UNCHANGED <<said, inbox, got, sockets, cut, loop, skipped>>
          /\ pc \in Early \union {"established"}
          /\ pc' = "select" \/ pc' \in Over
      BY <1>7 DEF Established
    <2>2. \E c \in {200, 400, 405, 502} : Send("client", <<<<"proxy", c>>>>)
      BY ZenonT(30), <2>1
    <2> QED BY <1>4, <2>1, <2>2
  <1>8. ASSUME NEW e \in Ends, Recv(e) PROVE Phases'
    BY <1>8, <1>h DEF Recv, Phases
  <1>9. CASE SendSome
    <2>1. PICK n \in 1..Len(pending) :
             /\ Send(Other(source), SubSeq(pending, 1, n))
             /\ pending' = SubSeq(pending, n + 1, Len(pending))
      BY <1>9 DEF SendSome
    <2>2. /\ pc = "send" /\ UNCHANGED <<said, inbox, got, sockets, cut, skipped>>
          /\ pc' \in {"send", "target", "select"} /\ (pending' # <<>> => pc' = "send")
      BY <1>9 DEF SendSome
    <2>3. SubSeq(pending, 1, n) \in Seq(Byte) /\ Other(source) \in Ends
      <3>1. n \in 0..Len(pending) /\ pending \in Seq(Byte)
        BY <1>t, Types
      <3> QED BY <1>t, <3>1, RunSplit, Types
    <2>4. \/ Heard("client")' = Heard("client")
          \/ Heard("client")' = Heard("client") \o SubSeq(pending, 1, n)
             /\ Listens("client")
      BY <1>t, <2>1, <2>2, <2>3, SendHeard, Types
    <2>5. Listens("client")' => Listens("client")
      BY <1>t, <2>1, <2>2, <2>3, SendHeard, Types
    <2>6. ASSUME Heard("client")' = Heard("client") \o SubSeq(pending, 1, n),
                 Heard("client") # <<>>
          PROVE  Heard("client")' # <<>> /\ Heard("client")'[1] = Heard("client")[1]
      BY <1>t, <2>3, <2>6, HeardType, FirstStays
    <2>7. Listens("client") => Heard("client") # <<>>
      BY <2>2 DEF Phases
    <2>8. Heard("client") = <<>> \/ Heard("client")[1][1] = "proxy"
      BY DEF Phases
    <2> QED BY <2>2, <2>4, <2>5, <2>6, <2>7, <2>8 DEF Phases
  <1>10. CASE Closes
    <2>1. got' = got /\ pc' \in Over /\ (outbox' = outbox \/ outbox'["client"] = <<>>
                                         \/ outbox'["client"] = outbox["client"])
      BY <1>t, <1>10, Types DEF Closes, Close
    <2>2. \/ Heard("client")' = Heard("client")
          \/ Heard("client")' = <<>> \/ Heard("client")'[1] = Heard("client")[1]
      BY <1>t, <2>1, HeardLost DEF Heard
    <2>3. Heard("client")' = <<>> \/ Heard("client")'[1][1] = "proxy"
      <3>1. Heard("client") = <<>> => Heard("client")' = <<>>
        BY <1>t, <2>1, HeardLost DEF Heard
      <3> QED BY <2>2, <3>1 DEF Phases
    <2> QED BY <2>1, <2>3 DEF Phases
  <1>11. CASE EndStep
    <2>1. ASSUME NEW e \in Ends, Say(e) \/ FinishSpeaking(e) PROVE Phases'
      <3>1. /\ \A f \in Ends : Heard(f)' = Heard(f)
            /\ UNCHANGED <<pc, pending, skipped>> /\ state[e] = "open"
        BY <2>1, <1>h DEF Say, FinishSpeaking
      <3>2. /\ Listens("client")' => Listens("client")
            /\ state["target"] = "absent" => state'["target"] = "absent"
        BY <1>t, <2>1, Types DEF Say, FinishSpeaking
      <3> QED BY <3>1, <3>2 DEF Phases
    <2>2. ASSUME NEW e \in Ends, Leave(e) PROVE Phases'
      <3>1. /\ UNCHANGED <<pc, pending, skipped, got>> /\ state[e] \in {"open", "half"}
            /\ state'[e] \in {"gone", "reset"} /\ outbox'[e] = <<>>
            /\ \A f \in Ends \ {e} : state'[f] = state[f] /\ outbox'[f] = outbox[f]
        BY <1>t, <2>2, Types DEF Leave
      <3>2. \A f \in Ends : \/ Heard(f)' = Heard(f)
                            \/ f = e /\ /\ Heard(f) = <<>> => Heard(f)' = <<>>
                                        /\ Heard(f)' # <<>> => Heard(f)'[1] = Heard(f)[1]
        BY <1>t, <3>1, HeardLost DEF Heard
      <3>3. Heard("client")' = <<>> \/ Heard("client")'[1][1] = "proxy"
        BY <3>2 DEF Phases
      <3>4. pc \in Early \union {"established"} =>
               Heard("client")' = <<>> /\ Heard("target")' = <<>>
        BY <3>2 DEF Phases
      <3>5. pc \in Relaying /\ Listens("client")' => Heard("client")' # <<>>
        BY <3>1, <3>2 DEF Phases
      <3>6. pc \in Early => state'["target"] = "absent"
        BY <3>1 DEF Phases
      <3> QED BY <3>1, <3>3, <3>4, <3>5, <3>6 DEF Phases
    <2>3. ASSUME NEW e \in Ends, Read(e) PROVE Phases'
      <3>1. \A f \in Ends : Heard(f)' = Heard(f)
        BY <1>t, <2>3, HeardRead
      <3> QED BY <2>3, <3>1 DEF Read, Phases
    <2> QED BY <1>11, <2>1, <2>2, <2>3 DEF EndStep
  <1>12. CASE UNCHANGED tunnel
    BY <1>12, <1>h DEF tunnel, Phases
  <1> QED BY <1>t, <1>1, <1>2, <1>3, <1>5, <1>6, <1>7, <1>8, <1>9, <1>10, <1>11,
             <1>12, Kinds

\* The thread of manage_client and tcp_handle_connect is where the code has it.
LEMMA PhasesHold == Spec => []Phases
  <1>1. Init => Phases
    <2> SUFFICES ASSUME Init PROVE Phases
      OBVIOUS
    <2>1. Heard("client") = <<>> /\ Heard("target") = <<>>
      BY EmptySeq, ConcatEmptySeq DEF Init, TunnelInit, Heard
    <2> QED BY <2>1 DEF Init, TunnelInit, Phases, Early, Over, Relaying
  <1>2. Base /\ Phases /\ [Next]_vars => Phases'
    BY PhasesStep
  <1> QED BY <1>1, <1>2, BaseInvariant, PTL DEF Spec
------------------------------------------------------------------------------
(***************************************************************************)
(* What one end says on its way to the other.                              *)
(***************************************************************************)
\* The bytes of e that the request parser took are the first ones.
Start(e) == IF e = "client" THEN skipped ELSE 0

OnItsWay(e) == Arrived(e) \o InHand(e) \o inbox[e]

\* The way is whole while the tunnel is not over and the other end takes bytes.
Intact(e) == pc \notin Over /\ state[Other(e)] # "reset"

\* What arrived of e is what it said first, and while the way is whole all that
\* it has said is on it, in its order.
Flow(e) ==
    /\ Run(e, Arrived(e), Start(e))
    /\ Start(e) + Len(Arrived(e)) <= said[e]
    /\ Intact(e) => /\ Run(e, OnItsWay(e), Start(e))
                    /\ Start(e) + Len(OnItsWay(e)) = said[e]

\* The numbers and sequences of Flow have their types.
LEMMA FlowType ==
    ASSUME TunnelTypeOK, NEW e \in Ends
    PROVE  /\ Start(e) \in Nat /\ said[e] \in Nat
           /\ Heard(Other(e)) \in Seq(Byte) /\ Arrived(e) \in Seq(Byte)
           /\ InHand(e) \in Seq(Byte) /\ inbox[e] \in Seq(Byte)
           /\ Arrived(e) \o InHand(e) \in Seq(Byte) /\ OnItsWay(e) \in Seq(Byte)
           /\ Len(Arrived(e)) \in Nat /\ Len(OnItsWay(e)) \in Nat
           /\ Len(inbox[e]) \in Nat
  <1>1. Start(e) \in Nat /\ said[e] \in Nat
    BY TunnelAssumption, Types DEF Start
  <1>2. Heard(Other(e)) \in Seq(Byte) /\ InHand(e) \in Seq(Byte) /\ inbox[e] \in Seq(Byte)
    BY HeardType
  <1>3. Arrived(e) \in Seq(Byte)
    BY <1>2, AfterAnswerType DEF Arrived
  <1>4. Arrived(e) \o InHand(e) \in Seq(Byte)
    BY <1>2, <1>3, ConcatProperties
  <1>5. OnItsWay(e) \in Seq(Byte)
    BY <1>2, <1>4, ConcatProperties DEF OnItsWay
  <1> QED BY <1>1, <1>2, <1>3, <1>4, <1>5, LenProperties

\* A step that neither adds to what arrived nor takes from it.
LEMMA FlowKept ==
    ASSUME NEW e \in Ends, Flow(e), Heard(Other(e))' = Heard(Other(e)),
           said'[e] = said[e], skipped' = skipped,
           Intact(e)' => /\ Intact(e)
                         /\ InHand(e)' = InHand(e) /\ inbox'[e] = inbox[e]
    PROVE  Flow(e)'
  <1>1. Arrived(e)' = Arrived(e) /\ Start(e)' = Start(e)
    BY DEF Arrived, AfterAnswer, Start
  <1>2. Intact(e)' => OnItsWay(e)' = OnItsWay(e)
    BY <1>1 DEF OnItsWay
  <1> HIDE DEF Other
  <1> QED BY <1>1, <1>2 DEF Flow

\* A step after which the other end has lost what it had not read.
LEMMA FlowLost ==
    ASSUME TunnelTypeOK, NEW e \in Ends, Flow(e),
           outbox'[Other(e)] = <<>>, got'[Other(e)] = got[Other(e)],
           said'[e] = said[e], skipped' = skipped, ~Intact(e)'
    PROVE  Flow(e)'
  <1>1. /\ Heard(Other(e))' = got[Other(e)]
        /\ Heard(Other(e)) = got[Other(e)] \o outbox[Other(e)]
        /\ got[Other(e)] \in Seq(Byte) /\ outbox[Other(e)] \in Seq(Byte)
    BY HeardLost, HeardType
  <1>2. /\ Arrived(e)' = AfterAnswer(Other(e), got[Other(e)])
        /\ Arrived(e) = AfterAnswer(Other(e), got[Other(e)] \o outbox[Other(e)])
    BY <1>1 DEF Arrived, AfterAnswer
  <1>3. Start(e)' = Start(e) /\ Start(e) \in Nat
    BY FlowType DEF Start
  <1>4. Run(e, Arrived(e), Start(e))
    BY DEF Flow
  <1>5. Run(e, Arrived(e)', Start(e)) /\ Len(Arrived(e)') <= Len(Arrived(e))
    BY <1>1, <1>2, <1>3, <1>4, AfterAnswerLess
  <1>6. Len(Arrived(e)') \in Nat /\ Len(Arrived(e)) \in Nat /\ said[e] \in Nat
    BY <1>1, <1>2, FlowType, AfterAnswerType, LenProperties
  <1>7. Start(e) + Len(Arrived(e)') <= said[e]
    BY <1>3, <1>5, <1>6 DEF Flow
  <1> HIDE DEF Other
  <1> QED BY <1>3, <1>5, <1>7 DEF Flow

\* Before the proxy has answered nothing has arrived, and its answer is not what
\* the target said.
LEMMA FlowAnswered ==
    ASSUME TunnelTypeOK, Phases, NEW e \in Ends, Flow(e),
           pc \in Early \union {"established"},
           \E code \in {200, 400, 405, 502} : Send("client", <<<<"proxy", code>>>>),
           UNCHANGED <<said, inbox, got, loop, skipped>>
    PROVE  Flow(e)'
  <1>1. PICK code \in {200, 400, 405, 502} : Send("client", <<<<"proxy", code>>>>)
    OBVIOUS
  <1>2. <<<<"proxy", code>>>> \in Seq(Byte)
    BY DEF Byte
  <1>3. Heard("client") = <<>>
    BY DEF Phases
  <1>4. /\ Heard("target")' = Heard("target") /\ state'["target"] = state["target"]
        /\ \/ /\ Heard("client")' = Heard("client") \o <<<<"proxy", code>>>>
              /\ state'["client"] = state["client"]
           \/ Heard("client")' = Heard("client") /\ state'["client"] = "reset"
    <2>1. "client" \in Ends /\ got' = got
      OBVIOUS
    <2> QED BY SMTT(30), <1>1, <1>2, <2>1, SendHeard
  <1>5. <<>> \o <<<<"proxy", code>>>> = <<<<"proxy", code>>>>
    BY <1>2, ConcatEmptySeq
  <1>6. AfterAnswer("client", <<<<"proxy", code>>>>) = <<>>
        /\ AfterAnswer("client", <<>>) = <<>>
    BY ZenonT(30), AfterAnswerType, EmptySeq
  <1>7. Arrived(e)' = Arrived(e)
    <2>1. Arrived("client")' = Arrived("client")
      BY <1>4 DEF Arrived, AfterAnswer
    <2>2. Arrived("target")' = AfterAnswer("client", Heard("client")')
      BY DEF Arrived, AfterAnswer
    <2>3. Arrived("target")' = Arrived("target")
      BY <1>3, <1>4, <1>5, <1>6, <2>2 DEF Arrived
    <2> QED BY <2>1, <2>3
  <1>8. Start(e)' = Start(e) /\ OnItsWay(e)' = OnItsWay(e) /\ said'[e] = said[e]
    BY <1>7 DEF Start, OnItsWay, InHand, loop
  <1>9. Intact(e)' => Intact(e)
    BY ZenonT(30), <1>4 DEF Intact, Early, Over
  <1> HIDE DEF Other
  <1> QED BY <1>7, <1>8, <1>9 DEF Flow

\* The parser takes the first bytes of the client, when none has arrived.
LEMMA FlowTaken ==
    ASSUME TunnelTypeOK, Phases, NEW e \in Ends, Flow(e), Takes
    PROVE  Flow(e)'
  <1>1. /\ pc = "recv" /\ state["target"] = "absent" /\ skipped = 0
        /\ Heard("target") = <<>> /\ pending = <<>>
    BY DEF Takes, Phases, Early, Over
  <1>2. UNCHANGED <<state, said, outbox, got, source, pending>>
    BY DEF Takes, loop
  <1>3. Arrived(e)' = Arrived(e) /\ InHand(e)' = InHand(e)
    BY <1>2 DEF Arrived, AfterAnswer, Heard, InHand
  <1>4. CASE inbox'[e] = inbox[e] /\ Start(e)' = Start(e)
    <2>1. OnItsWay(e)' = OnItsWay(e) /\ said'[e] = said[e]
      BY <1>2, <1>3, <1>4 DEF OnItsWay
    <2>2. Intact(e)' => Intact(e)
      BY <1>1, <1>2 DEF Intact, Over
    <2> HIDE DEF Other
    <2> QED BY <1>3, <1>4, <2>1, <2>2 DEF Flow
  <1>5. ASSUME e = "client", NEW k \in 1..Len(inbox["client"]), skipped' = k,
               inbox' = [inbox EXCEPT !["client"] =
                            SubSeq(inbox["client"], k + 1, Len(inbox["client"]))]
        PROVE  Flow(e)'
    <2>1. Arrived(e) = <<>> /\ InHand(e) = <<>>
      BY <1>1, <1>5, AfterAnswerType, EmptySeq DEF Arrived, InHand
    <2>2. \A s \in Seq(Byte) : <<>> \o s = s
      BY ConcatEmptySeq
    <2>3. inbox[e] \in Seq(Byte) /\ <<>> \in Seq(Byte)
      BY FlowType, EmptySeq
    <2>4. OnItsWay(e) = inbox[e] /\ Start(e) = 0 /\ Intact(e)
      BY <1>1, <1>5, <2>1, <2>2, <2>3 DEF OnItsWay, Start, Intact, Over
    <2>5. Run(e, inbox[e], 0) /\ 0 + Len(inbox[e]) = said[e]
      BY <2>4 DEF Flow
    <2> DEFINE rest == SubSeq(inbox[e], k + 1, Len(inbox[e]))
    <2>6. k \in 0..Len(inbox[e]) /\ Len(inbox[e]) \in Nat /\ 0 + k = k
      BY <1>5, <2>3, LenProperties
    <2>7. rest \in Seq(Byte) /\ Len(rest) = Len(inbox[e]) - k /\ Run(e, rest, 0 + k)
      BY <2>3, <2>5, <2>6, RunSplit
    <2>8. inbox'[e] = rest /\ Start(e)' = k /\ said'[e] = said[e]
      BY <1>2, <1>5, Types DEF Start
    <2> HIDE DEF rest
    <2>9. OnItsWay(e)' = rest
      BY <1>3, <2>1, <2>2, <2>3, <2>7, <2>8 DEF OnItsWay
    <2>10. k + Len(rest) = said[e] /\ k + Len(<<>>) <= said[e]
      BY <2>3, <2>5, <2>6, <2>7, EmptySeq
    <2>11. Run(e, <<>>, k) /\ Run(e, rest, k)
      BY <2>6, <2>7, RunEmpty
    <2>12. Arrived(e)' = <<>>
      BY <1>3, <2>1
    <2> HIDE DEF Other
    <2> QED BY <2>8, <2>9, <2>10, <2>11, <2>12 DEF Flow
  <1>6. CASE UNCHANGED <<inbox, skipped>>
    BY <1>4, <1>6 DEF Start
  <1>7. ASSUME NEW k \in 1..Len(inbox["client"]), skipped' = k,
               inbox' = [inbox EXCEPT !["client"] =
                            SubSeq(inbox["client"], k + 1, Len(inbox["client"]))]
        PROVE  Flow(e)'
    <2>1. CASE e = "client"
      BY <1>5, <1>7, <2>1
    <2>2. CASE e = "target"
      <3>1. inbox'[e] = inbox[e] /\ Start(e)' = Start(e)
        BY <1>7, <2>2, Types DEF Start
      <3> QED BY <1>4, <3>1
    <2> QED BY <2>1, <2>2
  <1> QED BY <1>6, <1>7 DEF Takes

\* A recv moves bytes of one end from its socket to the empty buffer.
LEMMA FlowReceived ==
    ASSUME TunnelTypeOK, Phases, NEW e \in Ends, Flow(e), NEW x \in Ends, Recv(x)
    PROVE  Flow(e)'
  <1>1. /\ pc = x /\ source' = x
        /\ UNCHANGED <<state, said, outbox, got, skipped>>
    BY DEF Recv
  <1>2. pending = <<>>
    BY <1>1 DEF Phases, Over
  <1>3. Heard(Other(e))' = Heard(Other(e)) /\ said'[e] = said[e]
    BY <1>1 DEF Heard
  <1>4. Intact(e)' => Intact(e)
    BY <1>1 DEF Intact, Over
  <1>5. CASE x # e
    <2>1. inbox'[e] = inbox[e]
      BY <1>5, Types DEF Recv
    <2>2. InHand(e)' = InHand(e)
      BY <1>1, <1>2, <1>5 DEF InHand
    <2> QED BY <1>1, <1>3, <1>4, <2>1, <2>2, FlowKept
  <1>6. CASE x = e
    <2> DEFINE n == IF Len(inbox[e]) < Buffer THEN Len(inbox[e]) ELSE Buffer
    <2>1. n \in 0..Len(inbox[e])
      BY SMTT(30), FlowType, TunnelAssumption
    <2>2. /\ pending' = SubSeq(inbox[e], 1, n)
          /\ inbox'[e] = SubSeq(inbox[e], n + 1, Len(inbox[e]))
      BY <1>6, Types DEF Recv
    <2> HIDE DEF n
    <2>3. /\ pending' \in Seq(Byte) /\ inbox'[e] \in Seq(Byte)
          /\ pending' \o inbox'[e] = inbox[e]
      <3>1. inbox[e] \in Seq(Byte)
        BY FlowType
      <3>2. /\ SubSeq(inbox[e], 1, n) \in Seq(Byte)
            /\ SubSeq(inbox[e], n + 1, Len(inbox[e])) \in Seq(Byte)
            /\ SubSeq(inbox[e], 1, n) \o SubSeq(inbox[e], n + 1, Len(inbox[e])) = inbox[e]
        BY <2>1, <3>1, Parts
      <3> QED BY <2>2, <3>2
    <2>5. Arrived(e)' = Arrived(e) /\ Arrived(e) \in Seq(Byte)
      BY <1>3, FlowType DEF Arrived, AfterAnswer
    <2>6. OnItsWay(e)' = (Arrived(e) \o pending') \o inbox'[e]
      BY <1>1, <1>6, <2>5 DEF OnItsWay, InHand
    <2>7. OnItsWay(e) = Arrived(e) \o inbox[e]
      <3>1. InHand(e) = <<>>
        BY <1>2 DEF InHand
      <3>2. Arrived(e) \o <<>> = Arrived(e)
        BY <2>5, ConcatEmptySeq
      <3> QED BY <3>1, <3>2 DEF OnItsWay
    <2>8. OnItsWay(e)' = OnItsWay(e)
      <3>1. Arrived(e) \in Seq(Byte) /\ pending' \in Seq(Byte) /\ inbox'[e] \in Seq(Byte)
        BY <2>3, <2>5
      <3>2. (Arrived(e) \o pending') \o inbox'[e] = Arrived(e) \o (pending' \o inbox'[e])
        BY <3>1, Assoc
      <3> QED BY <2>3, <2>6, <2>7, <3>2
    <2>9. Start(e)' = Start(e)
      BY <1>1 DEF Start
    <2> HIDE DEF Other
    <2> QED BY <1>3, <1>4, <2>5, <2>8, <2>9 DEF Flow
  <1> QED BY <1>5, <1>6

\* A send moves bytes from the buffer to the socket of the other end, behind the
\* ones that are there, or loses them when that end has left.
LEMMA FlowSent ==
    ASSUME TunnelTypeOK, Phases, NEW e \in Ends, Flow(e), SendSome
    PROVE  Flow(e)'
  <1>1. PICK x \in Ends : source = x
    BY Types
  <1>2. PICK n \in 1..Len(pending) :
           /\ Send(Other(source), SubSeq(pending, 1, n))
           /\ pending' = SubSeq(pending, n + 1, Len(pending))
    BY DEF SendSome
  <1>3. /\ pc = "send" /\ pc' \notin Over
        /\ said' = said /\ inbox' = inbox /\ got' = got /\ skipped' = skipped
        /\ source' = x
    BY <1>1, Types DEF SendSome, Over
  <1> DEFINE a == SubSeq(pending, 1, n)
  <1>4. a \in Seq(Byte) /\ pending' \in Seq(Byte) /\ a \o pending' = pending
    <2>1. pending \in Seq(Byte) /\ n \in 0..Len(pending)
      BY Types, LenProperties
    <2> QED BY <1>2, <2>1, Parts
  <1>5. Send(Other(x), a) /\ Other(x) \in Ends /\ Other(Other(x)) = x
    BY <1>1, <1>2
  <1> HIDE DEF a
  <1>6. /\ Heard(x)' = Heard(x) /\ state'[x] = state[x]
        /\ \/ /\ Listens(Other(x)) /\ state'[Other(x)] = state[Other(x)]
              /\ Heard(Other(x))' = Heard(Other(x)) \o a
           \/ /\ state'[Other(x)] = "reset"
              /\ Heard(Other(x))' = Heard(Other(x))
    <2>1. /\ Heard(Other(Other(x)))' = Heard(Other(Other(x)))
          /\ state'[Other(Other(x))] = state[Other(Other(x))]
          /\ \/ /\ Listens(Other(x)) /\ state'[Other(x)] = state[Other(x)]
                /\ Heard(Other(x))' = Heard(Other(x)) \o a
             \/ /\ state[Other(x)] \in {"gone", "reset"} /\ state'[Other(x)] = "reset"
                /\ Heard(Other(x))' = Heard(Other(x))
      BY <1>3, <1>4, <1>5, SendHeard
    <2> QED BY <1>5, <2>1
  <1>7. CASE e # x
    <2>1. Other(e) = x
      BY <1>7
    <2>2. InHand(e)' = InHand(e)
      BY <1>1, <1>3, <1>7 DEF InHand
    <2>3. Heard(Other(e))' = Heard(Other(e))
      BY <1>6, <2>1
    <2>4. Intact(e)' => Intact(e)
      BY <1>3, <1>6, <2>1 DEF Intact, Over
    <2> QED BY <1>3, <2>2, <2>3, <2>4, FlowKept
  <1>8. CASE e = x /\ state'[Other(e)] = "reset" /\ Heard(Other(e))' = Heard(Other(e))
    <2>1. ~Intact(e)'
      BY <1>8 DEF Intact
    <2> QED BY <1>3, <1>8, <2>1, FlowKept
  <1>9. CASE /\ e = x /\ Listens(Other(e)) /\ state'[Other(e)] = state[Other(e)]
             /\ Heard(Other(e))' = Heard(Other(e)) \o a
    <2>1. Intact(e)
      BY <1>3, <1>9 DEF Intact, Listens, Over
    <2>2. Arrived(e)' = Arrived(e) \o a
      <3>1. Other(e) = "client" => Heard(Other(e)) # <<>>
        BY <1>3, <1>9 DEF Phases, Relaying
      <3>2. Heard(Other(e)) \in Seq(Byte) /\ Other(e) \in Ends
        BY FlowType
      <3>3. AfterAnswer(Other(e), Heard(Other(e)) \o a)
               = AfterAnswer(Other(e), Heard(Other(e))) \o a
        BY <1>4, <3>1, <3>2, AfterAnswerConcat
      <3>4. Arrived(e)' = AfterAnswer(Other(e), Heard(Other(e))')
        BY DEF Arrived, AfterAnswer
      <3> QED BY <1>9, <3>3, <3>4 DEF Arrived
    <2>3. /\ InHand(e) = pending /\ InHand(e)' = pending' /\ Start(e)' = Start(e)
          /\ inbox'[e] = inbox[e] /\ said'[e] = said[e]
      BY <1>1, <1>3, <1>9 DEF InHand, Start
    <2>4. /\ Arrived(e) \in Seq(Byte) /\ inbox[e] \in Seq(Byte)
          /\ Start(e) \in Nat /\ said[e] \in Nat
      BY FlowType
    <2>5. (Arrived(e) \o a) \o pending' = Arrived(e) \o pending
      <3>1. Arrived(e) \in Seq(Byte) /\ a \in Seq(Byte) /\ pending' \in Seq(Byte)
        BY <1>4, <2>4
      <3>2. (Arrived(e) \o a) \o pending' = Arrived(e) \o (a \o pending')
        BY <3>1, Assoc
      <3> QED BY <1>4, <3>2
    <2>6. OnItsWay(e)' = OnItsWay(e)
      BY <2>2, <2>3, <2>5 DEF OnItsWay
    <2>7. Run(e, OnItsWay(e), Start(e)) /\ Start(e) + Len(OnItsWay(e)) = said[e]
      BY <2>1 DEF Flow
    <2> DEFINE b == Arrived(e) \o a
               r == pending' \o inbox[e]
    <2>8. b \in Seq(Byte) /\ r \in Seq(Byte)
      BY <1>4, <2>4, ConcatProperties
    <2>9. OnItsWay(e) = b \o r
      <3>1. OnItsWay(e)' = (b \o pending') \o inbox[e]
        BY <2>2, <2>3 DEF OnItsWay
      <3>2. b \in Seq(Byte) /\ pending' \in Seq(Byte) /\ inbox[e] \in Seq(Byte)
        BY <1>4, <2>4, <2>8
      <3>3. (b \o pending') \o inbox[e] = b \o r
        BY <3>2, Assoc
      <3> QED BY <2>6, <3>1, <3>3
    <2>10. Arrived(e)' = b
      BY <2>2
    <2> HIDE DEF b, r
    <2>11. Run(e, b, Start(e)) /\ Len(OnItsWay(e)) = Len(b) + Len(r)
      BY <2>4, <2>7, <2>8, <2>9, RunConcat
    <2>12. Start(e) + Len(b) <= said[e]
      <3>1. Len(b) \in Nat /\ Len(r) \in Nat
        BY <2>8, LenProperties
      <3> QED BY <2>4, <2>7, <2>11, <3>1
    <2> HIDE DEF Other
    <2> QED BY <2>3, <2>6, <2>7, <2>10, <2>11, <2>12 DEF Flow
  <1> QED BY <1>6, <1>7, <1>8, <1>9

\* What an end says comes last.
LEMMA FlowSaid ==
    ASSUME TunnelTypeOK, NEW e \in Ends, Flow(e), NEW x \in Ends, Say(x)
    PROVE  Flow(e)'
  <1>1. UNCHANGED <<pc, state, outbox, got, source, pending, skipped>>
    BY DEF Say, loop
  <1>2. CASE x # e
    <2>1. said'[e] = said[e] /\ inbox'[e] = inbox[e]
      BY <1>2, Types DEF Say
    <2>2. Heard(Other(e))' = Heard(Other(e)) /\ InHand(e)' = InHand(e)
      BY <1>1 DEF Heard, InHand
    <2>3. Intact(e)' => Intact(e)
      BY <1>1 DEF Intact
    <2> QED BY <1>1, <2>1, <2>2, <2>3, FlowKept
  <1>3. CASE x = e
    <2> DEFINE b == <<e, said[e] + 1>>
    <2>1. /\ said'[e] = said[e] + 1 /\ inbox'[e] = Append(inbox[e], b)
          /\ said[e] < Volume
      <3>1. /\ said' = [said EXCEPT ![e] = said[e] + 1]
            /\ inbox' = [inbox EXCEPT ![e] = Append(inbox[e], b)]
            /\ said[e] < Volume
        BY <1>3 DEF Say
      <3> HIDE DEF b
      <3> QED BY <3>1, Types
    <2>2. b \in Byte
      <3>1. said[e] \in Nat /\ Volume \in Nat /\ said[e] < Volume
        BY <2>1, FlowType, TunnelAssumption
      <3>2. said[e] + 1 \in 1..Volume
        BY <3>1
      <3> QED BY <3>2 DEF Byte
    <2> HIDE DEF b
    <2>3. Append(inbox[e], b) = inbox[e] \o <<b>> /\ <<b>> \in Seq(Byte)
          /\ Len(<<b>>) = 1 /\ <<b>>[1] = b
      <3>1. inbox[e] \in Seq(Byte)
        BY FlowType
      <3> QED BY <2>2, <3>1, AppendIsConcat
    <2>4. Arrived(e)' = Arrived(e) /\ Start(e)' = Start(e) /\ InHand(e)' = InHand(e)
      BY <1>1 DEF Arrived, AfterAnswer, Heard, Start, InHand
    <2>5. OnItsWay(e)' = OnItsWay(e) \o <<b>>
      <3> HIDE DEF b
      <3>1. OnItsWay(e)' = (Arrived(e) \o InHand(e)) \o (inbox[e] \o <<b>>)
        BY <2>1, <2>3, <2>4 DEF OnItsWay
      <3>2. Arrived(e) \o InHand(e) \in Seq(Byte) /\ inbox[e] \in Seq(Byte)
        BY FlowType
      <3>3. ((Arrived(e) \o InHand(e)) \o inbox[e]) \o <<b>>
               = (Arrived(e) \o InHand(e)) \o (inbox[e] \o <<b>>)
        BY <2>3, <3>2, Assoc
      <3> QED BY <3>1, <3>3 DEF OnItsWay
    <2>6. Intact(e)' => Intact(e)
      BY <1>1 DEF Intact
    <2> DEFINE w == OnItsWay(e) \o <<b>>
    <2>7. ASSUME Intact(e)
          PROVE  Run(e, w, Start(e)) /\ Start(e) + Len(w) = said[e] + 1
      <3>1. Run(e, OnItsWay(e), Start(e)) /\ Start(e) + Len(OnItsWay(e)) = said[e]
        BY <2>7 DEF Flow
      <3>2. Run(e, <<b>>, Start(e) + Len(OnItsWay(e)))
        BY <2>3, <3>1 DEF Run, b
      <3>3. OnItsWay(e) \in Seq(Byte) /\ Start(e) \in Nat /\ Len(OnItsWay(e)) \in Nat
        BY FlowType
      <3>4. Run(e, w, Start(e)) /\ Len(w) = Len(OnItsWay(e)) + Len(<<b>>)
        BY <2>3, <3>1, <3>2, <3>3, RunConcat
      <3>5. said[e] \in Nat /\ Len(<<b>>) = 1
        BY <2>3, FlowType
      <3> HIDE DEF w, b
      <3> QED BY <3>1, <3>3, <3>4, <3>5
    <2>8. Start(e) + Len(Arrived(e)) <= said[e] + 1
      <3>1. Start(e) + Len(Arrived(e)) <= said[e]
        BY DEF Flow
      <3>2. Start(e) \in Nat /\ Len(Arrived(e)) \in Nat /\ said[e] \in Nat
        BY FlowType
      <3> QED BY <3>1, <3>2
    <2> HIDE DEF b, w
    <2>9. OnItsWay(e)' = w
      BY <2>5 DEF w
    <2> HIDE DEF Other
    <2> QED BY <2>1, <2>4, <2>6, <2>7, <2>8, <2>9 DEF Flow
  <1> QED BY <1>2, <1>3

\* Every step of the connection, for the bytes of either end.
LEMMA FlowStep ==
    ASSUME Base, Phases, [Next]_vars, NEW e \in Ends, Flow(e)
    PROVE  Flow(e)'
  <1>t. TunnelTypeOK
    BY DEF Base
  <1>1. CASE Takes
    BY <1>t, <1>1, FlowTaken
  <1>2. CASE Passes \/ Stops \/ UNCHANGED tunnel
    <2>1. /\ UNCHANGED <<state, said, inbox, outbox, got, source, pending, skipped>>
          /\ pc' \notin Over => pc \notin Over
      BY <1>2 DEF Passes, Stops, tunnel, world, loop, Over
    <2>2. Heard(Other(e))' = Heard(Other(e)) /\ InHand(e)' = InHand(e)
      BY <2>1 DEF Heard, InHand
    <2>3. Intact(e)' => Intact(e)
      BY <2>1 DEF Intact
    <2> QED BY <2>1, <2>2, <2>3, FlowKept
  <1>3. CASE Answers \/ Established
    <2>1. /\ pc \in Early \union {"established"}
          /\ UNCHANGED <<said, inbox, got, loop, skipped>>
      BY ZenonT(30), <1>3 DEF Answers, AnswerAndClose, Established, Early
    <2>2. \E code \in {200, 400, 405, 502} : Send("client", <<<<"proxy", code>>>>)
      <3>1. CASE Answers
        <4>1. PICK code \in {200, 400, 405, 502} : AnswerAndClose(code)
          BY <3>1 DEF Answers
        <4>2. Send("client", <<<<"proxy", code>>>>)
          BY <4>1 DEF AnswerAndClose
        <4> QED BY <4>2
      <3>2. CASE Established
        BY <3>2 DEF Established
      <3> QED BY <1>3, <3>1, <3>2
    <2> QED BY <1>t, <2>1, <2>2, FlowAnswered
  <1>4. CASE Connect
    <2>1. /\ UNCHANGED <<said, inbox, outbox, got, source, pending, skipped>>
          /\ pc = "connect" /\ state' = [state EXCEPT !["target"] = "open"]
      BY <1>4 DEF Connect, loop
    <2>2. Heard(Other(e))' = Heard(Other(e)) /\ InHand(e)' = InHand(e)
      BY <2>1 DEF Heard, InHand
    <2>3. state["target"] = "absent"
      BY <2>1 DEF Phases, Early
    <2>4. Intact(e)' => Intact(e)
      BY <1>t, <2>1, <2>3, Types DEF Intact, Over
    <2> QED BY <2>1, <2>2, <2>4, FlowKept
  <1>5. ASSUME NEW x \in Ends, Recv(x) PROVE Flow(e)'
    BY <1>t, <1>5, FlowReceived
  <1>6. CASE SendSome
    BY <1>t, <1>6, FlowSent
  <1>7. CASE Closes
    <2>1. /\ UNCHANGED <<said, got, skipped>> /\ pc' \in Over
          /\ outbox' = outbox \/ \E x \in Ends : outbox' = [outbox EXCEPT ![x] = <<>>]
      BY <1>7 DEF Closes, Close, Over
    <2>2. ~Intact(e)'
      BY <2>1 DEF Intact
    <2>3. CASE outbox'[Other(e)] = <<>>
      BY <1>t, <2>1, <2>2, <2>3, FlowLost
    <2>4. CASE outbox'[Other(e)] = outbox[Other(e)]
      <3>1. Heard(Other(e))' = Heard(Other(e))
        BY <2>1, <2>4 DEF Heard
      <3> QED BY <2>1, <2>2, <3>1, FlowKept
    <2> QED BY <1>t, <2>1, <2>3, <2>4, Types
  <1>8. ASSUME NEW x \in Ends, Say(x) PROVE Flow(e)'
    BY <1>t, <1>8, FlowSaid
  <1>9. ASSUME NEW x \in Ends, FinishSpeaking(x) PROVE Flow(e)'
    <2>1. /\ UNCHANGED <<pc, said, inbox, outbox, got, source, pending, skipped>>
          /\ state' = [state EXCEPT ![x] = "half"] /\ state[x] = "open"
      BY <1>9 DEF FinishSpeaking, loop
    <2>2. Heard(Other(e))' = Heard(Other(e)) /\ InHand(e)' = InHand(e)
      BY <2>1 DEF Heard, InHand
    <2>3. Intact(e)' => Intact(e)
      BY <1>t, <2>1, Types DEF Intact
    <2> QED BY <2>1, <2>2, <2>3, FlowKept
  <1>10. ASSUME NEW x \in Ends, Leave(x) PROVE Flow(e)'
    <2>1. /\ UNCHANGED <<pc, said, inbox, got, source, pending, skipped>>
          /\ outbox' = [outbox EXCEPT ![x] = <<>>] /\ Listens(x)
          /\ state' = [state EXCEPT ![x] = IF outbox[x] = <<>> THEN "gone" ELSE "reset"]
      BY <1>10 DEF Leave, loop
    <2>2. CASE x = e \/ outbox[x] = <<>>
      <3>1. outbox'[Other(e)] = outbox[Other(e)]
        BY <1>t, <2>1, <2>2, Types
      <3>2. Heard(Other(e))' = Heard(Other(e)) /\ InHand(e)' = InHand(e)
        BY <2>1, <3>1 DEF Heard, InHand
      <3>3. Intact(e)' => Intact(e)
        BY <1>t, <2>1, <2>2, Types DEF Intact, Listens
      <3> QED BY <2>1, <3>2, <3>3, FlowKept
    <2>3. CASE x = Other(e) /\ outbox[x] # <<>>
      <3>1. outbox'[Other(e)] = <<>> /\ state'[Other(e)] = "reset"
        BY <1>t, <2>1, <2>3, Types
      <3>2. ~Intact(e)'
        BY <3>1 DEF Intact
      <3> QED BY <1>t, <2>1, <3>1, <3>2, FlowLost
    <2> QED BY <2>2, <2>3
  <1>11. ASSUME NEW x \in Ends, Read(x) PROVE Flow(e)'
    <2>1. UNCHANGED <<pc, state, said, inbox, source, pending, skipped>>
      BY <1>11 DEF Read, loop
    <2>2. Heard(Other(e))' = Heard(Other(e)) /\ InHand(e)' = InHand(e)
      <3>1. \A f \in Ends : Heard(f)' = Heard(f)
        BY <1>t, <1>11, HeardRead
      <3> QED BY <2>1, <3>1 DEF InHand
    <2>3. Intact(e)' => Intact(e)
      BY <2>1 DEF Intact
    <2> QED BY <2>1, <2>2, <2>3, FlowKept
  <1> HIDE DEF Other
  <1> QED BY <1>t, <1>1, <1>2, <1>3, <1>4, <1>5, <1>6, <1>7, <1>8, <1>9, <1>10,
             <1>11,
             Kinds DEF EndStep

\* Whatever the ends do, what arrives is what was said.
LEMMA FlowHolds == Spec => [](\A e \in Ends : Flow(e))
  <1>1. Init => \A e \in Ends : Flow(e)
    <2> SUFFICES ASSUME Init, NEW e \in Ends PROVE Flow(e)
      OBVIOUS
    <2>1. /\ <<>> \in Seq(Byte) /\ <<>> \o <<>> = <<>> /\ Len(<<>>) = 0
      BY EmptySeq, ConcatEmptySeq
    <2>2. /\ \A f \in Ends : Heard(f) = <<>> /\ inbox[f] = <<>> /\ InHand(f) = <<>>
          /\ Start(e) = 0 /\ said[e] = 0
      BY <2>1 DEF Init, TunnelInit, Heard, InHand, Start
    <2>3. Arrived(e) = <<>>
      BY <2>1, <2>2, AfterAnswerType DEF Arrived
    <2>4. OnItsWay(e) = <<>>
      BY <2>1, <2>2, <2>3 DEF OnItsWay
    <2> QED BY <2>1, <2>2, <2>3, <2>4, RunEmpty DEF Flow
  <1>2. Base /\ Phases /\ (\A e \in Ends : Flow(e)) /\ [Next]_vars
           => (\A e \in Ends : Flow(e))'
    <2> SUFFICES ASSUME Base, Phases, \A e \in Ends : Flow(e), [Next]_vars
                 PROVE  \A e \in Ends : Flow(e)'
      OBVIOUS
    <2> QED BY FlowStep
  <1> QED BY <1>1, <1>2, BaseInvariant, PhasesHold, PTL DEF Spec

\* tunnel_loop relays each byte once and in order, however recv and send divide
\* the bytes and whoever leaves; the client hears the answer of the proxy first
\* and only once.
THEOREM BytesInOrder == Spec => []InOrder
  <1>1. Base /\ Phases /\ (\A e \in Ends : Flow(e)) => InOrder
    <2> SUFFICES ASSUME TunnelTypeOK, Phases, \A e \in Ends : Flow(e) PROVE InOrder
      BY DEF Base
    <2>1. ASSUME NEW e \in Ends PROVE IsPrefix(Arrived(e), ToRelay(e))
      <3>1. /\ Arrived(e) \in Seq(Byte) /\ Start(e) \in Nat
            /\ Run(e, Arrived(e), Start(e)) /\ Start(e) + Len(Arrived(e)) <= said[e]
        BY FlowType DEF Flow
      <3>2. Start(e) = IF e = "client" THEN skipped ELSE 0
        BY DEF Start
      <3> HIDE DEF Ends
      <3> QED BY <3>1, <3>2, RunIsSpeech
    <2>2. ASSUME NEW e \in Ends, pc \in Relaying,
                 "reset" \notin {state[e], state[Other(e)]}
          PROVE  Arrived(e) \o InHand(e) \o inbox[e] = ToRelay(e)
      <3>1. Intact(e)
        BY <2>2 DEF Intact, Relaying, Over
      <3>2. /\ OnItsWay(e) \in Seq(Byte) /\ Start(e) \in Nat /\ said[e] \in Nat
            /\ Run(e, OnItsWay(e), Start(e)) /\ Start(e) + Len(OnItsWay(e)) = said[e]
        BY <3>1, FlowType DEF Flow
      <3>3. Start(e) = IF e = "client" THEN skipped ELSE 0
        BY DEF Start
      <3>4. OnItsWay(e) = ToRelay(e)
        <4> HIDE DEF Ends
        <4>1. Start(e) + Len(OnItsWay(e)) <= said[e]
          BY <3>2
        <4> QED BY <3>2, <3>3, <4>1, RunIsSpeech
      <3> QED BY <3>4 DEF OnItsWay
    <2>3. ASSUME NEW i \in DOMAIN Heard("client")
          PROVE  i = 1 <=> Heard("client")[i][1] = "proxy"
      <3> DEFINE h == Heard("client")
      <3>1. h \in Seq(Byte) /\ i \in 1..Len(h) /\ Len(h) \in Nat
        BY <2>3, HeardType, LenProperties
      <3>2. h # <<>>
        BY <3>1, EmptySeq
      <3>3. h[1][1] = "proxy"
        BY <3>2 DEF Phases
      <3>4. Arrived("target") = SubSeq(h, 2, Len(h))
        BY <3>1, AfterAnswerType DEF Arrived
      <3>5. Run("target", Arrived("target"), 0)
        BY DEF Flow, Start
      <3> HIDE DEF h
      <3>6. /\ Len(SubSeq(h, 2, Len(h))) = Len(h) - 1
            /\ \A k \in 1..(Len(h) - 1) : SubSeq(h, 2, Len(h))[k] = h[k + 1]
        BY <3>1, <3>2, WithoutFirst
      <3>7. ASSUME i # 1 PROVE h[i][1] # "proxy"
        <4>1. i - 1 \in 1..(Len(h) - 1) /\ (i - 1) + 1 = i
          BY <3>1, <3>7
        <4>2. SubSeq(h, 2, Len(h))[i - 1] = <<"target", 0 + (i - 1)>>
          BY <3>4, <3>5, <3>6, <4>1 DEF Run
        <4>3. h[i] = <<"target", 0 + (i - 1)>>
          BY <3>6, <4>1, <4>2
        <4> QED BY <4>3
      <3> QED BY <3>3, <3>7 DEF h
    <2> QED BY <2>1, <2>2, <2>3 DEF InOrder
  <1> QED BY <1>1, BaseInvariant, PhasesHold, FlowHolds, PTL
------------------------------------------------------------------------------
(***************************************************************************)
(* The last bytes.                                                         *)
(***************************************************************************)
\* The tunnel is over only when an end is, and each socket is closed once.
Ending ==
    /\ pc \in Over => \E e \in Ends : state[e] # "open"
    /\ cut["client"] => pc = "closed"
    /\ cut["target"] => pc \in {"close client", "closed"}

\* No step ends a tunnel between two ends that stay.
LEMMA EndingStep == ASSUME Base, Phases, Ending, [Next]_vars PROVE Ending'
  <1> USE DEF Over, world, loop
  <1>t. TunnelTypeOK
    BY DEF Base
  <1>1. CASE Takes \/ Passes
    BY <1>t, <1>1, Types DEF Takes, Passes, Ending
  <1>2. CASE Stops
    BY <1>t, <1>2, Types DEF Stops, Ended, Ending
  <1>3. CASE Answers
    <2>1. PICK code \in {200, 400, 405, 502} : AnswerAndClose(code)
      BY <1>3 DEF Answers
    <2>2. Send("client", <<<<"proxy", code>>>>)
      BY <2>1 DEF AnswerAndClose
    <2>3. pc \in Early /\ pc' = "close client" /\ cut' = cut
      BY ZenonT(30), <1>3, <2>1 DEF Answers, AnswerAndClose, Early
    <2>4. state'["target"] = state["target"] /\ state["target"] = "absent"
      <3>1. state["target"] = "absent"
        BY <2>3 DEF Phases
      <3>2. state'["target"] = state["target"]
        BY <1>t, <2>2, Types DEF Send
      <3> QED BY <3>1, <3>2
    <2> QED BY <2>2, <2>3, <2>4 DEF Ending, Early
  <1>4. CASE Connect \/ Established
    BY <1>4 DEF Connect, Established, Ending
  <1>5. ASSUME NEW e \in Ends, Recv(e) PROVE Ending'
    BY <1>5 DEF Recv, Ending
  <1>6. CASE SendSome
    <2>1. pc = "send" /\ pc' \notin Over /\ cut' = cut
      BY <1>t, <1>6, Types DEF SendSome
    <2> QED BY <2>1 DEF Ending
  <1>7. CASE Closes
    BY <1>t, <1>7, Types DEF Closes, Close, Ending
  <1>8. CASE EndStep
    <2>1. ASSUME NEW x \in Ends, Say(x) \/ Read(x) PROVE Ending'
      BY <2>1 DEF Say, Read, Ending
    <2>2. ASSUME NEW x \in Ends, FinishSpeaking(x) \/ Leave(x) PROVE Ending'
      <3>1. /\ UNCHANGED <<pc, cut>> /\ state'[x] # "open"
            /\ \A f \in Ends \ {x} : state'[f] = state[f]
        BY <1>t, <2>2, Types DEF FinishSpeaking, Leave
      <3> QED BY <3>1 DEF Ending
    <2> QED BY <1>8, <2>1, <2>2 DEF EndStep
  <1>9. CASE UNCHANGED tunnel
    BY <1>9 DEF tunnel, Ending
  <1> QED BY <1>t, <1>1, <1>2, <1>3, <1>4, <1>5, <1>6, <1>7, <1>8, <1>9, Kinds

\* All of an end that finished has arrived at the one that stayed.
Final(e) ==
    /\ pc \in Over
    /\ state[e] \in {"half", "gone"}
    /\ state[Other(e)] = "open" /\ ~cut[Other(e)]
    => Start(e) + Len(Arrived(e)) = said[e]

\* A step that leaves what arrived alone, and does not let e finish only now.
LEMMA FinalKept ==
    ASSUME NEW e \in Ends, Final(e), Heard(Other(e))' = Heard(Other(e)), pc \in Over,
           skipped' = skipped,
           state'[e] \in {"half", "gone"} /\ state'[Other(e)] = "open" /\ ~cut'[Other(e)] =>
              /\ said'[e] = said[e] /\ ~cut[Other(e)]
              /\ state[e] \in {"half", "gone"} /\ state[Other(e)] = "open"
    PROVE  Final(e)'
  <1>1. Arrived(e)' = Arrived(e) /\ Start(e)' = Start(e)
    BY DEF Arrived, AfterAnswer, Start
  <1> HIDE DEF Other
  <1> QED BY <1>1 DEF Final

\* The tunnel ends with the bytes of who finished delivered, and nothing that
\* happens until it is closed takes them away but a close with bytes unread.
LEMMA FinalStep ==
    ASSUME Base, Phases, Ending, [Next]_vars, NEW e \in Ends, Flow(e), Final(e)
    PROVE  Final(e)'
  <1>t. TunnelTypeOK
    BY DEF Base
  <1>0. CASE pc' \notin Over
    BY <1>0 DEF Final
  <1>1. CASE Stops
    <2>1. UNCHANGED <<state, said, inbox, outbox, got, cut, source, pending, skipped>>
      BY <1>1 DEF Stops, world, loop
    <2>2. ASSUME state[e] \in {"half", "gone"}, state[Other(e)] = "open"
          PROVE  Start(e) + Len(Arrived(e)) = said[e]
      <3>1. pc = e /\ inbox[e] = <<>>
        BY <1>1, <2>2 DEF Stops, Ended, Phases, Early
      <3>2. pending = <<>> /\ Intact(e)
        BY <2>2, <3>1 DEF Phases, Intact, Over
      <3>3. OnItsWay(e) = Arrived(e)
        <4>1. Arrived(e) \in Seq(Byte) /\ InHand(e) = <<>>
          BY <3>2, <1>t, FlowType DEF InHand
        <4>2. Arrived(e) \o <<>> = Arrived(e)
          BY <4>1, ConcatEmptySeq
        <4> QED BY <3>1, <4>1, <4>2 DEF OnItsWay
      <3> QED BY <3>2, <3>3 DEF Flow
    <2>3. /\ Arrived(e)' = Arrived(e) /\ Start(e)' = Start(e)
      BY <2>1 DEF Arrived, AfterAnswer, Heard, Start
    <2> HIDE DEF Other
    <2> QED BY <2>1, <2>2, <2>3 DEF Final
  <1>2. CASE Answers
    <2>1. PICK code \in {200, 400, 405, 502} : AnswerAndClose(code)
      BY <1>2 DEF Answers
    <2>2. Send("client", <<<<"proxy", code>>>>) /\ pc \in Early
      BY ZenonT(30), <1>2, <2>1 DEF Answers, AnswerAndClose, Early
    <2>3. state'["target"] = state["target"] /\ state["target"] = "absent"
      BY <1>t, <2>2, Types DEF Send, Phases
    <2> QED BY <2>3 DEF Final
  <1>3. CASE Closes
    <2>1. pc \in Over /\ UNCHANGED <<state, said, got, skipped>>
      BY <1>3 DEF Closes, Close, Over
    <2>2. PICK x \in Ends, unread \in BOOLEAN :
             /\ ~cut[x] /\ cut' = [cut EXCEPT ![x] = unread]
             /\ outbox' = outbox \/ (unread /\ outbox' = [outbox EXCEPT ![x] = <<>>])
      <3>1. CASE pc = "close target" /\ \E u \in BOOLEAN : Close("target", u)
        <4>1. PICK u \in BOOLEAN : Close("target", u)
          BY <3>1
        <4>2. ~cut["target"]
          BY <3>1 DEF Ending
        <4>3. /\ cut' = [cut EXCEPT !["target"] = u]
              /\ outbox' = outbox \/ (u /\ outbox' = [outbox EXCEPT !["target"] = <<>>])
          BY <4>1 DEF Close
        <4> QED BY <4>2, <4>3, Zenon
      <3>2. CASE pc = "close client" /\ \E u \in BOOLEAN : Close("client", u)
        <4>1. PICK u \in BOOLEAN : Close("client", u)
          BY <3>2
        <4>2. ~cut["client"]
          BY <3>2 DEF Ending
        <4>3. /\ cut' = [cut EXCEPT !["client"] = u]
              /\ outbox' = outbox \/ (u /\ outbox' = [outbox EXCEPT !["client"] = <<>>])
          BY <4>1 DEF Close
        <4> QED BY <4>2, <4>3, Zenon
      <3> QED BY <1>3, <3>1, <3>2 DEF Closes
    <2>3. CASE outbox'[Other(e)] = outbox[Other(e)]
      <3>1. Heard(Other(e))' = Heard(Other(e))
        BY <2>1, <2>3 DEF Heard
      <3>2. ~cut'[Other(e)] => ~cut[Other(e)]
        BY <1>t, <2>2, Types
      <3> QED BY <2>1, <3>1, <3>2, FinalKept
    <2>4. CASE outbox'[Other(e)] # outbox[Other(e)]
      <3>1. cut'[Other(e)]
        BY <1>t, <2>2, <2>4, Types
      <3> QED BY <3>1 DEF Final
    <2> QED BY <2>3, <2>4
  <1>4. CASE EndStep /\ pc \in Over
    <2>1. ASSUME NEW x \in Ends, Say(x) PROVE Final(e)'
      <3>1. /\ UNCHANGED <<state, outbox, got, cut, skipped>> /\ state[x] = "open"
            /\ \A f \in Ends \ {x} : said'[f] = said[f]
        BY <1>t, <2>1, Types DEF Say
      <3>2. Heard(Other(e))' = Heard(Other(e))
        BY <3>1 DEF Heard
      <3> QED BY <1>4, <3>1, <3>2, FinalKept
    <2>2. ASSUME NEW x \in Ends, FinishSpeaking(x) \/ Leave(x) PROVE Final(e)'
      <3>1. /\ UNCHANGED <<said, got, cut, skipped>>
            /\ outbox'[Other(e)] = outbox[Other(e)] \/ x = Other(e)
        BY <1>t, <2>2, Types DEF FinishSpeaking, Leave
      <3>2. CASE x = Other(e)
        <4>1. state'[Other(e)] # "open"
          BY <1>t, <2>2, <3>2, Types DEF FinishSpeaking, Leave
        <4> QED BY <4>1 DEF Final
      <3>3. CASE x = e
        <4>1. Heard(Other(e))' = Heard(Other(e)) /\ state'[Other(e)] = state[Other(e)]
          BY <1>t, <2>2, <3>1, <3>3, Types DEF Heard, FinishSpeaking, Leave
        <4>2. state[e] = "open" => state[Other(e)] # "open"
          BY <1>4 DEF Ending
        <4>3. state[e] \in {"open", "half"}
          BY <2>2, <3>3 DEF FinishSpeaking, Leave, Listens
        <4> QED BY <1>4, <3>1, <4>1, <4>2, <4>3, FinalKept
      <3> QED BY <3>2, <3>3
    <2>3. ASSUME NEW x \in Ends, Read(x) PROVE Final(e)'
      <3>1. UNCHANGED <<state, said, cut, skipped>>
        BY <2>3 DEF Read
      <3>2. Other(e) \in Ends
        OBVIOUS
      <3>3. Heard(Other(e))' = Heard(Other(e))
        BY <1>t, <2>3, <3>2, HeardRead
      <3> QED BY <1>4, <3>1, <3>3, FinalKept
    <2> QED BY <1>4, <2>1, <2>2, <2>3 DEF EndStep
  <1>5. CASE UNCHANGED tunnel /\ pc \in Over
    <2>1. UNCHANGED <<state, said, outbox, got, cut, skipped>>
      BY <1>5 DEF tunnel, world
    <2>2. Heard(Other(e))' = Heard(Other(e))
      BY <2>1 DEF Heard
    <2> QED BY <1>5, <2>1, <2>2, FinalKept
  <1>6. Takes \/ Passes \/ Connect \/ Established \/ SendSome => pc' \notin Over
    BY <1>t, Types DEF Takes, Passes, Connect, Established, SendSome, Over
  <1>7. (\E x \in Ends : Recv(x)) => pc' \notin Over
    BY DEF Recv, Over
  <1>8. EndStep \/ UNCHANGED tunnel => pc' = pc
    BY DEF EndStep, Say, FinishSpeaking, Leave, Read, tunnel
  <1> QED BY <1>t, <1>0, <1>1, <1>2, <1>3, <1>4, <1>5, <1>6, <1>7, <1>8, Kinds

\* The end of one side closes the tunnel only after its last bytes were sent on,
\* so that the other side, if it stays, has them all; the one exception is a
\* tcp_close of its socket with bytes of it unread.
THEOREM LastWordsHeard == Spec => []LastWordsArrive
  <1>1. Init => Ending /\ \A e \in Ends : Final(e)
    BY DEF Init, TunnelInit, Ending, Final, Over
  <1>2. Base /\ Phases /\ Ending /\ [Next]_vars => Ending'
    BY EndingStep
  <1>3. /\ Base /\ Phases /\ Ending /\ (\A e \in Ends : Flow(e))
        /\ (\A e \in Ends : Final(e)) /\ [Next]_vars
        => (\A e \in Ends : Final(e))'
    <2> SUFFICES ASSUME Base, Phases, Ending, \A e \in Ends : Flow(e),
                        \A e \in Ends : Final(e), [Next]_vars
                 PROVE  \A e \in Ends : Final(e)'
      OBVIOUS
    <2> QED BY FinalStep
  <1>4. Base /\ (\A e \in Ends : Flow(e)) /\ (\A e \in Ends : Final(e)) => LastWordsArrive
    <2> SUFFICES ASSUME TunnelTypeOK, NEW e \in Ends, Flow(e), Final(e),
                        pc = "closed", state[e] \in {"half", "gone"},
                        state[Other(e)] = "open", ~cut[Other(e)]
                 PROVE  Arrived(e) = ToRelay(e)
      BY DEF Base, LastWordsArrive
    <2>1. /\ Arrived(e) \in Seq(Byte) /\ Start(e) \in Nat
          /\ Run(e, Arrived(e), Start(e)) /\ Start(e) + Len(Arrived(e)) = said[e]
          /\ Start(e) + Len(Arrived(e)) <= said[e]
      BY FlowType DEF Flow, Final, Over
    <2>2. Start(e) = IF e = "client" THEN skipped ELSE 0
      BY DEF Start
    <2> HIDE DEF Ends
    <2> QED BY <2>1, <2>2, RunIsSpeech
  <1> QED BY <1>1, <1>2, <1>3, <1>4, BaseInvariant, PhasesHold, FlowHolds,
             PTL DEF Spec
==============================================================================
