---------------------------- MODULE BackendProofs ----------------------------
(***************************************************************************)
(* Theorems about Backend, for any number of backends, clients, files and  *)
(* requests, with failures.                                                *)
(***************************************************************************)
EXTENDS Backend, SequenceTheorems, TLAPS

\* Where the loop of a backend has the document open.
Open(b) == pc[b] \in {"size", "read", "write"}

\* What a backend knows at each place: its connection and its file.
Placed(b) ==
    /\ IF pc[b] = "accept" THEN conn[b] = None ELSE conn[b] \in Clients
    /\ IF Open(b) THEN handle[b] \in Inodes ELSE handle[b] = 0

\* What every other invariant rests on.
Base == TypeOK /\ \A b \in Backends : Placed(b)

USE DEF Inodes

\* The beginning of a sequence.
LEMMA Cut ==
    ASSUME NEW S, NEW s \in Seq(S), NEW n \in 0..Len(s)
    PROVE  /\ SubSeq(s, 1, n) \in Seq(S)
           /\ Len(SubSeq(s, 1, n)) = n
           /\ n = Len(s) => SubSeq(s, 1, n) = s
  <1>1. Len(s) \in Nat /\ \A i \in 1..Len(s) : s[i] \in S
    BY LenProperties, ElementOfSeq
  <1>2. n \in Int /\ 1 \in Int /\ \A i \in 1..n : s[i] \in S
    BY <1>1
  <1>3. /\ SubSeq(s, 1, n) \in Seq(S)
        /\ Len(SubSeq(s, 1, n)) = IF 1 <= n THEN n - 1 + 1 ELSE 0
    BY <1>2, SubSeqProperties
  <1>4. Len(SubSeq(s, 1, n)) = n
    BY <1>1, <1>3
  <1>5. SubSeq(s, 1, Len(s)) = s
    BY SubSeqFull
  <1>6. n = Len(s) => SubSeq(s, 1, n) = s
    BY <1>5
  <1> QED BY <1>3, <1>4, <1>6

\* A body written over what a file holds is a file.
LEMMA OverType ==
    ASSUME TypeOK, NEW b \in Backends, conn[b] \in Clients,
           NEW old \in Seq(Cell), NEW n \in 0..Req(b).length
    PROVE  /\ Over(b, old, n) \in Seq(Cell)
           /\ old = <<>> /\ n = Req(b).length => IsWhole(Over(b, old, n))
  <1>1. Req(b).length \in 1..MaxCells /\ MaxCells \in Nat
    BY BackendAssumption DEF TypeOK, Req, Request
  <1>2. Len(old) \in Nat /\ \A i \in 1..Len(old) : old[i] \in Cell
    BY LenProperties, ElementOfSeq
  <1> DEFINE m == IF Len(old) < n THEN n ELSE Len(old)
             new(i) == IF i <= n THEN [by |-> conn[b], of |-> Req(b).length, part |-> i]
                       ELSE old[i]
  <1>3. m \in Nat
    BY <1>1, <1>2
  <1>4. ASSUME NEW i \in 1..m PROVE new(i) \in Cell
    <2>1. CASE i <= n
      <3>1. i \in 1..MaxCells
        BY <1>1, <1>3, <2>1
      <3> QED BY <1>1, <2>1, <3>1 DEF Cell
    <2>2. CASE ~(i <= n)
      <3>1. i \in 1..Len(old)
        BY <1>1, <1>2, <1>3, <2>2
      <3> QED BY <1>2, <2>2, <3>1
    <2> QED BY <2>1, <2>2
  <1>5. Over(b, old, n) = [i \in 1..m |-> new(i)]
    BY DEF Over
  <1>6. [i \in 1..m |-> new(i)] \in [1..m -> Cell]
    BY <1>4
  <1>7. [i \in 1..m |-> new(i)] \in Seq(Cell)
    BY <1>3, <1>6, SeqDef
  <1>8. ASSUME old = <<>>, n = Req(b).length PROVE IsWhole(Over(b, old, n))
    <2>1. m = n /\ n \in Nat /\ n >= 1
      BY <1>1, <1>8
    <2>2. Over(b, old, n) = [i \in 1..n |-> [by |-> conn[b], of |-> n, part |-> i]]
      BY <1>5, <1>8, <2>1
    <2> DEFINE body == [i \in 1..n |-> [by |-> conn[b], of |-> n, part |-> i]]
    <2>3. body \in Seq(Cell) /\ DOMAIN body = 1..n
      BY <1>5, <1>7, <2>2
    <2>4. Len(body) = n
      BY <2>1, <2>3, LenProperties
    <2>5. 1 \in 1..n
      BY <2>1
    <2>6. body # <<>>
      BY <2>3, <2>5
    <2>7. \A i \in 1..n : body[i].by = body[1].by /\ body[i].of = n /\ body[i].part = i
      BY <2>5
    <2> QED BY <2>2, <2>3, <2>4, <2>6, <2>7 DEF IsWhole
  <1> QED BY <1>5, <1>7, <1>8

\* The initial state.
LEMMA BaseInit == Init => Base
  <1> SUFFICES ASSUME Init PROVE Base
    OBVIOUS
  <1>1. NoRequest \in Request
    BY BackendAssumption DEF NoRequest, Request, Methods, Reads, Writes, Harmless
  <1>2. \A S : <<>> \in Seq(S)
    BY EmptySeq
  <1>3. TypeOK
    BY <1>1, <1>2, BackendAssumption DEF Init, TypeOK, NoReply, Places, Resources
  <1>4. \A b \in Backends : Placed(b)
    BY DEF Init, Placed, Open
  <1> QED BY <1>3, <1>4 DEF Base

\* A response has the form send_response reads.
ReplyTyped ==
    /\ reply' \in [Backends -> [status : Nat, content : Seq(Cell), length : Nat]]
    /\ pc' \in [Backends -> Places]

\* A response, to be sent from place.
LEMMA ReplyType ==
    ASSUME TypeOK, NEW b \in Backends, NEW place \in Places, NEW status \in Nat,
           NEW content \in Seq(Cell), NEW length \in Nat,
           Reply(b, status, content, length, place)
    PROVE  ReplyTyped
  BY DEF Reply, Goto, TypeOK, ReplyTyped

\* The answer of a method that returns no document.
LEMMA StatusType ==
    ASSUME TypeOK, NEW b \in Backends,
           NEW status \in {200, 201, 400, 404, 500, 505}, ReplyStatus(b, status)
    PROVE  ReplyTyped
  <1>1. <<>> \in Seq(Cell)
    BY EmptySeq
  <1>a. 0 \in Nat /\ status \in Nat
    OBVIOUS
  <1>b. "send" \in Places
    BY DEF Places
  <1>2. Reply(b, status, <<>>, 0, "send")
    BY DEF ReplyStatus
  <1> QED BY ZenonT(30), <1>1, <1>a, <1>b, <1>2, ReplyType

\* The end of an iteration of the loop keeps the types.
LEMMA FinishType ==
    ASSUME TypeOK, NEW b \in Backends, conn[b] \in Clients, NEW r, Finish(b, r)
    PROVE  TypeOK'
  <1>1. NoRequest \in Request
    BY BackendAssumption DEF NoRequest, Request, Methods, Reads, Writes, Harmless
  <1>2. NoReply \in [status : Nat, content : Seq(Cell), length : Nat]
    BY EmptySeq DEF NoReply
  <1>3. held' \in [Backends -> SUBSET Resources]
    BY DEF Finish, TypeOK
  <1> QED BY <1>1, <1>2, <1>3 DEF Finish, TypeOK, files, Goto, Places

\* Every step keeps the types: the proxies, and the loop of a backend.
LEMMA LoopType ==
    ASSUME Base, NEW b \in Backends, Loop(b)
    PROVE  TypeOK'
  <1> USE DEF files, local, peers, Goto
  <1>a. TypeOK /\ Placed(b)
    BY DEF Base
  <1>c. <<>> \in Seq(Cell) /\ 0 \in Nat
    BY EmptySeq
  <1>1. CASE Accept(b)
    <2>1. backlog[b] \in Seq(Clients) /\ backlog[b] # <<>>
      BY <1>1, <1>a DEF Accept, TypeOK
    <2>2. Head(backlog[b]) \in Clients /\ Tail(backlog[b]) \in Seq(Clients)
      BY <2>1, HeadTailProperties
    <2>3. /\ conn' \in [Backends -> Clients \union {None}]
          /\ backlog' \in [Backends -> Seq(Clients)]
      BY <1>1, <1>a, <2>2 DEF Accept, TypeOK
    <2>4. /\ pc' \in [Backends -> Places]
          /\ held' \in [Backends -> SUBSET Resources]
      BY <1>1, <1>a DEF Accept, TypeOK, Places, Resources
    <2>5. UNCHANGED <<connects, client, request, files, handle, local, reply>>
      BY <1>1 DEF Accept
    <2> QED BY <1>a, <2>3, <2>4, <2>5 DEF TypeOK
  <1>2. CASE RecvNothing(b)
    BY <1>2, <1>a, FinishType DEF RecvNothing, Placed
  <1>3. CASE BadRequest(b)
    <2>1. Reply(b, 400, <<>>, 0, "refuse") /\ "refuse" \in Places
      BY <1>3 DEF BadRequest, Places
    <2>2. 400 \in Nat
      OBVIOUS
    <2>3. ReplyTyped
      BY <1>a, <1>c, <2>1, <2>2, ReplyType
    <2>4. UNCHANGED <<peers, files, conn, handle, local, held>>
      BY <1>3 DEF BadRequest
    <2> QED BY <1>a, <2>3, <2>4 DEF TypeOK, ReplyTyped
  <1>4. CASE Unsupported(b)
    <2>1. PICK s \in {400, 405} : Reply(b, s, <<>>, 0, "reject")
      BY <1>4 DEF Unsupported
    <2>a. s \in Nat
      OBVIOUS
    <2>2. "reject" \in Places
      BY DEF Places
    <2>3. held' \in [Backends -> SUBSET Resources]
      BY <1>4, <1>a DEF Unsupported, TypeOK, Resources
    <2>4. ReplyTyped
      BY <1>a, <1>c, <2>1, <2>a, <2>2, ReplyType
    <2>5. UNCHANGED <<peers, files, conn, handle, local>>
      BY <1>4 DEF Unsupported
    <2> QED BY <1>a, <2>3, <2>4, <2>5 DEF TypeOK, ReplyTyped
  <1>5. CASE Parsed(b)
    <2>1. held' \in [Backends -> SUBSET Resources]
      BY <1>5, <1>a DEF Parsed, TypeOK, Resources
    <2> QED BY <1>5, <1>a, <2>1 DEF Parsed, TypeOK, Places
  <1>6. CASE Refusal(b)
    BY <1>6, <1>a, FinishType DEF Refusal, Placed
  <1>7. CASE Rejection(b)
    BY <1>7, <1>a, FinishType DEF Rejection, Placed
  <1>8. CASE Send(b)
    BY <1>8, <1>a, FinishType DEF Send, Placed
  <1> QED BY <1>1, <1>2, <1>3, <1>4, <1>5, <1>6, <1>7, <1>8 DEF Loop

\* Every step keeps the types: the methods.
LEMMA ExecuteType ==
    ASSUME Base, NEW b \in Backends, Execute(b)
    PROVE  TypeOK'
  <1> USE DEF files, local, peers
  <1>a. TypeOK /\ Placed(b)
    BY DEF Base
  <1>b. pc[b] # "accept" => conn[b] \in Clients
    BY <1>a DEF Placed
  <1>c. <<>> \in Seq(Cell)
    BY EmptySeq
  <1>1. CASE Echo(b)
    <2>1. ReplyTyped
      BY <1>1, <1>a, StatusType DEF Echo
    <2> QED BY <1>1, <1>a, <2>1 DEF Echo, TypeOK, ReplyTyped
  <1>2. CASE Refuse(b)
    <2>1. ReplyTyped
      BY <1>2, <1>a, StatusType DEF Refuse
    <2> QED BY <1>2, <1>a, <2>1 DEF Refuse, TypeOK, ReplyTyped
  <1>3. CASE OpenRead(b)
    BY <1>3, <1>a DEF OpenRead, TypeOK, Places, Goto
  <1>4. CASE OpenReadError(b)
    <2>1. ReplyTyped
      BY <1>4, <1>a, StatusType DEF OpenReadError
    <2> QED BY <1>4, <1>a, <2>1 DEF OpenReadError, TypeOK, ReplyTyped
  <1>5. CASE Measure(b)
    <2>1. handle[b] \in Inodes
      BY <1>5, <1>a DEF Measure, Placed, Open
    <2>2. Len(cells[handle[b]]) \in Nat
      BY <1>a, <2>1, LenProperties DEF TypeOK
    <2>3. size' \in [Backends -> Nat]
      BY <1>5, <1>a, <2>2 DEF Measure, TypeOK
    <2> QED BY <1>5, <1>a, <2>3 DEF Measure, TypeOK, Places, Goto
  <1>6. CASE Read(b)
    <2> DEFINE text == cells[handle[b]]
               n == IF Len(text) < size[b] THEN Len(text) ELSE size[b]
    <2>1. handle[b] \in Inodes
      BY <1>6, <1>a DEF Read, Placed, Open
    <2>2. text \in Seq(Cell) /\ size[b] \in Nat
      BY <1>a, <2>1 DEF TypeOK
    <2>3. Len(text) \in Nat
      BY <2>2, LenProperties
    <2>4. n \in 0..Len(text) /\ n \in Nat
      BY <2>2, <2>3
    <2>5. SubSeq(text, 1, n) \in Seq(Cell) /\ Content(b, SubSeq(text, 1, n)) \in Seq(Cell)
      BY <1>c, <2>2, <2>4, Cut DEF Content
    <2>6. /\ Reply(b, 200, Content(b, SubSeq(text, 1, n)), n, "send")
          /\ "send" \in Places /\ 200 \in Nat
      BY <1>6 DEF Read, Places
    <2>7. ReplyTyped
      BY <1>a, <2>4, <2>5, <2>6, ReplyType
    <2>8. /\ handle' = [handle EXCEPT ![b] = 0]
          /\ UNCHANGED <<peers, files, conn, local, held>>
      BY <1>6 DEF Read
    <2> QED BY <1>a, <2>7, <2>8 DEF TypeOK, ReplyTyped
  <1>7. CASE Access(b)
    BY <1>7, <1>a DEF Access, TypeOK, Places, Goto
  <1>8. CASE OpenWrite(b)
    <2>1. PICK n \in Inodes :
             /\ name' = n
             /\ handle' = [handle EXCEPT ![b] = n]
             /\ cells' = [cells EXCEPT ![n] = <<>>]
             /\ spoiled' = [spoiled EXCEPT ![n] = Writers(n) # {}]
             /\ raced' = [u \in Backends |-> raced[u] \/ u \in Readers(n)]
      BY <1>8 DEF OpenWrite
    <2>2. cells' \in [Inodes -> Seq(Cell)]
      BY <1>a, <2>1, EmptySeq DEF TypeOK
    <2>3. spoiled' \in [Inodes -> BOOLEAN] /\ raced' \in [Backends -> BOOLEAN]
      BY <1>a, <2>1 DEF TypeOK
    <2> QED BY <1>8, <1>a, <2>1, <2>2, <2>3 DEF OpenWrite, TypeOK, Places, Goto
  <1>9. CASE OpenWriteError(b)
    <2>1. ReplyTyped
      BY <1>9, <1>a, StatusType DEF OpenWriteError
    <2> QED BY <1>9, <1>a, <2>1 DEF OpenWriteError, TypeOK, ReplyTyped
  <1>10. CASE Write(b)
    <2>1. handle[b] \in Inodes /\ conn[b] \in Clients
      BY <1>10, <1>a DEF Write, Placed, Open
    <2>2. Req(b).length \in 1..MaxCells /\ MaxCells \in Nat
      BY <1>a, <2>1, BackendAssumption DEF TypeOK, Req, Request
    <2>3. PICK written \in IF IOFaults THEN 0..Req(b).length ELSE {Req(b).length} :
             /\ cells' = [cells EXCEPT ![handle[b]] = Over(b, cells[handle[b]], written)]
             /\ spoiled' = [spoiled EXCEPT ![handle[b]] =
                               spoiled[handle[b]] \/ written < Req(b).length]
      BY <1>10 DEF Write
    <2>4. written \in 0..Req(b).length
      BY <2>2, <2>3
    <2>5. cells[handle[b]] \in Seq(Cell)
      BY <1>a, <2>1 DEF TypeOK
    <2>6. Over(b, cells[handle[b]], written) \in Seq(Cell)
      BY <1>a, <2>1, <2>4, <2>5, OverType
    <2>7. cells' \in [Inodes -> Seq(Cell)]
      BY <1>a, <2>3, <2>6 DEF TypeOK
    <2>8. spoiled' \in [Inodes -> BOOLEAN]
      BY <1>a, <2>3 DEF TypeOK
    <2>9. ReplyTyped
      BY <1>10, <1>a, StatusType DEF Write
    <2>10. /\ handle' = [handle EXCEPT ![b] = 0]
           /\ UNCHANGED <<peers, name, conn, local, held>>
      BY <1>10 DEF Write
    <2> QED BY <1>a, <2>7, <2>8, <2>9, <2>10 DEF TypeOK, ReplyTyped
  <1>11. CASE Find(b)
    BY <1>11, <1>a DEF Find, TypeOK, Places, Goto
  <1>12. CASE FindNothing(b)
    <2>1. ReplyTyped
      BY <1>12, <1>a, StatusType DEF FindNothing
    <2> QED BY <1>12, <1>a, <2>1 DEF FindNothing, TypeOK, ReplyTyped
  <1>13. CASE Remove(b)
    <2>1. ReplyTyped
      BY <1>13, <1>a, StatusType DEF Remove
    <2> QED BY <1>13, <1>a, <2>1 DEF Remove, TypeOK, ReplyTyped
  <1>14. CASE RemoveError(b)
    <2>1. ReplyTyped
      BY <1>14, <1>a, StatusType DEF RemoveError
    <2> QED BY <1>14, <1>a, <2>1 DEF RemoveError, TypeOK, ReplyTyped
  <1> QED BY <1>1, <1>2, <1>3, <1>4, <1>5, <1>6, <1>7, <1>8, <1>9, <1>10, <1>11,
             <1>12, <1>13, <1>14 DEF Execute

\* Every step keeps the types.
LEMMA TypeStep == ASSUME Base, Next PROVE TypeOK'
  <1>a. TypeOK
    BY DEF Base
  <1>1. ASSUME NEW c \in Clients, NEW b \in Backends, NEW r \in Requests, Connect(c, b, r)
        PROVE  TypeOK'
    <2>1. r \in Request
      BY BackendAssumption
    <2>2. Append(backlog[b], c) \in Seq(Clients)
      BY <1>a, AppendProperties DEF TypeOK
    <2>3. backlog' \in [Backends -> Seq(Clients)]
      BY <1>1, <1>a, <2>2 DEF Connect, TypeOK
    <2>4. request' \in [Clients -> Request]
      BY <1>1, <1>a, <2>1 DEF Connect, TypeOK
    <2>5. /\ connects' \in Nat
          /\ client' \in [Clients -> {"idle", "connected", "sent", "closed"}]
      BY <1>1, <1>a DEF Connect, TypeOK
    <2>6. UNCHANGED <<files, pc, conn, handle, local, reply, held>>
      BY <1>1 DEF Connect
    <2> QED BY <1>a, <2>3, <2>4, <2>5, <2>6 DEF TypeOK, files, local
  <1>2. ASSUME NEW c \in Clients, Transmit(c) PROVE TypeOK'
    BY <1>2, <1>a DEF Transmit, TypeOK, files, local
  <1> QED BY <1>1, <1>2, LoopType, ExecuteType DEF Next

\* What a backend has and knows, the history apart.
Own(b) == <<pc[b], conn[b], handle[b], size[b], reply[b], held[b]>>

\* A backend changes nothing of another one.
LEMMA Elsewhere ==
    ASSUME Base, NEW a \in Backends, NEW b \in Backends, a # b,
           Loop(a) \/ Execute(a)
    PROVE  Own(b)' = Own(b)
  <1> USE DEF Own, Goto, Reply, ReplyStatus, local, Base, TypeOK, Process, MayWrite, MayOpen
  <1>1. CASE Accept(a)
    BY <1>1 DEF Accept
  <1>2. CASE RecvNothing(a)
    BY <1>2 DEF RecvNothing, Finish
  <1>3. CASE BadRequest(a)
    BY <1>3 DEF BadRequest
  <1>4. CASE Unsupported(a)
    BY <1>4 DEF Unsupported
  <1>5. CASE Parsed(a)
    BY <1>5 DEF Parsed
  <1>6. CASE Refusal(a)
    BY <1>6 DEF Refusal, Finish
  <1>7. CASE Rejection(a)
    BY <1>7 DEF Rejection, Finish
  <1>8. CASE Send(a)
    BY <1>8 DEF Send, Finish
  <1>9. CASE Echo(a)
    BY <1>9 DEF Echo
  <1>10. CASE Refuse(a)
    BY <1>10 DEF Refuse
  <1>11. CASE OpenRead(a)
    BY <1>11 DEF OpenRead
  <1>12. CASE OpenReadError(a)
    BY <1>12 DEF OpenReadError
  <1>13. CASE Measure(a)
    BY <1>13 DEF Measure
  <1>14. CASE Read(a)
    BY <1>14 DEF Read
  <1>15. CASE Access(a)
    BY <1>15 DEF Access
  <1>16. CASE OpenWrite(a)
    BY <1>16 DEF OpenWrite
  <1>17. CASE OpenWriteError(a)
    BY <1>17 DEF OpenWriteError
  <1>18. CASE Write(a)
    BY <1>18 DEF Write
  <1>19. CASE Find(a)
    BY <1>19 DEF Find
  <1>20. CASE FindNothing(a)
    BY <1>20 DEF FindNothing
  <1>21. CASE Remove(a)
    BY <1>21 DEF Remove
  <1>22. CASE RemoveError(a)
    BY <1>22 DEF RemoveError
  <1> QED BY <1>1, <1>2, <1>3, <1>4, <1>5, <1>6, <1>7, <1>8, <1>9, <1>10, <1>11,
             <1>12, <1>13, <1>14, <1>15, <1>16, <1>17, <1>18, <1>19, <1>20,
             <1>21, <1>22
      DEF Loop, Execute

\* The acting backend knows what it must at its next place.
LEMMA PlacedHere ==
    ASSUME Base, NEW b \in Backends, Loop(b) \/ Execute(b)
    PROVE  Placed(b)'
  <1> USE DEF Placed, Open, Goto, Reply, ReplyStatus, Base, TypeOK, Process, MayWrite, MayOpen
  <1>1. CASE Accept(b)
    <2>1. backlog[b] \in Seq(Clients) /\ backlog[b] # <<>>
      BY <1>1 DEF Accept
    <2>2. Head(backlog[b]) \in Clients
      BY <2>1, HeadTailProperties
    <2> QED BY <1>1, <2>2 DEF Accept
  <1>2. CASE RecvNothing(b)
    BY <1>2 DEF RecvNothing, Finish
  <1>3. CASE BadRequest(b)
    BY <1>3 DEF BadRequest, Received
  <1>4. CASE Unsupported(b)
    BY <1>4 DEF Unsupported, Received
  <1>5. CASE Parsed(b)
    BY <1>5 DEF Parsed, Received
  <1>6. CASE Refusal(b)
    BY <1>6 DEF Refusal, Finish
  <1>7. CASE Rejection(b)
    BY <1>7 DEF Rejection, Finish
  <1>8. CASE Send(b)
    BY <1>8 DEF Send, Finish
  <1>9. CASE Echo(b)
    <2>1. PICK status : ReplyStatus(b, status)
      BY <1>9 DEF Echo
    <2>2. UNCHANGED <<conn, handle>> /\ pc[b] = "process"
      BY <1>9 DEF Echo, peers
    <2> QED BY <2>1, <2>2
  <1>10. CASE Refuse(b)
    BY <1>10 DEF Refuse
  <1>11. CASE OpenRead(b)
    BY <1>11 DEF OpenRead, files
  <1>12. CASE OpenReadError(b)
    BY <1>12 DEF OpenReadError
  <1>13. CASE Measure(b)
    BY <1>13 DEF Measure
  <1>14. CASE Read(b)
    BY <1>14 DEF Read
  <1>15. CASE Access(b)
    BY <1>15 DEF Access
  <1>16. CASE OpenWrite(b)
    BY <1>16 DEF OpenWrite
  <1>17. CASE OpenWriteError(b)
    BY <1>17 DEF OpenWriteError
  <1>18. CASE Write(b)
    BY <1>18 DEF Write
  <1>19. CASE Find(b)
    BY <1>19 DEF Find
  <1>20. CASE FindNothing(b)
    BY <1>20 DEF FindNothing
  <1>21. CASE Remove(b)
    BY <1>21 DEF Remove
  <1>22. CASE RemoveError(b)
    BY <1>22 DEF RemoveError
  <1> QED BY <1>1, <1>2, <1>3, <1>4, <1>5, <1>6, <1>7, <1>8, <1>9, <1>10, <1>11,
             <1>12, <1>13, <1>14, <1>15, <1>16, <1>17, <1>18, <1>19, <1>20,
             <1>21, <1>22
      DEF Loop, Execute

\* No step makes a backend wrong about its connection or its file.
LEMMA PlacedStep == ASSUME Base, Next PROVE \A b \in Backends : Placed(b)'
  <1>1. ASSUME NEW a \in Backends, Loop(a) \/ Execute(a), NEW b \in Backends
        PROVE  Placed(b)'
    <2>1. CASE a = b
      BY <1>1, <2>1, PlacedHere
    <2>2. CASE a # b
      BY <1>1, <2>2, Elsewhere DEF Own, Placed, Open, Base
    <2> QED BY <2>1, <2>2
  <1>2. ASSUME NEW c \in Clients, NEW b \in Backends, NEW r \in Requests, Connect(c, b, r)
        PROVE  \A d \in Backends : Placed(d)'
    BY <1>2 DEF Connect, Base, Placed, Open
  <1>3. ASSUME NEW c \in Clients, Transmit(c)
        PROVE  \A d \in Backends : Placed(d)'
    BY <1>3 DEF Transmit, Base, Placed, Open
  <1> QED BY <1>1, <1>2, <1>3 DEF Next

\* A backend has a connection from accept to close, and the document open
\* between its open and its close in methods.c, on every path.
THEOREM BaseInvariant == Spec => []Base
  <1>1. Base /\ UNCHANGED vars => Base'
    BY DEF Base, TypeOK, Placed, Open, vars
  <1>2. Base /\ [Next]_vars => Base'
    BY <1>1, TypeStep, PlacedStep DEF Base
  <1> QED BY <1>2, BaseInit, PTL DEF Spec

\* The state of the backends is well formed.
THEOREM TypeCorrect == Spec => []TypeOK
  <1>1. Base => TypeOK
    BY DEF Base
  <1> QED BY <1>1, BaseInvariant, PTL
------------------------------------------------------------------------------
(***************************************************************************)
(* The resources of a connection.                                          *)
(***************************************************************************)
\* What a backend holds at each place.
Holds(b) ==
    held[b] = CASE pc[b] = "accept" -> {}
                [] pc[b] \in {"recv", "refuse"} -> {"socket"}
                [] pc[b] = "reject" -> {"request", "socket"}
                [] OTHER -> {"response", "request", "socket"}

\* The acting backend holds what it must at its next place.
LEMMA HoldsHere ==
    ASSUME Base, NEW b \in Backends, Holds(b), Loop(b) \/ Execute(b)
    PROVE  Holds(b)'
  <1> USE DEF Holds, Goto, Reply, ReplyStatus, Base, TypeOK, Process, MayWrite, MayOpen
  <1>1. CASE Accept(b)
    BY <1>1 DEF Accept
  <1>2. CASE RecvNothing(b)
    BY <1>2 DEF RecvNothing, Finish
  <1>3. CASE BadRequest(b)
    BY <1>3 DEF BadRequest, Received
  <1>4. CASE Unsupported(b)
    BY <1>4 DEF Unsupported, Received
  <1>5. CASE Parsed(b)
    BY <1>5 DEF Parsed, Received
  <1>6. CASE Refusal(b)
    BY <1>6 DEF Refusal, Finish
  <1>7. CASE Rejection(b)
    BY <1>7 DEF Rejection, Finish
  <1>8. CASE Send(b)
    BY <1>8 DEF Send, Finish
  <1>9. CASE Echo(b)
    BY <1>9 DEF Echo
  <1>10. CASE Refuse(b)
    BY <1>10 DEF Refuse
  <1>11. CASE OpenRead(b)
    BY <1>11 DEF OpenRead
  <1>12. CASE OpenReadError(b)
    BY <1>12 DEF OpenReadError
  <1>13. CASE Measure(b)
    BY <1>13 DEF Measure
  <1>14. CASE Read(b)
    BY <1>14 DEF Read
  <1>15. CASE Access(b)
    BY <1>15 DEF Access
  <1>16. CASE OpenWrite(b)
    BY <1>16 DEF OpenWrite
  <1>17. CASE OpenWriteError(b)
    BY <1>17 DEF OpenWriteError
  <1>18. CASE Write(b)
    BY <1>18 DEF Write
  <1>19. CASE Find(b)
    BY <1>19 DEF Find
  <1>20. CASE FindNothing(b)
    BY <1>20 DEF FindNothing
  <1>21. CASE Remove(b)
    BY <1>21 DEF Remove
  <1>22. CASE RemoveError(b)
    BY <1>22 DEF RemoveError
  <1> QED BY <1>1, <1>2, <1>3, <1>4, <1>5, <1>6, <1>7, <1>8, <1>9, <1>10, <1>11,
             <1>12, <1>13, <1>14, <1>15, <1>16, <1>17, <1>18, <1>19, <1>20,
             <1>21, <1>22
      DEF Loop, Execute

\* No step leaves a backend with less or more.
LEMMA HoldsStep ==
    ASSUME Base, Next, \A b \in Backends : Holds(b)
    PROVE  \A b \in Backends : Holds(b)'
  <1>1. ASSUME NEW a \in Backends, Loop(a) \/ Execute(a), NEW b \in Backends
        PROVE  Holds(b)'
    <2>1. CASE a = b
      BY <1>1, <2>1, HoldsHere
    <2>2. CASE a # b
      <3>1. pc'[b] = pc[b] /\ held'[b] = held[b]
        BY <1>1, <2>2, Elsewhere DEF Own
      <3> QED BY <3>1 DEF Holds
    <2> QED BY <2>1, <2>2
  <1>2. CASE UNCHANGED <<pc, held>>
    BY <1>2 DEF Holds
  <1> QED BY <1>1, <1>2 DEF Next, Connect, Transmit

\* Whichever way an iteration of backend_main ends, failures included, it has
\* closed the socket and freed the request and the response.
THEOREM NothingIsHeld == Spec => []NothingHeld
  <1> DEFINE Inv == \A b \in Backends : Holds(b)
  <1>1. ASSUME Init, NEW b \in Backends PROVE Holds(b)
    <2>1. pc[b] = "accept" /\ held[b] = {}
      BY <1>1 DEF Init
    <2> QED BY <2>1 DEF Holds
  <1>2. Base /\ Inv /\ [Next]_vars => Inv'
    <2>1. ASSUME Base, Inv, Next PROVE Inv'
      BY <2>1, HoldsStep
    <2>2. ASSUME Inv, UNCHANGED vars PROVE Inv'
      BY <2>2 DEF Holds, vars
    <2> QED BY <2>1, <2>2
  <1>3. Inv => NothingHeld
    BY DEF Holds, NothingHeld
  <1>4. Init => Inv
    BY <1>1
  <1> QED BY <1>2, <1>3, <1>4, BaseInvariant, PTL DEF Spec
------------------------------------------------------------------------------
(***************************************************************************)
(* The document.                                                           *)
(***************************************************************************)
\* A file the name leads to or a backend has open.
Used(n) == n = name \/ \E b \in Backends : handle[b] = n

\* As long as inode n is not spoiled it has one writer at most, is empty while
\* it has, and is all of one body when it has not.
Sound(n) ==
    ~spoiled[n] =>
        /\ \A a, b \in Writers(n) : a = b
        /\ IF Writers(n) = {} THEN IsWhole(cells[n]) ELSE cells[n] = <<>>

\* Only the files in use have a content that matters.
Files == \A n \in Inodes : Used(n) => Sound(n)

\* A step of b that changes no file and opens or closes none.
Quiet(b) ==
    /\ UNCHANGED <<name, cells, spoiled, handle>>
    /\ \A n \in Inodes : Writers(n)' = Writers(n)
    /\ \A d \in Backends \ {b} : raced'[d] = raced[d] /\ damaged'[d] = damaged[d]

\* Only five steps open, close or change a file.
LEMMA FileEffect ==
    ASSUME Base, NEW b \in Backends, Loop(b) \/ Execute(b)
    PROVE  \/ Quiet(b)
           \/ OpenRead(b) \/ Read(b) \/ OpenWrite(b) \/ Write(b) \/ Remove(b)
  <1> USE DEF Quiet, Writers, Goto, Reply, ReplyStatus, Base, TypeOK, Process, MayWrite,
          MayOpen, files, local
  <1>1. CASE Accept(b)
    BY <1>1 DEF Accept
  <1>2. CASE RecvNothing(b)
    BY <1>2 DEF RecvNothing, Finish
  <1>3. CASE BadRequest(b)
    BY <1>3 DEF BadRequest, Received
  <1>4. CASE Unsupported(b)
    BY <1>4 DEF Unsupported, Received
  <1>5. CASE Parsed(b)
    BY <1>5 DEF Parsed, Received
  <1>6. CASE Refusal(b)
    BY <1>6 DEF Refusal, Finish
  <1>7. CASE Rejection(b)
    BY <1>7 DEF Rejection, Finish
  <1>8. CASE Send(b)
    BY <1>8 DEF Send, Finish
  <1>9. CASE Echo(b)
    BY <1>9 DEF Echo
  <1>10. CASE Refuse(b)
    BY <1>10 DEF Refuse
  <1>11. CASE OpenReadError(b)
    BY <1>11 DEF OpenReadError
  <1>12. CASE Measure(b)
    BY <1>12 DEF Measure
  <1>13. CASE Access(b)
    BY <1>13 DEF Access
  <1>14. CASE OpenWriteError(b)
    BY <1>14 DEF OpenWriteError
  <1>15. CASE Find(b)
    BY <1>15 DEF Find
  <1>16. CASE FindNothing(b)
    BY <1>16 DEF FindNothing
  <1>17. CASE RemoveError(b)
    BY <1>17 DEF RemoveError
  <1> QED BY <1>1, <1>2, <1>3, <1>4, <1>5, <1>6, <1>7, <1>8, <1>9, <1>10, <1>11,
             <1>12, <1>13, <1>14, <1>15, <1>16, <1>17
      DEF Loop, Execute

\* fopen for writing empties the document: it is sound when nobody else was
\* writing it, and spoiled otherwise.
LEMMA OpenWriteFiles ==
    ASSUME Base, Files, NEW b \in Backends, OpenWrite(b)
    PROVE  Files'
  <1>a. TypeOK /\ Placed(b)
    BY DEF Base
  <1>1. pc[b] \in {"open", "process"} /\ pc' = [pc EXCEPT ![b] = "write"]
    BY DEF OpenWrite, MayOpen, MayWrite, Process, Goto
  <1>2. handle[b] = 0
    BY <1>a, <1>1 DEF Placed, Open
  <1>3. PICK n \in Inodes :
           /\ name # 0 => n = name
           /\ name = 0 => Free(n)
           /\ name' = n
           /\ handle' = [handle EXCEPT ![b] = n]
           /\ cells' = [cells EXCEPT ![n] = <<>>]
           /\ spoiled' = [spoiled EXCEPT ![n] = Writers(n) # {}]
    BY DEF OpenWrite
  <1>4. ASSUME NEW m \in Inodes, m # n
        PROVE  Writers(m)' = Writers(m) /\ (Used(m)' => Used(m))
    <2>1. Writers(m)' = Writers(m)
      BY <1>a, <1>1, <1>2, <1>3, <1>4 DEF Writers, TypeOK
    <2>2. Used(m)' => Used(m)
      BY <1>a, <1>3, <1>4 DEF Used, TypeOK
    <2> QED BY <2>1, <2>2
  <1>5. Writers(n)' = Writers(n) \union {b}
    BY <1>a, <1>1, <1>3 DEF Writers, TypeOK
  <1>6. Sound(n)'
    BY <1>a, <1>3, <1>5 DEF Sound, TypeOK
  <1>7. ASSUME NEW m \in Inodes, m # n, Used(m)' PROVE Sound(m)'
    <2>1. Sound(m)
      BY <1>4, <1>7 DEF Files
    <2>2. cells'[m] = cells[m] /\ spoiled'[m] = spoiled[m]
      BY <1>a, <1>3, <1>7 DEF TypeOK
    <2>3. Writers(m)' = Writers(m)
      BY <1>4, <1>7
    <2> QED BY <2>1, <2>2, <2>3 DEF Sound
  <1> QED BY <1>6, <1>7 DEF Files

\* The fwrite of a whole body by the only writer, at the start of an empty
\* document, makes it all of that body.
LEMMA WriteFiles ==
    ASSUME Base, Files, NEW b \in Backends, Write(b)
    PROVE  Files'
  <1>p. PICK n \in Inodes : n = handle[b]
    BY DEF Base, Placed, Open, Write
  <1>a. TypeOK /\ n = handle[b] /\ conn[b] \in Clients /\ pc[b] = "write"
    BY <1>p DEF Base, Placed, Open, Write
  <1>1. /\ pc' = [pc EXCEPT ![b] = "send"]
        /\ handle' = [handle EXCEPT ![b] = 0]
        /\ name' = name
    BY DEF Write, ReplyStatus, Reply, Goto
  <1>2. PICK written \in IF IOFaults THEN 0..Req(b).length ELSE {Req(b).length} :
           /\ cells' = [cells EXCEPT ![n] = Over(b, cells[n], written)]
           /\ spoiled' = [spoiled EXCEPT ![n] = spoiled[n] \/ written < Req(b).length]
    BY <1>a DEF Write
  <1>3. Req(b).length \in 1..MaxCells /\ MaxCells \in Nat
    BY <1>a, BackendAssumption DEF TypeOK, Req, Request
  <1>4. written \in 0..Req(b).length
    BY <1>2, <1>3
  <1>5. ASSUME NEW m \in Inodes PROVE Used(m)' => Used(m)
    BY <1>a, <1>1 DEF Used, TypeOK
  <1>6. ASSUME NEW m \in Inodes, m # n PROVE Writers(m)' = Writers(m)
    BY <1>a, <1>1, <1>6 DEF Writers, TypeOK
  <1>7. b \in Writers(n) /\ Writers(n)' = Writers(n) \ {b}
    <2>1. b \in Writers(n)
      BY <1>a DEF Writers
    <2>2. ASSUME NEW d \in Backends, d # b PROVE d \in Writers(n)' <=> d \in Writers(n)
      BY <1>a, <1>1, <2>2 DEF Writers, TypeOK
    <2>3. b \notin Writers(n)'
      BY <1>a, <1>1 DEF Writers, TypeOK
    <2>4. Writers(n) \subseteq Backends /\ Writers(n)' \subseteq Backends
      BY DEF Writers
    <2> QED BY <2>1, <2>2, <2>3, <2>4
  <1>8. Used(n) /\ Sound(n)
    BY <1>a DEF Used, Files
  <1>9. ASSUME ~spoiled'[n] PROVE Writers(n)' = {} /\ IsWhole(cells'[n])
    <2>1. ~spoiled[n] /\ ~(written < Req(b).length)
      BY <1>a, <1>2, <1>9 DEF TypeOK
    <2>2. written = Req(b).length
      BY <1>3, <1>4, <2>1
    <2>3. Writers(n)' = {} /\ cells[n] = <<>>
      BY <1>7, <1>8, <2>1 DEF Sound
    <2>4. cells[n] \in Seq(Cell)
      BY <1>a DEF TypeOK
    <2>5. IsWhole(Over(b, cells[n], written))
      BY <1>a, <1>4, <2>2, <2>3, <2>4, OverType
    <2>6. cells'[n] = Over(b, cells[n], written)
      BY <1>a, <1>2 DEF TypeOK
    <2> QED BY <2>3, <2>5, <2>6
  <1>10. ASSUME NEW m \in Inodes, Used(m)' PROVE Sound(m)'
    <2>1. CASE m = n
      <3>1. (Writers(m))' = {} \/ spoiled'[m]
        BY <1>9, <2>1
      <3>2. IsWhole(cells'[m]) \/ spoiled'[m]
        BY <1>9, <2>1
      <3> QED BY <3>1, <3>2 DEF Sound
    <2>2. CASE m # n
      <3>1. Sound(m)
        BY <1>5, <1>10 DEF Files
      <3>2. cells'[m] = cells[m] /\ spoiled'[m] = spoiled[m]
        BY <1>a, <1>2, <2>2 DEF TypeOK
      <3> QED BY <1>6, <2>2, <3>1, <3>2 DEF Sound
    <2> QED BY <2>1, <2>2
  <1> QED BY <1>10 DEF Files

\* No step damages a document without marking it spoiled.
LEMMA FilesStep == ASSUME Base, Files, Next PROVE Files'
  <1>a. TypeOK /\ \A b \in Backends : Placed(b)
    BY DEF Base
  <1>1. ASSUME NEW b \in Backends, Quiet(b) PROVE Files'
    BY <1>1 DEF Quiet, Files, Used, Sound
  <1>2. ASSUME NEW b \in Backends, OpenRead(b) PROVE Files'
    <2>1. /\ \A n \in Inodes : Writers(n)' = Writers(n)
          /\ UNCHANGED <<name, cells, spoiled>>
      BY <1>2, <1>a DEF OpenRead, Writers, Goto, files, TypeOK, Process
    <2>2. \A n \in Inodes : Used(n)' => Used(n)
      BY <1>2, <1>a DEF OpenRead, Used, files, TypeOK
    <2> QED BY <2>1, <2>2 DEF Files, Sound
  <1>3. ASSUME NEW b \in Backends, Read(b) PROVE Files'
    <2>1. /\ \A n \in Inodes : Writers(n)' = Writers(n)
          /\ UNCHANGED <<name, cells, spoiled>>
      BY <1>3, <1>a DEF Read, Writers, Reply, Goto, files, TypeOK
    <2>2. \A n \in Inodes : Used(n)' => Used(n)
      BY <1>3, <1>a DEF Read, Used, files, TypeOK
    <2> QED BY <2>1, <2>2 DEF Files, Sound
  <1>4. ASSUME NEW b \in Backends, Remove(b) PROVE Files'
    <2>1. /\ \A n \in Inodes : Writers(n)' = Writers(n)
          /\ UNCHANGED <<cells, spoiled>>
      BY <1>4, <1>a DEF Remove, Writers, ReplyStatus, Reply, Goto, TypeOK
    <2>2. \A n \in Inodes : Used(n)' => Used(n)
      BY <1>4, <1>a DEF Remove, Used, TypeOK
    <2> QED BY <2>1, <2>2 DEF Files, Sound
  <1>5. CASE \E c \in Clients, b \in Backends, r \in Requests : Connect(c, b, r)
    BY <1>5 DEF Connect, Files, Used, Sound, Writers, files
  <1>6. CASE \E c \in Clients : Transmit(c)
    BY <1>6 DEF Transmit, Files, Used, Sound, Writers, files
  <1> QED BY <1>1, <1>2, <1>3, <1>4, <1>5, <1>6, FileEffect, OpenWriteFiles,
             WriteFiles
          DEF Next

\* The document is only damaged by what marks it spoiled.
THEOREM FilesInvariant == Spec => []Files
  <1>1. Init => Files
    BY DEF Init, Files, Used
  <1>2. Base /\ Files /\ [Next]_vars => Files'
    <2>1. ASSUME Files, UNCHANGED vars PROVE Files'
      BY <2>1 DEF Files, Used, Sound, Writers, vars
    <2> QED BY <2>1, FilesStep
  <1> QED BY <1>1, <1>2, BaseInvariant, PTL DEF Spec

\* PUT, POST and DELETE of several backends leave a document that is all of one
\* body, unless two had it open for writing at a time or a write was lost.
THEOREM DamageNeedsOverlap == Spec => []MixedOnlyByOverlap
  <1>1. Base /\ Files => MixedOnlyByOverlap
    BY DEF Base, TypeOK, Files, Used, Sound, MixedOnlyByOverlap
  <1> QED BY <1>1, BaseInvariant, FilesInvariant, PTL
------------------------------------------------------------------------------
(***************************************************************************)
(* The connections: each is in one place, the socket that a backend serves *)
(* or one place of a backlog, until the backend closes it.                 *)
(***************************************************************************)
Slots(b) == 0..Len(backlog[b])
At(b, i) == IF i = 0 THEN conn[b] ELSE backlog[b][i]

Connected ==
    /\ \A b \in Backends : \A i \in Slots(b) :
          At(b, i) # None => client[At(b, i)] # "idle"
    /\ \A a, b \in Backends : \A i \in Slots(a), j \in Slots(b) :
          At(a, i) = At(b, j) /\ At(a, i) # None => a = b /\ i = j

\* What sits in the places.
LEMMA SlotType ==
    ASSUME TypeOK, NEW b \in Backends
    PROVE  /\ Len(backlog[b]) \in Nat
           /\ \A i \in Slots(b) : At(b, i) \in Clients \union {None}
           /\ \A i \in Slots(b) : i # 0 => At(b, i) \in Clients
  <1>1. backlog[b] \in Seq(Clients) /\ conn[b] \in Clients \union {None}
    BY DEF TypeOK
  <1>2. Len(backlog[b]) \in Nat /\ \A i \in 1..Len(backlog[b]) : backlog[b][i] \in Clients
    BY <1>1, LenProperties, ElementOfSeq
  <1> QED BY <1>1, <1>2 DEF Slots, At

\* Only tcp_accept and tcp_close touch a connection on the side of the backends.
LEMMA PeersEffect ==
    ASSUME Base, NEW b \in Backends, Loop(b) \/ Execute(b)
    PROVE  \/ Accept(b)
           \/ conn[b] \in Clients /\ \E r \in SUBSET Resources : Finish(b, r)
           \/ UNCHANGED <<client, request, backlog, conn>>
  <1> USE DEF peers
  <1>1. pc[b] # "accept" => conn[b] \in Clients
    BY DEF Base, Placed
  <1>2. CASE RecvNothing(b)
    BY <1>1, <1>2 DEF RecvNothing, Resources
  <1>3. CASE Refusal(b)
    BY <1>1, <1>3 DEF Refusal, Resources
  <1>4. CASE Rejection(b)
    BY <1>1, <1>4 DEF Rejection, Resources
  <1>5. CASE Send(b)
    BY <1>1, <1>5 DEF Send, Resources
  <1>6. CASE BadRequest(b) \/ Unsupported(b) \/ Parsed(b)
    BY <1>6 DEF BadRequest, Unsupported, Parsed
  <1>7. CASE Execute(b)
    BY <1>7 DEF Execute, Echo, Refuse, OpenRead, OpenReadError, Measure, Read,
       Access,
                OpenWrite, OpenWriteError, Write, Find, FindNothing, Remove, RemoveError
  <1> QED BY <1>2, <1>3, <1>4, <1>5, <1>6, <1>7 DEF Loop

\* No step puts a connection in a second place, or forgets one.
LEMMA ConnectedStep == ASSUME Base, Connected, Next PROVE Connected'
  <1>a. TypeOK /\ \A b \in Backends : Placed(b)
    BY DEF Base
  <1>1. ASSUME NEW b \in Backends, Accept(b) PROVE Connected'
    <2>1. /\ conn[b] = None /\ backlog[b] \in Seq(Clients) /\ backlog[b] # <<>>
      BY <1>1, <1>a DEF Accept, Placed, TypeOK
    <2>2. /\ Len(backlog[b]) \in Nat \ {0}
          /\ Head(backlog[b]) = backlog[b][1]
          /\ Len(Tail(backlog[b])) = Len(backlog[b]) - 1
          /\ \A i \in 1..(Len(backlog[b]) - 1) : Tail(backlog[b])[i] = backlog[b][i + 1]
      BY <2>1, HeadTailProperties, EmptySeq, LenProperties
    <2>3. /\ conn' = [conn EXCEPT ![b] = Head(backlog[b])]
          /\ backlog' = [backlog EXCEPT ![b] = Tail(backlog[b])]
          /\ client' = client
      BY <1>1 DEF Accept
    <2>4. /\ conn'[b] = backlog[b][1] /\ Len(backlog'[b]) = Len(backlog[b]) - 1
          /\ \A i \in 1..(Len(backlog[b]) - 1) : backlog'[b][i] = backlog[b][i + 1]
      BY <1>a, <2>2, <2>3 DEF TypeOK
    <2>5. \A i \in Slots(b)' : i + 1 \in Slots(b) /\ At(b, i)' = At(b, i + 1)
      BY <2>2, <2>4 DEF Slots, At
    <2>6. \A d \in Backends \ {b} : /\ Slots(d)' = Slots(d)
                                    /\ \A i \in Slots(d) : At(d, i)' = At(d, i)
      BY <1>a, <2>3 DEF TypeOK, Slots, At
    <2> DEFINE from(d, i) == IF d = b THEN i + 1 ELSE i
    <2>7. \A d \in Backends : \A i \in Slots(d)' :
             from(d, i) \in Slots(d) /\ At(d, i)' = At(d, from(d, i))
      BY <2>5, <2>6
    <2>8. \A d \in Backends : \A i \in Slots(d)' : i \in Int
      BY DEF Slots
    <2>9. \A d \in Backends : \A i, j \in Slots(d)' : from(d, i) = from(d, j) => i = j
      BY <2>8
    <2> HIDE DEF from
    <2> QED BY <2>3, <2>7, <2>9 DEF Connected
  <1>2. ASSUME NEW b \in Backends, conn[b] \in Clients,
               \E r \in SUBSET Resources : Finish(b, r)
        PROVE  Connected'
    <2>1. /\ client' = [client EXCEPT ![conn[b]] = "idle"]
          /\ conn' = [conn EXCEPT ![b] = None]
          /\ backlog' = backlog
      BY <1>2 DEF Finish
    <2>2. \A d \in Backends : Slots(d)' = Slots(d)
      BY <2>1 DEF Slots
    <2>3. 0 \in Slots(b) /\ At(b, 0) = conn[b] /\ conn[b] # None
      BY <1>2, <1>a, SlotType, BackendAssumption DEF Slots, At
    <2>4. \A d \in Backends : \A i \in Slots(d) :
             At(d, i)' = IF d = b /\ i = 0 THEN None ELSE At(d, i)
      BY <1>a, <2>1 DEF TypeOK, At
    <2>5. \A d \in Backends : \A i \in Slots(d) :
             (d = b /\ i = 0) \/ At(d, i) # conn[b]
      BY <2>3 DEF Connected
    <2>6. \A c \in Clients : c # conn[b] => client'[c] = client[c]
      BY <1>a, <2>1 DEF TypeOK
    <2>7. ASSUME NEW d \in Backends, NEW i \in Slots(d)', At(d, i)' # None
          PROVE  client'[At(d, i)'] # "idle" /\ At(d, i)' = At(d, i) /\ i \in Slots(d)
      <3>1. i \in Slots(d) /\ At(d, i)' = At(d, i) /\ At(d, i) # conn[b]
        BY <2>2, <2>4, <2>5, <2>7
      <3>2. At(d, i) \in Clients
        BY <1>a, <2>7, <3>1, SlotType
      <3>3. client[At(d, i)] # "idle"
        BY <2>7, <3>1 DEF Connected
      <3> QED BY <2>6, <3>1, <3>2, <3>3
    <2> QED BY <2>7 DEF Connected
  <1>3. ASSUME NEW c \in Clients, NEW b \in Backends, NEW r \in Requests, Connect(c, b, r)
        PROVE  Connected'
    <2>1. /\ client[c] = "idle" /\ client' = [client EXCEPT ![c] = "connected"]
          /\ backlog' = [backlog EXCEPT ![b] = Append(backlog[b], c)]
          /\ conn' = conn
      BY <1>3 DEF Connect
    <2>2. backlog[b] \in Seq(Clients) /\ Len(backlog[b]) \in Nat
      BY <1>a, LenProperties DEF TypeOK
    <2>3. /\ Len(backlog'[b]) = Len(backlog[b]) + 1
          /\ \A i \in 1..Len(backlog[b]) : backlog'[b][i] = backlog[b][i]
          /\ backlog'[b][Len(backlog[b]) + 1] = c
      BY <1>a, <2>1, <2>2, AppendProperties DEF TypeOK
    <2> DEFINE new(d, i) == d = b /\ i = Len(backlog[b]) + 1
    <2>4. ASSUME NEW d \in Backends, NEW i \in Slots(d)'
          PROVE  IF new(d, i) THEN At(d, i)' = c
                 ELSE i \in Slots(d) /\ At(d, i)' = At(d, i)
      <3>1. CASE d = b
        BY <2>1, <2>2, <2>3, <2>4, <3>1 DEF Slots, At
      <3>2. CASE d # b
        BY <1>a, <2>1, <2>4, <3>2 DEF Slots, At, TypeOK
      <3> QED BY <3>1, <3>2
    <2>5. \A d \in Backends : \A i \in Slots(d) : At(d, i) # c
      BY <2>1, BackendAssumption DEF Connected
    <2>6. \A k \in Clients : client'[k] # "idle" \/ (k # c /\ client'[k] = client[k])
      BY <1>a, <2>1 DEF TypeOK
    <2>7. ASSUME NEW d \in Backends, NEW i \in Slots(d)', At(d, i)' # None
          PROVE  client'[At(d, i)'] # "idle"
      <3>1. CASE new(d, i)
        BY <1>a, <2>1, <2>4, <3>1 DEF TypeOK
      <3>2. CASE ~new(d, i)
        <4>1. i \in Slots(d) /\ At(d, i)' = At(d, i)
          BY <2>4, <2>7, <3>2
        <4>2. At(d, i) \in Clients
          BY <1>a, <2>7, <4>1, SlotType
        <4> QED BY <2>6, <2>7, <4>1, <4>2 DEF Connected
      <3> QED BY <3>1, <3>2
    <2> HIDE DEF new
    <2>8. ASSUME NEW a \in Backends, NEW d \in Backends,
                 NEW i \in Slots(a)', NEW j \in Slots(d)',
                 At(a, i)' = At(d, j)', At(a, i)' # None
          PROVE  a = d /\ i = j
      <3>1. CASE new(a, i)
        <4>1. new(d, j)
          BY <2>4, <2>5, <2>8, <3>1
        <4> QED BY <3>1, <4>1 DEF new
      <3>2. CASE ~new(a, i)
        <4>1. ~new(d, j)
          BY <2>4, <2>5, <2>8, <3>2
        <4> QED BY <2>4, <2>8, <3>2, <4>1 DEF Connected
      <3> QED BY <3>1, <3>2
    <2> QED BY <2>7, <2>8 DEF Connected
  <1>4. ASSUME NEW c \in Clients, Transmit(c) PROVE Connected'
    <2>1. /\ \A k \in Clients : client[k] # "idle" => client'[k] # "idle"
          /\ UNCHANGED <<backlog, conn>>
      BY <1>4, <1>a DEF Transmit, TypeOK
    <2>2. \A d \in Backends : /\ Slots(d)' = Slots(d)
                              /\ \A i \in Slots(d) : At(d, i)' = At(d, i)
      BY <2>1 DEF Slots, At
    <2>3. ASSUME NEW d \in Backends, NEW i \in Slots(d), At(d, i) # None
          PROVE  At(d, i) \in Clients
      BY <1>a, <2>3, SlotType
    <2> QED BY <2>1, <2>2, <2>3 DEF Connected
  <1>5. ASSUME UNCHANGED <<client, backlog, conn>> PROVE Connected'
    BY <1>5 DEF Connected, Slots, At
  <1> QED BY <1>1, <1>2, <1>3, <1>4, <1>5, PeersEffect DEF Next

\* A proxy is connected to one backend, which serves it once.
LEMMA ConnectedHolds == Spec => []Connected
  <1>1. Init => Connected
    <2> SUFFICES ASSUME Init PROVE Connected
      OBVIOUS
    <2>1. \A b \in Backends : conn[b] = None /\ Len(backlog[b]) = 0
      BY EmptySeq DEF Init
    <2> QED BY <2>1 DEF Connected, Slots, At
  <1>2. Base /\ Connected /\ [Next]_vars => Connected'
    <2>1. ASSUME Connected, UNCHANGED vars PROVE Connected'
      BY <2>1 DEF Connected, Slots, At, vars
    <2> QED BY <2>1, ConnectedStep
  <1> QED BY <1>1, <1>2, BaseInvariant, PTL DEF Spec

\* The request of a backend stays until its own close.
LEMMA RequestStays ==
    ASSUME Base, Connected, Next, NEW b \in Backends, pc[b] # "accept",
           pc'[b] # "accept"
    PROVE  Req(b)' = Req(b)
  <1>a. TypeOK /\ conn[b] \in Clients /\ 0 \in Slots(b) /\ At(b, 0) = conn[b]
    BY SlotType DEF Base, Placed, Slots, At
  <1>b. client[conn[b]] # "idle"
    BY <1>a, BackendAssumption DEF Connected
  <1>1. ASSUME NEW a \in Backends, Loop(a) \/ Execute(a) PROVE Req(b)' = Req(b)
    <2>1. CASE Accept(a)
      <3>1. a # b
        BY <2>1 DEF Accept
      <3> QED BY <1>a, <2>1, <3>1 DEF Accept, Req, TypeOK
    <2>2. ASSUME conn[a] \in Clients, NEW r \in SUBSET Resources, Finish(a, r)
          PROVE  Req(b)' = Req(b)
      <3>1. a # b
        BY <1>a, <2>2 DEF Finish, Goto, TypeOK
      <3>2. 0 \in Slots(a) /\ At(a, 0) = conn[a]
        BY <1>a, SlotType DEF Slots, At
      <3>3. conn[a] # conn[b]
        BY <1>a, <2>2, <3>1, <3>2, BackendAssumption DEF Connected
      <3> QED BY <1>a, <2>2, <3>1, <3>3 DEF Finish, Req, TypeOK
    <2>3. CASE UNCHANGED <<client, request, backlog, conn>>
      BY <2>3 DEF Req
    <2> QED BY <1>1, <2>1, <2>2, <2>3, PeersEffect
  <1>2. ASSUME NEW c \in Clients, NEW d \in Backends, NEW r \in Requests, Connect(c, d, r)
        PROVE  Req(b)' = Req(b)
    BY <1>a, <1>b, <1>2 DEF Connect, Req, TypeOK
  <1>3. ASSUME NEW c \in Clients, Transmit(c) PROVE Req(b)' = Req(b)
    BY <1>3 DEF Transmit, Req
  <1> QED BY <1>1, <1>2, <1>3 DEF Next
------------------------------------------------------------------------------
(***************************************************************************)
(* What a GET returns.                                                     *)
(***************************************************************************)
\* A document that was spoiled before, or written while it was read.
Excused(b) == raced[b] \/ damaged[b]

\* Who reads a file knows when nobody has opened it for writing since.
Reading(b) ==
    /\ pc[b] \in {"size", "read"} /\ ~Excused(b) =>
          ~spoiled[handle[b]] /\ Writers(handle[b]) = {}
    /\ pc[b] = "read" /\ ~Excused(b) => size[b] = Len(cells[handle[b]])

\* The steps that write and remove are of the requests that ask for it, so that
\* only readFile answers 200 to a GET.
Fetched(b) ==
    /\ pc[b] \in {"open", "write"} => MethodIs(b, Writes)
    /\ pc[b] = "remove" => MethodIs(b, {"DELETE"})
    /\ pc[b] = "send" /\ MethodIs(b, {"GET"}) /\ reply[b].status = 200 =>
          /\ reply[b].length = Len(reply[b].content)
          /\ Excused(b) \/ IsWhole(reply[b].content)

Fetching == \A b \in Backends : Reading(b) /\ Fetched(b)

\* As long as nobody opens it for writing, a file that is read stays as it is,
\* whoever removes its name or makes another file.
LEMMA ReaderKeeps ==
    ASSUME Base, NEW a \in Backends, Loop(a) \/ Execute(a),
           NEW b \in Backends \ {a}, NEW n \in Inodes,
           pc[b] \in {"size", "read"}, handle[b] = n, Writers(n) = {}, ~raced'[b]
    PROVE  /\ cells'[n] = cells[n] /\ spoiled'[n] = spoiled[n]
           /\ Writers(n)' = {} /\ ~raced[b]
  <1>a. TypeOK /\ Placed(a)
    BY DEF Base
  <1>1. CASE OpenWrite(a)
    <2>1. handle[a] = 0
      BY <1>1, <1>a DEF OpenWrite, MayOpen, MayWrite, Process, Placed, Open
    <2>2. PICK m \in Inodes :
             /\ handle' = [handle EXCEPT ![a] = m]
             /\ cells' = [cells EXCEPT ![m] = <<>>]
             /\ spoiled' = [spoiled EXCEPT ![m] = Writers(m) # {}]
             /\ raced' = [u \in Backends |-> raced[u] \/ u \in Readers(m)]
      BY <1>1 DEF OpenWrite
    <2>3. b \notin Readers(m) /\ ~raced[b]
      BY <1>a, <2>2 DEF TypeOK
    <2>4. m # n
      BY <2>3 DEF Readers
    <2>5. Writers(n)' = Writers(n)
      BY <1>1, <1>a, <2>1, <2>2, <2>4 DEF Writers, TypeOK, OpenWrite, Goto
    <2> QED BY <1>a, <2>2, <2>3, <2>4, <2>5 DEF TypeOK
  <1>2. CASE Write(a)
    <2>1. handle[a] # n /\ handle[a] \in Inodes
      BY <1>2, <1>a DEF Write, Writers, Placed, Open
    <2>2. cells'[n] = cells[n] /\ spoiled'[n] = spoiled[n] /\ raced' = raced
      BY <1>2, <1>a, <2>1 DEF Write, TypeOK, local
    <2>3. Writers(n)' = Writers(n)
      BY <1>2, <1>a, <2>1 DEF Write, Writers, ReplyStatus, Reply, Goto, TypeOK
    <2> QED BY <2>2, <2>3
  <1>3. CASE OpenRead(a)
    <2>1. Writers(n)' = Writers(n) /\ raced'[b] = raced[b]
      BY <1>3, <1>a DEF OpenRead, Process, Writers, Goto, TypeOK
    <2> QED BY <1>3, <2>1 DEF OpenRead, files
  <1>4. CASE Read(a)
    BY <1>4, <1>a DEF Read, Writers, Reply, Goto, files, local, TypeOK
  <1>5. CASE Remove(a)
    BY <1>5, <1>a DEF Remove, Writers, ReplyStatus, Reply, Goto, local, TypeOK
  <1>6. CASE Quiet(a)
    BY <1>6 DEF Quiet
  <1> QED BY <1>1, <1>2, <1>3, <1>4, <1>5, <1>6, FileEffect

\* readFile announces what it has read; when nobody wrote meanwhile that is the
\* size it measured, hence all of a body.
LEMMA ReadFetches ==
    ASSUME Base, Files, NEW b \in Backends, Reading(b), Read(b),
           MethodIs(b, {"GET"})
    PROVE  /\ reply'[b].length = Len(reply'[b].content)
           /\ Excused(b) \/ IsWhole(reply'[b].content)
  <1>a. TypeOK /\ pc[b] = "read" /\ handle[b] \in Inodes
    BY DEF Base, Placed, Open, Read
  <1> DEFINE text == cells[handle[b]]
             n == IF Len(text) < size[b] THEN Len(text) ELSE size[b]
  <1>1. text \in Seq(Cell) /\ Len(text) \in Nat /\ size[b] \in Nat
    BY <1>a, LenProperties DEF TypeOK
  <1>2. n \in 0..Len(text)
    BY <1>1
  <1>3. reply'[b].content = SubSeq(text, 1, n) /\ reply'[b].length = n
    BY <1>a DEF Read, Reply, Content, MethodIs, TypeOK
  <1>4. Len(SubSeq(text, 1, n)) = n /\ (n = Len(text) => SubSeq(text, 1, n) = text)
    BY <1>1, <1>2, Cut
  <1>5. ASSUME ~Excused(b) PROVE IsWhole(SubSeq(text, 1, n))
    <2>1. n = Len(text)
      BY <1>a, <1>1, <1>5 DEF Reading
    <2>2. ~spoiled[handle[b]] /\ Writers(handle[b]) = {}
      BY <1>a, <1>5 DEF Reading
    <2>3. IsWhole(text)
      BY <1>a, <2>2 DEF Files, Used, Sound
    <2> QED BY <1>4, <2>1, <2>3
  <1> HIDE DEF n, text
  <1> QED BY <1>3, <1>4, <1>5

\* The acting backend.
LEMMA FetchingHere ==
    ASSUME Base, Files, Connected, NEW b \in Backends, Reading(b), Fetched(b),
           Loop(b) \/ Execute(b)
    PROVE  Reading(b)' /\ Fetched(b)'
  <1>a. TypeOK /\ Placed(b) /\ Next
    BY DEF Base, Next
  <1>b. pc[b] # "accept" /\ pc'[b] # "accept" => Req(b)' = Req(b)
    BY <1>a, RequestStays
  <1>c. ASSUME pc'[b] \notin {"size", "read", "open", "write", "remove", "send"}
        PROVE  Reading(b)' /\ Fetched(b)'
    BY <1>c DEF Reading, Fetched
  <1>d. ASSUME NEW s \in {400, 404, 500, 505}, ReplyStatus(b, s)
        PROVE  Reading(b)' /\ Fetched(b)'
    <2>1. pc'[b] = "send" /\ reply'[b].status # 200
      BY <1>a, <1>d DEF ReplyStatus, Reply, Goto, TypeOK
    <2> QED BY <2>1 DEF Reading, Fetched
  <1>e. ASSUME NEW s, ReplyStatus(b, s), pc[b] # "accept", ~MethodIs(b, {"GET"})
        PROVE  Reading(b)' /\ Fetched(b)'
    <2>1. pc'[b] = "send"
      BY <1>a, <1>e DEF ReplyStatus, Reply, Goto, TypeOK
    <2>2. ~MethodIs(b, {"GET"})'
      BY <1>b, <1>e, <2>1 DEF MethodIs
    <2> QED BY <2>1, <2>2 DEF Reading, Fetched
  <1>1. CASE Loop(b)
    <2>1. pc'[b] \in {"accept", "recv", "refuse", "reject", "process"}
      BY <1>1, <1>a DEF Loop, Accept, RecvNothing, BadRequest, Unsupported,
         Parsed, Refusal,
         Rejection, Send, Finish, Reply, Goto, TypeOK
    <2> QED BY <1>c, <2>1
  <1>2. CASE Echo(b)
    BY <1>2, <1>d, <1>e DEF Echo, Process, MethodIs, Harmless
  <1>3. CASE Refuse(b) \/ OpenReadError(b) \/ OpenWriteError(b) \/ FindNothing(b)
             \/ RemoveError(b)
    BY <1>3, <1>d DEF Refuse, OpenReadError, OpenWriteError, FindNothing,
       RemoveError
  <1>4. CASE OpenRead(b)
    <2>1. /\ pc'[b] = "size" /\ handle'[b] = name /\ name \in Inodes
          /\ Excused(b)' <=> Writers(name) # {} \/ spoiled[name]
          /\ UNCHANGED <<name, cells, spoiled>>
      BY <1>4, <1>a DEF OpenRead, Goto, TypeOK, files, Excused
    <2>2. Writers(name)' = Writers(name)
      BY <1>4, <1>a, <2>1 DEF OpenRead, Process, Writers, Goto, TypeOK
    <2> QED BY <2>1, <2>2 DEF Reading, Fetched
  <1>5. CASE Measure(b)
    <2>1. /\ pc[b] = "size" /\ pc'[b] = "read" /\ size'[b] = Len(cells[handle[b]])
          /\ UNCHANGED <<cells, spoiled, handle, raced, damaged>>
      BY <1>5, <1>a DEF Measure, Goto, TypeOK, files
    <2>2. \A n \in Inodes : Writers(n)' = Writers(n)
      BY <1>5, <1>a, <2>1 DEF Measure, Writers, Goto, TypeOK
    <2>3. handle[b] \in Inodes
      BY <1>a, <2>1 DEF Placed, Open
    <2> QED BY <2>1, <2>2, <2>3 DEF Reading, Fetched, Excused
  <1>6. CASE Read(b)
    <2>1. /\ pc[b] = "read" /\ pc'[b] = "send"
          /\ UNCHANGED <<raced, damaged>>
      BY <1>6, <1>a DEF Read, Reply, Goto, TypeOK, local
    <2>2. MethodIs(b, {"GET"})' = MethodIs(b, {"GET"})
      BY <1>b, <2>1 DEF MethodIs
    <2> QED BY <1>6, <2>1, <2>2, ReadFetches DEF Reading, Fetched, Excused
  <1>7. CASE Access(b) \/ Find(b) \/ OpenWrite(b)
    <2>1. /\ pc[b] # "accept" /\ pc'[b] \in {"open", "write", "remove"}
          /\ pc'[b] \in {"open", "write"} => MethodIs(b, Writes)
          /\ pc'[b] = "remove" => MethodIs(b, {"DELETE"})
      BY <1>7, <1>a DEF Access, Find, OpenWrite, MayOpen, MayWrite, Process,
         MethodIs,
         Writes, Goto, TypeOK, Fetched
    <2> QED BY <1>b, <2>1 DEF Reading, Fetched, MethodIs
  <1>8. CASE Write(b)
    BY <1>8, <1>e DEF Write, Fetched, MethodIs, Writes
  <1>9. CASE Remove(b)
    BY <1>9, <1>e DEF Remove, Fetched, MethodIs
  <1> QED BY <1>1, <1>2, <1>3, <1>4, <1>5, <1>6, <1>7, <1>8, <1>9 DEF Execute

\* A reader is raced by others only, and for good.
LEMMA RacedElsewhere ==
    ASSUME Base, NEW a \in Backends, Loop(a) \/ Execute(a), NEW b \in Backends \ {a}
    PROVE  /\ raced'[b] = raced[b] \/ (raced'[b] /\ pc[b] \in {"size", "read"})
           /\ damaged'[b] = damaged[b]
  <1>a. TypeOK
    BY DEF Base
  <1>1. CASE OpenWrite(a)
    <2>1. PICK m \in Inodes : raced' = [u \in Backends |-> raced[u] \/ u \in Readers(m)]
      BY <1>1 DEF OpenWrite
    <2> QED BY <1>1, <1>a, <2>1 DEF OpenWrite, Readers, TypeOK
  <1>2. CASE OpenRead(a)
    BY <1>2, <1>a DEF OpenRead, TypeOK
  <1>3. CASE Read(a) \/ Write(a) \/ Remove(a)
    BY <1>3 DEF Read, Write, Remove, local
  <1>4. CASE Quiet(a)
    BY <1>4 DEF Quiet
  <1> QED BY <1>1, <1>2, <1>3, <1>4, FileEffect

\* The other backends, while b reads or sends.
LEMMA FetchingElsewhere ==
    ASSUME Base, Connected, NEW a \in Backends, Loop(a) \/ Execute(a),
           NEW b \in Backends \ {a}, Reading(b), Fetched(b)
    PROVE  Reading(b)' /\ Fetched(b)'
  <1>a. Placed(b) /\ Next
    BY DEF Base, Next
  <1>0. /\ raced'[b] = raced[b] \/ (raced'[b] /\ pc[b] \in {"size", "read"})
        /\ damaged'[b] = damaged[b]
    BY RacedElsewhere
  <1>1. /\ pc'[b] = pc[b] /\ handle'[b] = handle[b] /\ size'[b] = size[b]
        /\ reply'[b] = reply[b]
    BY Elsewhere DEF Own
  <1>2. pc[b] # "accept" => Req(b)' = Req(b)
    BY <1>a, <1>1, RequestStays
  <1>3. ASSUME pc[b] \in {"size", "read"}, ~Excused(b)'
        PROVE  /\ ~spoiled'[handle[b]] /\ (Writers(handle[b]))' = {}
               /\ pc[b] = "read" => size[b] = Len(cells'[handle[b]])
    <2>1. PICK n \in Inodes : n = handle[b]
      BY <1>a, <1>3 DEF Placed, Open
    <2>2. ~raced'[b] /\ ~Excused(b)
      BY <1>3, <1>0 DEF Excused
    <2>3. ~spoiled[n] /\ Writers(n) = {} /\ (pc[b] = "read" => size[b] = Len(cells[n]))
      BY <1>3, <2>1, <2>2 DEF Reading
    <2> QED BY <1>1, <1>3, <2>1, <2>2, <2>3, ReaderKeeps DEF Writers
  <1>4. Reading(b)'
    BY <1>1, <1>3 DEF Reading, Writers
  <1>5. pc[b] = "send" => Excused(b)' = Excused(b)
    BY <1>0, <1>a, <1>1 DEF Excused
  <1> QED BY <1>1, <1>2, <1>4, <1>5 DEF Fetched, MethodIs

\* What a backend that reads knows is true, and so is what it announces.
LEMMA FetchingStep ==
    ASSUME Base, Files, Connected, Fetching, Next
    PROVE  Fetching'
  <1>1. ASSUME NEW a \in Backends, Loop(a) \/ Execute(a), NEW b \in Backends
        PROVE  Reading(b)' /\ Fetched(b)'
    <2>1. CASE a = b
      BY <1>1, <2>1, FetchingHere DEF Fetching
    <2>2. CASE a # b
      BY <1>1, <2>2, FetchingElsewhere DEF Fetching
    <2> QED BY <2>1, <2>2
  <1>2. ASSUME NEW b \in Backends, UNCHANGED <<files, pc, conn, handle, local, reply>>
        PROVE  Reading(b)' /\ Fetched(b)'
    <2>1. Reading(b)'
      BY <1>2 DEF Fetching, Reading, Excused, Writers, files, local
    <2>2. pc[b] # "accept" => Req(b)' = Req(b)
      BY <1>2, RequestStays
    <2>3. Fetched(b)'
      BY <1>2, <2>2 DEF Fetching, Fetched, Excused, MethodIs, local
    <2> QED BY <2>1, <2>3
  <1> QED BY <1>1, <1>2 DEF Next, Connect, Transmit, Fetching

\* A GET announces the length of the body that follows, whatever happens to the
\* file between the ftell and the fread of readFile; and that is all of one body
\* unless a writer had the file open meanwhile or the document had been spoiled
\* before, by two writers at a time or by a write that was lost.
THEOREM PartNeedsWriter == Spec => []PartOnlyByWriter
  <1>1. Init => Fetching
    BY DEF Init, Fetching, Reading, Fetched
  <1>2. Base /\ Files /\ Connected /\ Fetching /\ [Next]_vars => Fetching'
    <2>1. ASSUME Fetching, UNCHANGED vars PROVE Fetching'
      BY <2>1 DEF Fetching, Reading, Fetched, Excused, Writers, MethodIs, Req, vars
    <2> QED BY <2>1, FetchingStep
  <1>3. Fetching => PartOnlyByWriter
    BY DEF Fetching, Fetched, Excused, PartOnlyByWriter
  <1> QED BY <1>1, <1>2, <1>3, BaseInvariant, FilesInvariant, ConnectedHolds,
             PTL DEF Spec
==============================================================================
