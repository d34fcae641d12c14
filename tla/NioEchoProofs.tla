---------------------------- MODULE NioEchoProofs ----------------------------
(***************************************************************************)
(* Theorems about NioEcho, for every set of clients and every buffer       *)
(* capacity.                                                               *)
(***************************************************************************)
EXTENDS NioEcho, TLAPS

(* Where a connection is: before the read of its request nothing has been  *)
(* taken from it, after it something has; a response is what closes it.    *)
(* A read that throws leaves the key as it is, but ends the server.        *)
ConnectionInv ==
  \A c \in Clients :
    /\ unread[c] <= sent[c]
    /\ key[c] \in {"WRITE", "CLOSED"} => unread[c] < sent[c]
    /\ key[c] \in {"NONE", "READ"} /\ server # "down" => unread[c] = sent[c]
    /\ replies[c] = IF key[c] = "CLOSED" THEN 1 ELSE 0
    /\ client[c] = "idle" => key[c] = "NONE" /\ c \notin backlog
    /\ c \in backlog => key[c] = "NONE"

(* While the server runs, a ready set holds no more than its key waits for,*)
(* and an accept that was ready can only be missed because of a reset.     *)
ReadyInv ==
  /\ ready[AcceptKey] \subseteq {"ACCEPT"}
  /\ NoStaleKey
  /\ ready[AcceptKey] # {} /\ backlog = {} => \E c \in Clients : client[c] = "reset"

IInv ==
  /\ TypeOK
  /\ ConnectionInv
  /\ ReadyInv
  /\ MessagesMatchKeys
  /\ EndsOnlyByReset
  /\ LeaksOnlySilentPeers

LEMMA UnitsReadBounds ==
  ASSUME TypeOK, NEW c \in Clients
  PROVE  /\ UnitsRead(c) \in Nat
         /\ UnitsRead(c) <= unread[c]
         /\ unread[c] > 0 => UnitsRead(c) > 0
BY NioAssumption DEF TypeOK, UnitsRead

LEMMA InitIInv == Init => IInv
<1> SUFFICES ASSUME Init
             PROVE  IInv
  OBVIOUS
<1> USE NioAssumption DEF Init
<1>1. TypeOK
  BY DEF TypeOK, KeyStates
<1>2. ConnectionInv /\ ReadyInv
  BY DEF ConnectionInv, ReadyInv, NoStaleKey, Keys
<1>3. MessagesMatchKeys /\ EndsOnlyByReset /\ LeaksOnlySilentPeers
  BY DEF MessagesMatchKeys, EndsOnlyByReset, LeaksOnlySilentPeers
<1> QED
  BY <1>1, <1>2, <1>3 DEF IInv

LEMMA StepIInv == IInv /\ [Next]_vars => IInv'
<1> SUFFICES ASSUME IInv, [Next]_vars
             PROVE  IInv'
  OBVIOUS
<1> USE NioAssumption
    DEF IInv, TypeOK, ConnectionInv, ReadyInv, NoStaleKey, MessagesMatchKeys,
        EndsOnlyByReset, LeaksOnlySilentPeers, Keys, KeyStates, peerVars,
        serverVars
<1>1. ASSUME NEW c \in Clients, Connect(c) PROVE IInv'
  BY <1>1 DEF Connect
<1>2. ASSUME NEW c \in Clients, Send(c) PROVE IInv'
  BY <1>2 DEF Send
<1>3. ASSUME NEW c \in Clients, Close(c) PROVE IInv'
  BY <1>3 DEF Close
<1>4. ASSUME NEW c \in Clients, Reset(c) PROVE IInv'
  BY <1>4 DEF Reset
<1>5. CASE Select
  BY <1>5 DEF Select, ReadyOps
<1>6. CASE HandleAccept
  BY <1>6 DEF HandleAccept, Take
<1>7. ASSUME NEW c \in Clients, HandleRead(c) PROVE IInv'
  BY <1>7, UnitsReadBounds DEF HandleRead, Take, StoreRequest
<1>8. ASSUME NEW c \in Clients, HandleWrite(c) PROVE IInv'
  BY <1>8 DEF HandleWrite, Take
<1>9. CASE IterationEnd
  BY <1>9 DEF IterationEnd
<1>10. CASE UNCHANGED vars
  BY <1>10 DEF vars
<1> QED
  BY <1>1, <1>2, <1>3, <1>4, <1>5, <1>6, <1>7, <1>8, <1>9, <1>10
     DEF Next, Peers, Run

(* The inductive invariant holds in every reachable state.                 *)
THEOREM Invariance == Spec => []IInv
BY InitIInv, StepIInv, PTL DEF Spec

(* Every variable keeps its type.                                          *)
THEOREM TypeCorrect == Spec => []TypeOK
<1>1. IInv => TypeOK
  BY DEF IInv
<1> QED
  BY <1>1, Invariance, PTL

(* The map of requests never disagrees with the keys that wait for         *)
(* OP_WRITE while the server runs.                                         *)
THEOREM MapMatchesKeys == Spec => []MessagesMatchKeys
<1>1. IInv => MessagesMatchKeys
  BY DEF IInv
<1> QED
  BY <1>1, Invariance, PTL

(* No handler is run for an event its key no longer waits for.             *)
THEOREM KeysAreFresh == Spec => []NoStaleKey
<1>1. IInv => NoStaleKey
  BY DEF IInv, ReadyInv
<1> QED
  BY <1>1, Invariance, PTL

(* The server ends only if some peer reset its connection.                 *)
THEOREM OnlyResetsEnd == Spec => []EndsOnlyByReset
<1>1. IInv => EndsOnlyByReset
  BY DEF IInv
<1> QED
  BY <1>1, Invariance, PTL

(* A channel is left open for good only for a peer that closed in silence. *)
THEOREM LeaksAreSilent == Spec => []LeaksOnlySilentPeers
<1>1. IInv => LeaksOnlySilentPeers
  BY DEF IInv
<1> QED
  BY <1>1, Invariance, PTL

-----------------------------------------------------------------------------
(* ImplementsOneShot: HandleRead that takes a request is an Ask, the write *)
(* of the response an Answer, everything else a stutter.                   *)

LEMMA InitRefines == Init => Service!Init
BY DEF Init, Service!Init

LEMMA StepRefines == IInv /\ [Next]_vars => [Service!Next]_(Service!vars)
<1> SUFFICES ASSUME IInv, [Next]_vars
             PROVE  [Service!Next]_(Service!vars)
  OBVIOUS
<1> DEFINE asked == {c \in Clients : unread[c] < sent[c]}
<1>1. CASE UNCHANGED <<asked, replies>>
  BY <1>1 DEF Service!vars
<1>2. ASSUME NEW c \in Clients, Send(c)
      PROVE  UNCHANGED <<asked, replies>>
  BY <1>2 DEF Send, IInv, TypeOK, serverVars
<1>3. ASSUME NEW c \in Clients, Connect(c) \/ Close(c) \/ Reset(c)
      PROVE  UNCHANGED <<asked, replies>>
  BY <1>3 DEF Connect, Close, Reset, peerVars, serverVars
<1>4. Select \/ HandleAccept \/ IterationEnd => UNCHANGED <<asked, replies>>
  BY DEF Select, HandleAccept, IterationEnd, peerVars, serverVars
<1>5. ASSUME NEW c \in Clients, HandleRead(c)
      PROVE  [Service!Next]_(Service!vars)
  <2>1. UNCHANGED <<sent, replies>>
    BY <1>5 DEF HandleRead, peerVars
  <2>2. CASE UNCHANGED unread
    BY <1>1, <2>1, <2>2
  <2>3. CASE /\ "READ" \in ready[c]
             /\ server # "down"
             /\ unread[c] > 0
             /\ unread' = [unread EXCEPT ![c] = @ - UnitsRead(c)]
    <3>1. key[c] = "READ" /\ unread[c] = sent[c]
      BY <2>3 DEF IInv, ReadyInv, NoStaleKey, ConnectionInv
    <3>2. UnitsRead(c) \in Nat /\ UnitsRead(c) > 0 /\ unread[c] \in Nat
      BY <2>3, UnitsReadBounds, NioAssumption DEF IInv, TypeOK
    <3>3. c \notin asked /\ asked' = asked \cup {c}
      BY <2>1, <2>3, <3>1, <3>2 DEF IInv, TypeOK
    <3>4. Service!Ask(c)
      BY <2>1, <3>3 DEF Service!Ask
    <3> QED
      BY <3>4 DEF Service!Next
  <2> QED
    BY <1>5, <2>2, <2>3 DEF HandleRead, Take
<1>6. ASSUME NEW c \in Clients, HandleWrite(c)
      PROVE  [Service!Next]_(Service!vars)
  <2>1. UNCHANGED asked
    BY <1>6 DEF HandleWrite, peerVars
  <2>2. CASE UNCHANGED replies
    BY <1>1, <2>1, <2>2
  <2>3. CASE "WRITE" \in ready[c] /\ replies' = [replies EXCEPT ![c] = @ + 1]
    <3>1. key[c] = "WRITE"
      BY <2>3 DEF IInv, ReadyInv, NoStaleKey
    <3>2. c \in asked /\ replies[c] = 0
      BY <3>1 DEF IInv, ConnectionInv
    <3>3. replies' = [replies EXCEPT ![c] = 1]
      BY <2>3, <3>2
    <3>4. Service!Answer(c)
      BY <2>1, <3>2, <3>3, Zenon DEF Service!Answer
    <3> QED
      BY <3>4 DEF Service!Next
  <2> QED
    BY <1>6, <2>2, <2>3 DEF HandleWrite, Take
<1>7. UNCHANGED vars => UNCHANGED <<asked, replies>>
  BY DEF vars, peerVars, serverVars
<1> QED
  BY <1>1, <1>2, <1>3, <1>4, <1>5, <1>6, <1>7 DEF Next, Peers, Run

(* Every connection is answered at most once, and only after a read took   *)
(* something from it.                                                      *)
THEOREM NioRefines == Spec => ImplementsOneShot
<1>1. Spec => [][Service!Next]_(Service!vars)
  BY Invariance, StepRefines, PTL DEF Spec
<1> QED
  BY InitRefines, <1>1, PTL DEF Spec, ImplementsOneShot, Service!Spec

=============================================================================
