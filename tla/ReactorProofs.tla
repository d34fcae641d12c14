---------------------------- MODULE ReactorProofs ----------------------------
(***************************************************************************)
(* Theorems about Reactor, for every set of clients and of threads, every  *)
(* buffer capacity and either behaviour of register().                     *)
(***************************************************************************)
EXTENDS Reactor, TLAPS

(* No read returns what was not sent.                                      *)
ReadIsSent == \A c \in Clients : unread[c] <= sent[c]

(* A thread past accept() works on a connection.                           *)
JobIsConnection ==
  \A t \in Threads : pc[t] \notin {"idle", "accept"} => job[t] \in Clients

TypeInv == TypeOK /\ ReadIsSent /\ JobIsConnection

LEMMA InitTypes == Init => TypeInv
<1> SUFFICES ASSUME Init
             PROVE  TypeInv
  OBVIOUS
<1> USE ReactorAssumption DEF Init
<1>1. TypeOK
  <2>1. /\ client \in [Clients -> {"idle", "open", "closed", "reset"}]
        /\ backlog \in SUBSET Clients
        /\ sent \in [Clients -> 0 .. MaxSent]
        /\ unread \in [Clients -> 0 .. MaxSent]
    OBVIOUS
  <2>2. /\ interest \in [Clients -> Ops]
        /\ attached \in SUBSET Clients
        /\ wakeup \in BOOLEAN
        /\ server \in {"loop", "select", "dispatch"}
        /\ polled \in [Clients -> Ops]
    BY DEF Ops
  <2>3. /\ selected \in SUBSET Keys
        /\ todo \in SUBSET Keys
        /\ pc \in [Threads -> {"idle"} \cup AcceptorPcs \cup HandlerPcs]
        /\ job \in [Threads -> Keys]
    BY DEF Keys
  <2>4. /\ state \in [Clients -> {"READING", "SENDING"}]
        /\ inPos \in [Clients -> 0 .. InCap]
        /\ out \in [Clients -> BOOLEAN]
        /\ replies \in [Clients -> Nat]
    OBVIOUS
  <2> QED
    BY <2>1, <2>2, <2>3, <2>4 DEF TypeOK
<1>2. ReadIsSent /\ JobIsConnection
  BY DEF ReadIsSent, JobIsConnection
<1> QED
  BY <1>1, <1>2 DEF TypeInv

(* What a read moves is no more than the queue holds or the buffer has     *)
(* room for.                                                               *)
LEMMA UnitsReadBounds ==
  ASSUME TypeOK, NEW c \in Clients
  PROVE  /\ UnitsRead(c) \in Nat
         /\ UnitsRead(c) <= unread[c]
         /\ inPos[c] + UnitsRead(c) <= InCap
BY ReactorAssumption DEF TypeOK, UnitsRead

LEMMA StepTypes == TypeInv /\ [Next]_vars => TypeInv'
<1> SUFFICES ASSUME TypeInv, [Next]_vars
             PROVE  TypeInv'
  OBVIOUS
<1> USE ReactorAssumption DEF TypeInv, TypeOK, ReadIsSent, JobIsConnection, Keys, Ops,
        peerVars, socketVars, keyVars, serverVars, handlerVars
<1>1. ASSUME NEW c \in Clients, Connect(c) PROVE TypeInv'
  BY <1>1 DEF Connect
<1>2. ASSUME NEW c \in Clients, Send(c) PROVE TypeInv'
  BY <1>2 DEF Send
<1>3. ASSUME NEW c \in Clients, Close(c) PROVE TypeInv'
  BY <1>3 DEF Close
<1>4. ASSUME NEW c \in Clients, Reset(c) PROVE TypeInv'
  BY <1>4 DEF Reset
<1>5. CASE SelectEnter
  BY <1>5 DEF SelectEnter
<1>6. CASE SelectReturn
  BY <1>6 DEF SelectReturn, ReadyKeys
<1>7. ASSUME NEW k \in Keys, NEW t \in Threads, Dispatch(k, t) PROVE TypeInv'
  BY <1>7 DEF Dispatch, AcceptorPcs, HandlerPcs
<1>8. CASE RoundEnd
  BY <1>8 DEF RoundEnd
<1>9. ASSUME NEW t \in Threads, AcceptorStep(t) PROVE TypeInv'
  <2> USE DEF Goto, Finish, AcceptorPcs
  <2>1. CASE Accept(t)
    BY <2>1 DEF Accept
  <2>2. CASE Register(t)
    BY <2>2 DEF Register
  <2>3. CASE Attach(t)
    BY <2>3 DEF Attach
  <2>4. CASE InterestRead(t)
    BY <2>4 DEF InterestRead
  <2>5. CASE Wakeup(t)
    BY <2>5 DEF Wakeup
  <2> QED
    BY <1>9, <2>1, <2>2, <2>3, <2>4, <2>5 DEF AcceptorStep
<1>10. ASSUME NEW t \in Threads, HandlerStep(t) PROVE TypeInv'
  <2> USE DEF Goto, Finish, HandlerPcs
  <2>1. CASE Run(t)
    BY <2>1 DEF Run
  <2>2. CASE Read(t)
    BY <2>2, UnitsReadBounds DEF Read, Fill
  <2>3. CASE InputComplete(t)
    BY <2>3, UnitsReadBounds DEF InputComplete, Fill
  <2>4. CASE SetSending(t)
    BY <2>4 DEF SetSending
  <2>5. CASE InterestWrite(t)
    BY <2>5 DEF InterestWrite
  <2>6. CASE ClearIn(t)
    BY <2>6 DEF ClearIn
  <2>7. CASE Write(t)
    <3>1. job[t] \in Clients
      BY <2>7 DEF Write
    <3>2. out' \in [Clients -> BOOLEAN]
      <4>1. out' = out \/ out' = [out EXCEPT ![job[t]] = FALSE]
        BY <2>7 DEF Write
      <4> QED
        BY <4>1, Zenon
    <3>3. replies' \in [Clients -> Nat]
      <4>1. replies' = replies \/ replies' = [replies EXCEPT ![job[t]] = @ + 1]
        BY <2>7 DEF Write
      <4> QED
        BY <4>1, <3>1
    <3>4. UNCHANGED <<peerVars, socketVars, keyVars, wakeup, serverVars, state,
                      inPos>> /\ Finish(t)
      BY <2>7 DEF Write
    <3> QED
      BY <3>2, <3>3, <3>4
  <2> QED
    BY <1>10, <2>1, <2>2, <2>3, <2>4, <2>5, <2>6, <2>7 DEF HandlerStep
<1>11. CASE UNCHANGED vars
  BY <1>11 DEF vars
<1> QED
  BY <1>1, <1>2, <1>3, <1>4, <1>5, <1>6, <1>7, <1>8, <1>9, <1>10, <1>11
     DEF Next, Peers, Server

(* Every variable keeps its type: in particular no read overfills a        *)
(* handler's buffer or takes more than the peer has sent, however many     *)
(* threads read at once.                                                   *)
THEOREM TypeCorrect == Spec => []TypeOK
<1>1. TypeInv => TypeOK
  BY DEF TypeInv
<1> QED
  BY <1>1, InitTypes, StepTypes, PTL DEF Spec

-----------------------------------------------------------------------------
(* SelectedHasHandler.  A key gets an interest only after its attachment,  *)
(* and attachments are never taken away; so whatever a selection looks at, *)
(* selects or has dispatched is attached.                                  *)

AttachInv ==
  /\ \A c \in Clients : interest[c] \in {"READ", "WRITE"} => c \in attached
  /\ \A c \in Clients : polled[c] \in {"READ", "WRITE"} => c \in attached
  /\ SelectedHasHandler
  /\ todo \subseteq selected
  /\ \A t \in Threads :
       pc[t] \in HandlerPcs \cup {"interestRead"} => job[t] \in attached

LEMMA InitAttach == Init => AttachInv
BY DEF Init, AttachInv, SelectedHasHandler, HandlerPcs

LEMMA StepAttach == TypeInv /\ AttachInv /\ [Next]_vars => AttachInv'
<1> SUFFICES ASSUME TypeInv, AttachInv, [Next]_vars
             PROVE  AttachInv'
  OBVIOUS
<1> USE ReactorAssumption
    DEF TypeInv, TypeOK, JobIsConnection, AttachInv, SelectedHasHandler,
        HasAttachment, Keys, Ops, HandlerPcs, peerVars, socketVars, keyVars,
        serverVars, handlerVars
<1>1. ASSUME NEW c \in Clients, Connect(c) \/ Send(c) \/ Close(c) \/ Reset(c)
      PROVE  AttachInv'
  BY <1>1 DEF Connect, Send, Close, Reset
<1>2. CASE SelectEnter
  BY <1>2 DEF SelectEnter
<1>3. CASE SelectReturn
  BY <1>3 DEF SelectReturn, ReadyKeys, ReadyUnder
<1>4. ASSUME NEW k \in Keys, NEW t \in Threads, Dispatch(k, t)
      PROVE  AttachInv'
  BY <1>4 DEF Dispatch
<1>5. CASE RoundEnd
  BY <1>5 DEF RoundEnd
<1>6. ASSUME NEW t \in Threads, AcceptorStep(t)
      PROVE  AttachInv'
  <2> USE DEF Goto, Finish
  <2>1. CASE Accept(t)
    BY <2>1 DEF Accept
  <2>2. CASE Register(t)
    BY <2>2 DEF Register
  <2>3. CASE Attach(t)
    BY <2>3 DEF Attach
  <2>4. CASE InterestRead(t)
    BY <2>4 DEF InterestRead
  <2>5. CASE Wakeup(t)
    BY <2>5 DEF Wakeup
  <2> QED
    BY <1>6, <2>1, <2>2, <2>3, <2>4, <2>5 DEF AcceptorStep
<1>7. ASSUME NEW t \in Threads, HandlerStep(t)
      PROVE  AttachInv'
  <2> USE DEF Goto, Finish
  <2>1. CASE Run(t)
    BY <2>1 DEF Run
  <2>2. CASE Read(t)
    BY <2>2 DEF Read, Fill
  <2>3. CASE InputComplete(t)
    BY <2>3 DEF InputComplete, Fill
  <2>4. CASE SetSending(t)
    BY <2>4 DEF SetSending
  <2>5. CASE InterestWrite(t)
    BY <2>5 DEF InterestWrite
  <2>6. CASE ClearIn(t)
    BY <2>6 DEF ClearIn
  <2>7. CASE Write(t)
    BY <2>7 DEF Write
  <2> QED
    BY <1>7, <2>1, <2>2, <2>3, <2>4, <2>5, <2>6, <2>7 DEF HandlerStep
<1>8. CASE UNCHANGED vars
  BY <1>8 DEF vars
<1> QED
  BY <1>1, <1>2, <1>3, <1>4, <1>5, <1>6, <1>7, <1>8 DEF Next, Peers, Server

(* A selected key has its handler attached, so dispatch() never drops an   *)
(* event, whatever the Acceptor threads are doing meanwhile.               *)
THEOREM SelectedKeysHaveHandlers == Spec => []SelectedHasHandler
<1>1. AttachInv => SelectedHasHandler
  BY DEF AttachInv
<1> QED
  BY <1>1, InitTypes, StepTypes, InitAttach, StepAttach, PTL DEF Spec

-----------------------------------------------------------------------------
(* NoUnaskedReply.  Its peer must have sent something, or be gone, before  *)
(* a key is selected (Asked).  The first read of a handler thread then     *)
(* either takes something, or finds nothing: because the queue is empty,   *)
(* so what the peer sent was taken before, or because "in" is full.  In    *)
(* each case the peer was Heard when the thread reaches isInputComplete(). *)

Asked(c) == sent[c] > 0 \/ Gone(c)

HeardInv ==
  /\ \A c \in Clients : inPos[c] > 0 => Heard(c)
  /\ \A c \in Clients : interest[c] = "WRITE" => Heard(c)
  /\ \A c \in Clients : polled[c] = "WRITE" => Heard(c)
  /\ NoUnaskedReply
  /\ \A c \in Clients : c \in selected \cup todo => Asked(c)
  /\ \A t \in Threads : pc[t] \in HandlerPcs => Asked(job[t])
  /\ \A t \in Threads : pc[t] \in HandlerPcs \ {"run", "read"} => Heard(job[t])

LEMMA InitHeard == Init => HeardInv
BY DEF Init, HeardInv, NoUnaskedReply, HandlerPcs

(* Once heard, always heard.                                               *)
LEMMA HeardIsStable ==
  ASSUME TypeInv, [Next]_vars, NEW c \in Clients
  PROVE  /\ Heard(c) => Heard(c)'
         /\ Asked(c) => Asked(c)'
         /\ Heard(c) => Asked(c)
<1> USE ReactorAssumption
    DEF TypeInv, TypeOK, ReadIsSent, JobIsConnection, Heard, Asked, Gone,
        peerVars, socketVars
<1>1. Heard(c) => Asked(c)
  OBVIOUS
<1>2. ASSUME NEW d \in Clients, Connect(d) \/ Send(d) \/ Close(d) \/ Reset(d)
      PROVE  (Heard(c) => Heard(c)') /\ (Asked(c) => Asked(c)')
  BY <1>2 DEF Connect, Send, Close, Reset
<1>3. ASSUME NEW t \in Threads, Read(t) \/ InputComplete(t)
      PROVE  (Heard(c) => Heard(c)') /\ (Asked(c) => Asked(c)')
  BY <1>3, UnitsReadBounds DEF Read, InputComplete, Fill
<1>4. CASE UNCHANGED <<client, sent, unread>>
  BY <1>4
<1>5. Server => UNCHANGED <<client, sent, unread>>
  BY DEF Server, SelectEnter, SelectReturn, Dispatch, RoundEnd
<1>6. ASSUME NEW t \in Threads, AcceptorStep(t)
      PROVE  UNCHANGED <<client, sent, unread>>
  BY <1>6 DEF AcceptorStep, Accept, Register, Attach, InterestRead, Wakeup
<1>7. ASSUME NEW t \in Threads, HandlerStep(t), ~ (Read(t) \/ InputComplete(t))
      PROVE  UNCHANGED <<client, sent, unread>>
  BY <1>7 DEF HandlerStep, Run, SetSending, InterestWrite, ClearIn, Write
<1>8. UNCHANGED vars => UNCHANGED <<client, sent, unread>>
  BY DEF vars
<1> QED
  BY <1>1, <1>2, <1>3, <1>4, <1>5, <1>6, <1>7, <1>8 DEF Next, Peers

(* A read on behalf of a peer that asked leaves the peer heard.            *)
LEMMA ReadHears ==
  ASSUME TypeInv, HeardInv, NEW c \in Clients, Asked(c), Fill(c),
         client' = client, sent' = sent
  PROVE  Heard(c)'
BY ReactorAssumption
   DEF TypeInv, TypeOK, ReadIsSent, HeardInv, Heard, Asked, Gone, Fill, UnitsRead

LEMMA StepHeard == TypeInv /\ HeardInv /\ [Next]_vars => HeardInv'
<1> SUFFICES ASSUME TypeInv, HeardInv, [Next]_vars
             PROVE  HeardInv'
  OBVIOUS
<1>0. \A c \in Clients : /\ Heard(c) => Heard(c)'
                         /\ Asked(c) => Asked(c)'
                         /\ Heard(c) => Asked(c)
  BY HeardIsStable
<1> USE <1>0, ReactorAssumption
    DEF TypeInv, TypeOK, JobIsConnection, HeardInv, NoUnaskedReply, Keys, Ops,
        HandlerPcs, peerVars, socketVars, keyVars, serverVars, handlerVars
<1>1. ASSUME NEW c \in Clients, Connect(c) \/ Send(c) \/ Close(c) \/ Reset(c)
      PROVE  HeardInv'
  BY <1>1 DEF Connect, Send, Close, Reset
<1>2. CASE SelectEnter
  BY <1>2 DEF SelectEnter
<1>3. CASE SelectReturn
  BY <1>3 DEF SelectReturn, ReadyKeys, ReadyUnder, Asked, ReadIsSent
<1>4. ASSUME NEW k \in Keys, NEW t \in Threads, Dispatch(k, t)
      PROVE  HeardInv'
  BY <1>4 DEF Dispatch
<1>5. CASE RoundEnd
  BY <1>5 DEF RoundEnd
<1>6. ASSUME NEW t \in Threads, AcceptorStep(t)
      PROVE  HeardInv'
  <2> USE DEF Goto, Finish
  <2>1. CASE Accept(t)
    BY <2>1 DEF Accept
  <2>2. CASE Register(t)
    BY <2>2 DEF Register
  <2>3. CASE Attach(t)
    BY <2>3 DEF Attach
  <2>4. CASE InterestRead(t)
    BY <2>4 DEF InterestRead
  <2>5. CASE Wakeup(t)
    BY <2>5 DEF Wakeup
  <2> QED
    BY <1>6, <2>1, <2>2, <2>3, <2>4, <2>5 DEF AcceptorStep
<1>7. ASSUME NEW t \in Threads, HandlerStep(t)
      PROVE  HeardInv'
  <2> USE DEF Goto, Finish
  <2>1. CASE Run(t)
    BY <2>1 DEF Run
  <2>2. CASE Read(t)
    BY <2>2, ReadHears DEF Read, Fill
  <2>3. CASE InputComplete(t)
    BY <2>3, ReadHears DEF InputComplete, Fill
  <2>4. CASE SetSending(t)
    BY <2>4 DEF SetSending
  <2>5. CASE InterestWrite(t)
    BY <2>5 DEF InterestWrite
  <2>6. CASE ClearIn(t)
    BY <2>6 DEF ClearIn
  <2>7. CASE Write(t)
    BY <2>7 DEF Write
  <2> QED
    BY <1>7, <2>1, <2>2, <2>3, <2>4, <2>5, <2>6, <2>7 DEF HandlerStep
<1>8. CASE UNCHANGED vars
  BY <1>8 DEF vars
<1> QED
  BY <1>1, <1>2, <1>3, <1>4, <1>5, <1>6, <1>7, <1>8 DEF Next, Peers, Server

(* No connection is answered, and no handler turns to SENDING, before its  *)
(* peer was heard - however many threads read for it at the same time.     *)
THEOREM NoReplyUnasked == Spec => []NoUnaskedReply
<1>1. HeardInv => NoUnaskedReply
  BY DEF HeardInv
<1> QED
  BY <1>1, InitTypes, StepTypes, InitHeard, StepHeard, PTL DEF Spec

-----------------------------------------------------------------------------
(* WriteInterestKept.  One Acceptor thread at most builds the handler of a *)
(* connection, and until it has set OP_READ no selection sees the key and  *)
(* no thread runs the handler; after that only handler threads set the     *)
(* interest, always to OP_WRITE and always after SENDING.                  *)

Building == {"register", "attach", "interestRead"}

Unregistered(c) == interest[c] \in {"NONE", "ZERO"}

BuildInv ==
  /\ \A c \in Clients : client[c] = "idle" => c \notin backlog
  /\ \A c \in Clients : client[c] = "idle" \/ c \in backlog => interest[c] = "NONE"
  /\ \A t \in Threads : pc[t] \in Building \cup HandlerPcs
       => client[job[t]] # "idle" /\ job[t] \notin backlog
  /\ \A t \in Threads : pc[t] = "register" => interest[job[t]] = "NONE"
  /\ \A t \in Threads :
       pc[t] \in {"attach", "interestRead"} => interest[job[t]] = "ZERO"
  /\ \A t, u \in Threads :
       pc[t] \in Building /\ pc[u] \in Building /\ job[t] = job[u] => t = u

InterestInv ==
  /\ \A c \in Clients : Unregistered(c)
       => /\ state[c] = "READING"
          /\ polled[c] \notin {"READ", "WRITE"}
          /\ c \notin selected \cup todo
  /\ \A t \in Threads : pc[t] \in HandlerPcs => ~ Unregistered(job[t])
  /\ \A t \in Threads : pc[t] = "interestWrite" => state[job[t]] = "SENDING"
  /\ \A c \in Clients : interest[c] = "WRITE" => state[c] = "SENDING"
  /\ \A c \in Clients : interest[c] = "READ" /\ state[c] = "SENDING"
       => \E t \in Threads : job[t] = c /\ pc[t] = "interestWrite"

LEMMA InitInterest == Init => BuildInv /\ InterestInv
BY DEF Init, BuildInv, InterestInv, Unregistered, Building, HandlerPcs

LEMMA StepInterest ==
  TypeInv /\ BuildInv /\ InterestInv /\ [Next]_vars => BuildInv' /\ InterestInv'
<1> SUFFICES ASSUME TypeInv, BuildInv, InterestInv, [Next]_vars
             PROVE  BuildInv' /\ InterestInv'
  OBVIOUS
<1> USE ReactorAssumption
    DEF TypeInv, TypeOK, JobIsConnection, BuildInv, InterestInv, Unregistered,
        Building, Keys, Ops, HandlerPcs, peerVars, socketVars, keyVars,
        serverVars, handlerVars
<1>1. ASSUME NEW c \in Clients, Connect(c) \/ Send(c) \/ Close(c) \/ Reset(c)
      PROVE  BuildInv' /\ InterestInv'
  BY <1>1 DEF Connect, Send, Close, Reset
<1>2. CASE SelectEnter
  BY <1>2 DEF SelectEnter
<1>3. CASE SelectReturn
  BY <1>3 DEF SelectReturn, ReadyKeys, ReadyUnder
<1>4. ASSUME NEW k \in Keys, NEW t \in Threads, Dispatch(k, t)
      PROVE  BuildInv' /\ InterestInv'
  BY <1>4 DEF Dispatch
<1>5. CASE RoundEnd
  BY <1>5 DEF RoundEnd
<1>6. ASSUME NEW t \in Threads, AcceptorStep(t)
      PROVE  BuildInv' /\ InterestInv'
  <2> USE DEF Goto, Finish
  <2>1. CASE Accept(t)
    BY <2>1 DEF Accept
  <2>2. CASE Register(t)
    BY <2>2 DEF Register
  <2>3. CASE Attach(t)
    BY <2>3 DEF Attach
  <2>4. CASE InterestRead(t)
    BY <2>4 DEF InterestRead
  <2>5. CASE Wakeup(t)
    BY <2>5 DEF Wakeup
  <2> QED
    BY <1>6, <2>1, <2>2, <2>3, <2>4, <2>5 DEF AcceptorStep
<1>7. ASSUME NEW t \in Threads, HandlerStep(t)
      PROVE  BuildInv' /\ InterestInv'
  <2> USE DEF Goto, Finish
  <2>1. CASE Run(t)
    BY <2>1 DEF Run
  <2>2. CASE Read(t)
    BY <2>2 DEF Read, Fill
  <2>3. CASE InputComplete(t)
    BY <2>3 DEF InputComplete, Fill
  <2>4. CASE SetSending(t)
    BY <2>4 DEF SetSending
  <2>5. CASE InterestWrite(t)
    BY <2>5 DEF InterestWrite
  <2>6. CASE ClearIn(t)
    BY <2>6 DEF ClearIn
  <2>7. CASE Write(t)
    BY <2>7 DEF Write
  <2> QED
    BY <1>7, <2>1, <2>2, <2>3, <2>4, <2>5, <2>6, <2>7 DEF HandlerStep
<1>8. CASE UNCHANGED vars
  BY <1>8 DEF vars
<1> QED
  BY <1>1, <1>2, <1>3, <1>4, <1>5, <1>6, <1>7, <1>8 DEF Next, Peers, Server

(* A registered connection nobody works on waits for OP_WRITE exactly when *)
(* its handler is SENDING: no thread's interestOps() is lost to another's. *)
THEOREM WriteInterestIsKept == Spec => []WriteInterestKept
<1>1. TypeInv /\ InterestInv => WriteInterestKept
  BY DEF TypeInv, TypeOK, Ops, InterestInv, Unregistered, WriteInterestKept
<1> QED
  BY <1>1, InitTypes, StepTypes, InitInterest, StepInterest, PTL DEF Spec

-----------------------------------------------------------------------------
(* ImplementsOneShot.  A step of a peer or of a read may make one more     *)
(* peer heard, which is an Ask; the write that drains "out" is an Answer;  *)
(* every other step stutters.                                              *)

ReplyInv == \A c \in Clients : replies[c] = IF out[c] THEN 0 ELSE 1

LEMMA InitReply == Init => ReplyInv
BY DEF Init, ReplyInv

LEMMA StepReply == TypeInv /\ ReplyInv /\ [Next]_vars => ReplyInv'
<1> SUFFICES ASSUME TypeInv, ReplyInv, [Next]_vars
             PROVE  ReplyInv'
  OBVIOUS
<1>1. ASSUME NEW t \in Threads, Write(t)
      PROVE  ReplyInv'
  <2> USE <1>1 DEF Write, TypeInv, TypeOK, JobIsConnection
  <2>1. CASE UNCHANGED <<out, replies>>
    BY <2>1 DEF ReplyInv
  <2>2. CASE /\ out[job[t]]
             /\ out' = [out EXCEPT ![job[t]] = FALSE]
             /\ replies' = [replies EXCEPT ![job[t]] = @ + 1]
    <3>1. job[t] \in Clients /\ replies[job[t]] = 0
      BY <2>2 DEF ReplyInv
    <3>2. ~ out'[job[t]] /\ replies'[job[t]] = 1
      BY <2>2, <3>1
    <3>3. \A c \in Clients \ {job[t]} : out'[c] = out[c] /\ replies'[c] = replies[c]
      BY <2>2
    <3> QED
      BY <3>2, <3>3 DEF ReplyInv
  <2> QED
    BY <2>1, <2>2
<1>2. CASE UNCHANGED <<out, replies>>
  BY <1>2 DEF ReplyInv
<1>3. Peers \/ Server => UNCHANGED <<out, replies>>
  BY DEF Peers, Connect, Send, Close, Reset, Server, SelectEnter, SelectReturn,
         Dispatch, RoundEnd, handlerVars
<1>4. ASSUME NEW t \in Threads, AcceptorStep(t)
      PROVE  UNCHANGED <<out, replies>>
  BY <1>4 DEF AcceptorStep, Accept, Register, Attach, InterestRead, Wakeup,
              handlerVars
<1>5. ASSUME NEW t \in Threads, HandlerStep(t), ~ Write(t)
      PROVE  UNCHANGED <<out, replies>>
  BY <1>5 DEF HandlerStep, Run, Read, InputComplete, SetSending, InterestWrite,
              ClearIn, handlerVars
<1>6. UNCHANGED vars => UNCHANGED <<out, replies>>
  BY DEF vars, handlerVars
<1> QED
  BY <1>1, <1>2, <1>3, <1>4, <1>5, <1>6 DEF Next

LEMMA InitRefines == Init => Service!Init
BY DEF Init, Service!Init, Heard, Gone

(* A step that leaves the replies alone and makes at most connection c     *)
(* heard is an Ask(c) or a stutter.                                        *)
LEMMA HearingIsAsking ==
  ASSUME TypeInv, [Next]_vars, NEW c \in Clients, UNCHANGED replies,
         \A d \in Clients \ {c} : Heard(d) <=> Heard(d)'
  PROVE  [Service!Next]_(Service!vars)
<1>1. Heard(c) => Heard(c)'
  BY HeardIsStable
<1>2. CASE Heard(c) <=> Heard(c)'
  <2>1. {d \in Clients : Heard(d)}' = {d \in Clients : Heard(d)}
    BY <1>2
  <2> QED
    BY <2>1 DEF Service!vars
<1>3. CASE ~ Heard(c) /\ Heard(c)'
  <2>1. c \notin {d \in Clients : Heard(d)}
    BY <1>3
  <2>2. {d \in Clients : Heard(d)}' = {d \in Clients : Heard(d)} \cup {c}
    BY <1>3
  <2> QED
    BY <2>1, <2>2 DEF Service!Next, Service!Ask
<1> QED
  BY <1>1, <1>2, <1>3

LEMMA StepRefines ==
  TypeInv /\ HeardInv /\ ReplyInv /\ [Next]_vars
    => [Service!Next]_(Service!vars)
<1> SUFFICES ASSUME TypeInv, HeardInv, ReplyInv, [Next]_vars
             PROVE  [Service!Next]_(Service!vars)
  OBVIOUS
<1>1. ASSUME NEW c \in Clients, Connect(c) \/ Send(c) \/ Close(c) \/ Reset(c)
      PROVE  [Service!Next]_(Service!vars)
  <2>1. \A d \in Clients \ {c} : Heard(d) <=> Heard(d)'
    BY <1>1 DEF Connect, Send, Close, Reset, TypeInv, TypeOK, Heard, Gone,
                socketVars
  <2>2. UNCHANGED replies
    BY <1>1 DEF Connect, Send, Close, Reset, handlerVars
  <2> QED
    BY <2>1, <2>2, HearingIsAsking
<1>2. ASSUME NEW t \in Threads, Read(t) \/ InputComplete(t)
      PROVE  [Service!Next]_(Service!vars)
  <2>1. job[t] \in Clients /\ UNCHANGED replies
    BY <1>2 DEF TypeInv, JobIsConnection, Read, InputComplete
  <2>2. \A d \in Clients \ {job[t]} : Heard(d) <=> Heard(d)'
    BY <1>2, <2>1 DEF Read, InputComplete, Fill, TypeInv, TypeOK, Heard, Gone,
                      peerVars
  <2> QED
    BY <2>1, <2>2, HearingIsAsking
<1>3. ASSUME NEW t \in Threads, Write(t)
      PROVE  [Service!Next]_(Service!vars)
  <2>1. {d \in Clients : Heard(d)}' = {d \in Clients : Heard(d)}
    BY <1>3 DEF Write, Heard, Gone, peerVars, socketVars
  <2>2. CASE UNCHANGED replies
    BY <2>1, <2>2 DEF Service!vars
  <2>3. CASE out[job[t]] /\ replies' = [replies EXCEPT ![job[t]] = @ + 1]
    <3>1. job[t] \in Clients /\ Heard(job[t])
      BY <1>3 DEF Write, TypeInv, JobIsConnection, HeardInv, HandlerPcs
    <3>2. replies[job[t]] = 0
      BY <2>3, <3>1 DEF ReplyInv
    <3>3. replies' = [replies EXCEPT ![job[t]] = 1]
      BY <2>3, <3>2
    <3>4. Service!Answer(job[t])
      BY <2>1, <3>1, <3>2, <3>3, Zenon DEF Service!Answer
    <3> QED
      BY <3>1, <3>4 DEF Service!Next
  <2> QED
    BY <1>3, <2>2, <2>3 DEF Write
<1>4. CASE UNCHANGED <<client, sent, unread, replies>>
  BY <1>4 DEF Service!vars, Heard, Gone
<1>5. Server => UNCHANGED <<client, sent, unread, replies>>
  BY DEF Server, SelectEnter, SelectReturn, Dispatch, RoundEnd, peerVars,
         socketVars, handlerVars
<1>6. ASSUME NEW t \in Threads, AcceptorStep(t)
      PROVE  UNCHANGED <<client, sent, unread, replies>>
  BY <1>6 DEF AcceptorStep, Accept, Register, Attach, InterestRead, Wakeup,
              peerVars, socketVars, handlerVars
<1>7. ASSUME NEW t \in Threads, HandlerStep(t),
             ~ (Read(t) \/ InputComplete(t) \/ Write(t))
      PROVE  UNCHANGED <<client, sent, unread, replies>>
  BY <1>7 DEF HandlerStep, Run, SetSending, InterestWrite, ClearIn, peerVars,
              socketVars, handlerVars
<1>8. UNCHANGED vars => UNCHANGED <<client, sent, unread, replies>>
  BY DEF vars, peerVars, socketVars, handlerVars
<1> QED
  BY <1>1, <1>2, <1>3, <1>4, <1>5, <1>6, <1>7, <1>8 DEF Next, Peers

(* Seen from its peers the reactor is a server that answers each           *)
(* connection at most once, and only one that asked, although any number   *)
(* of threads runs in one handler without a lock.                          *)
THEOREM ReactorRefines == Spec => ImplementsOneShot
<1>1. Init => Service!Init
  BY InitRefines
<1>2. Spec => [][Service!Next]_(Service!vars)
  BY InitTypes, StepTypes, InitHeard, StepHeard, InitReply, StepReply,
     StepRefines, PTL DEF Spec
<1> QED
  BY <1>1, <1>2, PTL DEF Spec, ImplementsOneShot, Service!Spec

=============================================================================
