------------------------------- MODULE Reactor -------------------------------
(***************************************************************************)
(* com.tool.server.ractor: ReactorSingleEchoServer and                     *)
(* ReactorSingleHandler.                                                   *)
(*                                                                         *)
(* The "main server" thread selects and, for every selected key, starts a  *)
(* new thread that runs the key's attachment: the Acceptor, which accepts  *)
(* a connection and builds its handler, or a handler, which reads until a  *)
(* second read finds nothing and from then on writes.  Selection is level  *)
(* triggered, so a key that stays ready is dispatched again and again and  *)
(* several threads run in the Acceptor, or in one handler, at once.        *)
(*                                                                         *)
(* The JDK selector and the peers' TCP stacks are not in the repository;   *)
(* they are modelled from how the two classes use them:                    *)
(*  - a selection looks at the interest sets as they were when select()    *)
(*    was entered (polled), and selects a key whose ready operation is     *)
(*    also in the interest set of the moment;                              *)
(*  - wakeup() ends the selection in progress or else the next one;        *)
(*  - register() waits for a selection in progress in the runtimes of the  *)
(*    pom's 1.7 target and does not since JDK 11: RegisterBlocks.          *)
(* Bytes are counted in units of which the handler's buffer "in" holds     *)
(* InCap.  The reply is whatever "out" holds, written as a whole.          *)
(*                                                                         *)
(* The field "state" is read and written without a lock.  A thread started *)
(* for OP_READ that reads a stale READING behaves as one that was          *)
(* dispatched and ran its check a moment earlier, an interleaving the      *)
(* model has; a thread started for OP_WRITE was started after the          *)
(* selector saw OP_WRITE, which orders it after the assignment.            *)
(***************************************************************************)
EXTENDS Naturals, FiniteSets

CONSTANTS Clients,         \* connections the peers may open
          Threads,         \* slots for the threads dispatch() starts (bound)
          AcceptKey,       \* the selection key of the server socket channel
          InCap,           \* capacity of ReactorSingleHandler.in
          MaxSent,         \* units each client may send (bound)
          RegisterBlocks   \* whether register() waits for select()

ASSUME ReactorAssumption ==
  /\ AcceptKey \notin Clients
  /\ InCap \in Nat \ {0}
  /\ MaxSent \in Nat
  /\ RegisterBlocks \in BOOLEAN

VARIABLES
  client,      \* each peer: "idle", "open", "closed" (FIN sent), "reset"
  backlog,     \* connections the kernel established and nobody accepted
  sent,        \* units the client has sent
  unread,      \* of those, the ones still in the socket's receive queue
  interest,    \* interest set of the connection's key; "NONE": not registered
  attached,    \* connections whose key has its handler attached
  wakeup,      \* a wakeup() no selection has consumed
  server,      \* the main server thread: "loop", "select" or "dispatch"
  polled,      \* the interest sets the selection in progress looks at; all
               \* "NONE" between selections
  selected,    \* Selector.selectedKeys()
  todo,        \* the keys the iterator has still to return
  pc,          \* each started thread: the statement it executes next
  job,         \* the key it was started for; in the Acceptor, after accept(),
               \* the connection it builds the handler of
  state,       \* ReactorSingleHandler.state
  inPos,       \* position of ReactorSingleHandler.in
  out,         \* whether ReactorSingleHandler.out has remaining bytes
  replies      \* how often the contents of out reached the socket (history)

peerVars    == <<client, sent>>
socketVars  == <<backlog, unread>>
keyVars     == <<interest, attached>>
serverVars  == <<server, polled, selected, todo>>
handlerVars == <<state, inPos, out, replies>>
vars == <<peerVars, socketVars, keyVars, wakeup, serverVars, pc, job,
          handlerVars>>

-----------------------------------------------------------------------------
(* Types. *)

Ops == {"NONE", "ZERO", "READ", "WRITE"}

Keys == Clients \cup {AcceptKey}

AcceptorPcs == {"accept", "register", "attach", "interestRead", "wakeup"}
HandlerPcs  == {"run", "read", "complete", "sending", "interestWrite",
                "clear", "write"}

TypeOK ==
  /\ client \in [Clients -> {"idle", "open", "closed", "reset"}]
  /\ backlog \in SUBSET Clients
  /\ sent \in [Clients -> 0 .. MaxSent]
  /\ unread \in [Clients -> 0 .. MaxSent]
  /\ interest \in [Clients -> Ops]
  /\ attached \in SUBSET Clients
  /\ wakeup \in BOOLEAN
  /\ server \in {"loop", "select", "dispatch"}
  /\ polled \in [Clients -> Ops]
  /\ selected \in SUBSET Keys
  /\ todo \in SUBSET Keys
  /\ pc \in [Threads -> {"idle"} \cup AcceptorPcs \cup HandlerPcs]
  /\ job \in [Threads -> Keys]
  /\ state \in [Clients -> {"READING", "SENDING"}]
  /\ inPos \in [Clients -> 0 .. InCap]
  /\ out \in [Clients -> BOOLEAN]
  /\ replies \in [Clients -> Nat]

Init ==
  /\ client = [c \in Clients |-> "idle"]
  /\ backlog = {}
  /\ sent = [c \in Clients |-> 0]
  /\ unread = [c \in Clients |-> 0]
  /\ interest = [c \in Clients |-> "NONE"]
  /\ attached = {}
  /\ wakeup = FALSE
  /\ server = "loop"
  /\ polled = [c \in Clients |-> "NONE"]
  /\ selected = {}
  /\ todo = {}
  /\ pc = [t \in Threads |-> "idle"]
  /\ job = [t \in Threads |-> AcceptKey]
  /\ state = [c \in Clients |-> "READING"]
  /\ inPos = [c \in Clients |-> 0]
  /\ out = [c \in Clients |-> TRUE]
  /\ replies = [c \in Clients |-> 0]

-----------------------------------------------------------------------------
(* The peers. *)

Connect(c) ==
  /\ client[c] = "idle"
  /\ client' = [client EXCEPT ![c] = "open"]
  /\ backlog' = backlog \cup {c}
  /\ UNCHANGED <<sent, unread, keyVars, wakeup, serverVars, pc, job,
                 handlerVars>>

Send(c) ==
  /\ client[c] = "open"
  /\ sent[c] < MaxSent
  /\ sent' = [sent EXCEPT ![c] = @ + 1]
  /\ unread' = [unread EXCEPT ![c] = @ + 1]
  /\ UNCHANGED <<client, backlog, keyVars, wakeup, serverVars, pc, job,
                 handlerVars>>

Close(c) ==
  /\ client[c] = "open"
  /\ client' = [client EXCEPT ![c] = "closed"]
  /\ UNCHANGED <<sent, socketVars, keyVars, wakeup, serverVars, pc, job,
                 handlerVars>>

(* A connection reset before it is accepted stays in the backlog or leaves *)
(* it: the kernels differ.                                                 *)
Reset(c) ==
  /\ client[c] \in {"open", "closed"}
  /\ client' = [client EXCEPT ![c] = "reset"]
  /\ backlog' \in {backlog, backlog \ {c}}
  /\ UNCHANGED <<sent, unread, keyVars, wakeup, serverVars, pc, job,
                 handlerVars>>

-----------------------------------------------------------------------------
(* The main server thread. *)

Gone(c) == client[c] \in {"closed", "reset"}

(* A connection is readable when a read would not return 0: data, end of   *)
(* stream or an error.  It is always writable: the one buffer the server   *)
(* sends fits in a socket's send buffer.                                   *)
ReadyUnder(c, op) == op = "WRITE" \/ (op = "READ" /\ (unread[c] > 0 \/ Gone(c)))

ReadyKeys(ops) ==
  {c \in Clients : ReadyUnder(c, ops[c])}
    \cup (IF backlog # {} THEN {AcceptKey} ELSE {})

SelectEnter ==
  /\ server = "loop"
  /\ server' = "select"
  /\ polled' = interest
  /\ UNCHANGED <<peerVars, socketVars, keyVars, wakeup, selected, todo, pc,
                 job, handlerVars>>

SelectReturn ==
  /\ server = "select"
  /\ wakeup \/ ReadyKeys(polled) # {}
  /\ selected' = selected \cup {k \in ReadyKeys(polled) :
                                  k # AcceptKey => interest[k] = polled[k]}
  /\ todo' = selected'
  /\ wakeup' = FALSE
  /\ polled' = [c \in Clients |-> "NONE"]
  /\ server' = "dispatch"
  /\ UNCHANGED <<peerVars, socketVars, keyVars, pc, job, handlerVars>>

HasAttachment(k) == k = AcceptKey \/ k \in attached

(* dispatch(): a thread for the key's attachment, unless it is null.       *)
Dispatch(k, t) ==
  /\ server = "dispatch"
  /\ k \in todo
  /\ pc[t] = "idle"
  /\ todo' = todo \ {k}
  /\ IF HasAttachment(k)
       THEN /\ pc' = [pc EXCEPT ![t] = IF k = AcceptKey THEN "accept" ELSE "run"]
            /\ job' = [job EXCEPT ![t] = k]
       ELSE UNCHANGED <<pc, job>>
  /\ UNCHANGED <<peerVars, socketVars, keyVars, wakeup, server, polled,
                 selected, handlerVars>>

RoundEnd ==
  /\ server = "dispatch"
  /\ todo = {}
  /\ selected' = {}
  /\ server' = "loop"
  /\ UNCHANGED <<peerVars, socketVars, keyVars, wakeup, polled, todo, pc, job,
                 handlerVars>>

-----------------------------------------------------------------------------
(* The threads.  Goto moves a thread on; Finish frees its slot.            *)

Goto(t, label) == pc' = [pc EXCEPT ![t] = label] /\ UNCHANGED job

Finish(t) ==
  /\ pc' = [pc EXCEPT ![t] = "idle"]
  /\ job' = [job EXCEPT ![t] = AcceptKey]

(* Acceptor.run: ssc.accept() returns null when another thread was faster. *)
Accept(t) ==
  /\ pc[t] = "accept"
  /\ \/ /\ backlog = {}
        /\ Finish(t)
        /\ UNCHANGED backlog
     \/ \E c \in backlog :
          /\ backlog' = backlog \ {c}
          /\ pc' = [pc EXCEPT ![t] = "register"]
          /\ job' = [job EXCEPT ![t] = c]
  /\ UNCHANGED <<peerVars, unread, keyVars, wakeup, serverVars, handlerVars>>

(* The constructor of ReactorSingleHandler: register, attach, interestOps, *)
(* wakeup.                                                                 *)
CanRegister == ~ (RegisterBlocks /\ server = "select")

(* Faulty variant: register(selector, OP_READ), the attachment only later. *)
RegisterForRead(t) ==
  /\ pc[t] = "register"
  /\ CanRegister
  /\ interest' = [interest EXCEPT ![job[t]] = "READ"]
  /\ Goto(t, "attach")
  /\ UNCHANGED <<peerVars, socketVars, attached, wakeup, serverVars, handlerVars>>

Register(t) ==
  /\ pc[t] = "register"
  /\ CanRegister
  /\ interest' = [interest EXCEPT ![job[t]] = "ZERO"]
  /\ Goto(t, "attach")
  /\ UNCHANGED <<peerVars, socketVars, attached, wakeup, serverVars, handlerVars>>

Attach(t) ==
  /\ pc[t] = "attach"
  /\ attached' = attached \cup {job[t]}
  /\ Goto(t, "interestRead")
  /\ UNCHANGED <<peerVars, socketVars, interest, wakeup, serverVars, handlerVars>>

(* Faulty variant: interestOps(OP_WRITE).                                  *)
InterestReadAsWrite(t) ==
  /\ pc[t] = "interestRead"
  /\ interest' = [interest EXCEPT ![job[t]] = "WRITE"]
  /\ Goto(t, "wakeup")
  /\ UNCHANGED <<peerVars, socketVars, attached, wakeup, serverVars, handlerVars>>

InterestRead(t) ==
  /\ pc[t] = "interestRead"
  /\ interest' = [interest EXCEPT ![job[t]] = "READ"]
  /\ Goto(t, "wakeup")
  /\ UNCHANGED <<peerVars, socketVars, attached, wakeup, serverVars, handlerVars>>

(* Faulty variant: no wakeup().                                            *)
NoWakeup(t) ==
  /\ pc[t] = "wakeup"
  /\ Finish(t)
  /\ UNCHANGED <<peerVars, socketVars, keyVars, wakeup, serverVars, handlerVars>>

Wakeup(t) ==
  /\ pc[t] = "wakeup"
  /\ wakeup' = TRUE
  /\ Finish(t)
  /\ UNCHANGED <<peerVars, socketVars, keyVars, serverVars, handlerVars>>

-----------------------------------------------------------------------------
(* ReactorSingleHandler.run, read, isInputComplete and write.              *)

(* run(): branch on the state, read without a lock.                        *)
Run(t) ==
  /\ pc[t] = "run"
  /\ Goto(t, IF state[job[t]] = "READING" THEN "read" ELSE "write")
  /\ UNCHANGED <<peerVars, socketVars, keyVars, wakeup, serverVars, handlerVars>>

(* What a read of connection c moves into "in": the channel fills the      *)
(* room left.  A read that finds the buffer full returns 0.                *)
UnitsRead(c) ==
  IF unread[c] <= InCap - inPos[c] THEN unread[c] ELSE InCap - inPos[c]

(* A read of a reset connection throws, unless the buffer is full.         *)
ReadThrows(c) == client[c] = "reset" /\ inPos[c] < InCap

Fill(c) ==
  /\ unread' = [unread EXCEPT ![c] = @ - UnitsRead(c)]
  /\ inPos' = [inPos EXCEPT ![c] = @ + UnitsRead(c)]

(* read(): the first sc.read(in); its result is ignored.  run() logs an    *)
(* exception.                                                              *)
Read(t) ==
  /\ pc[t] = "read"
  /\ IF ReadThrows(job[t])
       THEN /\ Finish(t)
            /\ UNCHANGED <<unread, inPos>>
       ELSE /\ Fill(job[t])
            /\ Goto(t, "complete")
  /\ UNCHANGED <<peerVars, backlog, keyVars, wakeup, serverVars, state, out,
                 replies>>

(* Faulty variant: only a read of 0 completes the input, not end of stream.*)
InputCompleteNotAtEof(t) ==
  /\ pc[t] = "complete"
  /\ IF ReadThrows(job[t])
       THEN /\ Finish(t)
            /\ UNCHANGED <<unread, inPos>>
       ELSE /\ Fill(job[t])
            /\ Goto(t, IF UnitsRead(job[t]) > 0 \/ client[job[t]] = "closed"
                         THEN "clear" ELSE "sending")
  /\ UNCHANGED <<peerVars, backlog, keyVars, wakeup, serverVars, state, out,
                 replies>>

(* isInputComplete(): the second sc.read(in).  The input is complete       *)
(* unless this read moved something.                                       *)
InputComplete(t) ==
  /\ pc[t] = "complete"
  /\ IF ReadThrows(job[t])
       THEN /\ Finish(t)
            /\ UNCHANGED <<unread, inPos>>
       ELSE /\ Fill(job[t])
            /\ Goto(t, IF UnitsRead(job[t]) > 0 THEN "clear" ELSE "sending")
  /\ UNCHANGED <<peerVars, backlog, keyVars, wakeup, serverVars, state, out,
                 replies>>

SetSending(t) ==
  /\ pc[t] = "sending"
  /\ state' = [state EXCEPT ![job[t]] = "SENDING"]
  /\ Goto(t, "interestWrite")
  /\ UNCHANGED <<peerVars, socketVars, keyVars, wakeup, serverVars, inPos, out,
                 replies>>

(* Faulty variant: interestOps(OP_READ), the connection is never written.  *)
InterestStaysRead(t) ==
  /\ pc[t] = "interestWrite"
  /\ interest' = [interest EXCEPT ![job[t]] = "READ"]
  /\ Goto(t, "clear")
  /\ UNCHANGED <<peerVars, socketVars, attached, wakeup, serverVars, handlerVars>>

InterestWrite(t) ==
  /\ pc[t] = "interestWrite"
  /\ interest' = [interest EXCEPT ![job[t]] = "WRITE"]
  /\ Goto(t, "clear")
  /\ UNCHANGED <<peerVars, socketVars, attached, wakeup, serverVars, handlerVars>>

(* in.clear().  ByteBuffer has no lock: a read in progress in another      *)
(* thread can store its position over the cleared one.  (That it may also  *)
(* move less than the cleared buffer has room for is the same as the       *)
(* client's bytes arriving later.)                                         *)
ReadInProgress(t) ==
  \E u \in Threads \ {t} : job[u] = job[t] /\ pc[u] \in {"read", "complete"}

ClearIn(t) ==
  /\ pc[t] = "clear"
  /\ \/ inPos' = [inPos EXCEPT ![job[t]] = 0]
     \/ ReadInProgress(t) /\ UNCHANGED inPos
  /\ Finish(t)
  /\ UNCHANGED <<peerVars, socketVars, keyVars, wakeup, serverVars, state, out,
                 replies>>

(* Faulty variant: out.rewind() after the write.                           *)
WriteAgain(t) ==
  /\ pc[t] = "write"
  /\ replies' = IF client[job[t]] # "reset"
                  THEN [replies EXCEPT ![job[t]] = @ + 1] ELSE replies
  /\ Finish(t)
  /\ UNCHANGED <<peerVars, socketVars, keyVars, wakeup, serverVars, state, inPos,
                 out>>

(* write(): sc.write(out) under the channel's write lock.  It throws on a  *)
(* reset connection and does nothing once out is drained.  isOutputComplete*)
(* is constantly false, so the key is never cancelled.                     *)
Write(t) ==
  /\ pc[t] = "write"
  /\ IF out[job[t]] /\ client[job[t]] # "reset"
       THEN /\ out' = [out EXCEPT ![job[t]] = FALSE]
            /\ replies' = [replies EXCEPT ![job[t]] = @ + 1]
       ELSE UNCHANGED <<out, replies>>
  /\ Finish(t)
  /\ UNCHANGED <<peerVars, socketVars, keyVars, wakeup, serverVars, state, inPos>>

-----------------------------------------------------------------------------
Peers == \E c \in Clients : Connect(c) \/ Send(c) \/ Close(c) \/ Reset(c)

Server ==
  \/ SelectEnter
  \/ SelectReturn
  \/ \E k \in Keys, t \in Threads : Dispatch(k, t)
  \/ RoundEnd

AcceptorStep(t) ==
  Accept(t) \/ Register(t) \/ Attach(t) \/ InterestRead(t) \/ Wakeup(t)

HandlerStep(t) ==
  \/ Run(t) \/ Read(t) \/ InputComplete(t) \/ SetSending(t)
  \/ InterestWrite(t) \/ ClearIn(t) \/ Write(t)

Next == Peers \/ Server \/ \E t \in Threads : AcceptorStep(t) \/ HandlerStep(t)

Spec == Init /\ [][Next]_vars

(* The JVM schedules every runnable thread; the peers owe nothing.         *)
Fairness ==
  /\ WF_vars(Server)
  /\ \A t \in Threads : WF_vars(AcceptorStep(t) \/ HandlerStep(t))

FairSpec == Spec /\ Fairness

-----------------------------------------------------------------------------
(* Properties. *)

(* The server has taken something for a request of c: a unit that was read *)
(* off the connection, or the end of its stream.                           *)
Heard(c) == unread[c] < sent[c] \/ Gone(c)

(* A selected key always has its attachment, so dispatch() never skips an  *)
(* event: although an Acceptor thread is still inside the handler's        *)
(* constructor while the main thread selects, the key only gets an         *)
(* interest after the attachment.                                          *)
SelectedHasHandler == \A k \in selected : HasAttachment(k)

(* No handler turns to SENDING before its peer has sent something that was *)
(* read, or has closed - although threads started for one event find the   *)
(* data already taken by another, and then see "0 bytes", which            *)
(* isInputComplete() takes for a complete request.                         *)
NoUnaskedReply ==
  \A c \in Clients : state[c] = "SENDING" \/ replies[c] > 0 => Heard(c)

(* When no thread works on a registered connection, its key waits for      *)
(* OP_WRITE exactly when its handler is SENDING: the interestOps(OP_READ)  *)
(* of the constructor never overwrites the interestOps(OP_WRITE) of a      *)
(* handler thread, and none of several handler threads is lost.            *)
WriteInterestKept ==
  \A c \in Clients :
    interest[c] # "NONE" /\ (\A t \in Threads : job[t] # c)
      => (interest[c] = "WRITE" <=> state[c] = "SENDING")

(* The reactor is a one-reply server, however many threads run in one      *)
(* handler: out is written once and only to a peer that was heard.         *)
Service == INSTANCE OneShot WITH
  asked    <- {c \in Clients : Heard(c)},
  answered <- replies

ImplementsOneShot == Service!Spec

(* The Acceptor's thread has not got past register().                      *)
WaitsInRegister(c) == \E t \in Threads : job[t] = c /\ pc[t] = "register"

(* Where register() waits for select(), a connection the kernel has        *)
(* established is seen by a selection, is reset, or waits in register() for*)
(* good, and that wait is the only way in which it is never served.  It    *)
(* waits for a selection that nothing ends, since wakeup() is called after *)
(* register() and not before; or it is passed over again and again by a    *)
(* main thread that another connection keeps busy, since the selector's    *)
(* monitor is not fair.                                                    *)
WatchedUnlessWaiting ==
  \A c \in Clients :
    c \in backlog ~> \/ polled[c] \in {"READ", "WRITE"}
                    \/ client[c] = "reset"
                    \/ [] WaitsInRegister(c)

(* The selection in progress still waits for OP_READ on a connection whose *)
(* handler has asked for OP_WRITE: interestOps() wakes no selection.       *)
StaleSelection(c) ==
  /\ server = "select"
  /\ polled[c] = "READ"
  /\ interest[c] = "WRITE"
  /\ unread[c] = 0
  /\ client[c] = "open"

(* A handler that is SENDING gets its reply out, its peer resets, or the   *)
(* main thread sleeps forever in a selection with the stale interest: the  *)
(* missing wakeup() is the only way in which a reply is never written.     *)
AnsweredUnlessStale ==
  \A c \in Clients :
    state[c] = "SENDING" ~> (replies[c] > 0 \/ client[c] = "reset"
                               \/ [] StaleSelection(c))

(* A peer that closes after connecting is answered unless it resets: end   *)
(* of stream keeps the key readable until its handler is SENDING, and that *)
(* event ends the stale selection.                                         *)
ClosedIsAnswered ==
  \A c \in Clients : client[c] = "closed" ~> replies[c] > 0 \/ client[c] = "reset"

=============================================================================
