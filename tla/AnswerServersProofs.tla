------------------------- MODULE AnswerServersProofs -------------------------
(***************************************************************************)
(* Theorems about AnswerServers and the SocketClient it serves, for any    *)
(* clients and threads, any length of an answer and any backlog.           *)
(***************************************************************************)
EXTENDS AnswerServers, TLAPS

(* The connections queued are those not yet accepted, each queued once.    *)
QueueInv ==
  /\ \A k \in 1 .. Len(queue) : conn[queue[k]] = "queued"
  /\ \A j, k \in 1 .. Len(queue) : queue[j] = queue[k] => j = k

(* A client gets at most one answer, none of it before it is accepted, and *)
(* sees the end of the stream behind the whole of it, unless it is gone.   *)
ClientInv(c) ==
  /\ got[c] + response[c] <= PageSize
  /\ client[c] = "connect" => conn[c] = "none"
  /\ client[c] \in {"bye", "ended"} => got[c] = PageSize
  /\ cut[c] # "none" => client[c] \in {"ended", "killed"}
  /\ conn[c] \in {"none", "queued"} => got[c] = 0 /\ response[c] = 0
  /\ conn[c] # "closed" => rst[c] = "none" /\ ~ fin[c]
  /\ fin[c] /\ cut[c] = "none" => got[c] + response[c] = PageSize

Busy(t) == thread[t] \in {"read", "write", "close"}

(* A thread at work has a connection for itself, to which nothing has been *)
(* written before its write and a whole answer afterwards.                 *)
ThreadInv(t) ==
  /\ Busy(t) =>
       /\ sc[t] \in Clients /\ conn[sc[t]] = "open"
       /\ \A u \in Threads : Busy(u) /\ sc[u] = sc[t] => u = t
  /\ thread[t] \in {"read", "write"} => got[sc[t]] = 0 /\ response[sc[t]] = 0
  /\ thread[t] = "close" /\ cut[sc[t]] = "none" =>
       got[sc[t]] + response[sc[t]] = PageSize
  /\ t # Main /\ program # "nio" => ~ Busy(t)

IInv ==
  /\ TypeOK
  /\ QueueInv
  /\ \A c \in Clients : ClientInv(c)
  /\ \A t \in Threads : ThreadInv(t)

LEMMA InitIInv == Init => IInv
<1> SUFFICES ASSUME Init PROVE IInv
  OBVIOUS
<1> USE SocketAssumption, ServerAssumption DEF Init, ClientInit
<1>1. TypeOK
  BY DEF TypeOK, ClientTypeOK, Started
<1>2. QueueInv
  BY DEF QueueInv
<1>3. \A c \in Clients : ClientInv(c)
  BY DEF ClientInv
<1>4. \A t \in Threads : ThreadInv(t)
  BY DEF ThreadInv, Busy, Started
<1> QED
  BY <1>1, <1>2, <1>3, <1>4 DEF IInv

LEMMA SizeIsNat == PageSize \in Nat /\ PageSize > 0 /\ Backlog \in Nat
BY SocketAssumption

-----------------------------------------------------------------------------
(* The clients and the network                                             *)

LEMMA ConnectKeeps ==
  ASSUME IInv, NEW c \in Clients, Connect(c), UNCHANGED serverVars
  PROVE  IInv'
<1> USE SizeIsNat
<1>1. /\ client[c] = "connect" /\ Len(queue) < Backlog
      /\ queue' = Append(queue, c)
      /\ conn' = [conn EXCEPT ![c] = "queued"]
      /\ client' = [client EXCEPT ![c] = "send"]
      /\ UNCHANGED <<got, listening, request, response, fin, rst, cut>>
      /\ UNCHANGED <<program, thread, sc>>
  BY DEF Connect, Goto, serverVars
<1>2. conn[c] = "none" /\ ClientInv(c)
  BY <1>1 DEF IInv, ClientInv
<1>3. /\ queue \in Seq(Clients) /\ queue' \in Seq(Clients)
      /\ Len(queue) \in Nat /\ Len(queue') = Len(queue) + 1
      /\ \A k \in 1 .. Len(queue) : queue'[k] = queue[k] /\ queue[k] \in Clients
      /\ queue'[Len(queue) + 1] = c
  BY <1>1 DEF IInv, TypeOK, ClientTypeOK
<1>4. TypeOK'
  BY <1>1, <1>3 DEF IInv, TypeOK, ClientTypeOK
<1>5. \A k \in 1 .. Len(queue') :
        (k \in 1 .. Len(queue) /\ queue'[k] = queue[k] /\ queue[k] # c
           /\ queue[k] \in Clients /\ conn[queue[k]] = "queued")
          \/ (k = Len(queue) + 1 /\ queue'[k] = c)
  BY <1>2, <1>3 DEF IInv, QueueInv
<1>6. QueueInv'
  <2>1. \A k \in 1 .. Len(queue') : conn'[queue'[k]] = "queued"
    BY <1>1, <1>5 DEF IInv, TypeOK, ClientTypeOK
  <2>2. \A j, k \in 1 .. Len(queue') : queue'[j] = queue'[k] => j = k
    BY <1>5 DEF IInv, QueueInv
  <2> QED
    BY <2>1, <2>2 DEF QueueInv
<1>7. ASSUME NEW d \in Clients PROVE ClientInv(d)'
  BY <1>1, <1>2 DEF IInv, ClientInv, TypeOK, ClientTypeOK
<1>8. ASSUME NEW t \in Threads PROVE ThreadInv(t)'
  BY <1>1, <1>2 DEF IInv, ThreadInv, Busy, TypeOK, ClientTypeOK
<1> QED
  BY <1>4, <1>6, <1>7, <1>8 DEF IInv

(* The other steps of a client or the network leave queue and socket alone *)
(* and lose nothing of an answer while the client may still see its end.   *)
LEMMA ClientKeeps ==
  ASSUME IInv, NEW c \in Clients, UNCHANGED serverVars,
         \/ ConnectFails(c) \/ Send(c) \/ ResetSeen(c)
         \/ Read(c) \/ ReadBuffer(c) \/ SayBye(c)
         \/ ResetArrives(c) \/ Kill(c)
  PROVE  IInv'
<1> USE SizeIsNat
<1>1. UNCHANGED <<listening, queue, conn, program, thread, sc>>
  BY DEF ConnectFails, Send, ResetSeen, Read, ReadBuffer, SayBye, ResetArrives,
         Kill, serverVars
<1>2. QueueInv'
  BY <1>1 DEF IInv, QueueInv
<1>3. /\ got[c] \in Nat /\ response[c] \in Nat /\ ClientInv(c)
      /\ got[c] <= PageSize /\ response[c] <= PageSize
      /\ TypeOK
  BY DEF IInv, TypeOK, ClientTypeOK
(* What the step does to this client.                                      *)
<1> DEFINE Keeps ==
      /\ client'[c] \in {"connect", "send", "read", "readBuffer", "bye",
                         "ended", "failed", "killed"}
      /\ got'[c] \in 0 .. PageSize /\ response'[c] \in 0 .. PageSize
      /\ request'[c] \in BOOLEAN /\ fin'[c] \in BOOLEAN
      /\ rst'[c] \in {"none", "sent", "arrived"}
      /\ cut'[c] \in {"none", "fin", "rst"}
      /\ client' = [client EXCEPT ![c] = client'[c]]
      /\ got' = [got EXCEPT ![c] = got'[c]]
      /\ response' = [response EXCEPT ![c] = response'[c]]
      /\ request' = [request EXCEPT ![c] = request'[c]]
      /\ fin' = [fin EXCEPT ![c] = fin'[c]]
      /\ rst' = [rst EXCEPT ![c] = rst'[c]]
      /\ cut' = [cut EXCEPT ![c] = cut'[c]]
      /\ ClientInv(c)'
      /\ cut'[c] = "none" => cut[c] = "none"
      /\ \/ got'[c] + response'[c] = got[c] + response[c]
         \/ conn[c] = "closed"
<1>4. ASSUME ConnectFails(c) \/ ResetSeen(c) PROVE Keeps
  BY <1>1, <1>3, <1>4
     DEF ConnectFails, ResetSeen, Goto, TypeOK, ClientTypeOK, ClientInv
<1>5. ASSUME Send(c) PROVE Keeps
  BY <1>1, <1>3, <1>5 DEF Send, Goto, TypeOK, ClientTypeOK, ClientInv
<1>6. ASSUME Read(c) PROVE Keeps
  BY <1>1, <1>3, <1>6, SMTT(30) DEF Read, Goto, TypeOK, ClientTypeOK, ClientInv
<1>7. ASSUME ReadBuffer(c) PROVE Keeps
  BY <1>1, <1>3, <1>7 DEF ReadBuffer, Goto, TypeOK, ClientTypeOK, ClientInv
<1>8. ASSUME SayBye(c) \/ Kill(c) PROVE Keeps
  BY <1>1, <1>3, <1>8 DEF SayBye, Kill, Goto, TypeOK, ClientTypeOK, ClientInv
<1>9. ASSUME ResetArrives(c) PROVE Keeps
  <2>1. /\ rst[c] = "sent" /\ ~ Done(c)
        /\ rst' = [rst EXCEPT ![c] = "arrived"]
        /\ UNCHANGED <<client, got, listening, queue, conn, request, cut>>
    BY <1>9 DEF ResetArrives
  <2>2. conn[c] = "closed" /\ client[c] \notin {"ended", "killed"}
    BY <1>3, <2>1 DEF ClientInv, Done
  <2>3. CASE UNCHANGED <<response, fin>>
    BY <1>1, <1>3, <2>1, <2>2, <2>3 DEF TypeOK, ClientTypeOK, ClientInv
  <2>4. CASE /\ response' = [response EXCEPT ![c] = 0]
             /\ fin' = [fin EXCEPT ![c] = FALSE]
    BY <1>1, <1>3, <2>1, <2>2, <2>4 DEF TypeOK, ClientTypeOK, ClientInv
  <2> QED
    BY <1>9, <2>3, <2>4 DEF ResetArrives
<1>10. Keeps
  BY <1>4, <1>5, <1>6, <1>7, <1>8, <1>9
<1>11. TypeOK'
  BY <1>1, <1>3, <1>10, ZenonT(60) DEF TypeOK, ClientTypeOK
<1>12. ASSUME NEW d \in Clients PROVE ClientInv(d)'
  <2>1. CASE d = c
    BY <1>10, <2>1
  <2>2. CASE d # c
    <3>1. ClientInv(d)
      BY DEF IInv
    <3> QED
      BY <1>1, <1>3, <1>10, <2>2, <3>1 DEF ClientInv, TypeOK, ClientTypeOK
  <2> QED
    BY <2>1, <2>2
<1>13. ASSUME NEW t \in Threads PROVE ThreadInv(t)'
  <2>1. ThreadInv(t)
    BY DEF IInv
  <2>2. CASE sc[t] = c
    BY <1>1, <1>3, <1>10, <2>1, <2>2 DEF ThreadInv, Busy, TypeOK, ClientTypeOK
  <2>3. CASE sc[t] # c
    BY <1>1, <1>3, <1>10, <2>1, <2>3 DEF ThreadInv, Busy, TypeOK, ClientTypeOK
  <2> QED
    BY <2>2, <2>3
<1> QED
  BY <1>2, <1>11, <1>12, <1>13 DEF IInv

-----------------------------------------------------------------------------
(* The server                                                              *)

(* The connection that is accepted has not been at any thread before.      *)
LEMMA AcceptKeeps ==
  ASSUME IInv, NEW t \in Threads, NEW next \in {"read", "write"},
         Accept(t, next), t = Main \/ program = "nio"
  PROVE  IInv'
<1> USE SizeIsNat
<1> DEFINE c == Head(queue)
<1>1. /\ thread[t] = "accept" /\ queue # << >> /\ queue' = Tail(queue)
      /\ conn' = [conn EXCEPT ![c] = "open"]
      /\ sc' = [sc EXCEPT ![t] = c]
      /\ thread' = [thread EXCEPT ![t] = next]
      /\ UNCHANGED <<program, client, got, listening, request, response, fin,
                     rst, cut>>
  BY DEF Accept, AcceptFirst
<1>2. /\ queue \in Seq(Clients) /\ queue' \in Seq(Clients)
      /\ Len(queue) \in Nat /\ Len(queue') = Len(queue) - 1
      /\ c = queue[1] /\ c \in Clients /\ 1 \in 1 .. Len(queue)
      /\ \A k \in 1 .. Len(queue') : /\ queue'[k] = queue[k + 1]
                                     /\ k + 1 \in 1 .. Len(queue)
                                     /\ queue[k + 1] \in Clients
  BY <1>1 DEF IInv, TypeOK, ClientTypeOK
<1> HIDE DEF c
<1>3. conn[c] = "queued" /\ got[c] = 0 /\ response[c] = 0
  BY <1>2 DEF IInv, QueueInv, ClientInv
<1>4. TypeOK'
  BY <1>1, <1>2 DEF IInv, TypeOK, ClientTypeOK
<1>5. QueueInv'
  <2>1. ASSUME NEW k \in 1 .. Len(queue') PROVE conn'[queue'[k]] = "queued"
    <3>1. k + 1 \in 1 .. Len(queue) /\ k + 1 # 1 /\ queue'[k] = queue[k + 1]
      BY <1>2
    <3>2. queue[k + 1] # c /\ conn[queue[k + 1]] = "queued"
      BY <1>2, <3>1 DEF IInv, QueueInv
    <3>3. queue[k + 1] \in Clients
      BY <1>2
    <3> QED
      BY <1>1, <3>1, <3>2, <3>3 DEF IInv, TypeOK, ClientTypeOK
  <2>2. \A j, k \in 1 .. Len(queue') : queue'[j] = queue'[k] => j = k
    BY <1>2 DEF IInv, QueueInv
  <2> QED
    BY <2>1, <2>2 DEF QueueInv
<1>6. ASSUME NEW d \in Clients PROVE ClientInv(d)'
  BY <1>1, <1>2, <1>3 DEF IInv, ClientInv, TypeOK, ClientTypeOK
<1>7. ASSUME NEW u \in Threads PROVE ThreadInv(u)'
  <2>1. \A v \in Threads : Busy(v) => sc[v] # c /\ sc[v] \in Clients /\ v # t
    BY <1>1, <1>3 DEF IInv, ThreadInv, Busy
  <2>2. ThreadInv(u)
    BY DEF IInv
  <2>3. CASE u = t
    BY <1>1, <1>2, <1>3, <2>1, <2>3 DEF IInv, ThreadInv, Busy, TypeOK, ClientTypeOK
  <2>4. CASE u # t
    BY <1>1, <1>2, <1>3, <2>1, <2>2, <2>4 DEF IInv, ThreadInv, Busy, TypeOK, ClientTypeOK
  <2> QED
    BY <2>3, <2>4
<1> QED
  BY <1>4, <1>5, <1>6, <1>7 DEF IInv

LEMMA WriteKeeps ==
  ASSUME IInv, NEW t \in Threads, Write(t)
  PROVE  IInv'
<1> USE SizeIsNat
<1> DEFINE c == sc[t]
<1>1. /\ thread[t] = "write" /\ thread' = [thread EXCEPT ![t] = "close"]
      /\ response' = [response EXCEPT ![c] =
                        IF cut[c] = "none" THEN PageSize ELSE response[c]]
      /\ UNCHANGED <<program, client, got, listening, queue, conn, request, fin,
                     rst, cut, sc>>
  BY DEF Write, Answer
<1>2. /\ c \in Clients /\ conn[c] = "open" /\ got[c] = 0 /\ response[c] = 0
      /\ \A u \in Threads : Busy(u) /\ sc[u] = c => u = t
      /\ TypeOK
  BY <1>1 DEF IInv, ThreadInv, Busy
<1> HIDE DEF c
<1>3. TypeOK'
  BY <1>1, <1>2 DEF TypeOK, ClientTypeOK
<1>4. QueueInv'
  BY <1>1 DEF IInv, QueueInv
<1>5. ASSUME NEW d \in Clients PROVE ClientInv(d)'
  <2>1. ClientInv(d)
    BY DEF IInv
  <2> QED
    BY <1>1, <1>2, <2>1 DEF ClientInv, TypeOK, ClientTypeOK
<1>6. ASSUME NEW u \in Threads PROVE ThreadInv(u)'
  <2>1. ThreadInv(u)
    BY DEF IInv
  <2>2. CASE u = t
    BY <1>1, <1>2, <2>1, <2>2 DEF ThreadInv, Busy, TypeOK, ClientTypeOK, c
  <2>3. CASE u # t
    BY <1>1, <1>2, <2>1, <2>3 DEF ThreadInv, Busy, TypeOK, ClientTypeOK, c
  <2> QED
    BY <2>2, <2>3
<1> QED
  BY <1>3, <1>4, <1>5, <1>6 DEF IInv

LEMMA CloseKeeps ==
  ASSUME IInv, NEW t \in Threads, Close(t)
  PROVE  IInv'
<1> USE SizeIsNat, ServerAssumption
<1> DEFINE c == sc[t]
<1>1. /\ thread[t] = "close" /\ thread' = [thread EXCEPT ![t] = "accept"]
      /\ sc' = [sc EXCEPT ![t] = NoClient]
      /\ conn' = [conn EXCEPT ![c] = "closed"]
      /\ \/ rst' = [rst EXCEPT ![c] = "sent"] /\ UNCHANGED fin
         \/ fin' = [fin EXCEPT ![c] = TRUE] /\ UNCHANGED rst
      /\ UNCHANGED <<program, client, got, listening, queue, request, response, cut>>
  BY DEF Close, CloseSocket
<1>2. /\ c \in Clients /\ conn[c] = "open"
      /\ cut[c] = "none" => got[c] + response[c] = PageSize
      /\ \A u \in Threads : Busy(u) /\ sc[u] = c => u = t
      /\ TypeOK
  BY <1>1 DEF IInv, ThreadInv, Busy
<1> HIDE DEF c
<1>3. TypeOK'
  BY <1>1, <1>2 DEF TypeOK, ClientTypeOK
<1>4. QueueInv'
  <2>1. \A k \in 1 .. Len(queue) : queue[k] \in Clients /\ queue[k] # c
    BY <1>2 DEF IInv, QueueInv, TypeOK, ClientTypeOK
  <2> QED
    BY <1>1, <1>2, <2>1 DEF IInv, QueueInv, TypeOK, ClientTypeOK
<1>5. ASSUME NEW d \in Clients PROVE ClientInv(d)'
  <2>1. ClientInv(d)
    BY DEF IInv
  <2> QED
    BY <1>1, <1>2, <2>1 DEF ClientInv, TypeOK, ClientTypeOK
<1>6. ASSUME NEW u \in Threads PROVE ThreadInv(u)'
  <2>1. ThreadInv(u)
    BY DEF IInv
  <2>2. CASE u = t
    BY <1>1, <1>2, <2>1, <2>2 DEF ThreadInv, Busy, TypeOK, ClientTypeOK
  <2>3. CASE u # t
    BY <1>1, <1>2, <2>1, <2>3 DEF ThreadInv, Busy, TypeOK, ClientTypeOK
  <2> QED
    BY <2>2, <2>3
<1> QED
  BY <1>3, <1>4, <1>5, <1>6 DEF IInv

LEMMA BioReadKeeps == IInv /\ BioRead => IInv'
<1> SUFFICES ASSUME IInv, BioRead PROVE IInv'
  OBVIOUS
<1>1. /\ thread[Main] = "read" /\ thread' = [thread EXCEPT ![Main] = "write"]
      /\ request' = [request EXCEPT ![sc[Main]] = FALSE]
      /\ UNCHANGED <<program, client, got, listening, queue, conn, response, fin,
                     rst, cut, sc>>
  BY DEF BioRead
<1>2. Main \in Threads /\ TypeOK
  BY ServerAssumption DEF IInv
<1>3. TypeOK'
  BY <1>1, <1>2 DEF TypeOK, ClientTypeOK
<1>4. QueueInv'
  BY <1>1 DEF IInv, QueueInv
<1>5. ASSUME NEW d \in Clients PROVE ClientInv(d)'
  BY <1>1 DEF IInv, ClientInv
<1>6. ASSUME NEW u \in Threads PROVE ThreadInv(u)'
  <2>1. ThreadInv(u) /\ ThreadInv(Main)
    BY <1>2 DEF IInv
  <2> QED
    BY <1>1, <1>2, <2>1 DEF ThreadInv, Busy, TypeOK
<1> QED
  BY <1>3, <1>4, <1>5, <1>6 DEF IInv

(* With the program its sockets go down; no other thread was at work.      *)
LEMMA BioGoesDownKeeps == IInv /\ BioGoesDown => IInv'
<1> SUFFICES ASSUME IInv, BioGoesDown PROVE IInv'
  OBVIOUS
<1> USE SizeIsNat
<1>1. /\ program = "bio" /\ thread' = [thread EXCEPT ![Main] = "ended"]
      /\ listening' = FALSE /\ queue' = << >>
      /\ conn' = [c \in Clients |-> IF conn[c] = "none" THEN "none" ELSE "closed"]
      /\ rst' = [c \in Clients |-> IF conn[c] = "queued" THEN "sent" ELSE rst[c]]
      /\ UNCHANGED <<program, client, got, request, response, fin, cut, sc>>
  BY DEF BioGoesDown
<1>2. Main \in Threads /\ TypeOK
  BY ServerAssumption DEF IInv
<1>3. TypeOK'
  <2>1. queue' \in Seq(Clients) /\ Len(queue') <= Backlog
    BY <1>1
  <2>2. /\ conn' \in [Clients -> {"none", "queued", "open", "closed"}]
        /\ rst' \in [Clients -> {"none", "sent", "arrived"}]
    BY <1>1, <1>2 DEF TypeOK, ClientTypeOK
  <2>3. thread' \in [Threads -> {"accept", "read", "write", "close", "ended"}]
    BY <1>1, <1>2 DEF TypeOK
  <2> QED
    BY <1>1, <1>2, <2>1, <2>2, <2>3 DEF TypeOK, ClientTypeOK
<1>4. QueueInv'
  BY <1>1 DEF QueueInv
<1>5. ASSUME NEW d \in Clients PROVE ClientInv(d)'
  <2>1. ClientInv(d)
    BY DEF IInv
  <2> QED
    BY <1>1, <1>2, <2>1 DEF ClientInv, TypeOK, ClientTypeOK
<1>6. ASSUME NEW u \in Threads PROVE ThreadInv(u)'
  <2>1. ThreadInv(u)
    BY DEF IInv
  <2> QED
    BY <1>1, <1>2, <2>1 DEF ThreadInv, Busy, TypeOK
<1> QED
  BY <1>3, <1>4, <1>5, <1>6 DEF IInv

LEMMA NioEndsKeeps ==
  ASSUME IInv, NEW t \in Threads, NioEnds(t)
  PROVE  IInv'
<1>1. /\ thread' = [thread EXCEPT ![t] = "ended"]
      /\ UNCHANGED <<program, client, got, listening, queue, conn, request,
                     response, fin, rst, cut, sc>>
  BY DEF NioEnds, clientVars
<1>2. TypeOK'
  BY <1>1 DEF IInv, TypeOK, ClientTypeOK
<1>3. QueueInv'
  BY <1>1 DEF IInv, QueueInv
<1>4. ASSUME NEW d \in Clients PROVE ClientInv(d)'
  BY <1>1 DEF IInv, ClientInv
<1>5. ASSUME NEW u \in Threads PROVE ThreadInv(u)'
  <2>1. ThreadInv(u)
    BY DEF IInv
  <2> QED
    BY <1>1, <2>1 DEF IInv, ThreadInv, Busy, TypeOK
<1> QED
  BY <1>2, <1>3, <1>4, <1>5 DEF IInv

LEMMA StepIInv == IInv /\ [Next]_vars => IInv'
<1> SUFFICES ASSUME IInv, [Next]_vars PROVE IInv'
  OBVIOUS
<1>0. Main \in Threads
  BY ServerAssumption
<1>1. CASE UNCHANGED vars
  BY <1>1 DEF vars, clientVars, IInv, TypeOK, ClientTypeOK, QueueInv, ClientInv,
              ThreadInv, Busy
<1>2. CASE Service
  <2>1. CASE SimpleAccept \/ BioAccept
    BY <1>0, <2>1, AcceptKeeps DEF SimpleAccept, BioAccept
  <2>2. CASE SimplePrint \/ BioWrite
    BY <1>0, <2>2, WriteKeeps DEF SimplePrint, BioWrite
  <2>3. CASE SimpleClose \/ BioClose
    BY <1>0, <2>3, CloseKeeps DEF SimpleClose, BioClose
  <2> QED
    BY <1>2, <2>1, <2>2, <2>3, BioReadKeeps, BioGoesDownKeeps DEF Service
<1>3. ASSUME NEW t \in Threads, Acceptor(t) PROVE IInv'
  <2>1. CASE NioAccept(t)
    BY <2>1, AcceptKeeps DEF NioAccept
  <2>2. CASE NioWrite(t)
    BY <2>2, WriteKeeps DEF NioWrite
  <2>3. CASE NioClose(t)
    BY <2>3, CloseKeeps DEF NioClose
  <2> QED
    BY <1>3, <2>1, <2>2, <2>3, NioEndsKeeps DEF Acceptor
<1>4. CASE (Network \/ \E c \in Clients : ClientStep(c)) /\ UNCHANGED serverVars
  BY <1>4, ConnectKeeps, ClientKeeps DEF Network, ClientStep
<1> QED
  BY <1>1, <1>2, <1>3, <1>4 DEF Next

(* Every thread at work has a connection for itself, and what its client   *)
(* has read and may still read follows from the statement it is at.        *)
THEOREM Invariance == Spec => []IInv
BY InitIInv, StepIInv, PTL DEF Spec

(* The variables keep their types: no client reads more than one answer.   *)
THEOREM TypeCorrect == Spec => []TypeOK
<1>1. IInv => TypeOK
  BY DEF IInv
<1> QED
  BY <1>1, Invariance, PTL

(* A client that gets to the end of the stream has read a whole answer, in *)
(* all three programs and whatever kills, resets and exceptions come in    *)
(* between.                                                                *)
THEOREM AnswersAreWhole == Spec => []WholeAnswer
<1>1. IInv => WholeAnswer
  BY DEF IInv, ClientInv, WholeAnswer
<1> QED
  BY <1>1, Invariance, PTL

=============================================================================
