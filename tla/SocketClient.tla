---------------------------- MODULE SocketClient ----------------------------
(***************************************************************************)
(* com.tool.SocketClient and the TCP connections to the server it talks    *)
(* to, which AnswerServers completes.                                      *)
(*                                                                         *)
(* A ClientWorker connects, writes a request that fits into one segment,   *)
(* reads to the end of stream, says "bye" and closes; any exception ends   *)
(* it.  Each turn of its loop reads one byte, read(), and what else has    *)
(* arrived, read(buffer).  The answer is counted in units.                 *)
(*                                                                         *)
(* TCP, which is external: a connection is established when it is queued   *)
(* for accept, and may be written to from then on; closing a socket with   *)
(* unread data resets the connection in place of ending the stream; data   *)
(* that comes for a closed socket is answered with a reset; a reset may    *)
(* take its time, and may or may not discard what the client has not read. *)
(* Clients can be killed, or cut off by a reset, at any time.              *)
(***************************************************************************)
EXTENDS Naturals, Sequences, FiniteSets

CONSTANTS Clients,     \* the ClientWorkers
          PageSize,    \* the units of an answer
          Backlog      \* the connections the listening socket queues

ASSUME SocketAssumption ==
  /\ PageSize \in Nat \ {0}
  /\ Backlog \in Nat \ {0}

VARIABLES
  client,      \* next statement of run(): "connect", "send", "read",
               \* "readBuffer", "bye"; "ended", "failed" by an exception, "killed"
  got,         \* the units each client has read
  listening,   \* whether the server's process still listens
  queue,       \* the connections not yet accepted
  conn,        \* the server's socket: "none", "queued", "open", "closed"
  request,     \* whether there is data the server has not read
  response,    \* the units a client has not read
  fin,         \* whether the end of the server's stream is on its way
  rst,         \* the reset a client gets: "none", "sent", "arrived"
  cut          \* how the client's side ended: "none", "fin", "rst"

clientVars == <<client, got, listening, queue, conn, request, response, fin,
                rst, cut>>

ClientTypeOK ==
  /\ client \in [Clients -> {"connect", "send", "read", "readBuffer", "bye",
                             "ended", "failed", "killed"}]
  /\ got \in [Clients -> 0 .. PageSize]
  /\ listening \in BOOLEAN
  /\ queue \in Seq(Clients) /\ Len(queue) <= Backlog
  /\ conn \in [Clients -> {"none", "queued", "open", "closed"}]
  /\ request \in [Clients -> BOOLEAN]
  /\ response \in [Clients -> 0 .. PageSize]
  /\ fin \in [Clients -> BOOLEAN]
  /\ rst \in [Clients -> {"none", "sent", "arrived"}]
  /\ cut \in [Clients -> {"none", "fin", "rst"}]

ClientInit ==
  /\ client = [c \in Clients |-> "connect"]
  /\ got = [c \in Clients |-> 0]
  /\ listening = TRUE
  /\ queue = << >>
  /\ conn = [c \in Clients |-> "none"]
  /\ request = [c \in Clients |-> FALSE]
  /\ response = [c \in Clients |-> 0]
  /\ fin = [c \in Clients |-> FALSE]
  /\ rst = [c \in Clients |-> "none"]
  /\ cut = [c \in Clients |-> "none"]

Goto(c, statement) == client' = [client EXCEPT ![c] = statement]

-----------------------------------------------------------------------------
(* ClientWorker.run().                                                     *)

(* new Socket("127.0.0.1", 8080)                                           *)
Connect(c) ==
  /\ client[c] = "connect"
  /\ listening /\ Len(queue) < Backlog
  /\ queue' = Append(queue, c)
  /\ conn' = [conn EXCEPT ![c] = "queued"]
  /\ Goto(c, "send")
  /\ UNCHANGED <<got, listening, request, response, fin, rst, cut>>

(* The connection is refused, or a full queue makes it time out.           *)
ConnectFails(c) ==
  /\ client[c] = "connect"
  /\ ~ listening \/ Len(queue) = Backlog
  /\ Goto(c, "failed")
  /\ UNCHANGED <<got, listening, queue, conn, request, response, fin, rst, cut>>

(* write("Client n"): to a socket the server has closed, it gets a reset.  *)
Send(c) ==
  /\ client[c] = "send"
  /\ rst[c] # "arrived"
  /\ IF conn[c] = "closed"
       THEN /\ rst' = [rst EXCEPT ![c] = "sent"]
            /\ UNCHANGED request
       ELSE /\ request' = [request EXCEPT ![c] = TRUE]
            /\ UNCHANGED rst
  /\ Goto(c, "read")
  /\ UNCHANGED <<got, listening, queue, conn, response, fin, cut>>

(* An exception in a write or a read.                                      *)
ResetSeen(c) ==
  /\ client[c] \in {"send", "read", "readBuffer"}
  /\ rst[c] = "arrived"
  /\ client[c] = "send" \/ response[c] = 0
  /\ Goto(c, "failed")
  /\ UNCHANGED <<got, listening, queue, conn, request, response, fin, rst, cut>>

(* Faulty variant: the -1 is taken for a byte.                             *)
ReadEndAsByte(c) ==
  /\ client[c] = "read"
  /\ response[c] > 0 \/ fin[c]
  /\ response' = [response EXCEPT ![c] = IF @ > 0 THEN @ - 1 ELSE 0]
  /\ got' = [got EXCEPT ![c] = @ + 1]
  /\ Goto(c, "readBuffer")
  /\ UNCHANGED <<listening, queue, conn, request, fin, rst, cut>>

(* read() returns a byte, or -1 at the end of the stream.                  *)
Read(c) ==
  /\ client[c] = "read"
  /\ \/ /\ response[c] > 0
        /\ response' = [response EXCEPT ![c] = @ - 1]
        /\ got' = [got EXCEPT ![c] = @ + 1]
        /\ Goto(c, "readBuffer")
     \/ /\ response[c] = 0 /\ fin[c]
        /\ Goto(c, "bye")
        /\ UNCHANGED <<got, response>>
  /\ UNCHANGED <<listening, queue, conn, request, fin, rst, cut>>

(* Faulty variant: the loop ends when read(buffer) has read something.     *)
ReadBufferOnce(c) ==
  /\ client[c] = "readBuffer"
  /\ \/ \E n \in 1 .. response[c] :
          /\ response' = [response EXCEPT ![c] = @ - n]
          /\ got' = [got EXCEPT ![c] = @ + n]
     \/ /\ response[c] = 0 /\ fin[c]
        /\ UNCHANGED <<got, response>>
  /\ Goto(c, "bye")
  /\ UNCHANGED <<listening, queue, conn, request, fin, rst, cut>>

(* read(buffer) returns what has arrived; an end of the stream is left to  *)
(* the next read() to find.                                                *)
ReadBuffer(c) ==
  /\ client[c] = "readBuffer"
  /\ \/ \E n \in 1 .. response[c] :
          /\ response' = [response EXCEPT ![c] = @ - n]
          /\ got' = [got EXCEPT ![c] = @ + n]
     \/ /\ response[c] = 0 /\ fin[c]
        /\ UNCHANGED <<got, response>>
  /\ Goto(c, "read")
  /\ UNCHANGED <<listening, queue, conn, request, fin, rst, cut>>

(* pw.print("bye"), pw.flush(), socket.close(): a PrintWriter throws       *)
(* nothing, and the server has closed its socket.                          *)
SayBye(c) ==
  /\ client[c] = "bye"
  /\ cut' = [cut EXCEPT ![c] = "fin"]
  /\ Goto(c, "ended")
  /\ UNCHANGED <<got, listening, queue, conn, request, response, fin, rst>>

ClientStep(c) ==
  \/ Connect(c) \/ ConnectFails(c) \/ Send(c) \/ ResetSeen(c)
  \/ Read(c) \/ ReadBuffer(c) \/ SayBye(c)

-----------------------------------------------------------------------------
(* The network.                                                            *)

Done(c) == client[c] \in {"ended", "failed", "killed"}

(* A reset arrives; what is unread may be lost, and with it the end of the *)
(* stream.                                                                 *)
ResetArrives(c) ==
  /\ rst[c] = "sent" /\ ~ Done(c)
  /\ rst' = [rst EXCEPT ![c] = "arrived"]
  /\ \/ UNCHANGED <<response, fin>>
     \/ /\ response' = [response EXCEPT ![c] = 0]
        /\ fin' = [fin EXCEPT ![c] = FALSE]
  /\ UNCHANGED <<client, got, listening, queue, conn, request, cut>>

(* A client that is connected goes away, with or without a reset.          *)
Kill(c) ==
  /\ client[c] \in {"send", "read", "readBuffer", "bye"}
  /\ \E how \in {"fin", "rst"} : cut' = [cut EXCEPT ![c] = how]
  /\ Goto(c, "killed")
  /\ UNCHANGED <<got, listening, queue, conn, request, response, fin, rst>>

Network == \E c \in Clients : ResetArrives(c) \/ Kill(c)

-----------------------------------------------------------------------------
(* The server's calls on a connection, for the modules that use this one.  *)

AcceptFirst(c) ==
  /\ queue # << >> /\ c = Head(queue)
  /\ queue' = Tail(queue)
  /\ conn' = [conn EXCEPT ![c] = "open"]

(* A write arrives unless the client is gone.                              *)
Answer(c) ==
  response' = [response EXCEPT ![c] = IF cut[c] = "none" THEN PageSize ELSE @]

(* close(): a reset if the request has not been read.                      *)
CloseSocket(c) ==
  /\ conn' = [conn EXCEPT ![c] = "closed"]
  /\ IF request[c]
       THEN rst' = [rst EXCEPT ![c] = "sent"] /\ UNCHANGED fin
       ELSE fin' = [fin EXCEPT ![c] = TRUE] /\ UNCHANGED rst

-----------------------------------------------------------------------------
(* The clients' threads are scheduled and resets arrive.                   *)
ClientFairness ==
  \A c \in Clients : WF_clientVars(ClientStep(c)) /\ WF_clientVars(ResetArrives(c))
=============================================================================
