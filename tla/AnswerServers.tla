--------------------------- MODULE AnswerServers ---------------------------
(***************************************************************************)
(* The three programs that listen on port 8080, answer whoever connects    *)
(* and close, one of which runs:                                           *)
(*                                                                         *)
(*  - "simple", com.tool.SimpleSocketServer: one thread, never reads, and  *)
(*    its PrintWriter throws nothing;                                      *)
(*  - "bio", com.tool.server.MyBIOServer: one thread, reads once before it *)
(*    answers; an exception ends the program, with its listening socket    *)
(*    and the connections still queued;                                    *)
(*  - "nio", com.tool.server.SinNioTwoAcceptor: all of Threads accept from *)
(*    one channel and never read; an exception ends the thread, and the    *)
(*    channel goes on listening.                                           *)
(*                                                                         *)
(* What "nio" sends is not its "test": put() moves the position behind it, *)
(* and write() sends the 1020 zero bytes that follow.  Here an answer is   *)
(* PageSize units whatever they are.                                       *)
(***************************************************************************)
EXTENDS SocketClient

CONSTANTS Threads, Main, NoClient

ASSUME ServerAssumption ==
  /\ IsFiniteSet(Clients)
  /\ IsFiniteSet(Threads) /\ Main \in Threads
  /\ NoClient \notin Clients

VARIABLES
  program,     \* the program that runs
  thread,      \* next statement of each server thread: "accept", "read",
               \* "write", "close"; "ended"
  sc           \* the connection each thread is at

serverVars == <<program, thread, sc>>
vars == <<clientVars, program, thread, sc>>

TypeOK ==
  /\ ClientTypeOK
  /\ program \in {"simple", "bio", "nio"}
  /\ thread \in [Threads -> {"accept", "read", "write", "close", "ended"}]
  /\ sc \in [Threads -> Clients \cup {NoClient}]

Started == IF program = "nio" THEN Threads ELSE {Main}

Init ==
  /\ ClientInit
  /\ program \in {"simple", "bio", "nio"}
  /\ thread = [t \in Threads |-> IF t \in Started THEN "accept" ELSE "ended"]
  /\ sc = [t \in Threads |-> NoClient]

-----------------------------------------------------------------------------
(* What the programs have in common.                                       *)

Accept(t, next) ==
  /\ thread[t] = "accept"
  /\ \E c \in Clients : AcceptFirst(c) /\ sc' = [sc EXCEPT ![t] = c]
  /\ thread' = [thread EXCEPT ![t] = next]
  /\ UNCHANGED <<program, client, got, listening, request, response, fin, rst,
                 cut>>

Write(t) ==
  /\ thread[t] = "write"
  /\ Answer(sc[t])
  /\ thread' = [thread EXCEPT ![t] = "close"]
  /\ UNCHANGED <<program, client, got, listening, queue, conn, request, fin, rst,
                 cut, sc>>

(* Faulty variant: the socket is not closed.                               *)
CloseForgotten(t) ==
  /\ thread[t] = "close"
  /\ thread' = [thread EXCEPT ![t] = "accept"]
  /\ sc' = [sc EXCEPT ![t] = NoClient]
  /\ UNCHANGED <<program, clientVars>>

Close(t) ==
  /\ thread[t] = "close"
  /\ CloseSocket(sc[t])
  /\ thread' = [thread EXCEPT ![t] = "accept"]
  /\ sc' = [sc EXCEPT ![t] = NoClient]
  /\ UNCHANGED <<program, client, got, listening, queue, request, response, cut>>

-----------------------------------------------------------------------------
(* SimpleSocketServer.service().                                           *)

SimpleAccept == program = "simple" /\ Accept(Main, "write")

(* pw.print of head and context, pw.flush()                                *)
SimplePrint == program = "simple" /\ Write(Main)

SimpleClose == program = "simple" /\ Close(Main)

-----------------------------------------------------------------------------
(* MyBIOServer.main().                                                     *)

BioAccept == program = "bio" /\ Accept(Main, "read")

(* s.getInputStream().read(readbuff): the request, or the end of the       *)
(* stream; either is answered.                                             *)
BioRead ==
  /\ program = "bio" /\ thread[Main] = "read"
  /\ request[sc[Main]] \/ cut[sc[Main]] = "fin"
  /\ request' = [request EXCEPT ![sc[Main]] = FALSE]
  /\ thread' = [thread EXCEPT ![Main] = "write"]
  /\ UNCHANGED <<program, client, got, listening, queue, conn, response, fin,
                 rst, cut, sc>>

BioWrite ==
  /\ program = "bio" /\ thread[Main] = "write" /\ cut[sc[Main]] # "rst"
  /\ Write(Main)

BioClose == program = "bio" /\ Close(Main)

(* Faulty variant: the exception ends the loop but not the program.        *)
BioGoesSilent ==
  /\ program = "bio" /\ thread[Main] \in {"read", "write"}
  /\ cut[sc[Main]] = "rst"
  /\ thread' = [thread EXCEPT ![Main] = "ended"]
  /\ UNCHANGED <<program, clientVars, sc>>

(* The read or the write throws: the program ends, its sockets with it.    *)
BioGoesDown ==
  /\ program = "bio" /\ thread[Main] \in {"read", "write"}
  /\ cut[sc[Main]] = "rst"
  /\ thread' = [thread EXCEPT ![Main] = "ended"]
  /\ listening' = FALSE
  /\ queue' = << >>
  /\ conn' = [c \in Clients |-> IF conn[c] = "none" THEN "none" ELSE "closed"]
  /\ rst' = [c \in Clients |-> IF conn[c] = "queued" THEN "sent" ELSE rst[c]]
  /\ UNCHANGED <<program, client, got, request, response, fin, cut, sc>>

-----------------------------------------------------------------------------
(* SinNioTwoAcceptor.Acceptor.run().                                       *)

NioAccept(t) == program = "nio" /\ Accept(t, "write")

NioWrite(t) ==
  /\ program = "nio" /\ thread[t] = "write" /\ cut[sc[t]] # "rst"
  /\ Write(t)

(* sc.write(buf) throws: the thread ends and does not close sc.            *)
NioEnds(t) ==
  /\ program = "nio" /\ thread[t] = "write"
  /\ cut[sc[t]] = "rst"
  /\ thread' = [thread EXCEPT ![t] = "ended"]
  /\ UNCHANGED <<program, clientVars, sc>>

NioClose(t) == program = "nio" /\ Close(t)

-----------------------------------------------------------------------------
Service ==
  \/ SimpleAccept \/ SimplePrint \/ SimpleClose
  \/ BioAccept \/ BioRead \/ BioWrite \/ BioClose \/ BioGoesDown

Acceptor(t) == NioAccept(t) \/ NioWrite(t) \/ NioEnds(t) \/ NioClose(t)

Next ==
  \/ Service
  \/ \E t \in Threads : Acceptor(t)
  \/ (Network \/ \E c \in Clients : ClientStep(c)) /\ UNCHANGED serverVars

Spec == Init /\ [][Next]_vars

(* The server's threads are scheduled; the clients owe nothing.            *)
FairSpec == Spec /\ WF_vars(Service) /\ \A t \in Threads : WF_vars(Acceptor(t))

-----------------------------------------------------------------------------
(* Properties.                                                             *)

(* A client that gets to the end of the stream has read a whole answer,    *)
(* whatever the reads returned and whatever resets came in between.        *)
WholeAnswer ==
  \A c \in Clients : client[c] \in {"bye", "ended"} => got[c] = PageSize

Lost == {t \in Started : thread[t] = "ended"}

(* If the clients' threads are scheduled and resets arrive, every client is*)
(* served, fails or is killed, and none waits forever - unless "nio" has   *)
(* lost all its threads, when it still listens but nobody accepts.         *)
ClientsEnd ==
  ClientFairness =>
    \A c \in Clients : <> (Done(c) \/ (program = "nio" /\ Lost = Threads))
=============================================================================
