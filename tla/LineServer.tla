----------------------------- MODULE LineServer -----------------------------
(***************************************************************************)
(* com.tool.NewThreadSocketServer: service() accepts and starts a thread   *)
(* with a SocketHandler per connection, which echoes line by line until    *)
(* "bye" or the end of the stream, and then closes.                        *)
(*                                                                         *)
(* A peer's text is a sequence of pieces: "line" and "bye" have a line     *)
(* end, "rest" and "byeRest" have none and come last.  A SocketClient is a *)
(* peer whose text is <<"rest">> and who waits for an answer before it     *)
(* closes.  The Scanner reads pieces that have arrived into its buffer; it *)
(* takes an exception for the end of the stream.                           *)
(*                                                                         *)
(* Peers owe nothing: they send pieces, close their side, or are reset.    *)
(***************************************************************************)
EXTENDS Naturals, Sequences, FiniteSets

CONSTANTS Peers,
          Texts     \* what a peer may send

Ended == {"line", "bye"}           \* the pieces with a line end
Rests == {"rest", "byeRest"}       \* those without
Byes == {"bye", "byeRest"}         \* the pieces that nextLine() makes "bye"

ASSUME LineAssumption ==
  \A text \in Texts :
    /\ text \in Seq(Ended \cup Rests)
    /\ \A k \in 1 .. Len(text) : text[k] \in Rests => k = Len(text)

VARIABLES
  text,        \* what each peer sends if it is not stopped
  sent,        \* how many pieces of it have arrived
  cut,         \* how the peer's side ended: "none", "fin", "rst"
  queue,       \* the connections not yet accepted
  handler,     \* next statement of the peer's SocketHandler: "none",
               \* "hasNextLine", "write", "close", "ended"
  buffered,    \* the pieces the Scanner has read
  lines,       \* the pieces nextLine() has returned
  echoes,      \* the writes that went out
  reset        \* whether close() reset the connection

vars == <<text, sent, cut, queue, handler, buffered, lines, echoes, reset>>

TypeOK ==
  /\ text \in [Peers -> Texts]
  /\ sent \in [Peers -> Nat]
  /\ cut \in [Peers -> {"none", "fin", "rst"}]
  /\ queue \in Seq(Peers)
  /\ handler \in [Peers -> {"none", "hasNextLine", "write", "close", "ended"}]
  /\ buffered \in [Peers -> Nat]
  /\ lines \in [Peers -> Nat]
  /\ echoes \in [Peers -> Nat]
  /\ reset \in [Peers -> BOOLEAN]
  /\ \A p \in Peers : /\ echoes[p] <= lines[p] /\ lines[p] <= buffered[p]
                      /\ buffered[p] <= sent[p] /\ sent[p] <= Len(text[p])

Init ==
  /\ text \in [Peers -> Texts]
  /\ sent = [p \in Peers |-> 0]
  /\ cut = [p \in Peers |-> "none"]
  /\ queue = << >>
  /\ handler = [p \in Peers |-> "none"]
  /\ buffered = [p \in Peers |-> 0]
  /\ lines = [p \in Peers |-> 0]
  /\ echoes = [p \in Peers |-> 0]
  /\ reset = [p \in Peers |-> FALSE]

Connected(p) == handler[p] # "none" \/ \E k \in 1 .. Len(queue) : queue[k] = p

-----------------------------------------------------------------------------
(* The peers.                                                              *)

Connect(p) ==
  /\ ~ Connected(p)
  /\ queue' = Append(queue, p)
  /\ UNCHANGED <<text, sent, cut, handler, buffered, lines, echoes, reset>>

(* A piece arrives, unless the server has closed.                          *)
Send(p) ==
  /\ Connected(p) /\ handler[p] # "ended" /\ cut[p] = "none"
  /\ sent[p] < Len(text[p])
  /\ sent' = [sent EXCEPT ![p] = @ + 1]
  /\ UNCHANGED <<text, cut, queue, handler, buffered, lines, echoes, reset>>

(* The peer closes its side, or the connection is reset.                   *)
Cut(p) ==
  /\ Connected(p) /\ handler[p] # "ended"
  /\ \/ cut[p] = "none" /\ cut' = [cut EXCEPT ![p] = "fin"]
     \/ cut[p] # "rst" /\ cut' = [cut EXCEPT ![p] = "rst"]
  /\ UNCHANGED <<text, sent, queue, handler, buffered, lines, echoes, reset>>

-----------------------------------------------------------------------------
(* The server.                                                             *)

(* service(): the connection gets a thread of its own.                     *)
Accept ==
  /\ queue # << >>
  /\ handler' = [handler EXCEPT ![Head(queue)] = "hasNextLine"]
  /\ queue' = Tail(queue)
  /\ UNCHANGED <<text, sent, cut, buffered, lines, echoes, reset>>

NextPiece(p) == text[p][lines[p] + 1]

(* The Scanner reads what has arrived; after a reset that may fail.        *)
Fill(p) ==
  /\ handler[p] = "hasNextLine"
  /\ lines[p] = buffered[p]
  /\ \E n \in buffered[p] + 1 .. sent[p] : buffered' = [buffered EXCEPT ![p] = n]
  /\ UNCHANGED <<text, sent, cut, queue, handler, lines, echoes, reset>>

(* The end of the stream, or an exception.                                 *)
EndOfInput(p) ==
  cut[p] = "rst" \/ (cut[p] = "fin" /\ buffered[p] = sent[p])

(* Faulty variant: a rest is taken for a line before the stream ends.      *)
NextLineEager(p) ==
  /\ handler[p] = "hasNextLine"
  /\ lines[p] < buffered[p]
  /\ handler' = [handler EXCEPT ![p] =
                   IF NextPiece(p) \in Byes THEN "close" ELSE "write"]
  /\ lines' = [lines EXCEPT ![p] = @ + 1]
  /\ UNCHANGED <<text, sent, cut, queue, buffered, echoes, reset>>

(* Faulty variant: the "bye" does not end the loop.                        *)
NextLineNoBye(p) ==
  /\ handler[p] = "hasNextLine"
  /\ lines[p] < buffered[p]
  /\ NextPiece(p) \in Ended \/ EndOfInput(p)
  /\ handler' = [handler EXCEPT ![p] = "write"]
  /\ lines' = [lines EXCEPT ![p] = @ + 1]
  /\ UNCHANGED <<text, sent, cut, queue, buffered, echoes, reset>>

(* hasNextLine() with a line in the buffer, or a rest at the end of the    *)
(* stream; nextLine(); the test for "bye".                                 *)
NextLine(p) ==
  /\ handler[p] = "hasNextLine"
  /\ lines[p] < buffered[p]
  /\ NextPiece(p) \in Ended \/ EndOfInput(p)
  /\ handler' = [handler EXCEPT ![p] =
                   IF NextPiece(p) \in Byes THEN "close" ELSE "write"]
  /\ lines' = [lines EXCEPT ![p] = @ + 1]
  /\ UNCHANGED <<text, sent, cut, queue, buffered, echoes, reset>>

(* hasNextLine() returns false.                                            *)
NoMoreLines(p) ==
  /\ handler[p] = "hasNextLine"
  /\ lines[p] = buffered[p] /\ EndOfInput(p)
  /\ handler' = [handler EXCEPT ![p] = "close"]
  /\ UNCHANGED <<text, sent, cut, queue, buffered, lines, echoes, reset>>

(* Faulty variant: the handler tries again to write to a lost connection.  *)
WriteStuck(p) ==
  /\ handler[p] = "write" /\ cut[p] # "rst"
  /\ handler' = [handler EXCEPT ![p] = "hasNextLine"]
  /\ echoes' = [echoes EXCEPT ![p] = @ + 1]
  /\ UNCHANGED <<text, sent, cut, queue, buffered, lines, reset>>

(* getOutputStream().write(): an exception leads to the finally block.     *)
Write(p) ==
  /\ handler[p] = "write"
  /\ IF cut[p] = "rst"
       THEN /\ handler' = [handler EXCEPT ![p] = "close"]
            /\ UNCHANGED echoes
       ELSE /\ handler' = [handler EXCEPT ![p] = "hasNextLine"]
            /\ echoes' = [echoes EXCEPT ![p] = @ + 1]
  /\ UNCHANGED <<text, sent, cut, queue, buffered, lines, reset>>

(* socket.close(), again in the finally block: a reset if something is     *)
(* unread.                                                                 *)
Close(p) ==
  /\ handler[p] = "close"
  /\ handler' = [handler EXCEPT ![p] = "ended"]
  /\ reset' = [reset EXCEPT ![p] = buffered[p] < sent[p]]
  /\ UNCHANGED <<text, sent, cut, queue, buffered, lines, echoes>>

Run(p) == Fill(p) \/ NextLine(p) \/ NoMoreLines(p) \/ Write(p) \/ Close(p)

Next ==
  \/ Accept
  \/ \E p \in Peers : Run(p) \/ Connect(p) \/ Send(p) \/ Cut(p)

Spec == Init /\ [][Next]_vars

(* The accepting thread and every handler's thread are scheduled.          *)
FairSpec ==
  /\ Spec
  /\ WF_vars(Accept)
  /\ \A p \in Peers : WF_vars(Run(p))

-----------------------------------------------------------------------------
(* Properties.                                                             *)

(* The pieces before the first "bye" among the first n of a text.          *)
BeforeBye(t, n) == {k \in 1 .. n : \A j \in 1 .. k : t[j] \notin Byes}

(* What the peer has sent up to now and may be answered: a rest only when  *)
(* the peer's side has ended.                                              *)
Due(p) == {k \in BeforeBye(text[p], sent[p]) :
             text[p][k] \in Ended \/ cut[p] # "none"}

(* Nothing is echoed that is not a line sent before any "bye".  A request  *)
(* without a line end is not answered as long as its sender waits: such a  *)
(* client, like SocketClient, and the handler wait for each other.         *)
EchoesAreDue == \A p \in Peers : echoes[p] <= Cardinality(Due(p))

(* A handler that ends without a reset has echoed every line before the    *)
(* "bye", or before the end of the stream, the rest included.              *)
EndedHasEchoed ==
  \A p \in Peers :
    handler[p] = "ended" /\ cut[p] # "rst" => echoes[p] = Cardinality(Due(p))

SaidBye(p) == \E k \in 1 .. sent[p] : text[p][k] = "bye"

(* A connection whose peer has said "bye" or is gone gets closed, whatever *)
(* the other peers do.  The lines of a text fit into the buffers of its    *)
(* connection, so that no write waits for a peer that does not read.       *)
HandlersEnd ==
  \A p \in Peers :
    Connected(p) /\ (SaidBye(p) \/ cut[p] # "none") ~> handler[p] = "ended"
=============================================================================
