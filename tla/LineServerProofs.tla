-------------------------- MODULE LineServerProofs ---------------------------
(***************************************************************************)
(* Theorems about LineServer, for any peers and any texts.                 *)
(***************************************************************************)
EXTENDS LineServer, FiniteSetTheorems, TLAPS

(* A connection waits for Accept once, and has no handler before.          *)
QueueInv ==
  /\ \A k \in 1 .. Len(queue) : handler[queue[k]] = "none"
  /\ \A j, k \in 1 .. Len(queue) : queue[j] = queue[k] => j = k

(* What a handler has taken and echoed follows from the statement it is    *)
(* at.  It is one echo behind while it has a line to write, and stays so   *)
(* after a "bye" or a failed write; else it ends at the end of the stream. *)
PeerInv(p) ==
  /\ handler[p] = "none" => lines[p] = 0 /\ echoes[p] = 0
  /\ \A k \in 1 .. lines[p] : text[p][k] \in Ended \/ cut[p] # "none"
  /\ \A k \in 1 .. echoes[p] : text[p][k] \notin Byes
  /\ handler[p] = "hasNextLine" => lines[p] = echoes[p]
  /\ handler[p] = "write" =>
       lines[p] = echoes[p] + 1 /\ text[p][lines[p]] \notin Byes
  /\ handler[p] \in {"close", "ended"} =>
       \/ lines[p] = echoes[p] + 1 /\ (text[p][lines[p]] \in Byes \/ cut[p] = "rst")
       \/ /\ lines[p] = echoes[p]
          /\ cut[p] = "rst" \/ (cut[p] = "fin" /\ lines[p] = sent[p])

IInv == TypeOK /\ QueueInv /\ \A p \in Peers : PeerInv(p)

LEMMA TextFacts ==
  ASSUME TypeOK, NEW p \in Peers
  PROVE  Len(text[p]) \in Nat
<1>1. text[p] \in Texts
  BY DEF TypeOK
<1>2. text[p] \in Seq(Ended \cup Rests)
  BY <1>1, LineAssumption
<1> QED
  BY <1>2

LEMMA InitIInv == Init => IInv
<1> SUFFICES ASSUME Init PROVE IInv
  OBVIOUS
<1>1. \A p \in Peers : Len(text[p]) \in Nat
  BY LineAssumption DEF Init
<1>2. TypeOK
  BY <1>1 DEF Init, TypeOK
<1>3. QueueInv /\ \A p \in Peers : PeerInv(p)
  BY DEF Init, QueueInv, PeerInv
<1> QED
  BY <1>2, <1>3 DEF IInv

-----------------------------------------------------------------------------
(* The connections that wait                                               *)

(* Steps that leave the queue alone and give nobody a first statement.     *)
LEMMA SameQueue ==
  ASSUME IInv, queue' = queue, \A p \in Peers : handler[p] = "none" => handler'[p] = "none"
  PROVE  QueueInv'
<1>1. \A k \in 1 .. Len(queue) : queue[k] \in Peers
  BY DEF IInv, TypeOK
<1> QED
  BY <1>1 DEF IInv, QueueInv

LEMMA ConnectQueues ==
  ASSUME IInv, NEW p \in Peers, Connect(p)
  PROVE  TypeOK' /\ QueueInv'
<1>1. /\ queue' = Append(queue, p) /\ queue \in Seq(Peers)
      /\ Len(queue') = Len(queue) + 1 /\ Len(queue) \in Nat
      /\ queue'[Len(queue) + 1] = p
      /\ \A k \in 1 .. Len(queue) : queue'[k] = queue[k] /\ queue[k] \in Peers
  BY DEF Connect, IInv, TypeOK
<1>2. /\ handler[p] = "none" /\ \A k \in 1 .. Len(queue) : queue[k] # p
      /\ UNCHANGED <<text, sent, cut, handler, buffered, lines, echoes, reset>>
  BY DEF Connect, Connected
<1>3. TypeOK'
  BY <1>1, <1>2 DEF IInv, TypeOK
<1>4. \A k \in 1 .. Len(queue') :
        (k \in 1 .. Len(queue) /\ queue'[k] = queue[k])
          \/ (k = Len(queue) + 1 /\ queue'[k] = p)
  BY <1>1
<1>5. QueueInv'
  BY <1>1, <1>2, <1>4 DEF IInv, QueueInv
<1> QED
  BY <1>3, <1>5

LEMMA AcceptKeeps == IInv /\ Accept => IInv'
<1> SUFFICES ASSUME IInv, Accept PROVE IInv'
  OBVIOUS
<1> DEFINE h == Head(queue)
<1>1. /\ queue \in Seq(Peers) /\ queue # << >> /\ Len(queue) \in Nat
      /\ h = queue[1] /\ h \in Peers /\ 1 \in 1 .. Len(queue)
      /\ queue' = Tail(queue) /\ queue' \in Seq(Peers)
      /\ Len(queue') = Len(queue) - 1
      /\ \A k \in 1 .. Len(queue') : /\ queue'[k] = queue[k + 1]
                                     /\ k + 1 \in 1 .. Len(queue)
                                     /\ queue[k + 1] \in Peers
  BY DEF Accept, IInv, TypeOK
<1>2. /\ handler' = [handler EXCEPT ![h] = "hasNextLine"]
      /\ UNCHANGED <<text, sent, cut, buffered, lines, echoes, reset>>
  BY DEF Accept
<1> HIDE DEF h
<1>3. TypeOK'
  BY <1>1, <1>2 DEF IInv, TypeOK
<1>4. handler[h] = "none"
  BY <1>1 DEF IInv, QueueInv
<1>5. QueueInv'
  <2>1. ASSUME NEW k \in 1 .. Len(queue')
        PROVE  queue'[k] # h /\ handler'[queue'[k]] = "none"
    <3>1. k + 1 \in 1 .. Len(queue) /\ k + 1 # 1 /\ queue'[k] = queue[k + 1]
      BY <1>1
    <3>2. queue[k + 1] # h /\ handler[queue[k + 1]] = "none"
      BY <1>1, <3>1 DEF IInv, QueueInv
    <3>3. queue[k + 1] \in Peers
      BY <1>1
    <3> QED
      BY <1>2, <3>1, <3>2, <3>3 DEF IInv, TypeOK
  <2>2. \A j, k \in 1 .. Len(queue') : queue'[j] = queue'[k] => j = k
    BY <1>1 DEF IInv, QueueInv
  <2> QED
    BY <2>1, <2>2 DEF QueueInv
<1>6. ASSUME NEW p \in Peers PROVE PeerInv(p)'
  BY <1>1, <1>2, <1>4 DEF IInv, PeerInv, TypeOK
<1> QED
  BY <1>3, <1>5, <1>6 DEF IInv

-----------------------------------------------------------------------------
(* The peers and the handlers                                              *)

LEMMA PeerKeeps ==
  ASSUME IInv, NEW p \in Peers, Connect(p) \/ Send(p) \/ Cut(p)
  PROVE  IInv'
<1>0. Len(text[p]) \in Nat
  BY TextFacts DEF IInv
<1>1. CASE Connect(p)
  <2>1. UNCHANGED <<text, sent, cut, handler, buffered, lines, echoes, reset>>
    BY <1>1 DEF Connect
  <2>2. \A q \in Peers : PeerInv(q)'
    BY <2>1 DEF IInv, PeerInv
  <2> QED
    BY <1>1, <2>2, ConnectQueues DEF IInv
<1>2. CASE Send(p)
  <2>1. /\ handler[p] # "ended" /\ cut[p] = "none" /\ sent[p] < Len(text[p])
        /\ sent' = [sent EXCEPT ![p] = @ + 1]
        /\ UNCHANGED <<text, cut, queue, handler, buffered, lines, echoes, reset>>
    BY <1>2 DEF Send
  <2>2. TypeOK'
    BY <1>0, <2>1 DEF IInv, TypeOK
  <2>3. QueueInv'
    BY <2>1, SameQueue
  <2>4. ASSUME NEW q \in Peers PROVE PeerInv(q)'
    BY <2>1 DEF IInv, PeerInv, TypeOK
  <2> QED
    BY <2>2, <2>3, <2>4 DEF IInv
<1>3. CASE Cut(p)
  <2>1. PICK how \in {"fin", "rst"} :
          /\ cut' = [cut EXCEPT ![p] = how]
          /\ cut[p] = "none" \/ how = "rst"
    BY <1>3 DEF Cut
  <2>2. UNCHANGED <<text, sent, queue, handler, buffered, lines, echoes, reset>>
    BY <1>3 DEF Cut
  <2>3. TypeOK'
    BY <2>1, <2>2 DEF IInv, TypeOK
  <2>4. QueueInv'
    BY <2>2, SameQueue
  <2>5. ASSUME NEW q \in Peers PROVE PeerInv(q)'
    BY <2>1, <2>2 DEF IInv, PeerInv, TypeOK
  <2> QED
    BY <2>3, <2>4, <2>5 DEF IInv
<1> QED
  BY <1>1, <1>2, <1>3

LEMMA RunKeeps ==
  ASSUME IInv, NEW p \in Peers, Run(p)
  PROVE  IInv'
<1>0. /\ TypeOK /\ PeerInv(p)
      /\ sent[p] \in Nat /\ buffered[p] \in Nat /\ lines[p] \in Nat /\ echoes[p] \in Nat
      /\ echoes[p] <= lines[p] /\ lines[p] <= buffered[p] /\ buffered[p] <= sent[p]
      /\ handler[p] # "none"
  BY DEF IInv, TypeOK, Run, Fill, NextLine, NoMoreLines, Write, Close
<1>1. UNCHANGED <<text, sent, cut, queue>>
  BY DEF Run, Fill, NextLine, NoMoreLines, Write, Close
<1>2. /\ \A q \in Peers \ {p} : /\ handler'[q] = handler[q]
                                /\ lines'[q] = lines[q] /\ echoes'[q] = echoes[q]
  BY DEF IInv, TypeOK, Run, Fill, NextLine, NoMoreLines, Write, Close
<1>3. QueueInv'
  BY <1>0, <1>1, <1>2, SameQueue
<1>4. ASSUME NEW q \in Peers \ {p} PROVE PeerInv(q)'
  BY <1>1, <1>2 DEF IInv, PeerInv
<1>5. TypeOK' /\ PeerInv(p)'
  <2>1. CASE Fill(p)
    <3>1. PICK n \in buffered[p] + 1 .. sent[p] : buffered' = [buffered EXCEPT ![p] = n]
      BY <2>1 DEF Fill
    <3>2. UNCHANGED <<text, sent, cut, queue, handler, lines, echoes, reset>>
      BY <2>1 DEF Fill
    <3> QED
      BY <1>0, <3>1, <3>2 DEF TypeOK, PeerInv
  <2>2. CASE NextLine(p)
    <3>1. /\ handler[p] = "hasNextLine" /\ lines[p] < buffered[p]
          /\ lines' = [lines EXCEPT ![p] = @ + 1]
          /\ handler' = [handler EXCEPT ![p] =
                           IF text[p][lines[p] + 1] \in Byes THEN "close" ELSE "write"]
          /\ text[p][lines[p] + 1] \in Ended \/ cut[p] # "none"
          /\ UNCHANGED <<text, sent, cut, queue, buffered, echoes, reset>>
      BY <2>2 DEF NextLine, NextPiece, EndOfInput
    <3>2. TypeOK'
      BY <1>0, <3>1 DEF TypeOK
    <3>3. /\ lines'[p] = lines[p] + 1
          /\ \A k \in 1 .. lines[p] + 1 : k \in 1 .. lines[p] \/ k = lines[p] + 1
      BY <1>0, <3>1 DEF TypeOK
    <3> QED
      BY <1>0, <3>1, <3>2, <3>3 DEF TypeOK, PeerInv
  <2>3. CASE NoMoreLines(p)
    BY <1>0, <2>3 DEF NoMoreLines, EndOfInput, TypeOK, PeerInv
  <2>4. CASE Write(p)
    <3>1. CASE cut[p] = "rst"
      BY <1>0, <2>4, <3>1 DEF Write, TypeOK, PeerInv
    <3>2. CASE cut[p] # "rst"
      <4>1. /\ handler[p] = "write" /\ handler' = [handler EXCEPT ![p] = "hasNextLine"]
            /\ echoes' = [echoes EXCEPT ![p] = @ + 1]
            /\ UNCHANGED <<text, sent, cut, queue, buffered, lines, reset>>
        BY <2>4, <3>2 DEF Write
      <4>2. lines[p] = echoes[p] + 1 /\ text[p][lines[p]] \notin Byes
        BY <1>0, <4>1 DEF PeerInv
      <4>3. /\ echoes'[p] = lines[p]
            /\ 1 .. echoes'[p] = (1 .. echoes[p]) \cup {lines[p]}
        BY <1>0, <4>1, <4>2 DEF TypeOK
      <4>4. TypeOK'
        BY <1>0, <4>1, <4>2 DEF TypeOK
      <4> QED
        BY <1>0, <4>1, <4>2, <4>3, <4>4 DEF TypeOK, PeerInv
    <3> QED
      BY <3>1, <3>2
  <2>5. CASE Close(p)
    BY <1>0, <2>5 DEF Close, TypeOK, PeerInv
  <2> QED
    BY <2>1, <2>2, <2>3, <2>4, <2>5 DEF Run
<1> QED
  BY <1>3, <1>4, <1>5 DEF IInv

LEMMA StepIInv == IInv /\ [Next]_vars => IInv'
<1> SUFFICES ASSUME IInv, [Next]_vars PROVE IInv'
  OBVIOUS
<1>1. CASE UNCHANGED vars
  BY <1>1 DEF vars, IInv, TypeOK, QueueInv, PeerInv
<1> QED
  BY <1>1, AcceptKeeps, PeerKeeps, RunKeeps DEF Next

(* Whatever peers and handlers do in between, what a handler has taken and *)
(* echoed follows from where it is, and no connection is accepted twice.   *)
THEOREM Invariance == Spec => []IInv
BY InitIInv, StepIInv, PTL DEF Spec

(* A handler never takes more pieces than have arrived nor echoes more     *)
(* than it has taken.                                                      *)
THEOREM TypeCorrect == Spec => []TypeOK
<1>1. IInv => TypeOK
  BY DEF IInv
<1> QED
  BY <1>1, Invariance, PTL

-----------------------------------------------------------------------------
(* What is echoed                                                          *)

LEMMA UptoIsFinite ==
  ASSUME NEW n \in Nat
  PROVE  IsFiniteSet(1 .. n) /\ Cardinality(1 .. n) = n
BY FS_Interval

LEMMA DueIsFinite ==
  ASSUME IInv, NEW p \in Peers
  PROVE  /\ IsFiniteSet(Due(p)) /\ Cardinality(Due(p)) \in Nat
         /\ IsFiniteSet(1 .. echoes[p]) /\ Cardinality(1 .. echoes[p]) = echoes[p]
         /\ 1 .. echoes[p] \subseteq Due(p)
<1>1. /\ sent[p] \in Nat /\ lines[p] \in Nat /\ echoes[p] \in Nat
      /\ echoes[p] <= lines[p] /\ lines[p] <= sent[p]
  BY DEF IInv, TypeOK
<1>2. IsFiniteSet(1 .. sent[p])
  BY <1>1, UptoIsFinite
<1>3. Due(p) \subseteq 1 .. sent[p]
  BY DEF Due, BeforeBye
<1>4. IsFiniteSet(1 .. echoes[p]) /\ Cardinality(1 .. echoes[p]) = echoes[p]
  BY <1>1, UptoIsFinite
<1>5. 1 .. echoes[p] \subseteq Due(p)
  BY <1>1 DEF IInv, PeerInv, Due, BeforeBye
<1> QED
  BY <1>2, <1>3, <1>4, <1>5, FS_Subset, FS_CardinalityType

(* No echo goes out that is not of a line sent before any "bye", and a     *)
(* request without a line end stays unanswered while its sender waits.     *)
THEOREM OnlyDueEchoes == Spec => []EchoesAreDue
<1>1. IInv => EchoesAreDue
  <2> SUFFICES ASSUME IInv, NEW p \in Peers
               PROVE  echoes[p] <= Cardinality(Due(p))
    BY DEF EchoesAreDue
  <2> QED
    BY DueIsFinite, FS_Subset
<1> QED
  BY <1>1, Invariance, PTL

(* A handler that ends without a reset has echoed all there was to echo.   *)
THEOREM EndedEchoed == Spec => []EndedHasEchoed
<1>1. IInv => EndedHasEchoed
  <2> SUFFICES ASSUME IInv, NEW p \in Peers, handler[p] = "ended", cut[p] # "rst"
               PROVE  echoes[p] = Cardinality(Due(p))
    BY DEF EndedHasEchoed
  <2>1. /\ sent[p] \in Nat /\ lines[p] \in Nat /\ echoes[p] \in Nat
        /\ lines[p] <= sent[p]
    BY DEF IInv, TypeOK
  <2>2. \/ lines[p] = echoes[p] + 1 /\ text[p][lines[p]] \in Byes
        \/ echoes[p] = sent[p]
    BY DEF IInv, PeerInv
  <2>3. Due(p) \subseteq 1 .. echoes[p]
    <3>1. CASE lines[p] = echoes[p] + 1 /\ text[p][lines[p]] \in Byes
      <4> SUFFICES ASSUME NEW k \in Due(p) PROVE k <= echoes[p] /\ k \in 1 .. sent[p]
        BY <2>1
      <4>1. k \in 1 .. sent[p] /\ \A j \in 1 .. k : text[p][j] \notin Byes
        BY DEF Due, BeforeBye
      <4>2. lines[p] \notin 1 .. k
        BY <3>1, <4>1
      <4> QED
        BY <2>1, <3>1, <4>1, <4>2
    <3>2. CASE echoes[p] = sent[p]
      BY <3>2 DEF Due, BeforeBye
    <3> QED
      BY <2>2, <3>1, <3>2
  <2>4. Due(p) = 1 .. echoes[p]
    BY <2>3, DueIsFinite
  <2> QED
    BY <2>4, DueIsFinite
<1> QED
  BY <1>1, Invariance, PTL

=============================================================================
