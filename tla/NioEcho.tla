------------------------------- MODULE NioEcho -------------------------------
(***************************************************************************)
(* com.tool.server.NIOSimpleEchoServer: one thread that selects and        *)
(* handles every selected key itself.  A readable connection has one read  *)
(* stored in the map "messages" and waits for OP_WRITE; a writable one     *)
(* gets the fixed response and is closed.  One try block surrounds the     *)
(* loop: the first exception ends the server.                              *)
(*                                                                         *)
(* Only the peers run beside the server, so one action handles one key: a  *)
(* branch makes at most one call (accept, read, write) whose outcome the   *)
(* peers decide.  The JDK selector and the peers are modelled from how the *)
(* class uses them.  The round counter, the keys' attachments and the      *)
(* printed text, which nothing depends on, are left out.                   *)
(***************************************************************************)
EXTENDS Naturals

CONSTANTS Clients,     \* connections the peers may open
          AcceptKey,   \* the selection key of the server socket channel
          BufCap,      \* capacity of "buffer", in the units the peers send
          MaxSent      \* units each client may send (bound)

ASSUME NioAssumption ==
  /\ AcceptKey \notin Clients
  /\ BufCap \in Nat \ {0}
  /\ MaxSent \in Nat

VARIABLES
  client,      \* each peer: "idle", "open", "closed" (FIN sent), "reset"
  backlog,     \* connections the kernel established and nobody accepted
  sent,        \* units the client has sent
  unread,      \* of those, the ones still in the socket's receive queue
  key,         \* the connection's key: its interest set, "NONE" before it is
               \* registered, "CANCELLED" with the channel left open, "CLOSED"
  messages,    \* connections with an entry in the map
  ready,       \* ready operations recorded in the selected keys; a key is in
               \* selectedKeys() while it has some
  server,      \* "select", "iterate", or "down": run() has ended
  replies      \* how often the response was written (history)

peerVars   == <<client, sent>>
serverVars == <<key, messages, replies>>
vars == <<peerVars, backlog, unread, serverVars, ready, server>>

Keys == Clients \cup {AcceptKey}

KeyStates == {"NONE", "READ", "WRITE", "CANCELLED", "CLOSED"}

TypeOK ==
  /\ client \in [Clients -> {"idle", "open", "closed", "reset"}]
  /\ backlog \in SUBSET Clients
  /\ sent \in [Clients -> 0 .. MaxSent]
  /\ unread \in [Clients -> 0 .. MaxSent]
  /\ key \in [Clients -> KeyStates]
  /\ messages \in SUBSET Clients
  /\ ready \in [Keys -> SUBSET {"ACCEPT", "READ", "WRITE"}]
  /\ server \in {"select", "iterate", "down"}
  /\ replies \in [Clients -> Nat]

Init ==
  /\ client = [c \in Clients |-> "idle"]
  /\ backlog = {}
  /\ sent = [c \in Clients |-> 0]
  /\ unread = [c \in Clients |-> 0]
  /\ key = [c \in Clients |-> "NONE"]
  /\ messages = {}
  /\ ready = [k \in Keys |-> {}]
  /\ server = "select"
  /\ replies = [c \in Clients |-> 0]

-----------------------------------------------------------------------------
(* The peers.                                                              *)

Connect(c) ==
  /\ client[c] = "idle"
  /\ client' = [client EXCEPT ![c] = "open"]
  /\ backlog' = backlog \cup {c}
  /\ UNCHANGED <<sent, unread, serverVars, ready, server>>

Send(c) ==
  /\ client[c] = "open"
  /\ key[c] # "CLOSED"
  /\ sent[c] < MaxSent
  /\ sent' = [sent EXCEPT ![c] = @ + 1]
  /\ unread' = [unread EXCEPT ![c] = @ + 1]
  /\ UNCHANGED <<client, backlog, serverVars, ready, server>>

Close(c) ==
  /\ client[c] = "open"
  /\ client' = [client EXCEPT ![c] = "closed"]
  /\ UNCHANGED <<sent, backlog, unread, serverVars, ready, server>>

(* A connection reset before it is accepted stays in the backlog or leaves *)
(* it: the kernels differ.                                                 *)
Reset(c) ==
  /\ client[c] \in {"open", "closed"}
  /\ client' = [client EXCEPT ![c] = "reset"]
  /\ backlog' \in {backlog, backlog \ {c}}
  /\ UNCHANGED <<sent, unread, serverVars, ready, server>>

-----------------------------------------------------------------------------
(* The server thread.                                                      *)

ReadyOps(k) ==
  IF k = AcceptKey
    THEN IF backlog # {} THEN {"ACCEPT"} ELSE {}
    ELSE CASE key[k] = "READ" ->
                IF unread[k] > 0 \/ client[k] \in {"closed", "reset"}
                  THEN {"READ"} ELSE {}
           [] key[k] = "WRITE" -> {"WRITE"}
           [] OTHER -> {}

Select ==
  /\ server = "select"
  /\ \E k \in Keys : ReadyOps(k) # {}
  /\ ready' = [k \in Keys |-> ready[k] \cup ReadyOps(k)]
  /\ server' = "iterate"
  /\ UNCHANGED <<peerVars, backlog, unread, serverVars>>

(* iterator.next() and iterator.remove().                                  *)
Take(k, op) ==
  /\ server = "iterate"
  /\ op \in ready[k]
  /\ ready' = [ready EXCEPT ![k] = {}]

(* Faulty variant: no iterator.remove().                                   *)
TakeAndKeep(k, op) ==
  /\ server = "iterate"
  /\ op \in ready[k]
  /\ UNCHANGED ready

(* Faulty variant: the accepted channel is registered without interest.    *)
HandleAcceptIdle ==
  /\ Take(AcceptKey, "ACCEPT")
  /\ \/ /\ backlog = {}
        /\ server' = "down"
        /\ UNCHANGED <<backlog, serverVars>>
     \/ \E c \in backlog :
          /\ backlog' = backlog \ {c}
          /\ UNCHANGED <<serverVars, server>>
  /\ UNCHANGED <<peerVars, unread>>

(* Faulty variant: accept() again until it returns null, without a test.   *)
HandleAcceptAll ==
  /\ TakeAndKeep(AcceptKey, "ACCEPT")
  /\ \/ /\ backlog = {}
        /\ server' = "down"
        /\ UNCHANGED <<backlog, serverVars>>
     \/ \E c \in backlog :
          /\ backlog' = backlog \ {c}
          /\ key' = [key EXCEPT ![c] = "READ"]
          /\ UNCHANGED <<messages, replies, server>>
  /\ UNCHANGED <<peerVars, unread>>

(* accept() returns null if the peer is gone from the backlog, and the     *)
(* dereference that follows ends the server.  accept() has the resources   *)
(* it needs and does not throw.                                            *)
HandleAccept ==
  /\ Take(AcceptKey, "ACCEPT")
  /\ \/ /\ backlog = {}
        /\ server' = "down"
        /\ UNCHANGED <<backlog, serverVars>>
     \/ \E c \in backlog :
          /\ backlog' = backlog \ {c}
          /\ key' = [key EXCEPT ![c] = "READ"]
          /\ UNCHANGED <<messages, replies, server>>
  /\ UNCHANGED <<peerVars, unread>>

UnitsRead(c) == IF unread[c] <= BufCap THEN unread[c] ELSE BufCap

(* messages.put and register(selector, OP_WRITE, "1").                      *)
StoreRequest(c) ==
  /\ messages' = messages \cup {c}
  /\ key' = [key EXCEPT ![c] = "WRITE"]

(* read() throws on a reset connection, else moves what fits in the buffer;*)
(* with nothing to move it is at end of stream and the key is cancelled -  *)
(* the channel is not closed.                                              *)
HandleRead(c) ==
  /\ Take(c, "READ")
  /\ \/ /\ client[c] = "reset"
        /\ server' = "down"
        /\ UNCHANGED <<unread, key, messages>>
     \/ /\ client[c] # "reset"
        /\ unread[c] > 0
        /\ unread' = [unread EXCEPT ![c] = @ - UnitsRead(c)]
        /\ StoreRequest(c)
        /\ UNCHANGED server
     \/ /\ client[c] = "closed"
        /\ unread[c] = 0
        /\ key' = [key EXCEPT ![c] = "CANCELLED"]
        /\ UNCHANGED <<unread, messages, server>>
  /\ UNCHANGED <<peerVars, backlog, replies>>

(* Faulty variant: the connection is kept open after the response.         *)
HandleWriteKeepAlive(c) ==
  /\ Take(c, "WRITE")
  /\ IF c \in messages
       THEN /\ messages' = messages \ {c}
            /\ key' = [key EXCEPT ![c] = "READ"]
            /\ IF client[c] = "reset"
                 THEN server' = "down" /\ UNCHANGED replies
                 ELSE replies' = [replies EXCEPT ![c] = @ + 1] /\ UNCHANGED server
       ELSE UNCHANGED <<messages, key, replies, server>>
  /\ UNCHANGED <<peerVars, backlog, unread>>

(* Faulty variant: the map entry is not removed.                           *)
HandleWriteNoRemove(c) ==
  /\ Take(c, "WRITE")
  /\ IF client[c] = "reset"
       THEN /\ key' = [key EXCEPT ![c] = "READ"]
            /\ server' = "down" /\ UNCHANGED replies
       ELSE /\ key' = [key EXCEPT ![c] = "CLOSED"]
            /\ replies' = [replies EXCEPT ![c] = @ + 1] /\ UNCHANGED server
  /\ UNCHANGED <<peerVars, backlog, unread, messages>>

(* The entry is removed and the interest set back to OP_READ before the    *)
(* write, which throws on a reset connection; then the channel is closed.  *)
HandleWrite(c) ==
  /\ Take(c, "WRITE")
  /\ IF c \in messages
       THEN /\ messages' = messages \ {c}
            /\ IF client[c] = "reset"
                 THEN /\ key' = [key EXCEPT ![c] = "READ"]
                      /\ server' = "down"
                      /\ UNCHANGED replies
                 ELSE /\ key' = [key EXCEPT ![c] = "CLOSED"]
                      /\ replies' = [replies EXCEPT ![c] = @ + 1]
                      /\ UNCHANGED server
       ELSE UNCHANGED <<messages, key, replies, server>>
  /\ UNCHANGED <<peerVars, backlog, unread>>

IterationEnd ==
  /\ server = "iterate"
  /\ \A k \in Keys : ready[k] = {}
  /\ server' = "select"
  /\ UNCHANGED <<peerVars, backlog, unread, serverVars, ready>>

Peers == \E c \in Clients : Connect(c) \/ Send(c) \/ Close(c) \/ Reset(c)

Run ==
  \/ Select
  \/ HandleAccept
  \/ \E c \in Clients : HandleRead(c) \/ HandleWrite(c)
  \/ IterationEnd

Next == Peers \/ Run

Spec == Init /\ [][Next]_vars

(* The main thread is scheduled; the peers owe nothing.                    *)
FairSpec == Spec /\ WF_vars(Run)

-----------------------------------------------------------------------------
(* Properties.                                                             *)

(* While the server runs, the map holds a request for exactly the          *)
(* connections whose key waits for OP_WRITE: no entry outlives its         *)
(* connection, and no writable key is selected without one.                *)
MessagesMatchKeys ==
  server # "down" => messages = {c \in Clients : key[c] = "WRITE"}

(* A selected key is never stale: what its ready set records is still what *)
(* its connection waits for, so no cancelled key is asked isAcceptable().  *)
NoStaleKey == \A c \in Clients : ready[c] \subseteq {key[c]}

(* Peers that do not reset their connections cannot end the server: of all *)
(* they may do only a reset makes a branch of run() throw.                 *)
EndsOnlyByReset == server = "down" => \E c \in Clients : client[c] = "reset"

(* A cancelled key leaves its channel open for good; that happens only to  *)
(* peers that closed without having sent anything.                         *)
LeaksOnlySilentPeers ==
  \A c \in Clients : key[c] = "CANCELLED" => sent[c] = 0 /\ client[c] # "open"

(* One reply per connection, after a read that took data from it.          *)
Service == INSTANCE OneShot WITH
  asked    <- {c \in Clients : unread[c] < sent[c]},
  answered <- replies

ImplementsOneShot == Service!Spec

(* Whoever has sent something is answered, unless it resets or the server  *)
(* has ended: no key starves however many others are ready.                *)
RequestAnswered ==
  \A c \in Clients :
    sent[c] > 0 ~> replies[c] > 0 \/ client[c] = "reset" \/ server = "down"
=============================================================================
