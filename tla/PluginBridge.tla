---------------------------- MODULE PluginBridge ----------------------------
(***************************************************************************)
(* The agent's client of the plugin host (bridge.rs) and the host's end of *)
(* its connections (the accept loop of corvid-plugin-host): requests and   *)
(* replies are lines on a Unix socket, the client holds a mutex from       *)
(* writing a request to reading a line, and the host serves the requests   *)
(* of a connection one after the other.                                    *)
(***************************************************************************)
EXTENDS Naturals, Sequences, FiniteSets

CONSTANTS
  Callers,        \* tasks that share the bridge
  MaxCalls,       \* bound: calls made in all, and the range of next_id
  MaxConns,       \* bound: connections made in all
  MaxUnread,      \* requests that fit into a socket from which the host does not read
  Free            \* the mutex is not held

ASSUME BridgeAssumption ==
  /\ MaxCalls \in Nat /\ MaxConns \in Nat /\ MaxUnread \in Nat \ {0}
  /\ Free \notin Callers

Ids == 1..MaxCalls
Conns == 1..MaxConns

VARIABLES
  next_id,        \* PluginBridge.next_id
  conn,           \* PluginBridge.conn: a connection, 0 for None
  holder,         \* who holds the mutex around it
  step,           \* step[c]: how far c's call has come
  id,             \* id[c]: the id of that call
  answer,         \* answer[c]: the id whose reply c's last call took for its own
  made,           \* connections made so far
  alive,          \* connections the host has not closed
  sent,           \* sent[k]: ids written on k, not yet read by the host
  serving,        \* serving[k]: the request the host is handling, 0 if none
  replies,        \* replies[k]: ids of the replies not yet read by the client
  up,             \* the host process accepts connections
  gaveUp          \* history: connections on which a call has timed out

clientVars == <<next_id, conn, holder, step, id, answer, gaveUp>>
hostVars == <<serving, replies, sent, alive, up>>
bridgeVars == <<clientVars, made, hostVars>>

BridgeTypeOK ==
  /\ next_id \in 1..(MaxCalls + 1)
  /\ made \in 0..MaxConns /\ conn \in 0..made
  /\ holder \in Callers \cup {Free}
  /\ step \in [Callers -> {"idle", "queued", "writing", "reading"}]
  /\ id \in [Callers -> Ids \cup {0}]
  /\ answer \in [Callers -> Ids \cup {0}]
  /\ alive \in SUBSET (1..made)
  /\ sent \in [Conns -> Seq(Ids)]
  /\ serving \in [Conns -> Ids \cup {0}]
  /\ replies \in [Conns -> Seq(Ids)]
  /\ up \in BOOLEAN /\ (~up => alive = {})
  /\ gaveUp \in SUBSET (1..made)
  /\ \A c \in Callers : step[c] \in {"writing", "reading"} <=> holder = c

BridgeInit ==
  /\ next_id = 1 /\ conn = 0 /\ holder = Free
  /\ step = [c \in Callers |-> "idle"]
  /\ id = [c \in Callers |-> 0]
  /\ answer = [c \in Callers |-> 0]
  /\ made = 0 /\ alive = {}
  /\ sent = [k \in Conns |-> <<>>]
  /\ serving = [k \in Conns |-> 0]
  /\ replies = [k \in Conns |-> <<>>]
  /\ up = TRUE /\ gaveUp = {}

-----------------------------------------------------------------------------
(* The client.                                                              *)

(* connect: a new stream replaces the old one, whose two halves are closed. *)
connect ==
  /\ up /\ made < MaxConns /\ holder = Free
  /\ made' = made + 1
  /\ conn' = made'
  /\ alive' = alive \cup {made'}
  /\ UNCHANGED <<next_id, holder, step, id, answer, serving, replies,
                 sent, up, gaveUp>>

Call(c) ==
  /\ step[c] = "idle" /\ next_id <= MaxCalls
  /\ step' = [step EXCEPT ![c] = "queued"]
  /\ id' = [id EXCEPT ![c] = next_id]
  /\ answer' = [answer EXCEPT ![c] = 0]
  /\ next_id' = next_id + 1
  /\ UNCHANGED <<conn, holder, gaveUp, made, hostVars>>

(* Faulty variant: somebody else may have the connection.                   *)
LockAnyway(c) ==
  /\ step[c] = "queued" /\ conn # 0
  /\ holder' = c
  /\ step' = [step EXCEPT ![c] = "writing"]
  /\ UNCHANGED <<next_id, conn, id, answer, gaveUp, made, hostVars>>

(* The mutex is taken; without a connection the call fails.                 *)
Lock(c) ==
  /\ step[c] = "queued" /\ holder = Free
  /\ \/ /\ conn # 0
        /\ holder' = c
        /\ step' = [step EXCEPT ![c] = "writing"]
     \/ /\ conn = 0
        /\ step' = [step EXCEPT ![c] = "idle"]
        /\ UNCHANGED holder
  /\ UNCHANGED <<next_id, conn, id, answer, gaveUp, made, hostVars>>

Release(c) ==
  /\ holder' = Free
  /\ step' = [step EXCEPT ![c] = "idle"]

(* No room for the request: write_all waits, with the mutex and without a   *)
(* timeout, until the host reads or is gone.                                *)
WriteWaits(c) ==
  step[c] = "writing" /\ conn \in alive /\ Len(sent[conn]) >= MaxUnread

(* The request is written; on a connection the host has closed the call     *)
(* fails and leaves conn as it is.                                          *)
Write(c) ==
  /\ step[c] = "writing" /\ ~WriteWaits(c)
  /\ \/ /\ conn \in alive
        /\ step' = [step EXCEPT ![c] = "reading"]
        /\ sent' = [sent EXCEPT ![conn] = Append(@, id[c])]
        /\ UNCHANGED holder
     \/ /\ conn \notin alive
        /\ Release(c)
        /\ UNCHANGED sent
  /\ UNCHANGED <<next_id, conn, id, answer, made, serving, replies,
                 alive, up, gaveUp>>

(* Faulty variant: the line stays in the buffer.                            *)
ReadReplyPeeks(c) ==
  /\ step[c] = "reading" /\ replies[conn] # <<>>
  /\ Release(c)
  /\ answer' = [answer EXCEPT ![c] = Head(replies[conn])]
  /\ UNCHANGED <<next_id, conn, id, gaveUp, made, hostVars>>

(* The next line of the stream is this call's reply, whatever id it has.    *)
ReadReply(c) ==
  /\ step[c] = "reading" /\ replies[conn] # <<>>
  /\ Release(c)
  /\ answer' = [answer EXCEPT ![c] = Head(replies[conn])]
  /\ replies' = [replies EXCEPT ![conn] = Tail(@)]
  /\ UNCHANGED <<next_id, conn, id, made, serving, sent, alive,
                 up, gaveUp>>

ReadEof(c) ==
  /\ step[c] = "reading" /\ replies[conn] = <<>> /\ conn \notin alive
  /\ Release(c)
  /\ conn' = 0
  /\ UNCHANGED <<next_id, id, answer, gaveUp, made, hostVars>>

(* Faulty variant: a line is awaited without a timeout.                     *)
ReadTimeoutIgnored(c) == FALSE /\ UNCHANGED bridgeVars

(* 30 s pass without a line: the call fails, the connection is kept.        *)
ReadTimeout(c) ==
  /\ step[c] = "reading"
  /\ Release(c)
  /\ gaveUp' = gaveUp \cup {conn}
  /\ UNCHANGED <<next_id, conn, id, answer, made, hostVars>>

-----------------------------------------------------------------------------
(* The host.                                                                *)

ReadRequest(k) ==
  /\ k \in alive /\ serving[k] = 0 /\ sent[k] # <<>>
  /\ serving' = [serving EXCEPT ![k] = Head(sent[k])]
  /\ sent' = [sent EXCEPT ![k] = Tail(@)]
  /\ UNCHANGED <<clientVars, made, replies, alive, up>>

(* handle_request has returned; nobody reads a connection that connect has  *)
(* replaced.                                                                *)
WriteReply(k) ==
  /\ serving[k] # 0
  /\ serving' = [serving EXCEPT ![k] = 0]
  /\ replies' = IF k = conn THEN [replies EXCEPT ![k] = Append(@, serving[k])]
                ELSE replies
  /\ UNCHANGED <<clientVars, made, sent, alive, up>>

(* The process dies, and with it its connections.                           *)
Crash ==
  /\ up
  /\ up' = FALSE
  /\ alive' = {}
  /\ serving' = [k \in Conns |-> 0]
  /\ sent' = [k \in Conns |-> <<>>]
  /\ UNCHANGED <<clientVars, made, replies>>

Restart ==
  /\ ~up
  /\ up' = TRUE
  /\ UNCHANGED <<clientVars, made, serving, replies, sent, alive>>

-----------------------------------------------------------------------------
BridgeNext ==
  \/ connect
  \/ \E c \in Callers : \/ Call(c) \/ Lock(c) \/ Write(c) \/ ReadReply(c)
                        \/ ReadEof(c) \/ ReadTimeout(c)
  \/ \E k \in Conns : ReadRequest(k) \/ WriteReply(k)
  \/ Crash \/ Restart

BridgeSpec == BridgeInit /\ [][BridgeNext]_bridgeVars

(* The mutex is fair, a write that has room ends, the 30 s of a read pass,  *)
(* and a socket tells of a peer's death.  Nothing is assumed of the host.   *)
BridgeFairness ==
  \A c \in Callers :
    /\ SF_bridgeVars(Lock(c)) /\ WF_bridgeVars(Write(c))
    /\ WF_bridgeVars(ReadEof(c) \/ ReadTimeout(c))

-----------------------------------------------------------------------------
(* "Send a JSON-RPC request and read the response": a call takes the reply  *)
(* to its own request, however calls overlap and whenever the host dies or  *)
(* the bridge reconnects, on every connection on which no call has given up *)
(* before.  (On one on which a call has, the replies are one call late.)    *)
AnswersOwnRequest ==
  [][\A c \in Callers : ReadReply(c) /\ conn \notin gaveUp => answer'[c] = id[c]]_bridgeVars

(* Nothing is under way on the connection when the mutex is free: the next  *)
(* line to come is the next call's, as long as no call has given up on it.  *)
NothingPending ==
  /\ BridgeTypeOK
  /\ holder = Free /\ conn # 0 /\ conn \notin gaveUp =>
       sent[conn] = <<>> /\ serving[conn] = 0 /\ replies[conn] = <<>>

(* Every call returns, whatever the host does, with one exception: a host   *)
(* that stays up and never reads again stops the call whose write waits for  *)
(* room, which has the mutex and no timeout, and with it all later ones.     *)
CallsReturn ==
  \/ \A c \in Callers : step[c] = "queued" ~> step[c] = "idle"
  \/ \E c \in Callers : <>[]WriteWaits(c)
=============================================================================
