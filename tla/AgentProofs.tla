------------------------------ MODULE AgentProofs ------------------------------
(***************************************************************************)
(* Proofs about the agent that runs: Sidecar, for any set of host processes *)
(* and any number of starts of the agent and exits of its hosts, and       *)
(* MessageLoop, for any conversations and any number of messages, polls    *)
(* and restarts.                                                           *)
(***************************************************************************)
EXTENDS Sidecar, MessageLoop, NaturalsInduction, WellFoundedInduction, TLAPS

-----------------------------------------------------------------------------
(* Sidecar. *)

(* Unless an agent was killed, a host that runs is the supervisor's child,  *)
(* so that nobody makes the socket file again once the supervisor is done.  *)
NoStrayHost ==
  ~killed => /\ \A h \in Hosts : Runs(h) => h = child
             /\ sup = "done" => socket = NoHost

SidecarInv == SidecarTypeOK /\ NoStrayHost

LEMMA SidecarInvInit == SidecarInit => SidecarInv
<1> SUFFICES ASSUME SidecarInit PROVE SidecarInv
  OBVIOUS
<1>1. 0 \in 0..MaxStarts /\ 0 \in 0..MaxExits
  BY SidecarAssumption DEF SidecarAssumption
<1>2. SidecarTypeOK
  BY <1>1 DEF SidecarInit, SidecarTypeOK
<1>3. NoStrayHost
  BY DEF SidecarInit, NoStrayHost, Runs
<1>4. QED
  BY <1>2, <1>3 DEF SidecarInv

(* What a step of the process h does to the others and to the file.         *)
LEMMA SidecarInvHost ==
  ASSUME SidecarInv, NEW h \in Hosts,
         CheckSocket(h) \/ RemoveStale(h) \/ Bind(h) \/ Exit(h) \/ ReapOrphan(h)
  PROVE  SidecarInv'
<1>1. SidecarTypeOK /\ NoStrayHost
  BY DEF SidecarInv
<1>2. UNCHANGED <<agentVars, supVars>>
  BY DEF CheckSocket, RemoveStale, Bind, Exit, ReapOrphan
<1>3. PICK state \in {"none", "stale", "binding", "serving", "exited"} : BecomesHost(h, state)
  BY DEF CheckSocket, RemoveStale, Bind, Exit, ReapOrphan
<1>4. /\ host' \in [Hosts -> {"none", "starting", "stale", "binding", "serving", "exited"}]
      /\ host'[h] = state /\ \A g \in Hosts \ {h} : host'[g] = host[g]
  BY <1>1, <1>3 DEF SidecarTypeOK, BecomesHost
<1>5. Runs(h)' => Runs(h)
  <2>1. CASE ReapOrphan(h)
    BY <1>1, <2>1 DEF ReapOrphan, BecomesHost, Runs, SidecarTypeOK
  <2>2. CASE CheckSocket(h) \/ RemoveStale(h) \/ Bind(h) \/ Exit(h)
    BY <2>2 DEF CheckSocket, RemoveStale, Bind, Exit, Runs
  <2>3. QED
    BY <2>1, <2>2
<1>6. socket' \in {socket, NoHost} \/ (socket' = h /\ Runs(h))
  BY DEF CheckSocket, RemoveStale, Bind, Exit, ReapOrphan, Runs
<1>7. exits' \in 0..MaxExits
  <2>1. exits' = exits \/ (exits < MaxExits /\ exits' = exits + 1)
    BY DEF CheckSocket, RemoveStale, Bind, Exit, ReapOrphan
  <2>2. QED
    BY <1>1, <2>1, SidecarAssumption DEF SidecarTypeOK, SidecarAssumption
<1>8. SidecarTypeOK'
  BY <1>1, <1>2, <1>4, <1>6, <1>7 DEF SidecarTypeOK, agentVars, supVars
<1>9. NoStrayHost'
  <2> SUFFICES ASSUME ~killed
               PROVE  /\ \A g \in Hosts : Runs(g)' => g = child
                      /\ sup = "done" => socket' = NoHost
    BY <1>2 DEF NoStrayHost, agentVars, supVars
  <2>1. \A g \in Hosts : Runs(g)' => Runs(g)
    BY <1>4, <1>5 DEF Runs
  <2>2. sup = "done" => ~Runs(h)
    BY <1>1, SidecarAssumption DEF NoStrayHost, SidecarTypeOK, SidecarAssumption
  <2>3. QED
    BY <1>1, <1>6, <2>1, <2>2 DEF NoStrayHost
<1>10. QED
  BY <1>8, <1>9 DEF SidecarInv

LEMMA SidecarInvSupervisor ==
  ASSUME SidecarInv,
         \/ Spawn \/ SpawnFails \/ Reap \/ Backoff
         \/ StopInBackoff \/ StopInWait \/ Kill \/ RemoveSocket
  PROVE  SidecarInv'
<1>1. SidecarTypeOK /\ NoStrayHost /\ NoHost \notin Hosts
  BY SidecarAssumption DEF SidecarInv, SidecarAssumption
<1>2. UNCHANGED <<agentVars, exits>> /\ agent # "down"
  BY <1>1 DEF Spawn, SpawnFails, Reap, Backoff, StopInBackoff, StopInWait, Kill, RemoveSocket,
              SidecarTypeOK
<1> USE <1>1, <1>2 DEF SidecarInv, agentVars
<1>3. CASE Spawn
  <2>1. PICK h \in Hosts : BecomesHost(h, "starting") /\ child' = h
    BY <1>3 DEF Spawn
  <2>2. /\ host' \in [Hosts -> {"none", "starting", "stale", "binding", "serving", "exited"}]
        /\ \A g \in Hosts \ {h} : host'[g] = host[g]
    BY <2>1 DEF SidecarTypeOK, BecomesHost
  <2>3. SidecarTypeOK'
    BY <1>3, <2>1, <2>2 DEF Spawn, SidecarTypeOK
  <2>4. ~killed => \A g \in Hosts : ~Runs(g)
    BY <1>3 DEF Spawn, NoStrayHost, SidecarTypeOK
  <2>5. NoStrayHost'
    BY <1>3, <2>1, <2>2, <2>4 DEF Spawn, NoStrayHost, Runs
  <2>6. QED
    BY <2>3, <2>5
<1>4. CASE SpawnFails \/ Backoff \/ StopInBackoff \/ StopInWait \/ RemoveSocket
  <2>1. backoff' \in {1, 2, 4, 8, 16, 30}
    <3>1. backoff' = backoff \/ backoff' = IF 2 * backoff > 30 THEN 30 ELSE 2 * backoff
      BY <1>4 DEF SpawnFails, Backoff, StopInBackoff, StopInWait, RemoveSocket
    <3>2. \A b \in {1, 2, 4, 8, 16, 30} :
            (IF 2 * b > 30 THEN 30 ELSE 2 * b) \in {1, 2, 4, 8, 16, 30}
      OBVIOUS
    <3>3. backoff \in {1, 2, 4, 8, 16, 30}
      BY DEF SidecarTypeOK
    <3>4. QED
      BY <3>1, <3>2, <3>3
  <2>2. /\ socket' \in Hosts \cup {NoHost} /\ permit' \in BOOLEAN
        /\ UNCHANGED <<child, host>>
    BY <1>4 DEF SpawnFails, Backoff, StopInBackoff, StopInWait, RemoveSocket, SidecarTypeOK
  <2>3. /\ sup' \in {"spawn", "backoff", "kill", "done"}
        /\ child # NoHost <=> sup' = "kill"
    BY <1>4 DEF SpawnFails, Backoff, StopInBackoff, StopInWait, RemoveSocket, SidecarTypeOK
  <2>4. SidecarTypeOK'
    BY <2>1, <2>2, <2>3 DEF SidecarTypeOK
  <2>5. NoStrayHost'
    BY <1>4 DEF SpawnFails, Backoff, StopInBackoff, StopInWait, RemoveSocket, NoStrayHost, Runs
  <2>6. QED
    BY <2>4, <2>5
<1>5. CASE Reap \/ Kill
  <2>1. /\ child \in Hosts /\ child' = NoHost /\ BecomesHost(child, "none")
        /\ sup' \in {"backoff", "clean"} /\ UNCHANGED <<backoff, socket, permit>>
    BY <1>5 DEF Reap, Kill, SidecarTypeOK
  <2>2. /\ host' \in [Hosts -> {"none", "starting", "stale", "binding", "serving", "exited"}]
        /\ host'[child] = "none" /\ \A g \in Hosts \ {child} : host'[g] = host[g]
    BY <2>1 DEF SidecarTypeOK, BecomesHost
  <2>3. SidecarTypeOK'
    BY <2>1, <2>2 DEF SidecarTypeOK
  <2>4. NoStrayHost'
    BY <2>1, <2>2 DEF NoStrayHost, Runs
  <2>5. QED
    BY <2>3, <2>4
<1>6. QED
  BY <1>3, <1>4, <1>5

LEMMA SidecarInvAgent ==
  ASSUME SidecarInv,
         \/ cmd_run \/ wait_for_socket \/ WaitTimesOut \/ ConnectBridge \/ StartServers
         \/ Shutdown \/ Joined \/ EarlyReturn \/ AgentKilled
  PROVE  SidecarInv'
<1>1. SidecarTypeOK /\ NoStrayHost /\ NoHost \notin Hosts /\ MaxStarts \in Nat
  BY SidecarAssumption DEF SidecarInv, SidecarAssumption
<1>2. UNCHANGED <<socket, exits>>
  BY DEF cmd_run, wait_for_socket, WaitTimesOut, ConnectBridge, StartServers, GoesOn, Shutdown,
         Joined, EarlyReturn, AgentKilled, Ends
<1> USE <1>1, <1>2 DEF SidecarInv
<1>3. CASE cmd_run
  <2>1. starts' \in 0..MaxStarts
    BY <1>3 DEF cmd_run, SidecarTypeOK
  <2>2. SidecarTypeOK'
    BY <1>3, <2>1 DEF cmd_run, SidecarTypeOK
  <2>3. NoStrayHost'
    BY <1>3 DEF cmd_run, NoStrayHost, Runs
  <2>4. QED
    BY <2>2, <2>3
<1>4. CASE wait_for_socket \/ WaitTimesOut \/ ConnectBridge \/ StartServers \/ Shutdown
  <2>1. /\ agent' \in {"connecting", "servers", "running", "stopping"}
        /\ permit' \in BOOLEAN /\ UNCHANGED <<starts, killed, sup, backoff, child, host>>
    BY <1>4 DEF wait_for_socket, WaitTimesOut, ConnectBridge, StartServers, GoesOn, Shutdown,
                supVars, SidecarTypeOK
  <2>2. SidecarTypeOK'
    BY <2>1 DEF SidecarTypeOK
  <2>3. NoStrayHost'
    BY <2>1 DEF NoStrayHost, Runs
  <2>4. QED
    BY <2>2, <2>3
<1>5. CASE Joined \/ EarlyReturn \/ AgentKilled
  <2>1. /\ agent' = "down" /\ sup' = "none" /\ child' = NoHost
        /\ permit' = FALSE /\ backoff' = 1 /\ starts' = starts
    BY <1>5 DEF Joined, EarlyReturn, AgentKilled, Ends
  <2>2. host' \in [Hosts -> {"none", "starting", "stale", "binding", "serving", "exited"}]
    BY <1>5 DEF Joined, EarlyReturn, AgentKilled, SidecarTypeOK
  <2>3. SidecarTypeOK'
    BY <1>5, <2>1, <2>2 DEF Joined, EarlyReturn, AgentKilled, SidecarTypeOK
  <2>4. ~killed' => ~killed /\ \A h \in Hosts : ~Runs(h)'
    BY <1>5, <2>1 DEF Joined, EarlyReturn, AgentKilled, SidecarTypeOK, NoStrayHost, Runs
  <2>5. NoStrayHost'
    BY <2>1, <2>4 DEF NoStrayHost
  <2>6. QED
    BY <2>3, <2>5
<1>6. QED
  BY <1>3, <1>4, <1>5

LEMMA SidecarInvInductive == SidecarInv /\ [SidecarNext]_sidecarVars => SidecarInv'
<1> SUFFICES ASSUME SidecarInv, [SidecarNext]_sidecarVars PROVE SidecarInv'
  OBVIOUS
<1>1. CASE UNCHANGED sidecarVars
  BY <1>1 DEF SidecarInv, SidecarTypeOK, NoStrayHost, Runs, sidecarVars, agentVars, supVars
<1>2. CASE SidecarNext
  BY <1>2, SidecarInvHost, SidecarInvSupervisor, SidecarInvAgent DEF SidecarNext
<1>3. QED
  BY <1>1, <1>2

(* When cmd_run has returned, in whatever way and after however many        *)
(* restarts of the host, no host is running; and when the supervisor has    *)
(* shut down, none is and the socket file is gone.                          *)
THEOREM NoHostLeftBehind == SidecarSpec => []StoppedIsClean
<1>1. SidecarInv => StoppedIsClean
  BY SidecarAssumption
     DEF SidecarInv, SidecarTypeOK, NoStrayHost, StoppedIsClean, SidecarAssumption
<1>2. QED
  BY <1>1, SidecarInvInit, SidecarInvInductive, PTL DEF SidecarSpec

-----------------------------------------------------------------------------
(* MessageLoop. *)

LEMMA LeastExists ==
  ASSUME NEW S \in SUBSET Nat, S # {}
  PROVE  \E x \in S : \A y \in S : x <= y
<1>1. \E x \in S : \A y \in S : ~(<<y, x>> \in OpToRel(<, Nat))
  BY WFMin, NatLessThanWellFounded
<1>2. PICK x \in S : \A y \in S : ~(<<y, x>> \in OpToRel(<, Nat))
  BY <1>1
<1>3. \A y \in S : ~(y < x)
  BY <1>2 DEF OpToRel
<1>4. QED
  BY <1>3

(* A bounded set of numbers has a greatest one: the bound is nearest to it. *)
LEMMA GreatestExists ==
  ASSUME NEW m \in Nat, NEW S \in SUBSET (0..m), S # {}
  PROVE  Max(S) \in S /\ \A y \in S : y <= Max(S)
<1> DEFINE D == {m - y : y \in S}
<1>1. D \in SUBSET Nat /\ D # {}
  <2>1. \A y \in S : y \in 0..m /\ m - y \in Nat
    OBVIOUS
  <2>2. D \subseteq Nat
    BY <2>1
  <2>3. PICK y \in S : TRUE
    OBVIOUS
  <2>4. m - y \in D
    BY <2>3
  <2>5. QED
    BY <2>2, <2>4
<1>2. PICK d \in D : \A e \in D : d <= e
  BY <1>1, LeastExists
<1>3. PICK x \in S : d = m - x
  BY <1>2
<1>4. \A y \in S : x >= y
  <2> SUFFICES ASSUME NEW y \in S PROVE x >= y
    OBVIOUS
  <2>1. x \in 0..m /\ y \in 0..m /\ m - x <= m - y
    BY <1>2, <1>3
  <2>2. QED
    BY <2>1
<1>5. QED
  BY <1>4 DEF Max
-----------------------------------------------------------------------------
Handling == {"forward", "poll", "reply", "params", "submit"}

LoopTypes ==
  /\ posted \in 0..MaxMessages /\ replied \in [Messages -> Nat]
  /\ cached \in SUBSET Messages /\ bookmark \in [Conversations -> Nat]
  /\ at \in {"down", "hung", "sync", "fetch", "store", "handle", "sleep"} \cup Handling
  /\ p2p \in BOOLEAN
  /\ toSync \in SUBSET Conversations /\ found \in SUBSET Messages
  /\ unsaved \in SUBSET Messages /\ batch \in SUBSET Messages
  /\ msg \in Messages \cup {0}
  /\ msg # 0 <=> at \in Handling

(* The round is behind the bookmark of its conversation.                    *)
Behind(n) == n <= bookmark[From[n]]

(* What sync hands out has been cached, is behind the bookmark, so that it  *)
(* is never handed out again, and is not being answered yet.                *)
BatchUnanswered ==
  \A n \in batch : n \in cached /\ Behind(n) /\ replied[n] = 0 /\ msg # n

MessageUnanswered ==
  msg # 0 => msg \in cached /\ Behind(msg) /\ replied[msg] = 0

(* What has been found and not handed out is all of one conversation, ahead *)
(* of its bookmark, and cached but for what is left to do.                  *)
FoundAhead ==
  at = "store" =>
    /\ partner \in Conversations /\ found # {}
    /\ \A n \in found : From[n] = partner /\ n > bookmark[partner] /\ n \in cached \cup unsaved

LoopInv == LoopTypes /\ AtMostOneReply /\ BatchUnanswered /\ MessageUnanswered /\ FoundAhead

LEMMA LoopInvInit == LoopInit => LoopInv
<1> SUFFICES ASSUME LoopInit PROVE LoopInv
  OBVIOUS
<1>1. Messages \subseteq Nat \ {0} /\ MaxMessages \in Nat
  BY LoopAssumption DEF LoopAssumption, Messages
<1>2. replied \in [Messages -> Nat] /\ bookmark \in [Conversations -> Nat]
  BY DEF LoopInit
<1>3. LoopTypes
  <2>1. posted \in 0..MaxMessages
    BY <1>1 DEF LoopInit
  <2>2. msg \in Messages \cup {0} /\ (msg # 0 <=> at \in Handling)
    BY DEF LoopInit, Handling
  <2>3. /\ cached = {} /\ toSync = {} /\ found = {} /\ unsaved = {} /\ batch = {}
        /\ at = "down" /\ p2p \in BOOLEAN
    BY DEF LoopInit
  <2>4. QED
    BY <1>2, <2>1, <2>2, <2>3 DEF LoopTypes
<1>4. AtMostOneReply
  BY <1>1 DEF LoopInit, AtMostOneReply
<1>5. QED
  BY <1>3, <1>4 DEF LoopInit, LoopInv, BatchUnanswered, MessageUnanswered, FoundAhead

(* Steps of the sync.                                                       *)
LEMMA LoopInvSync ==
  ASSUME LoopInv,
         \/ Post \/ BeginSync \/ SyncFails \/ set_last_sync_round \/ SyncReturns
         \/ (\E c \in Conversations : search_transactions(c))
         \/ (\E n \in Messages : StoreMessage(n))
  PROVE  LoopInv'
<1>1. /\ LoopTypes /\ MaxMessages \in Nat /\ Messages \subseteq Nat \ {0}
      /\ From \in [Messages -> Conversations]
  BY LoopAssumption DEF LoopInv, LoopAssumption, Messages
<1>2. UNCHANGED <<replied, handleVars, p2p>>
  BY DEF Post, BeginSync, SyncFails, set_last_sync_round, SyncReturns, search_transactions,
         StoreMessage, chainVars
<1>3. MessageUnanswered /\ AtMostOneReply /\ BatchUnanswered /\ FoundAhead
  BY DEF LoopInv
<1>4. ASSUME UNCHANGED bookmark, cached \subseteq cached'
      PROVE  (MessageUnanswered /\ AtMostOneReply)'
  BY <1>2, <1>3, <1>4 DEF MessageUnanswered, AtMostOneReply, Behind, handleVars
<1> USE <1>1, <1>2 DEF handleVars, cacheVars, chainVars, syncVars
<1>5. CASE Post
  <2>1. LoopTypes'
    BY <1>5 DEF Post, LoopTypes
  <2>2. QED
    BY <1>3, <1>4, <1>5, <2>1 DEF Post, LoopInv, BatchUnanswered, FoundAhead, Behind
<1>6. CASE BeginSync \/ SyncFails
  <2>1. LoopTypes' /\ batch' = {} /\ at' # "store" /\ UNCHANGED <<bookmark, cached>>
    BY <1>6 DEF BeginSync, SyncFails, LoopTypes, Handling
  <2>2. QED
    BY <1>4, <2>1 DEF LoopInv, BatchUnanswered, FoundAhead
<1>7. CASE SyncReturns
  <2>1. LoopTypes' /\ at' # "store" /\ UNCHANGED <<bookmark, cached, batch>>
    BY <1>7 DEF SyncReturns, LoopTypes, Handling
  <2>2. QED
    BY <1>3, <1>4, <2>1 DEF LoopInv, BatchUnanswered, FoundAhead, Behind
<1>8. ASSUME NEW c \in Conversations, search_transactions(c)
      PROVE  LoopInv'
  <2>1. /\ found' = {n \in 1..posted : From[n] = c /\ n > bookmark[c]}
        /\ unsaved' = found' /\ partner' = c /\ at \notin Handling
        /\ at' = IF found' = {} THEN "fetch" ELSE "store"
        /\ toSync' \in SUBSET Conversations
        /\ UNCHANGED <<posted, bookmark, cached, batch>>
    BY <1>8 DEF search_transactions, NewMessages, Handling, LoopTypes
  <2>2. found' \subseteq Messages
    BY <2>1 DEF LoopTypes, Messages
  <2>3. LoopTypes'
    BY <2>1, <2>2 DEF LoopTypes, Handling
  <2>4. FoundAhead'
    BY <2>1 DEF FoundAhead
  <2>5. BatchUnanswered'
    BY <1>3, <2>1 DEF BatchUnanswered, Behind
  <2>6. QED
    BY <1>4, <2>1, <2>3, <2>4, <2>5 DEF LoopInv
<1>9. ASSUME NEW n \in Messages, StoreMessage(n)
      PROVE  LoopInv'
  <2>1. LoopTypes' /\ cached' = cached \cup {n} /\ UNCHANGED <<bookmark, batch>>
    BY <1>9 DEF StoreMessage, LoopTypes
  <2>2. FoundAhead'
    BY <1>3, <1>9 DEF StoreMessage, FoundAhead
  <2>3. BatchUnanswered'
    BY <1>3, <2>1 DEF BatchUnanswered, Behind
  <2>4. QED
    BY <1>4, <2>1, <2>2, <2>3 DEF LoopInv
<1>10. CASE set_last_sync_round
  <2>1. /\ at = "store" /\ unsaved = {} /\ at' = "fetch" /\ msg = 0
        /\ bookmark' = [bookmark EXCEPT ![partner] = Max(found)]
        /\ batch' = batch \cup found /\ found' = {} /\ UNCHANGED <<cached, posted>>
    BY <1>10 DEF set_last_sync_round, LoopTypes, Handling
  <2>2. /\ partner \in Conversations /\ found # {}
        /\ \A n \in found : From[n] = partner /\ n > bookmark[partner] /\ n \in cached
    BY <1>3, <2>1 DEF FoundAhead
  <2>3. found \in SUBSET (0..MaxMessages)
    BY DEF LoopTypes, Messages
  <2>4. Max(found) \in found /\ \A n \in found : n <= Max(found)
    BY <2>2, <2>3, GreatestExists
  <2>5. Max(found) \in Nat /\ bookmark[partner] \in Nat /\ bookmark[partner] < Max(found)
    BY <2>2, <2>3, <2>4 DEF LoopTypes
  <2>6. \A n \in Messages : Behind(n) => Behind(n)'
    <3> SUFFICES ASSUME NEW n \in Messages, Behind(n) PROVE Behind(n)'
      OBVIOUS
    <3>1. From[n] \in Conversations /\ bookmark[From[n]] \in Nat /\ n \in Nat
      BY DEF LoopTypes
    <3>2. QED
      BY <2>1, <2>5, <3>1 DEF LoopTypes, Behind
  <2>7. \A n \in found : Behind(n)' /\ replied[n] = 0 /\ n \in Messages
    <3> SUFFICES ASSUME NEW n \in found PROVE Behind(n)' /\ replied[n] = 0 /\ n \in Messages
      OBVIOUS
    <3>1. n \in Messages /\ From[n] = partner /\ n > bookmark[partner] /\ n \in Nat
      BY <2>2 DEF LoopTypes
    <3>2. Behind(n)'
      BY <2>1, <2>2, <2>4, <3>1 DEF LoopTypes, Behind
    <3>3. replied[n] <= 1 /\ replied[n] # 1 /\ replied[n] \in Nat
      BY <1>3, <2>5, <3>1 DEF AtMostOneReply, LoopTypes
    <3>4. QED
      BY <3>1, <3>2, <3>3
  <2>8. LoopTypes'
    <3>1. bookmark' \in [Conversations -> Nat]
      BY <2>1, <2>5 DEF LoopTypes
    <3>2. UNCHANGED <<posted, replied, cached, p2p, toSync, unsaved, msg>>
      BY <1>10, <2>1 DEF set_last_sync_round
    <3>3. batch' \in SUBSET Messages /\ found' \in SUBSET Messages
      BY <2>1 DEF LoopTypes
    <3>4. QED
      BY <2>1, <3>1, <3>2, <3>3 DEF LoopTypes, Handling
  <2>9. AtMostOneReply'
    BY <1>3, <2>1, <2>6 DEF AtMostOneReply, Behind
  <2>10. BatchUnanswered'
    BY <1>3, <2>1, <2>2, <2>6, <2>7 DEF BatchUnanswered, LoopTypes
  <2>11. (MessageUnanswered /\ FoundAhead)'
    BY <2>1 DEF MessageUnanswered, FoundAhead
  <2>12. QED
    BY <2>8, <2>9, <2>10, <2>11 DEF LoopInv
<1>11. QED
  BY <1>5, <1>6, <1>7, <1>8, <1>9, <1>10

(* Steps of the loop around it, and the death of the agent.                 *)
LEMMA LoopInvHandle ==
  ASSUME LoopInv,
         \/ StartLoop \/ LoopDies \/ truncate_panics \/ BatchDone \/ Slept
         \/ (\E n \in Messages : TakeMessage(n))
         \/ forward_to_hub \/ HubEndsTask \/ poll_hub_task
         \/ encrypt \/ get_suggested_params \/ submit_transaction \/ ReplyFails
         \/ RequestHangs
  PROVE  LoopInv'
<1>1. /\ LoopTypes /\ Messages \subseteq Nat \ {0}
      /\ MessageUnanswered /\ AtMostOneReply /\ BatchUnanswered /\ FoundAhead
  BY LoopAssumption DEF LoopInv, LoopAssumption, Messages
<1>2. UNCHANGED <<posted, cacheVars>>
  BY DEF StartLoop, LoopDies, truncate_panics, Stops, LoopEnds, BatchDone, Slept, TakeMessage,
         forward_to_hub, HubEndsTask, poll_hub_task, encrypt, get_suggested_params,
         ReplyGoesOn, submit_transaction, Replied, ReplyFails, HandleNext, RequestHangs, chainVars
<1> USE <1>1, <1>2 DEF cacheVars, chainVars, syncVars, handleVars
<1>3. CASE StartLoop \/ BatchDone \/ Slept \/ HubEndsTask
  <2>1. LoopTypes' /\ UNCHANGED <<replied, batch, msg, found, unsaved, partner>>
        /\ (at' = at \/ at' # "store")
    BY <1>3 DEF StartLoop, BatchDone, Slept, HubEndsTask, LoopTypes, Handling
  <2>2. QED
    BY <2>1 DEF LoopInv, AtMostOneReply, BatchUnanswered, MessageUnanswered, FoundAhead, Behind
<1>4. CASE forward_to_hub \/ poll_hub_task \/ encrypt \/ get_suggested_params
  <2>1. LoopTypes' /\ UNCHANGED <<replied, batch, msg>> /\ at' # "store"
    BY <1>4 DEF forward_to_hub, poll_hub_task, encrypt, get_suggested_params, ReplyGoesOn,
                LoopTypes, Handling
  <2>2. QED
    BY <2>1 DEF LoopInv, AtMostOneReply, BatchUnanswered, MessageUnanswered, FoundAhead, Behind
<1>5. CASE LoopDies \/ truncate_panics \/ (RequestHangs /\ UNCHANGED replied)
  <2>1. LoopTypes' /\ replied' = replied /\ batch' = {} /\ msg' = 0 /\ at' # "store"
    BY <1>5 DEF LoopDies, truncate_panics, RequestHangs, Stops, LoopEnds, LoopTypes, Handling
  <2>2. QED
    BY <2>1 DEF LoopInv, AtMostOneReply, BatchUnanswered, MessageUnanswered, FoundAhead
<1>6. ASSUME NEW n \in Messages, TakeMessage(n)
      PROVE  LoopInv'
  <2>1. /\ n \in batch /\ batch' = batch \ {n} /\ msg' \in {0, n} /\ replied' = replied
        /\ at' # "store"
    BY <1>6 DEF TakeMessage
  <2>2. LoopTypes'
    BY <1>6 DEF TakeMessage, LoopTypes, Handling
  <2>3. n \in cached /\ Behind(n) /\ replied[n] = 0
    BY <2>1 DEF BatchUnanswered
  <2>4. (AtMostOneReply /\ MessageUnanswered)'
    BY <2>1, <2>3 DEF AtMostOneReply, MessageUnanswered, Behind
  <2>5. (BatchUnanswered /\ FoundAhead)'
    BY <2>1 DEF BatchUnanswered, FoundAhead, Behind, LoopTypes
  <2>6. QED
    BY <2>2, <2>4, <2>5 DEF LoopInv
<1>7. CASE ReplyFails
  <2>1. LoopTypes' /\ UNCHANGED <<replied, batch>> /\ msg' = 0 /\ at' = "handle"
    BY <1>7 DEF ReplyFails, HandleNext, LoopTypes, Handling
  <2>2. QED
    BY <2>1 DEF LoopInv, AtMostOneReply, BatchUnanswered, MessageUnanswered, FoundAhead, Behind,
                LoopTypes
<1>8. CASE submit_transaction \/ (RequestHangs /\ at = "submit" /\ replied' = [replied EXCEPT ![msg] = @ + 1])
  <2>1. /\ msg \in Messages /\ msg' = 0 /\ at' \in {"handle", "hung"} /\ p2p' = p2p
        /\ batch' \in SUBSET batch /\ toSync' \in SUBSET toSync
        /\ found' \in SUBSET found /\ unsaved' \in SUBSET unsaved
    BY <1>8 DEF submit_transaction, RequestHangs, LoopEnds, Replied, HandleNext, LoopTypes, Handling
  <2>2. PICK times \in {0, 1} : replied' = [replied EXCEPT ![msg] = @ + times]
    BY <1>8 DEF submit_transaction, Replied
  <2>3. /\ msg \in cached /\ Behind(msg) /\ replied[msg] = 0
        /\ \A n \in Messages : replied[n] \in Nat
    BY <2>1 DEF MessageUnanswered, LoopTypes
  <2>4. /\ replied' \in [Messages -> Nat] /\ replied'[msg] \in {0, 1}
        /\ \A n \in Messages \ {msg} : replied'[n] = replied[n]
    BY <2>1, <2>2, <2>3 DEF LoopTypes
  <2>5. LoopTypes'
    BY <2>1, <2>4 DEF LoopTypes, Handling
  <2>6. AtMostOneReply'
    <3> SUFFICES ASSUME NEW n \in Messages
                 PROVE  /\ replied'[n] <= 1
                        /\ replied'[n] = 1 \/ msg' = n => n \in cached /\ Behind(n)
      BY <2>1 DEF AtMostOneReply, Behind
    <3>1. msg' # n
      BY <2>1
    <3>2. CASE n = msg
      BY <2>3, <2>4, <3>1, <3>2
    <3>3. CASE n # msg
      BY <2>4, <3>1, <3>3 DEF AtMostOneReply, Behind
    <3>4. QED
      BY <3>2, <3>3
  <2>7. BatchUnanswered'
    BY <2>1, <2>4 DEF BatchUnanswered, Behind, LoopTypes
  <2>8. QED
    BY <2>1, <2>5, <2>6, <2>7 DEF LoopInv, MessageUnanswered, FoundAhead
<1>9. QED
  BY <1>3, <1>4, <1>5, <1>6, <1>7, <1>8 DEF RequestHangs

LEMMA LoopInvInductive == LoopInv /\ [LoopNext]_loopVars => LoopInv'
<1> SUFFICES ASSUME LoopInv, [LoopNext]_loopVars PROVE LoopInv'
  OBVIOUS
<1>1. CASE UNCHANGED loopVars
  BY <1>1 DEF LoopInv, LoopTypes, AtMostOneReply, BatchUnanswered, MessageUnanswered,
              FoundAhead, Behind, loopVars, chainVars, cacheVars, syncVars, handleVars
<1>2. CASE LoopNext
  BY <1>2, LoopInvSync, LoopInvHandle DEF LoopNext
<1>3. QED
  BY <1>1, <1>2

(* A message is answered at most once, and only when it is cached and behind  *)
(* the bookmark of its conversation, over any number of deaths and restarts,  *)
(* failing syncs and submissions that are not acknowledged.                   *)
THEOREM NoMessageAnsweredTwice == LoopSpec => []AtMostOneReply
<1>1. LoopInv => AtMostOneReply
  BY DEF LoopInv
<1>2. QED
  BY <1>1, LoopInvInit, LoopInvInductive, PTL DEF LoopSpec
=============================================================================
