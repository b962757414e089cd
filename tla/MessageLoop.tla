----------------------------- MODULE MessageLoop -----------------------------
(***************************************************************************)
(* The message loop of `can run' without the plugin runtime (agent.rs) and *)
(* the message cache (storage.rs) it leaves to AlgoChat::sync: new messages *)
(* are cached, the sync round of their conversation is moved, and only then *)
(* are they forwarded to the hub and answered on-chain.  The agent dies and *)
(* is started again between any two steps; the chain, the hub and the      *)
(* indexer go on.                                                          *)
(***************************************************************************)
EXTENDS Naturals, FiniteSets, FiniteSetsExt

CONSTANTS
  Conversations,  \* the addresses the agent talks with
  From,           \* From[n]: the sender of message n
  MaxMessages,    \* bound: messages sent to the agent, each in a round of its own
  MaxAttempts,    \* HUB_POLL_MAX_ATTEMPTS (100 in the code)
  MaxRuns,        \* bound: how often the agent is started
  Nobody

Messages == 1..MaxMessages

ASSUME LoopAssumption ==
  /\ MaxMessages \in Nat /\ MaxAttempts \in Nat /\ MaxRuns \in Nat
  /\ From \in [Messages -> Conversations] /\ Nobody \notin Conversations

VARIABLES
  posted,         \* messages 1..posted are on the chain
  cached,         \* the rows of the messages table
  bookmark,       \* bookmark[c]: sync_rounds.last_round, 0 if there is no row
  at,             \* where the loop is
  p2p,            \* the loop runs without a hub
  toSync,         \* conversations this sync has not come to
  partner,        \* the conversation it is at
  found, unsaved, \* its new messages, and those of them not yet cached
  batch,          \* messages sync has returned (or will), not handled yet
  msg,            \* the message the loop handles, 0 if none
  task,           \* what has become of its task at the hub
  attempts,       \* polls of that task so far
  replied,        \* replied[n]: replies to n on the chain
  runs_made       \* starts of the agent so far

chainVars == <<posted, replied>>
cacheVars == <<cached, bookmark>>
syncVars == <<toSync, partner, found, unsaved, batch>>
handleVars == <<msg, task, attempts>>
loopVars == <<chainVars, cacheVars, at, p2p, syncVars, handleVars, runs_made>>

LoopInit ==
  /\ posted = 0 /\ replied = [n \in Messages |-> 0]
  /\ cached = {} /\ bookmark = [c \in Conversations |-> 0]
  /\ at = "down" /\ p2p = FALSE
  /\ toSync = {} /\ partner = Nobody /\ found = {} /\ unsaved = {} /\ batch = {}
  /\ msg = 0 /\ task = "none" /\ attempts = 0
  /\ runs_made = 0

Post ==
  /\ posted < MaxMessages
  /\ posted' = posted + 1
  /\ UNCHANGED <<replied, cacheVars, at, p2p, syncVars, handleVars, runs_made>>

-----------------------------------------------------------------------------
(* AlgoChat::sync, as it uses the indexer and the cache it is given.        *)

BeginSync ==
  /\ at = "sync"
  /\ at' = "fetch"
  /\ toSync' = Conversations /\ batch' = {}
  /\ UNCHANGED <<chainVars, cacheVars, p2p, partner, found, unsaved, handleVars, runs_made>>

(* search_transactions: what is on the chain after the bookmark.            *)
NewMessages(c) == {n \in 1..posted : From[n] = c /\ n > bookmark[c]}

search_transactions(c) ==
  /\ at = "fetch" /\ c \in toSync
  /\ toSync' = toSync \ {c}
  /\ partner' = c
  /\ found' = NewMessages(c) /\ unsaved' = found'
  /\ at' = IF found' = {} THEN "fetch" ELSE "store"
  /\ UNCHANGED <<chainVars, cacheVars, p2p, batch, handleVars, runs_made>>

(* A request or a statement fails; what sync has found so far is not        *)
(* returned.                                                                *)
SyncFails ==
  /\ at \in {"fetch", "store"}
  /\ at' = "sleep"
  /\ toSync' = {} /\ found' = {} /\ unsaved' = {} /\ batch' = {} /\ partner' = Nobody
  /\ UNCHANGED <<chainVars, cacheVars, p2p, handleVars, runs_made>>

(* MessageCache::store, a statement per message: INSERT OR IGNORE.          *)
StoreMessage(n) ==
  /\ at = "store" /\ n \in unsaved
  /\ cached' = cached \cup {n}
  /\ unsaved' = unsaved \ {n}
  /\ UNCHANGED <<chainVars, bookmark, at, p2p, toSync, partner, found, batch, handleVars,
                 runs_made>>

(* INSERT OR REPLACE.                                                       *)
set_last_sync_round ==
  /\ at = "store" /\ unsaved = {}
  /\ bookmark' = [bookmark EXCEPT ![partner] = Max(found)]
  /\ batch' = batch \cup found /\ found' = {}
  /\ at' = "fetch"
  /\ UNCHANGED <<chainVars, cached, p2p, toSync, partner, unsaved, handleVars, runs_made>>

SyncReturns ==
  /\ at = "fetch" /\ toSync = {}
  /\ at' = "handle"
  /\ UNCHANGED <<chainVars, cacheVars, p2p, syncVars, handleVars, runs_made>>

-----------------------------------------------------------------------------
(* run_message_loop *)

StartLoop ==
  /\ at = "down" /\ runs_made < MaxRuns
  /\ runs_made' = runs_made + 1
  /\ at' = "sync"
  /\ p2p' \in BOOLEAN
  /\ UNCHANGED <<chainVars, cacheVars, syncVars, handleVars>>

LoopEnds(where) ==
  /\ at' = where
  /\ toSync' = {} /\ found' = {} /\ unsaved' = {} /\ batch' = {} /\ partner' = Nobody
  /\ msg' = 0 /\ task' = "none" /\ attempts' = 0
  /\ UNCHANGED <<posted, cacheVars, p2p, runs_made>>

Stops == LoopEnds("down") /\ UNCHANGED replied

LoopDies == at # "down" /\ Stops

(* The log line cuts the text at its 100th byte, which may be inside a      *)
(* character: the task panics and the agent ends.                           *)
truncate_panics ==
  /\ \/ at = "handle" /\ batch # {}
     \/ at = "reply" /\ task = "completed"
  /\ Stops

(* Without a hub the messages have been stored and that is all.             *)
TakeMessage(n) ==
  /\ at = "handle" /\ n \in batch
  /\ batch' = batch \ {n}
  /\ at' = IF p2p THEN "handle" ELSE "forward"
  /\ msg' = IF p2p THEN 0 ELSE n
  /\ UNCHANGED <<chainVars, cacheVars, p2p, toSync, partner, found, unsaved, task, attempts,
                 runs_made>>

BatchDone ==
  /\ at = "handle" /\ batch = {}
  /\ at' = "sleep"
  /\ UNCHANGED <<chainVars, cacheVars, p2p, syncVars, handleVars, runs_made>>

Slept ==
  /\ at = "sleep"
  /\ at' = "sync"
  /\ UNCHANGED <<chainVars, cacheVars, p2p, syncVars, handleVars, runs_made>>

(* The hub takes the message, or does not, or its answer cannot be read; a  *)
(* reply of either kind follows.                                            *)
forward_to_hub ==
  /\ at = "forward"
  /\ \/ at' = "poll" /\ task' = "working"
     \/ at' = "reply" /\ UNCHANGED task
  /\ UNCHANGED <<chainVars, cacheVars, p2p, syncVars, msg, attempts, runs_made>>

HubEndsTask ==
  /\ task = "working"
  /\ task' \in {"completed", "failed"}
  /\ UNCHANGED <<chainVars, cacheVars, at, p2p, syncVars, msg, attempts, runs_made>>

(* Faulty variant: the task is polled until it ends.                        *)
poll_until_it_ends ==
  /\ at = "poll"
  /\ attempts' = 1
  /\ at' = IF task = "working" THEN "poll" ELSE "reply"
  /\ UNCHANGED <<chainVars, cacheVars, p2p, syncVars, msg, task, runs_made>>

(* One poll: it fails, finds the task at work or finds it ended; or there   *)
(* have been enough of them.                                                *)
poll_hub_task ==
  /\ at = "poll"
  /\ \/ attempts < MaxAttempts /\ attempts' = attempts + 1 /\ UNCHANGED at
     \/ attempts < MaxAttempts /\ task # "working" /\ at' = "reply" /\ UNCHANGED attempts
     \/ attempts = MaxAttempts /\ at' = "reply" /\ UNCHANGED attempts
  /\ UNCHANGED <<chainVars, cacheVars, p2p, syncVars, msg, task, runs_made>>

(* The message is done with, whether a reply has been sent or not; the next *)
(* one of the batch follows.                                                *)
HandleNext == at' = "handle" /\ msg' = 0 /\ task' = "none" /\ attempts' = 0

(* An error of send_reply, with the answer or an error text alike, is       *)
(* logged.                                                                  *)
ReplyFails ==
  /\ at \in {"reply", "params", "submit"}
  /\ HandleNext
  /\ UNCHANGED <<chainVars, cacheVars, p2p, syncVars, runs_made>>

ReplyGoesOn(from, to) ==
  /\ at = from /\ at' = to
  /\ UNCHANGED <<chainVars, cacheVars, p2p, syncVars, handleVars, runs_made>>

(* With the contact's PSK, or with the key discover_key finds.              *)
encrypt == ReplyGoesOn("reply", "params")

get_suggested_params == ReplyGoesOn("params", "submit")

Replied(times) ==
  /\ replied' = [replied EXCEPT ![msg] = @ + times]
  /\ UNCHANGED <<posted, cacheVars, p2p, syncVars, runs_made>>

(* Faulty variant: what was not acknowledged is sent again.                 *)
submit_transaction_retried ==
  /\ at = "submit"
  /\ \/ HandleNext /\ \E times \in {0, 1} : Replied(times)
     \/ UNCHANGED <<at, handleVars>> /\ replied[msg] < 2 /\ Replied(1)

(* The signed transaction reaches the node or does not; that it has, may    *)
(* not be heard.                                                            *)
submit_transaction ==
  /\ at = "submit"
  /\ \E times \in {0, 1} : Replied(times)
  /\ HandleNext

(* The hub, the node or the indexer takes a request and never answers: none *)
(* of the loop's clients has a timeout, so that it waits till it is killed. *)
RequestHangs ==
  /\ \/ at = "fetch" /\ toSync # {}
     \/ at \in {"forward", "poll", "reply", "params", "submit"}
  /\ LoopEnds("hung")
  /\ \/ UNCHANGED replied
     \/ at = "submit" /\ replied' = [replied EXCEPT ![msg] = @ + 1]

LoopNext ==
  \/ Post \/ StartLoop \/ LoopDies \/ truncate_panics
  \/ BeginSync \/ SyncFails \/ set_last_sync_round \/ SyncReturns
  \/ \E c \in Conversations : search_transactions(c)
  \/ \E n \in Messages : StoreMessage(n) \/ TakeMessage(n)
  \/ BatchDone \/ Slept
  \/ forward_to_hub \/ HubEndsTask \/ poll_hub_task
  \/ encrypt \/ get_suggested_params \/ submit_transaction \/ ReplyFails
  \/ RequestHangs

LoopSpec == LoopInit /\ [][LoopNext]_loopVars

LoopSteps ==
  \/ BeginSync \/ SyncReturns \/ (\E n \in Messages : TakeMessage(n)) \/ BatchDone \/ Slept
  \/ forward_to_hub \/ poll_hub_task
  \/ encrypt \/ get_suggested_params \/ submit_transaction \/ ReplyFails

(* The loop runs on, its timers end, and a request to the indexer succeeds  *)
(* some time, as does a sync, if none hangs.  Nothing is assumed of the hub *)
(* or of the node, which may also never answer (RequestHangs).              *)
LoopFairness ==
  /\ \A c \in Conversations : SF_loopVars(search_transactions(c))
  /\ \A n \in Messages : SF_loopVars(StoreMessage(n))
  /\ SF_loopVars(set_last_sync_round) /\ WF_loopVars(LoopSteps)

-----------------------------------------------------------------------------
(* However often the agent dies and comes back, whatever is synced again    *)
(* and whether or not a submission was acknowledged, a message is answered  *)
(* once at most, and only when it is cached and behind the bookmark.        *)
AtMostOneReply ==
  \A n \in Messages :
    /\ replied[n] <= 1
    /\ replied[n] = 1 \/ msg = n => n \in cached /\ n <= bookmark[From[n]]

(* A message on the chain gets into the cache while the loop runs: a sync   *)
(* that died between the messages and the bookmark is made up for, and      *)
(* neither a hub whose task never ends nor a reply that cannot be sent      *)
(* keeps the loop from the messages that follow.  A request that is never   *)
(* answered at all does.                                                    *)
CatchesUp ==
  \A n \in Messages : n <= posted ~> n \in cached \/ at \in {"down", "hung"}
=============================================================================
