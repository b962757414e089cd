----------------------------- MODULE BridgeProofs -----------------------------
(***************************************************************************)
(* Proofs about the two clients of the plugin host: PluginBridge, for any  *)
(* callers and any number of calls and connections, and TsBridge, for any  *)
(* sockets, requests, plugins and lines.                                   *)
(***************************************************************************)
EXTENDS PluginBridge, TsBridge, SequenceTheorems, FiniteSetTheorems, TLAPS

-----------------------------------------------------------------------------
(* PluginBridge. *)

Empty(k) == sent[k] = <<>> /\ serving[k] = 0 /\ replies[k] = <<>>

(* Nothing is under way on connection k but the request i or its reply.     *)
JustOne(k, i) ==
  \/ sent[k] = <<i>> /\ serving[k] = 0 /\ replies[k] = <<>>
  \/ sent[k] = <<>> /\ serving[k] = i /\ replies[k] = <<>>
  \/ sent[k] = <<>> /\ serving[k] = 0 /\ replies[k] = <<i>>

(* On the connection in use there is nothing but what the holder of the     *)
(* mutex has written, unless a call has given up on it.                     *)
OnlyTheHolders ==
  /\ holder # Free => conn # 0
  /\ conn # 0 /\ conn \notin gaveUp =>
       \/ Empty(conn)
       \/ holder # Free /\ step[holder] = "reading" /\ JustOne(conn, id[holder])

(* A connection that is not made yet is empty.                              *)
NewIsEmpty == \A k \in Conns : k > made => Empty(k)

CallsHaveIds == \A c \in Callers : step[c] # "idle" => id[c] \in Ids

BridgeInv == BridgeTypeOK /\ OnlyTheHolders /\ NewIsEmpty /\ CallsHaveIds

LEMMA BridgeFacts ==
  /\ MaxCalls \in Nat /\ MaxConns \in Nat /\ Free \notin Callers
  /\ Ids \subseteq Nat \ {0} /\ Conns \subseteq Nat \ {0} /\ 0 \notin Conns
BY BridgeAssumption DEF BridgeAssumption, Ids, Conns

LEMMA BridgeInvInit == BridgeInit => BridgeInv
<1> SUFFICES ASSUME BridgeInit PROVE BridgeInv
  OBVIOUS
<1>1. /\ next_id \in 1..(MaxCalls + 1) /\ made \in 0..MaxConns /\ conn \in 0..made
      /\ holder = Free /\ alive = {} /\ up = TRUE /\ gaveUp = {}
  BY BridgeFacts DEF BridgeInit
<1>2. /\ step \in [Callers -> {"idle", "queued", "writing", "reading"}]
      /\ id \in [Callers -> Ids \cup {0}] /\ answer \in [Callers -> Ids \cup {0}]
      /\ \A c \in Callers : step[c] \in {"writing", "reading"} <=> holder = c
  BY BridgeFacts DEF BridgeInit
<1>3. /\ sent \in [Conns -> Seq(Ids)] /\ replies \in [Conns -> Seq(Ids)]
      /\ serving \in [Conns -> Ids \cup {0}] /\ \A k \in Conns : Empty(k)
  BY DEF BridgeInit, Empty
<1>4. BridgeTypeOK
  BY <1>1, <1>2, <1>3 DEF BridgeTypeOK
<1>5. QED
  BY <1>1, <1>3, <1>4
     DEF BridgeInv, OnlyTheHolders, NewIsEmpty, CallsHaveIds, BridgeInit

LEMMA BridgeInvConnect == ASSUME BridgeInv, connect PROVE BridgeInv'
<1>1. /\ BridgeTypeOK /\ OnlyTheHolders /\ NewIsEmpty /\ MaxConns \in Nat
  BY BridgeFacts DEF BridgeInv
<1>2. /\ made' = made + 1 /\ conn' = made' /\ made' \in Conns /\ made \in Nat
      /\ alive' = alive \cup {made'} /\ holder = Free /\ up
      /\ UNCHANGED <<next_id, holder, step, id, answer, serving, replies, sent, up, gaveUp>>
  BY <1>1 DEF connect, BridgeTypeOK, Conns
<1>3. BridgeTypeOK'
  <2>1. /\ made' \in 0..MaxConns /\ conn' \in 0..made' /\ 1..made \subseteq 1..made'
        /\ made' \in 1..made'
    BY <1>1, <1>2 DEF Conns
  <2>2. alive' \in SUBSET (1..made') /\ gaveUp' \in SUBSET (1..made')
    BY <1>1, <1>2, <2>1 DEF BridgeTypeOK
  <2>3. QED
    BY <1>1, <1>2, <2>1, <2>2 DEF BridgeTypeOK
<1>4. \A k \in Conns : k >= made' => Empty(k)'
  <2> SUFFICES ASSUME NEW k \in Conns, k >= made' PROVE Empty(k)
    BY <1>2 DEF Empty
  <2>1. k > made
    BY <1>2, BridgeFacts
  <2>2. QED
    BY <1>1, <2>1 DEF NewIsEmpty
<1>5. OnlyTheHolders'
  BY <1>2, <1>4, BridgeFacts DEF OnlyTheHolders
<1>6. NewIsEmpty'
  BY <1>2, <1>4, BridgeFacts DEF NewIsEmpty
<1>7. CallsHaveIds'
  BY <1>2 DEF BridgeInv, CallsHaveIds
<1>8. QED
  BY <1>3, <1>5, <1>6, <1>7 DEF BridgeInv

LEMMA BridgeInvCall == ASSUME BridgeInv, NEW c \in Callers, Call(c) PROVE BridgeInv'
<1>1. BridgeTypeOK /\ OnlyTheHolders /\ NewIsEmpty /\ CallsHaveIds
  BY DEF BridgeInv
<1>2. next_id \in Ids /\ next_id' \in 1..(MaxCalls + 1)
  BY <1>1, BridgeFacts DEF BridgeTypeOK, Call, Ids
<1>3. UNCHANGED <<conn, holder, gaveUp, made, serving, replies, sent, alive, up>>
  BY DEF Call, hostVars
<1>4. /\ step' \in [Callers -> {"idle", "queued", "writing", "reading"}]
      /\ id' \in [Callers -> Ids \cup {0}] /\ answer' \in [Callers -> Ids \cup {0}]
  BY <1>1, <1>2 DEF BridgeTypeOK, Call
<1>5. \A d \in Callers : step'[d] \in {"writing", "reading"} <=> holder' = d
  BY <1>1, <1>3 DEF BridgeTypeOK, Call
<1>6. holder # Free => holder \in Callers /\ id'[holder] = id[holder] /\ step'[holder] = step[holder]
  BY <1>1 DEF BridgeTypeOK, Call
<1>7. BridgeTypeOK'
  BY <1>1, <1>2, <1>3, <1>4, <1>5 DEF BridgeTypeOK
<1>8. (OnlyTheHolders /\ NewIsEmpty)'
  BY <1>1, <1>3, <1>6 DEF OnlyTheHolders, NewIsEmpty, JustOne, Empty
<1>9. CallsHaveIds'
  BY <1>1, <1>2 DEF CallsHaveIds, Call, BridgeTypeOK
<1>10. QED
  BY <1>7, <1>8, <1>9 DEF BridgeInv

LEMMA BridgeInvLock == ASSUME BridgeInv, NEW c \in Callers, Lock(c) PROVE BridgeInv'
<1>1. BridgeTypeOK /\ OnlyTheHolders /\ NewIsEmpty /\ CallsHaveIds
  BY DEF BridgeInv
<1>2. /\ UNCHANGED <<next_id, conn, id, answer, gaveUp, made, serving, replies, sent, alive, up>>
      /\ step[c] = "queued" /\ holder = Free /\ c # Free
  BY BridgeFacts DEF Lock, hostVars
<1>3. conn # 0 /\ conn \notin gaveUp => Empty(conn)
  BY <1>1, <1>2 DEF OnlyTheHolders
<1>4. /\ \/ conn # 0 /\ holder' = c /\ step' = [step EXCEPT ![c] = "writing"]
         \/ holder' = Free /\ step' = [step EXCEPT ![c] = "idle"]
  BY <1>2 DEF Lock
<1>5. /\ step' \in [Callers -> {"idle", "queued", "writing", "reading"}]
      /\ \A d \in Callers : step'[d] \in {"writing", "reading"} <=> holder' = d
      /\ \A d \in Callers : step'[d] # "idle" => step[d] # "idle"
  <2>1. \A d \in Callers : d # Free /\ step[d] \notin {"writing", "reading"}
    BY <1>1, <1>2, BridgeFacts DEF BridgeTypeOK
  <2>2. QED
    BY <1>1, <1>2, <1>4, <2>1 DEF BridgeTypeOK
<1>6. BridgeTypeOK'
  BY <1>1, <1>2, <1>4, <1>5 DEF BridgeTypeOK
<1>7. (OnlyTheHolders /\ NewIsEmpty /\ CallsHaveIds)'
  BY <1>1, <1>2, <1>3, <1>4, <1>5 DEF OnlyTheHolders, NewIsEmpty, CallsHaveIds, Empty
<1>8. QED
  BY <1>6, <1>7 DEF BridgeInv

(* The call leaves the connection: its write has failed, it has its line,   *)
(* the stream is at its end, or the time is up.                             *)
LEMMA ReleaseFrees ==
  ASSUME BridgeInv, NEW c \in Callers, step[c] \in {"writing", "reading"}, Release(c)
  PROVE  /\ step' \in [Callers -> {"idle", "queued", "writing", "reading"}]
         /\ \A d \in Callers : step'[d] \in {"writing", "reading"} <=> holder' = d
         /\ \A d \in Callers : step'[d] # "idle" => step[d] # "idle"
         /\ holder' = Free /\ holder = c /\ c # Free
<1>1. BridgeTypeOK
  BY DEF BridgeInv
<1>2. holder = c
  BY <1>1 DEF BridgeTypeOK
<1>3. /\ step' \in [Callers -> {"idle", "queued", "writing", "reading"}] /\ step'[c] = "idle"
      /\ holder' = Free
  BY <1>1 DEF BridgeTypeOK, Release
<1>4. \A d \in Callers : d # c => step'[d] = step[d] /\ step[d] \notin {"writing", "reading"}
  BY <1>1, <1>2 DEF BridgeTypeOK, Release
<1>5. \A d \in Callers : d # Free
  BY BridgeFacts
<1>6. QED
  BY <1>2, <1>3, <1>4, <1>5

LEMMA BridgeInvWrite == ASSUME BridgeInv, NEW c \in Callers, Write(c) PROVE BridgeInv'
<1>1. BridgeTypeOK /\ OnlyTheHolders /\ NewIsEmpty /\ CallsHaveIds
  BY DEF BridgeInv
<1>2. /\ UNCHANGED <<next_id, conn, id, answer, made, serving, replies, alive, up, gaveUp>>
      /\ step[c] = "writing"
  BY DEF Write
<1>3. /\ holder = c /\ c # Free
      /\ conn # 0 /\ conn \notin gaveUp => Empty(conn)
  BY <1>1, <1>2, BridgeFacts DEF BridgeTypeOK, OnlyTheHolders
<1>4. CASE conn \notin alive
  <2>1. Release(c) /\ UNCHANGED sent
    BY <1>4 DEF Write
  <2>2. /\ step' \in [Callers -> {"idle", "queued", "writing", "reading"}]
        /\ \A d \in Callers : step'[d] \in {"writing", "reading"} <=> holder' = d
        /\ \A d \in Callers : step'[d] # "idle" => step[d] # "idle"
        /\ holder' = Free
    BY <1>2, <2>1, ReleaseFrees
  <2>3. BridgeTypeOK'
    BY <1>1, <1>2, <2>1, <2>2 DEF BridgeTypeOK
  <2>4. QED
    BY <1>1, <1>2, <1>3, <2>1, <2>2, <2>3
       DEF BridgeInv, OnlyTheHolders, NewIsEmpty, CallsHaveIds, Empty
<1>5. CASE conn \in alive
  <2>1. conn \in Conns /\ conn # 0 /\ ~(conn > made)
    BY <1>1, <1>5, BridgeFacts DEF BridgeTypeOK, Conns
  <2>2. /\ holder' = c /\ step' = [step EXCEPT ![c] = "reading"]
        /\ sent' = [sent EXCEPT ![conn] = Append(@, id[c])]
    BY <1>3, <1>5 DEF Write
  <2>3. /\ step' \in [Callers -> {"idle", "queued", "writing", "reading"}]
        /\ step'[c] = "reading"
        /\ \A d \in Callers : step'[d] \in {"writing", "reading"} <=> holder' = d
        /\ \A d \in Callers : step'[d] # "idle" => step[d] # "idle"
    <3>1. \A d \in Callers : d # c => step'[d] = step[d]
      BY <1>1, <2>2 DEF BridgeTypeOK
    <3>2. step' \in [Callers -> {"idle", "queued", "writing", "reading"}] /\ step'[c] = "reading"
      BY <1>1, <2>2 DEF BridgeTypeOK
    <3>3. QED
      BY <1>1, <1>2, <1>3, <2>2, <3>1, <3>2 DEF BridgeTypeOK
  <2>4. id[c] \in Ids /\ sent[conn] \in Seq(Ids)
    BY <1>1, <1>2, <2>1 DEF CallsHaveIds, BridgeTypeOK
  <2>5. sent' \in [Conns -> Seq(Ids)] /\ \A k \in Conns : k # conn => sent'[k] = sent[k]
    BY <1>1, <2>1, <2>2, <2>4 DEF BridgeTypeOK
  <2>6. BridgeTypeOK'
    BY <1>1, <1>2, <2>2, <2>3, <2>5 DEF BridgeTypeOK
  <2>7. NewIsEmpty'
    BY <1>1, <1>2, <2>1, <2>5 DEF NewIsEmpty, Empty
  <2>8. sent[conn] = <<>> => sent'[conn] = <<id[c]>>
    BY <1>1, <2>1, <2>2 DEF BridgeTypeOK
  <2>9. OnlyTheHolders'
    BY <1>1, <1>2, <1>3, <2>1, <2>2, <2>3, <2>8 DEF OnlyTheHolders, Empty, JustOne
  <2>10. CallsHaveIds'
    BY <1>1, <1>2, <2>3 DEF CallsHaveIds
  <2>11. QED
    BY <2>6, <2>7, <2>9, <2>10 DEF BridgeInv
<1>6. QED
  BY <1>4, <1>5

(* The caller stops reading: with the line it took, at the end of the stream *)
(* or without either.                                                       *)
LEMMA BridgeInvRead ==
  ASSUME BridgeInv, NEW c \in Callers, ReadReply(c) \/ ReadEof(c) \/ ReadTimeout(c)
  PROVE  BridgeInv'
<1>1. BridgeTypeOK /\ OnlyTheHolders /\ NewIsEmpty /\ CallsHaveIds
  BY DEF BridgeInv
<1>2. /\ UNCHANGED <<next_id, id, made, serving, sent, alive, up>>
      /\ step[c] = "reading" /\ Release(c)
  BY DEF ReadReply, ReadEof, ReadTimeout, hostVars
<1>3. holder = c /\ c # Free /\ conn # 0 /\ conn \in Conns /\ conn \in 1..made /\ made \in Nat
  BY <1>1, <1>2, BridgeFacts DEF BridgeTypeOK, OnlyTheHolders, Conns
<1>4. /\ step' \in [Callers -> {"idle", "queued", "writing", "reading"}]
      /\ \A d \in Callers : step'[d] \in {"writing", "reading"} <=> holder' = d
      /\ \A d \in Callers : step'[d] # "idle" => step[d] # "idle"
      /\ holder' = Free
  BY <1>2, ReleaseFrees
<1>5. CallsHaveIds'
  BY <1>1, <1>2, <1>4 DEF CallsHaveIds
<1>6. CASE ReadReply(c)
  <2>1. /\ replies[conn] # <<>> /\ replies' = [replies EXCEPT ![conn] = Tail(@)]
        /\ answer' = [answer EXCEPT ![c] = Head(replies[conn])] /\ UNCHANGED <<conn, gaveUp>>
    BY <1>6 DEF ReadReply
  <2>2. replies[conn] \in Seq(Ids)
    BY <1>1, <1>3 DEF BridgeTypeOK
  <2>3. Tail(replies[conn]) \in Seq(Ids) /\ Head(replies[conn]) \in Ids
    BY <2>1, <2>2
  <2>4. /\ replies' \in [Conns -> Seq(Ids)] /\ replies'[conn] = Tail(replies[conn])
        /\ \A k \in Conns : k # conn => replies'[k] = replies[k]
    BY <1>1, <1>3, <2>1, <2>3 DEF BridgeTypeOK
  <2>5. answer' \in [Callers -> Ids \cup {0}]
    BY <1>1, <2>1, <2>3 DEF BridgeTypeOK
  <2>6. BridgeTypeOK'
    BY <1>1, <1>2, <1>4, <2>1, <2>4, <2>5 DEF BridgeTypeOK
  <2>7. NewIsEmpty'
    <3>1. ~(conn > made)
      BY <1>3
    <3>2. QED
      BY <1>1, <1>2, <2>4, <3>1 DEF NewIsEmpty, Empty
  <2>8. ASSUME conn \notin gaveUp PROVE Empty(conn)'
    <3>1. JustOne(conn, id[c]) /\ id[c] # 0
      BY <1>1, <1>2, <1>3, <2>1, <2>8, BridgeFacts DEF OnlyTheHolders, Empty, CallsHaveIds
    <3>2. sent[conn] = <<>> /\ serving[conn] = 0 /\ replies[conn] = <<id[c]>>
      BY <2>1, <3>1 DEF JustOne
    <3>3. Tail(replies[conn]) = <<>>
      BY <3>2
    <3>4. QED
      BY <1>2, <2>1, <2>4, <3>2, <3>3 DEF Empty
  <2>9. OnlyTheHolders'
    BY <1>4, <2>1, <2>8 DEF OnlyTheHolders
  <2>10. QED
    BY <1>5, <2>6, <2>7, <2>9 DEF BridgeInv
<1>7. CASE ReadEof(c) \/ ReadTimeout(c)
  <2>1. /\ \/ conn' = 0 /\ gaveUp' = gaveUp
           \/ conn' = conn /\ gaveUp' = gaveUp \cup {conn}
        /\ UNCHANGED <<answer, replies>>
    BY <1>7 DEF ReadEof, ReadTimeout, hostVars
  <2>2. BridgeTypeOK'
    <3>1. conn' \in 0..made
      BY <1>3, <2>1
    <3>2. gaveUp' \in SUBSET (1..made)
      BY <1>1, <1>3, <2>1 DEF BridgeTypeOK
    <3>3. QED
      BY <1>1, <1>2, <1>4, <2>1, <3>1, <3>2 DEF BridgeTypeOK
  <2>3. (OnlyTheHolders /\ NewIsEmpty)'
    BY <1>1, <1>2, <1>4, <2>1 DEF OnlyTheHolders, NewIsEmpty, Empty
  <2>4. QED
    BY <1>5, <2>2, <2>3 DEF BridgeInv
<1>8. QED
  BY <1>6, <1>7

LEMMA BridgeInvHost ==
  ASSUME BridgeInv,
         (\E k \in Conns : ReadRequest(k) \/ WriteReply(k)) \/ Crash \/ Restart
  PROVE  BridgeInv'
<1>1. BridgeTypeOK /\ OnlyTheHolders /\ NewIsEmpty /\ CallsHaveIds
  BY DEF BridgeInv
<1>2. UNCHANGED <<clientVars, made>>
  BY DEF ReadRequest, WriteReply, Crash, Restart
<1> USE <1>1, <1>2 DEF clientVars
<1>3. CallsHaveIds'
  BY DEF CallsHaveIds
<1>4. holder # Free => id[holder] \in Ids /\ id[holder] # 0
  BY BridgeFacts DEF BridgeTypeOK, CallsHaveIds
<1>5. ASSUME NEW k \in Conns, ReadRequest(k) PROVE BridgeInv'
  <2>1. /\ k \in alive /\ serving[k] = 0 /\ sent[k] # <<>>
        /\ serving' = [serving EXCEPT ![k] = Head(sent[k])]
        /\ sent' = [sent EXCEPT ![k] = Tail(@)] /\ UNCHANGED <<replies, alive, up>>
    BY <1>5 DEF ReadRequest
  <2>2. sent[k] \in Seq(Ids)
    BY DEF BridgeTypeOK
  <2>3. Tail(sent[k]) \in Seq(Ids) /\ Head(sent[k]) \in Ids
    BY <2>1, <2>2
  <2>4. /\ sent' \in [Conns -> Seq(Ids)] /\ serving' \in [Conns -> Ids \cup {0}]
        /\ sent'[k] = Tail(sent[k]) /\ serving'[k] = Head(sent[k])
        /\ \A j \in Conns : j # k => sent'[j] = sent[j] /\ serving'[j] = serving[j]
    BY <2>1, <2>3 DEF BridgeTypeOK
  <2>5. BridgeTypeOK'
    BY <2>1, <2>4 DEF BridgeTypeOK
  <2>6. ~(k > made)
    BY <2>1 DEF BridgeTypeOK
  <2>7. NewIsEmpty'
    BY <2>1, <2>4, <2>6 DEF NewIsEmpty, Empty
  <2>8. ASSUME conn = k, conn \notin gaveUp PROVE holder # Free /\ step[holder] = "reading" /\ JustOne(k, id[holder])'
    <3>1. holder # Free /\ step[holder] = "reading" /\ sent[k] = <<id[holder]>> /\ replies[k] = <<>>
      BY <1>4, <2>1, <2>8, BridgeFacts DEF OnlyTheHolders, Empty, JustOne
    <3>2. Head(sent[k]) = id[holder] /\ Tail(sent[k]) = <<>>
      BY <3>1
    <3>3. QED
      BY <2>1, <2>4, <3>1, <3>2 DEF JustOne
  <2>9. conn # k /\ conn # 0 => conn \in Conns /\ sent'[conn] = sent[conn] /\ serving'[conn] = serving[conn]
    BY <2>4, BridgeFacts DEF BridgeTypeOK, Conns
  <2>10. OnlyTheHolders'
    BY <2>1, <2>8, <2>9 DEF OnlyTheHolders, Empty, JustOne
  <2>11. QED
    BY <1>3, <2>5, <2>7, <2>10 DEF BridgeInv
<1>6. ASSUME NEW k \in Conns, WriteReply(k) PROVE BridgeInv'
  <2>1. /\ serving[k] # 0 /\ serving' = [serving EXCEPT ![k] = 0]
        /\ replies' = IF k = conn THEN [replies EXCEPT ![k] = Append(@, serving[k])] ELSE replies
        /\ UNCHANGED <<sent, alive, up>>
    BY <1>6 DEF WriteReply
  <2>2. serving[k] \in Ids /\ replies[k] \in Seq(Ids)
    BY <2>1 DEF BridgeTypeOK
  <2>3. Append(replies[k], serving[k]) \in Seq(Ids)
    BY <2>2
  <2>4. /\ replies' \in [Conns -> Seq(Ids)] /\ serving' \in [Conns -> Ids \cup {0}]
        /\ serving'[k] = 0 /\ (k = conn => replies'[k] = Append(replies[k], serving[k]))
        /\ \A j \in Conns : j # k => replies'[j] = replies[j] /\ serving'[j] = serving[j]
    BY <2>1, <2>3 DEF BridgeTypeOK
  <2>5. BridgeTypeOK'
    BY <2>1, <2>4 DEF BridgeTypeOK
  <2>6. ~(k > made)
    BY <2>1 DEF NewIsEmpty, Empty
  <2>7. NewIsEmpty'
    BY <2>1, <2>4, <2>6 DEF NewIsEmpty, Empty
  <2>8. ASSUME conn = k, conn \notin gaveUp PROVE holder # Free /\ step[holder] = "reading" /\ JustOne(k, id[holder])'
    <3>1. holder # Free /\ step[holder] = "reading" /\ serving[k] = id[holder] /\ sent[k] = <<>> /\ replies[k] = <<>>
      BY <1>4, <2>1, <2>8, BridgeFacts DEF OnlyTheHolders, Empty, JustOne
    <3>2. Append(replies[k], serving[k]) = <<id[holder]>>
      BY <3>1
    <3>3. QED
      BY <2>1, <2>4, <2>8, <3>1, <3>2 DEF JustOne
  <2>9. conn # k /\ conn # 0 =>
          conn \in Conns /\ replies'[conn] = replies[conn] /\ serving'[conn] = serving[conn]
    BY <2>4, BridgeFacts DEF BridgeTypeOK, Conns
  <2>10. OnlyTheHolders'
    BY <2>1, <2>8, <2>9 DEF OnlyTheHolders, Empty, JustOne
  <2>11. QED
    BY <1>3, <2>5, <2>7, <2>10 DEF BridgeInv
<1>7. CASE Crash
  <2>1. /\ sent' \in [Conns -> Seq(Ids)] /\ serving' \in [Conns -> Ids \cup {0}]
        /\ \A k \in Conns : sent'[k] = <<>> /\ serving'[k] = 0
        /\ up' = FALSE /\ alive' = {} /\ UNCHANGED replies
    BY <1>7 DEF Crash
  <2>2. BridgeTypeOK'
    BY <2>1 DEF BridgeTypeOK
  <2>3. conn # 0 => conn \in Conns
    BY BridgeFacts DEF BridgeTypeOK, Conns
  <2>4. OnlyTheHolders'
    BY <1>4, <2>1, <2>3 DEF OnlyTheHolders, Empty, JustOne
  <2>5. NewIsEmpty'
    BY <2>1 DEF NewIsEmpty, Empty
  <2>6. QED
    BY <1>3, <2>2, <2>4, <2>5 DEF BridgeInv
<1>8. CASE Restart
  <2>1. UNCHANGED <<serving, replies, sent, alive>> /\ up' = TRUE
    BY <1>8 DEF Restart
  <2>2. QED
    BY <1>3, <2>1 DEF BridgeInv, BridgeTypeOK, OnlyTheHolders, NewIsEmpty, Empty, JustOne
<1>9. QED
  BY <1>5, <1>6, <1>7, <1>8

LEMMA BridgeInvInductive == BridgeInv /\ [BridgeNext]_bridgeVars => BridgeInv'
<1> SUFFICES ASSUME BridgeInv, [BridgeNext]_bridgeVars PROVE BridgeInv'
  OBVIOUS
<1>1. CASE UNCHANGED bridgeVars
  BY <1>1 DEF BridgeInv, BridgeTypeOK, OnlyTheHolders, NewIsEmpty, CallsHaveIds, Empty, JustOne,
              bridgeVars, clientVars, hostVars
<1>2. CASE BridgeNext
  BY <1>2, BridgeInvConnect, BridgeInvCall, BridgeInvLock, BridgeInvWrite, BridgeInvRead, BridgeInvHost
     DEF BridgeNext
<1>3. QED
  BY <1>1, <1>2

(* When the mutex is free, nothing of an earlier call is left on the        *)
(* connection, through crashes of the host and reconnections, unless a call *)
(* has given up on it.                                                      *)
THEOREM NothingLeftOnConnection == BridgeSpec => []NothingPending
<1>1. BridgeInv => NothingPending
  BY DEF BridgeInv, OnlyTheHolders, Empty, NothingPending
<1>2. QED
  BY <1>1, BridgeInvInit, BridgeInvInductive, PTL DEF BridgeSpec

(* So the line a call reads answers the request it has written.             *)
THEOREM CallsGetTheirAnswers == BridgeSpec => AnswersOwnRequest
<1>1. BridgeInv /\ [BridgeNext]_bridgeVars
        => [\A c \in Callers : ReadReply(c) /\ conn \notin gaveUp => answer'[c] = id[c]]_bridgeVars
  <2> SUFFICES ASSUME BridgeInv, NEW c \in Callers, ReadReply(c), conn \notin gaveUp
               PROVE  answer'[c] = id[c]
    OBVIOUS
  <2>1. /\ step[c] = "reading" /\ replies[conn] # <<>>
        /\ answer' = [answer EXCEPT ![c] = Head(replies[conn])]
    BY DEF ReadReply
  <2>2. holder = c /\ c # Free /\ answer \in [Callers -> Ids \cup {0}]
    BY <2>1, BridgeFacts DEF BridgeInv, BridgeTypeOK
  <2>3. replies[conn] = <<id[c]>>
    BY <2>1, <2>2 DEF BridgeInv, OnlyTheHolders, Empty, JustOne
  <2>4. QED
    BY <2>1, <2>2, <2>3
<1>2. QED
  BY <1>1, BridgeInvInit, BridgeInvInductive, PTL DEF BridgeSpec, AnswersOwnRequest

-----------------------------------------------------------------------------
(* TsBridge. *)

HostLine == [call : Calls \cup {<<>>}, plugins : SUBSET Plugins, ok : BOOLEAN]

TsTypes == TsTypeOK /\ lines \in [Sockets -> Seq(HostLine)]

AllFree == \A k \in Sockets : status[k] = "free"

(* One connection, one attempt at it or one timer, at most; none of them     *)
(* before connect, and one of them until disconnect.                         *)
OneAttempt ==
  /\ timers <= 1 /\ (timers > 0 => AllFree)
  /\ \A j, k \in Sockets : status[j] # "free" /\ status[k] # "free" => j = k
  /\ connects = 0 => timers = 0 /\ AllFree /\ ~closed
  /\ connects > 0 /\ ~closed => timers = 1 \/ ~AllFree
  /\ closed => timers = 0
  /\ \A k \in Sockets : status[k] = "open" => socket = k

LateOnly == closed => \A k \in Sockets : status[k] \in {"connecting", "open"} => k \in late

(* What is pending, answered or registered belongs to the socket that is     *)
(* installed.                                                                *)
NothingStale ==
  /\ \A k \in Sockets : requests[k] # {} => status[k] \in {"open", "lost"}
  /\ \A c \in Calls : call[c] = "pending" => socket # 0
  /\ \A c \in Calls : call[c] = "ok" => got[c].on = socket /\ socket # 0
  /\ \A p \in Plugins : tools[p] # 0 => tools[p] = socket

(* With connect called once.                                                 *)
TsInv == TsTypes /\ (connects <= 1 => OneAttempt /\ LateOnly /\ NothingStale)

LEMMA TsFacts ==
  /\ NSockets \in Nat \ {0} /\ MaxConnects \in Nat /\ MaxLines \in Nat \ {0}
  /\ Sockets \subseteq Nat \ {0} /\ Sockets \subseteq 0..NSockets /\ 0 \notin Sockets
  /\ \A s \in 0..NSockets : s # 0 => s \in Sockets
  /\ Nothing \in [plugins : SUBSET Plugins, on : 0..NSockets]
  /\ Requests \subseteq Calls
  /\ \A r \in Refreshes : <<r, "list">> \in Calls /\ <<r, "tools">> \in Calls
  /\ \A k \in Sockets : <<k, "list">> \in Calls
BY TsBridgeAssumption DEF TsBridgeAssumption, Sockets, Nothing, Calls, Refreshes

LEMMA TsInvInit == TsInit => TsInv
<1> SUFFICES ASSUME TsInit PROVE TsInv
  OBVIOUS
<1> USE TsFacts DEF TsInit
<1>1. /\ status \in [Sockets -> {"free", "connecting", "open", "lost"}]
      /\ call \in [Calls -> {"none", "pending", "ok", "err"}]
      /\ got \in [Calls -> [plugins : SUBSET Plugins, on : 0..NSockets]]
      /\ requests \in [Sockets -> SUBSET Calls]
      /\ tools \in [Plugins -> 0..NSockets]
  OBVIOUS
<1>2. lines \in [Sockets -> Seq(HostLine)] /\ \A k \in Sockets : Len(lines[k]) <= MaxLines
  OBVIOUS
<1>3. socket = 0 /\ timers = 0 /\ closed = FALSE /\ connects = 0 /\ late = {}
  OBVIOUS
<1>4. /\ connects \in 0..MaxConnects /\ socket \in 0..NSockets /\ chunk \in 0..NSockets
      /\ timers \in Nat
  OBVIOUS
<1>5. TsTypes
  BY <1>1, <1>2, <1>3, <1>4 DEF TsTypes, TsTypeOK
<1>6. OneAttempt /\ LateOnly /\ NothingStale
  BY <1>3 DEF OneAttempt, AllFree, LateOnly, NothingStale
<1>7. QED
  BY <1>5, <1>6 DEF TsInv

-----------------------------------------------------------------------------
(* Types: a step's changes, variable by variable.                            *)

(* Without the bound on the lines' number.                                   *)
LEMMA TsTypesStep ==
  ASSUME TsTypes,
         UNCHANGED <<closed, connects, late>>
           \/ (closed' \in BOOLEAN /\ connects' \in 0..MaxConnects /\ late' \in SUBSET Sockets),
         socket' \in 0..NSockets,
         status' \in [Sockets -> {"free", "connecting", "open", "lost"}],
         socket' # 0 => status'[socket'] \in {"open", "lost"},
         timers' \in Nat,
         call' \in [Calls -> {"none", "pending", "ok", "err"}],
         got' \in [Calls -> [plugins : SUBSET Plugins, on : 0..NSockets]],
         requests' \in [Sockets -> SUBSET Calls],
         lines' \in [Sockets -> Seq(HostLine)],
         \A k \in Sockets : Len(lines'[k]) <= MaxLines,
         chunk' \in 0..NSockets,
         tools' \in [Plugins -> 0..NSockets]
  PROVE  TsTypes'
BY DEF TsTypes, TsTypeOK

LEMMA RpcTypes ==
  ASSUME TsTypes, NEW c \in Calls, Rpc(c, socket)
  PROVE  /\ call' \in [Calls -> {"none", "pending", "ok", "err"}]
         /\ requests' \in [Sockets -> SUBSET Calls]
<1>1. call' \in [Calls -> {"none", "pending", "ok", "err"}]
  BY DEF Rpc, TsTypes, TsTypeOK
<1>2. socket # 0 => socket \in Sockets
  BY TsFacts DEF TsTypes, TsTypeOK
<1>3. requests' = requests \/ (socket # 0 /\ requests' = [requests EXCEPT ![socket] = @ \cup {c}])
  BY DEF Rpc
<1>4. requests \in [Sockets -> SUBSET Calls]
  BY DEF TsTypes, TsTypeOK
<1>5. requests' \in [Sockets -> SUBSET Calls]
  <2>1. CASE requests' = requests
    BY <1>4, <2>1
  <2>2. CASE socket \in Sockets /\ requests' = [requests EXCEPT ![socket] = @ \cup {c}]
    BY <1>4, <2>2
  <2>3. QED
    BY <1>2, <1>3, <2>1, <2>2
<1>6. QED
  BY <1>1, <1>5

LEMMA TsTypesServer ==
  ASSUME TsTypes,
         \/ Connect \/ Disconnect \/ Refresh \/ TimerFires
         \/ \E c \in Requests : Request(c)
  PROVE  TsTypes'
<1> USE TsFacts
<1>1. /\ socket \in 0..NSockets /\ status \in [Sockets -> {"free", "connecting", "open", "lost"}]
      /\ socket # 0 => status[socket] \in {"open", "lost"}
      /\ closed \in BOOLEAN /\ timers \in Nat /\ connects \in 0..MaxConnects
      /\ call \in [Calls -> {"none", "pending", "ok", "err"}]
      /\ got \in [Calls -> [plugins : SUBSET Plugins, on : 0..NSockets]]
      /\ requests \in [Sockets -> SUBSET Calls] /\ lines \in [Sockets -> Seq(HostLine)]
      /\ \A k \in Sockets : Len(lines[k]) <= MaxLines
      /\ chunk \in 0..NSockets /\ tools \in [Plugins -> 0..NSockets]
  BY DEF TsTypes, TsTypeOK
<1>2. CASE Connect
  <2>1. connects' \in 0..MaxConnects /\ closed' \in BOOLEAN /\ late' \in SUBSET Sockets
    <3>1. /\ connects < MaxConnects /\ connects' = connects + 1
          /\ closed' = FALSE /\ late' = {}
      BY <1>2 DEF Connect
    <3>2. connects' \in 0..MaxConnects
      BY <1>1, <3>1
    <3>3. QED
      BY <3>1, <3>2
  <2>2. /\ status' \in [Sockets -> {"free", "connecting", "open", "lost"}]
        /\ socket # 0 => status'[socket] \in {"open", "lost"}
    BY <1>1, <1>2 DEF Connect, Dial
  <2>3. UNCHANGED <<socket, timers, call, got, requests, lines, chunk, tools>>
    BY <1>2 DEF Connect, callVars, wireVars
  <2>4. QED
    BY <1>1, <2>1, <2>2, <2>3, TsTypesStep
<1>3. CASE TimerFires
  <2>1. timers' \in Nat
    BY <1>1, <1>3 DEF TimerFires
  <2>2. /\ status' \in [Sockets -> {"free", "connecting", "open", "lost"}]
        /\ socket # 0 => status'[socket] \in {"open", "lost"}
    BY <1>1, <1>3 DEF TimerFires, Dial
  <2>3. UNCHANGED <<socket, closed, call, got, requests, lines, chunk, tools, connects, late>>
    BY <1>3 DEF TimerFires, callVars, wireVars
  <2>4. QED
    BY <1>1, <2>1, <2>2, <2>3, TsTypesStep
<1>4. CASE Disconnect
  <2>1. /\ status' \in [Sockets -> {"free", "connecting", "open", "lost"}]
        /\ socket' = 0 /\ closed' \in BOOLEAN /\ timers' \in Nat
        /\ tools' \in [Plugins -> 0..NSockets] /\ late' \in SUBSET Sockets
        /\ call' \in [Calls -> {"none", "pending", "ok", "err"}]
    BY <1>1, <1>4 DEF Disconnect, ClearTimer, UnregisterAllTools, ReleaseSocket, Rejected
  <2>2. UNCHANGED <<got, requests, lines, chunk, connects>>
    BY <1>4 DEF Disconnect, wireVars
  <2>3. QED
    BY <1>1, <2>1, <2>2, TsTypesStep
<1>5. ASSUME NEW c \in Requests, Request(c) PROVE TsTypes'
  <2>1. /\ Rpc(c, socket) /\ c \in Calls
        /\ UNCHANGED <<socket, status, closed, timers, got, lines, chunk, tools, connects, late>>
    BY <1>5 DEF Request
  <2>2. QED
    BY <1>1, <2>1, RpcTypes, TsTypesStep
<1>6. CASE Refresh
  <2>1. <<0, "list">> \in Calls
    <3>1. 0 \in Refreshes
      BY DEF Refreshes
    <3>2. QED
      BY <3>1
  <2>2. /\ Rpc(<<0, "list">>, socket) /\ tools' \in [Plugins -> 0..NSockets]
        /\ UNCHANGED <<socket, status, closed, timers, got, lines, chunk, connects, late>>
    BY <1>6 DEF Refresh, UnregisterAllTools
  <2>3. /\ call' \in [Calls -> {"none", "pending", "ok", "err"}]
        /\ requests' \in [Sockets -> SUBSET Calls]
    BY <2>1, <2>2, RpcTypes
  <2>4. QED
    BY <1>1, <2>2, <2>3, TsTypesStep
<1>7. QED
  BY <1>2, <1>3, <1>4, <1>5, <1>6

LEMMA TsTypesSocket ==
  ASSUME TsTypes, NEW k \in Sockets,
         \/ Connected(k) \/ PeerCloses(k) \/ Close(k) \/ Overflow(k) \/ Line(k)
         \/ \E c \in requests[k], P \in SUBSET Plugins, ok \in BOOLEAN : Answer(k, c, P, ok)
         \/ \E p \in Plugins : Notify(k, p)
  PROVE  TsTypes'
<1> USE TsFacts
<1>1. /\ socket \in 0..NSockets /\ status \in [Sockets -> {"free", "connecting", "open", "lost"}]
      /\ socket # 0 => status[socket] \in {"open", "lost"}
      /\ closed \in BOOLEAN /\ timers \in Nat /\ connects \in 0..MaxConnects
      /\ call \in [Calls -> {"none", "pending", "ok", "err"}]
      /\ got \in [Calls -> [plugins : SUBSET Plugins, on : 0..NSockets]]
      /\ requests \in [Sockets -> SUBSET Calls] /\ lines \in [Sockets -> Seq(HostLine)]
      /\ \A j \in Sockets : Len(lines[j]) <= MaxLines
      /\ chunk \in 0..NSockets /\ tools \in [Plugins -> 0..NSockets]
  BY DEF TsTypes, TsTypeOK
<1>2. CASE Connected(k)
  <2>1. /\ status' \in [Sockets -> {"free", "connecting", "open", "lost"}]
        /\ socket' = k /\ status'[k] = "open"
        /\ tools' \in [Plugins -> 0..NSockets]
    BY <1>1, <1>2 DEF Connected, UnregisterAllTools
  <2>2. /\ call' \in [Calls -> {"none", "pending", "ok", "err"}]
        /\ requests' \in [Sockets -> SUBSET Calls]
    BY <1>1, <1>2 DEF Connected
  <2>3. UNCHANGED <<closed, timers, got, lines, chunk, connects, late>>
    BY <1>2 DEF Connected
  <2>4. QED
    BY <1>1, <2>1, <2>2, <2>3, TsTypesStep
<1>3. CASE PeerCloses(k) \/ Overflow(k)
  <2>1. /\ status' \in [Sockets -> {"free", "connecting", "open", "lost"}]
        /\ socket # 0 => status'[socket] \in {"open", "lost"}
    BY <1>1, <1>3 DEF PeerCloses, Overflow
  <2>2. UNCHANGED <<socket, closed, timers, call, got, requests, lines, chunk, tools, connects, late>>
    BY <1>3 DEF PeerCloses, Overflow, callVars, wireVars
  <2>3. QED
    BY <1>1, <2>1, <2>2, TsTypesStep
<1>4. CASE Close(k)
  <2>1. /\ status' \in [Sockets -> {"free", "connecting", "open", "lost"}]
        /\ socket' = 0 /\ tools' \in [Plugins -> 0..NSockets] /\ timers' \in Nat
    BY <1>1, <1>4 DEF Close, UnregisterAllTools, ReleaseSocket, Schedule
  <2>2. /\ call' \in [Calls -> {"none", "pending", "ok", "err"}]
        /\ requests' \in [Sockets -> SUBSET Calls]
    BY <1>1, <1>4 DEF Close, Rejected
  <2>3. lines' \in [Sockets -> Seq(HostLine)] /\ \A j \in Sockets : Len(lines'[j]) <= MaxLines
    <3>1. /\ lines' = [lines EXCEPT ![k] = <<>>] /\ <<>> \in Seq(HostLine)
          /\ Len(<<>>) = 0 /\ 0 <= MaxLines
      BY <1>4 DEF Close
    <3>2. QED
      BY <1>1, <3>1
  <2>4. UNCHANGED <<closed, got, chunk, connects, late>>
    BY <1>4 DEF Close
  <2>5. QED
    BY <1>1, <2>1, <2>2, <2>3, <2>4, TsTypesStep
<1>5. CASE Line(k)
  <2> DEFINE l == Head(lines[k])
  <2>1. lines[k] # <<>> /\ lines[k] \in Seq(HostLine) /\ Len(lines[k]) <= MaxLines
    BY <1>1, <1>5 DEF Line
  <2>2. /\ l \in HostLine /\ Tail(lines[k]) \in Seq(HostLine)
        /\ Len(Tail(lines[k])) <= MaxLines
    BY <2>1
  <2>3. lines' \in [Sockets -> Seq(HostLine)] /\ \A j \in Sockets : Len(lines'[j]) <= MaxLines
    <3>1. lines' = [lines EXCEPT ![k] = Tail(@)]
      BY <1>5 DEF Line
    <3>2. QED
      BY <1>1, <2>2, <3>1
  <2>4. l.call \in Calls \cup {<<>>} /\ l.plugins \in SUBSET Plugins
    BY <2>2 DEF HostLine
  <2>5. /\ call' \in [Calls -> {"none", "pending", "ok", "err"}]
        /\ got' \in [Calls -> [plugins : SUBSET Plugins, on : 0..NSockets]]
        /\ tools' \in [Plugins -> 0..NSockets]
    <3>1. CASE UNCHANGED <<call, got>> /\ \E t \in {0, k} :
                 tools' = [p \in Plugins |-> IF p \in l.plugins THEN t ELSE tools[p]]
      BY <1>1, <3>1
    <3>2. CASE /\ l.call # <<>> /\ UNCHANGED tools
               /\ call' = [call EXCEPT ![l.call] = IF l.ok THEN "ok" ELSE "err"]
               /\ got' = [got EXCEPT ![l.call] = [plugins |-> l.plugins, on |-> k]]
      <4>1. [plugins |-> l.plugins, on |-> k] \in [plugins : SUBSET Plugins, on : 0..NSockets]
        BY <2>4
      <4>2. got' \in [Calls -> [plugins : SUBSET Plugins, on : 0..NSockets]]
        BY <1>1, <3>2, <4>1
      <4>3. call' \in [Calls -> {"none", "pending", "ok", "err"}]
        BY <1>1, <3>2
      <4>4. QED
        BY <1>1, <3>2, <4>2, <4>3
    <3>3. CASE UNCHANGED <<call, got, tools>>
      BY <1>1, <3>3
    <3>4. QED
      BY <1>5, <3>1, <3>2, <3>3 DEF Line
  <2>6. chunk' \in 0..NSockets /\ UNCHANGED <<socket, status, closed, timers, requests, connects, late>>
    BY <1>5 DEF Line
  <2>7. QED
    BY <1>1, <2>3, <2>5, <2>6, TsTypesStep
<1>6. ASSUME NEW l \in HostLine, Len(lines[k]) < MaxLines,
             lines' = [lines EXCEPT ![k] = Append(@, l)],
             requests' \in [Sockets -> SUBSET Calls],
             UNCHANGED <<socket, status, closed, timers, callVars, chunk, tools, connects, late>>
      PROVE  TsTypes'
  <2>1. lines[k] \in Seq(HostLine)
    BY <1>1
  <2>2. Append(lines[k], l) \in Seq(HostLine) /\ Len(Append(lines[k], l)) <= MaxLines
    BY <1>6, <2>1
  <2>3. lines' \in [Sockets -> Seq(HostLine)] /\ \A j \in Sockets : Len(lines'[j]) <= MaxLines
    BY <1>1, <1>6, <2>2
  <2>4. QED
    BY <1>1, <1>6, <2>3, TsTypesStep DEF callVars
<1>7. ASSUME NEW c \in requests[k], NEW P \in SUBSET Plugins, NEW ok \in BOOLEAN, Answer(k, c, P, ok)
      PROVE  TsTypes'
  <2>1. Response(c, P, ok) \in HostLine
    BY <1>1 DEF Response, HostLine
  <2>2. requests' \in [Sockets -> SUBSET Calls]
    BY <1>1, <1>7 DEF Answer
  <2>3. QED
    BY <1>6, <1>7, <2>1, <2>2 DEF Answer
<1>8. ASSUME NEW p \in Plugins, Notify(k, p) PROVE TsTypes'
  <2>1. Notification({p}) \in HostLine
    BY DEF Notification, HostLine
  <2>2. QED
    BY <1>1, <1>6, <1>8, <2>1 DEF Notify
<1>9. QED
  BY <1>2, <1>3, <1>4, <1>5, <1>7, <1>8

LEMMA TsTypesCall ==
  ASSUME TsTypes,
         \/ \E c \in Calls : CallTimesOut(c) \/ CallDone(c)
         \/ \E r \in Refreshes : ListArrived(r) \/ ToolsArrived(r)
  PROVE  TsTypes'
<1> USE TsFacts
<1>1. /\ socket \in 0..NSockets /\ status \in [Sockets -> {"free", "connecting", "open", "lost"}]
      /\ socket # 0 => status[socket] \in {"open", "lost"}
      /\ closed \in BOOLEAN /\ timers \in Nat /\ connects \in 0..MaxConnects
      /\ call \in [Calls -> {"none", "pending", "ok", "err"}]
      /\ got \in [Calls -> [plugins : SUBSET Plugins, on : 0..NSockets]]
      /\ requests \in [Sockets -> SUBSET Calls] /\ lines \in [Sockets -> Seq(HostLine)]
      /\ \A k \in Sockets : Len(lines[k]) <= MaxLines
      /\ chunk \in 0..NSockets /\ tools \in [Plugins -> 0..NSockets]
  BY DEF TsTypes, TsTypeOK
<1>2. ASSUME NEW c \in Calls, CallTimesOut(c) \/ CallDone(c) PROVE TsTypes'
  <2>1. /\ call' \in [Calls -> {"none", "pending", "ok", "err"}]
        /\ got' \in [Calls -> [plugins : SUBSET Plugins, on : 0..NSockets]]
    <3>1. \E v \in {"none", "err"} : call' = [call EXCEPT ![c] = v]
      BY <1>2 DEF CallTimesOut, CallDone
    <3>2. got' = got \/ got' = [got EXCEPT ![c] = Nothing]
      BY <1>2 DEF CallTimesOut, CallDone
    <3>3. call' \in [Calls -> {"none", "pending", "ok", "err"}]
      BY <1>1, <3>1
    <3>4. got' \in [Calls -> [plugins : SUBSET Plugins, on : 0..NSockets]]
      BY <1>1, <3>2
    <3>5. QED
      BY <3>3, <3>4
  <2>2. UNCHANGED <<socket, status, closed, timers, requests, lines, chunk, tools, connects, late>>
    BY <1>2 DEF CallTimesOut, CallDone, wireVars
  <2>3. QED
    BY <1>1, <2>1, <2>2, TsTypesStep
<1>3. ASSUME NEW r \in Refreshes, ListArrived(r) PROVE TsTypes'
  <2>1. /\ call' \in [Calls -> {"none", "pending", "ok", "err"}]
        /\ got' \in [Calls -> [plugins : SUBSET Plugins, on : 0..NSockets]]
    BY <1>1, <1>3 DEF ListArrived
  <2>2. \/ requests' = requests
        \/ socket \in Sockets /\ requests' = [requests EXCEPT ![socket] = @ \cup {<<r, "tools">>}]
    BY <1>1, <1>3 DEF ListArrived
  <2>3. requests' \in [Sockets -> SUBSET Calls]
    <3>1. CASE requests' = requests
      BY <1>1, <3>1
    <3>2. CASE /\ socket \in Sockets
               /\ requests' = [requests EXCEPT ![socket] = @ \cup {<<r, "tools">>}]
      BY <1>1, <3>2
    <3>3. QED
      BY <2>2, <3>1, <3>2
  <2>4. UNCHANGED <<socket, status, closed, timers, lines, chunk, tools, connects, late>>
    BY <1>3 DEF ListArrived
  <2>5. QED
    BY <1>1, <2>1, <2>3, <2>4, TsTypesStep
<1>4. ASSUME NEW r \in Refreshes, ToolsArrived(r) PROVE TsTypes'
  <2> DEFINE t == <<r, "tools">>
  <2>1. /\ call' \in [Calls -> {"none", "pending", "ok", "err"}]
        /\ got' \in [Calls -> [plugins : SUBSET Plugins, on : 0..NSockets]]
    BY <1>1, <1>4 DEF ToolsArrived
  <2>2. got[t].on \in 0..NSockets
    BY <1>1
  <2>3. tools' \in [Plugins -> 0..NSockets]
    BY <1>1, <1>4, <2>2 DEF ToolsArrived
  <2>4. UNCHANGED <<socket, status, closed, timers, requests, lines, chunk, connects, late>>
    BY <1>4 DEF ToolsArrived, wireVars
  <2>5. QED
    BY <1>1, <2>1, <2>3, <2>4, TsTypesStep
<1>5. QED
  BY <1>2, <1>3, <1>4

LEMMA TsTypesInductive == TsTypes /\ [TsNext]_tsVars => TsTypes'
<1> SUFFICES ASSUME TsTypes, [TsNext]_tsVars PROVE TsTypes'
  OBVIOUS
<1>1. CASE UNCHANGED tsVars
  BY <1>1 DEF TsTypes, TsTypeOK, tsVars, callVars, wireVars
<1>2. CASE TsNext
  BY <1>2, TsTypesServer, TsTypesSocket, TsTypesCall DEF TsNext
<1>3. QED
  BY <1>1, <1>2

-----------------------------------------------------------------------------
(* One connection at a time.                                                 *)

(* The turns that neither begin nor end a connection.                        *)
LEMMA OneAttemptKept ==
  ASSUME OneAttempt, LateOnly, UNCHANGED <<socket, status, closed, timers, connects, late>>
  PROVE  (OneAttempt /\ LateOnly)'
BY DEF OneAttempt, LateOnly, AllFree

LEMMA OneAttemptDials ==
  ASSUME TsTypes, OneAttempt, LateOnly, connects' <= 1, Connect \/ TimerFires
  PROVE  (OneAttempt /\ LateOnly)'
<1>1. /\ status \in [Sockets -> {"free", "connecting", "open", "lost"}]
      /\ timers \in Nat /\ connects \in Nat
  BY TsFacts DEF TsTypes, TsTypeOK
<1>2. /\ AllFree /\ timers' = 0 /\ closed' = FALSE /\ connects' > 0 /\ socket' = socket
  <2>1. CASE Connect
    <3>1. connects' = connects + 1 /\ closed' = FALSE /\ timers' = timers /\ socket' = socket
      BY <2>1 DEF Connect
    <3>2. connects = 0 /\ connects' > 0
      BY <1>1, <3>1
    <3>3. QED
      BY <3>1, <3>2 DEF OneAttempt
  <2>2. CASE TimerFires
    <3>1. timers > 0 /\ timers' = timers - 1 /\ UNCHANGED <<socket, closed, connects>>
      BY <2>2 DEF TimerFires
    <3>2. AllFree /\ timers = 1 /\ ~closed
      BY <1>1, <3>1 DEF OneAttempt
    <3>3. connects > 0
      BY <1>1, <3>2 DEF OneAttempt
    <3>4. QED
      BY <2>2, <3>1, <3>2, <3>3 DEF TsTypes, TsTypeOK
  <2>3. QED
    BY <2>1, <2>2
<1>3. PICK k \in Sockets : Dial(k)
  BY DEF Connect, TimerFires
<1>4. status'[k] = "connecting" /\ \A j \in Sockets : j # k => status'[j] = "free"
  BY <1>1, <1>2, <1>3 DEF Dial, AllFree
<1>5. \A j \in Sockets : status'[j] # "open"
  BY <1>4
<1>6. QED
  BY <1>2, <1>4, <1>5 DEF OneAttempt, LateOnly, AllFree

(* One socket is used, and the step does not free it.                        *)
LEMMA OneAttemptMoves ==
  ASSUME TsTypes, OneAttempt, LateOnly, connects' <= 1, NEW k \in Sockets,
         Connected(k) \/ PeerCloses(k) \/ Overflow(k)
  PROVE  (OneAttempt /\ LateOnly)'
<1>1. /\ status \in [Sockets -> {"free", "connecting", "open", "lost"}]
      /\ timers \in Nat /\ connects \in Nat
      /\ socket # 0 => socket \in Sockets /\ status[socket] # "free"
  BY TsFacts DEF TsTypes, TsTypeOK
<1>2. UNCHANGED <<closed, timers, connects, late>> /\ status[k] # "free"
  BY DEF Connected, PeerCloses, Overflow
<1>3. \A j \in Sockets : j # k => status[j] = "free"
  BY <1>2 DEF OneAttempt
<1>4. /\ \A j \in Sockets : j # k => status'[j] = "free"
      /\ status'[k] \in {"open", "lost"}
      /\ status'[k] = "open" => socket' = k /\ status[k] \in {"connecting", "open"}
  <2>1. CASE Connected(k)
    BY <1>1, <1>3, <2>1 DEF Connected
  <2>2. CASE PeerCloses(k)
    BY <1>1, <1>3, <2>2 DEF PeerCloses
  <2>3. CASE Overflow(k)
    <3>1. socket = k
      BY <1>1, <1>3, <2>3 DEF Overflow
    <3>2. QED
      BY <1>1, <1>3, <2>3, <3>1 DEF Overflow
  <2>4. QED
    BY <2>1, <2>2, <2>3
<1>5. ~AllFree /\ ~AllFree'
  BY <1>2, <1>4 DEF AllFree
<1>6. OneAttempt'
  BY <1>2, <1>4, <1>5 DEF OneAttempt
<1>7. LateOnly'
  BY <1>2, <1>4 DEF LateOnly
<1>8. QED
  BY <1>6, <1>7

LEMMA OneAttemptEnds ==
  ASSUME TsTypes, OneAttempt, LateOnly, connects' <= 1,
         Disconnect \/ \E k \in Sockets : Close(k)
  PROVE  (OneAttempt /\ LateOnly)'
<1>1. /\ status \in [Sockets -> {"free", "connecting", "open", "lost"}]
      /\ timers \in Nat /\ connects \in Nat /\ connects' = connects
      /\ socket # 0 => socket \in Sockets /\ status[socket] # "free"
  BY TsFacts DEF TsTypes, TsTypeOK, Disconnect, Close
<1>2. CASE Disconnect
  <2>1. /\ connects > 0 /\ closed' = TRUE /\ timers' = 0 /\ socket' = 0
        /\ late' = {k \in Sockets : status[k] = "connecting"}
    BY <1>2 DEF Disconnect, ClearTimer, ReleaseSocket
  <2>2. \A k \in Sockets : /\ status'[k] # "open"
                           /\ status'[k] # "free" => status[k] # "free"
                           /\ status'[k] = "connecting" => status[k] = "connecting"
    <3>1. \A k \in Sockets : status[k] = "open" => socket = k /\ socket # 0
      BY TsFacts DEF OneAttempt
    <3>2. CASE socket = 0
      BY <1>2, <3>1, <3>2 DEF Disconnect
    <3>3. CASE socket # 0
      BY <1>1, <1>2, <3>1, <3>3 DEF Disconnect
    <3>4. QED
      BY <3>2, <3>3
  <2>3. QED
    BY <1>1, <2>1, <2>2 DEF OneAttempt, LateOnly, AllFree
<1>3. ASSUME NEW k \in Sockets, Close(k) PROVE (OneAttempt /\ LateOnly)'
  <2>1. /\ status[k] # "free" /\ status' = [status EXCEPT ![k] = "free"] /\ socket' = 0
        /\ timers' = IF closed \/ timers > 0 THEN timers ELSE 1
        /\ UNCHANGED <<closed, late>>
    BY <1>3 DEF Close, Schedule, ReleaseSocket
  <2>2. AllFree' /\ \A j \in Sockets : status'[j] = "free"
    BY <1>1, <2>1 DEF OneAttempt, AllFree
  <2>3. timers = 0 /\ connects > 0
    BY <1>1, <2>1 DEF OneAttempt, AllFree
  <2>4. timers' = IF closed THEN 0 ELSE 1
    BY <2>1, <2>3
  <2>5. OneAttempt'
    BY <1>1, <2>1, <2>2, <2>3, <2>4 DEF OneAttempt
  <2>6. LateOnly'
    BY <2>2 DEF LateOnly
  <2>7. QED
    BY <2>5, <2>6
<1>4. QED
  BY <1>2, <1>3

-----------------------------------------------------------------------------
(* Nothing of a connection that is gone.                                     *)

(* While an answer waits for its continuation, no other event is handled, so *)
(* that the socket is not changed under it.                                  *)
LEMMA NothingStaleKept ==
  ASSUME NothingStale,
         UNCHANGED <<socket, got>>,
         \A k \in Sockets : status[k] \in {"open", "lost"} => status'[k] \in {"open", "lost"},
         \A k \in Sockets : requests'[k] \subseteq requests[k],
         \A c \in Calls : call'[c] \in {call[c], "none", "err"},
         \A p \in Plugins : tools'[p] \in {tools[p], 0}
  PROVE  NothingStale'
BY DEF NothingStale

LEMMA RpcNotStale ==
  ASSUME TsTypes, NothingStale, NEW c \in Calls, Rpc(c, socket),
         UNCHANGED <<socket, got, status>>,
         \A p \in Plugins : tools'[p] \in {tools[p], 0}
  PROVE  NothingStale'
<1>1. /\ requests \in [Sockets -> SUBSET Calls]
      /\ call \in [Calls -> {"none", "pending", "ok", "err"}]
      /\ socket # 0 => socket \in Sockets /\ status[socket] \in {"open", "lost"}
  BY TsFacts DEF TsTypes, TsTypeOK
<1>2. \A k \in Sockets : requests'[k] # {} => status[k] \in {"open", "lost"}
  <2>1. CASE requests' = requests
    BY <2>1 DEF NothingStale
  <2>2. CASE socket # 0 /\ requests' = [requests EXCEPT ![socket] = @ \cup {c}]
    BY <1>1, <2>2 DEF NothingStale
  <2>3. QED
    BY <2>1, <2>2 DEF Rpc
<1>3. \A d \in Calls : \/ call'[d] = call[d]
                       \/ d = c /\ call'[d] = "err"
                       \/ d = c /\ call'[d] = "pending" /\ socket # 0
  BY <1>1 DEF Rpc
<1>4. QED
  BY <1>2, <1>3 DEF NothingStale

LEMMA NothingStaleServer ==
  ASSUME TsTypes, OneAttempt, NothingStale, connects' <= 1,
         \/ Connect \/ Disconnect \/ Refresh \/ TimerFires
         \/ \E c \in Requests : Request(c)
  PROVE  NothingStale'
<1>1. /\ status \in [Sockets -> {"free", "connecting", "open", "lost"}]
      /\ requests \in [Sockets -> SUBSET Calls]
      /\ call \in [Calls -> {"none", "pending", "ok", "err"}]
      /\ tools \in [Plugins -> 0..NSockets]
      /\ socket # 0 => socket \in Sockets /\ status[socket] \in {"open", "lost"}
  BY TsFacts DEF TsTypes, TsTypeOK
<1>2. CASE Connect \/ TimerFires
  <2>1. UNCHANGED <<socket, got, requests, call, tools>>
    BY <1>2 DEF Connect, TimerFires, callVars, wireVars
  <2>2. PICK k \in Sockets : Dial(k)
    BY <1>2 DEF Connect, TimerFires
  <2>3. \A j \in Sockets : status[j] \in {"open", "lost"} => status'[j] \in {"open", "lost"}
    BY <1>1, <2>2 DEF Dial
  <2>4. QED
    BY <2>1, <2>3, NothingStaleKept
<1>3. CASE Disconnect
  <2>1. /\ \A c \in Calls : call[c] \notin {"ok", "err"}
        /\ socket' = 0 /\ UNCHANGED <<got, requests>>
        /\ \A p \in Plugins : tools'[p] = 0
    BY <1>3 DEF Disconnect, Idle, Settled, ReleaseSocket, UnregisterAllTools, wireVars
  <2>2. \A c \in Calls : call'[c] \in {"none", "err"}
    BY <1>1, <1>3, <2>1 DEF Disconnect, Rejected
  <2>3. \A k \in Sockets : status[k] \in {"open", "lost"} => status'[k] \in {"open", "lost"}
    BY <1>1, <1>3 DEF Disconnect
  <2>4. QED
    BY <2>1, <2>2, <2>3 DEF NothingStale
<1>4. CASE Refresh
  <2>1. <<0, "list">> \in Calls
    <3>1. 0 \in Refreshes
      BY TsFacts DEF Refreshes
    <3>2. QED
      BY <3>1, TsFacts
  <2>2. /\ Rpc(<<0, "list">>, socket) /\ UNCHANGED <<socket, status, got>>
        /\ \A p \in Plugins : tools'[p] = 0
    BY <1>4 DEF Refresh, UnregisterAllTools
  <2>3. QED
    BY <2>1, <2>2, RpcNotStale
<1>5. ASSUME NEW c \in Requests, Request(c) PROVE NothingStale'
  BY <1>5, RpcNotStale, TsFacts DEF Request
<1>6. QED
  BY <1>2, <1>3, <1>4, <1>5

LEMMA NothingStaleSocket ==
  ASSUME TsTypes, OneAttempt, NothingStale, connects' <= 1, NEW k \in Sockets,
         \/ Connected(k) \/ PeerCloses(k) \/ Close(k) \/ Overflow(k) \/ Line(k)
         \/ \E c \in requests[k], P \in SUBSET Plugins, ok \in BOOLEAN : Answer(k, c, P, ok)
         \/ \E p \in Plugins : Notify(k, p)
  PROVE  NothingStale'
<1>1. /\ status \in [Sockets -> {"free", "connecting", "open", "lost"}]
      /\ requests \in [Sockets -> SUBSET Calls]
      /\ call \in [Calls -> {"none", "pending", "ok", "err"}]
      /\ got \in [Calls -> [plugins : SUBSET Plugins, on : 0..NSockets]]
      /\ tools \in [Plugins -> 0..NSockets]
      /\ socket # 0 => socket \in Sockets /\ status[socket] \in {"open", "lost"}
      /\ 0 \notin Sockets
  BY TsFacts DEF TsTypes, TsTypeOK
<1>2. CASE Connected(k)
  <2>1. /\ \A c \in Calls : call[c] \notin {"ok", "err"}
        /\ status[k] = "connecting" /\ status' = [status EXCEPT ![k] = "open"]
        /\ socket' = k /\ UNCHANGED got
        /\ \A p \in Plugins : tools'[p] = 0
        /\ call' = [call EXCEPT ![<<k, "list">>] = "pending"]
        /\ requests' = [requests EXCEPT ![k] = @ \cup {<<k, "list">>}]
    BY <1>2 DEF Connected, Idle, Settled, UnregisterAllTools
  <2>2. \A c \in Calls : call'[c] # "ok"
    BY <1>1, <2>1
  <2>3. \A j \in Sockets : requests'[j] # {} => status'[j] \in {"open", "lost"}
    BY <1>1, <2>1 DEF NothingStale
  <2>4. QED
    BY <1>1, <2>1, <2>2, <2>3 DEF NothingStale
<1>3. CASE PeerCloses(k) \/ Overflow(k)
  <2>1. UNCHANGED <<socket, call, got, requests, tools>>
    BY <1>3 DEF PeerCloses, Overflow, callVars, wireVars
  <2>2. \A j \in Sockets : status[j] \in {"open", "lost"} => status'[j] \in {"open", "lost"}
    BY <1>1, <1>3 DEF PeerCloses, Overflow
  <2>3. QED
    BY <2>1, <2>2, NothingStaleKept
<1>4. CASE Close(k)
  <2>1. /\ \A c \in Calls : call[c] \notin {"ok", "err"}
        /\ status' = [status EXCEPT ![k] = "free"] /\ requests' = [requests EXCEPT ![k] = {}]
        /\ \A p \in Plugins : tools'[p] = 0
        /\ call' = Rejected
    BY <1>4 DEF Close, Idle, Settled, UnregisterAllTools
  <2>2. \A c \in Calls : call'[c] \in {"none", "err"}
    BY <1>1, <2>1 DEF Rejected
  <2>3. \A j \in Sockets : requests'[j] # {} => status'[j] \in {"open", "lost"}
    BY <1>1, <2>1 DEF NothingStale
  <2>4. QED
    BY <2>1, <2>2, <2>3 DEF NothingStale
<1>5. CASE Line(k)
  <2> DEFINE l == Head(lines[k])
  <2>1. /\ status[k] = "open" /\ UNCHANGED <<socket, status, requests>>
    BY <1>5 DEF Line
  <2>2. socket = k /\ socket # 0
    BY <1>1, <2>1 DEF OneAttempt
  <2>3. CASE UNCHANGED <<call, got>> /\ \E t \in {0, k} :
               tools' = [p \in Plugins |-> IF p \in l.plugins THEN t ELSE tools[p]]
    BY <2>1, <2>2, <2>3 DEF NothingStale
  <2>4. CASE /\ l.call # <<>> /\ UNCHANGED tools
             /\ call' = [call EXCEPT ![l.call] = IF l.ok THEN "ok" ELSE "err"]
             /\ got' = [got EXCEPT ![l.call] = [plugins |-> l.plugins, on |-> k]]
    <3>1. \A c \in Calls : c # l.call => call'[c] = call[c] /\ got'[c] = got[c]
      BY <1>1, <2>4
    <3>2. \A c \in Calls : c = l.call => call'[c] \in {"ok", "err"} /\ got'[c].on = socket
      BY <1>1, <2>2, <2>4
    <3>3. QED
      BY <2>1, <2>2, <2>4, <3>1, <3>2 DEF NothingStale
  <2>5. CASE UNCHANGED <<call, got, tools>>
    BY <2>1, <2>5 DEF NothingStale
  <2>6. QED
    BY <1>5, <2>3, <2>4, <2>5 DEF Line
<1>6. ASSUME NEW c \in requests[k], NEW P \in SUBSET Plugins, NEW ok \in BOOLEAN, Answer(k, c, P, ok)
      PROVE  NothingStale'
  <2>1. /\ requests' = [requests EXCEPT ![k] = @ \ {c}]
        /\ UNCHANGED <<socket, status, call, got, tools>>
    BY <1>6 DEF Answer, callVars
  <2>2. \A j \in Sockets : requests'[j] \subseteq requests[j]
    BY <1>1, <2>1
  <2>3. QED
    BY <2>1, <2>2, NothingStaleKept
<1>7. ASSUME NEW p \in Plugins, Notify(k, p) PROVE NothingStale'
  <2>1. UNCHANGED <<socket, status, requests, call, got, tools>>
    BY <1>7 DEF Notify, callVars
  <2>2. QED
    BY <2>1 DEF NothingStale
<1>8. QED
  BY <1>2, <1>3, <1>4, <1>5, <1>6, <1>7

LEMMA NothingStaleCall ==
  ASSUME TsTypes, NothingStale,
         \/ \E c \in Calls : CallTimesOut(c) \/ CallDone(c)
         \/ \E r \in Refreshes : ListArrived(r) \/ ToolsArrived(r)
  PROVE  NothingStale'
<1>1. /\ requests \in [Sockets -> SUBSET Calls]
      /\ call \in [Calls -> {"none", "pending", "ok", "err"}]
      /\ got \in [Calls -> [plugins : SUBSET Plugins, on : 0..NSockets]]
      /\ tools \in [Plugins -> 0..NSockets]
      /\ socket # 0 => socket \in Sockets /\ status[socket] \in {"open", "lost"}
  BY TsFacts DEF TsTypes, TsTypeOK
<1>2. UNCHANGED <<socket, status>>
  BY DEF CallTimesOut, CallDone, ListArrived, ToolsArrived
<1>3. ASSUME NEW c \in Calls, CallTimesOut(c) \/ CallDone(c) PROVE NothingStale'
  <2>1. UNCHANGED <<requests, tools>>
    BY <1>3 DEF CallTimesOut, CallDone, wireVars
  <2>2. call'[c] \in {"none", "err"}
    BY <1>1, <1>3 DEF CallTimesOut, CallDone
  <2>3. \A d \in Calls : d # c => call'[d] = call[d] /\ got'[d] = got[d]
    BY <1>1, <1>3 DEF CallTimesOut, CallDone
  <2>4. QED
    BY <1>2, <2>1, <2>2, <2>3 DEF NothingStale
<1>4. ASSUME NEW r \in Refreshes, ListArrived(r) PROVE NothingStale'
  <2> DEFINE l == <<r, "list">>  t == <<r, "tools">>
  <2>1. l \in Calls /\ t \in Calls /\ l # t
    BY TsFacts
  <2>2. /\ got' = [got EXCEPT ![l] = Nothing] /\ UNCHANGED tools
        /\ \/ call' = [call EXCEPT ![l] = "none", ![t] = "err"] /\ UNCHANGED requests
           \/ /\ socket # 0 /\ call' = [call EXCEPT ![l] = "none", ![t] = "pending"]
              /\ requests' = [requests EXCEPT ![socket] = @ \cup {t}]
    BY <1>4 DEF ListArrived
  <2>3. /\ call'[l] = "none"
        /\ call'[t] = "err" \/ (call'[t] = "pending" /\ socket # 0)
        /\ \A c \in Calls : c # l /\ c # t => call'[c] = call[c] /\ got'[c] = got[c]
    BY <1>1, <2>1, <2>2
  <2>4. \A k \in Sockets : requests'[k] # {} => status[k] \in {"open", "lost"}
    BY <1>1, <2>2 DEF NothingStale
  <2>5. QED
    BY <1>2, <2>2, <2>3, <2>4 DEF NothingStale
<1>5. ASSUME NEW r \in Refreshes, ToolsArrived(r) PROVE NothingStale'
  <2> DEFINE t == <<r, "tools">>
  <2>1. /\ t \in Calls /\ call[t] = "ok" /\ call' = [call EXCEPT ![t] = "none"]
        /\ got' = [got EXCEPT ![t] = Nothing] /\ UNCHANGED requests
        /\ tools' = [p \in Plugins |-> IF p \in got[t].plugins THEN got[t].on ELSE tools[p]]
    BY <1>5, TsFacts DEF ToolsArrived, wireVars
  <2>2. got[t].on = socket
    BY <2>1 DEF NothingStale
  <2>3. \A p \in Plugins : tools'[p] # 0 => tools'[p] = socket
    BY <2>1, <2>2 DEF NothingStale
  <2>4. call'[t] = "none" /\ \A c \in Calls : c # t => call'[c] = call[c] /\ got'[c] = got[c]
    BY <1>1, <2>1
  <2>5. QED
    BY <1>2, <2>1, <2>3, <2>4 DEF NothingStale
<1>6. QED
  BY <1>3, <1>4, <1>5

-----------------------------------------------------------------------------
LEMMA TsInvInductive == TsInv /\ [TsNext]_tsVars => TsInv'
<1> SUFFICES ASSUME TsInv, [TsNext]_tsVars PROVE TsInv'
  OBVIOUS
<1>1. TsTypes /\ TsTypes'
  BY TsTypesInductive DEF TsInv
<1>2. connects' <= 1 => connects <= 1
  <2>1. connects \in Nat
    BY <1>1 DEF TsTypes, TsTypeOK
  <2>2. connects' = connects \/ connects' = connects + 1
    BY DEF TsNext, Connect, Disconnect, Refresh, TimerFires, Request, Connected, PeerCloses,
           Close, Overflow, Line, CallTimesOut, CallDone, ListArrived, ToolsArrived, Answer,
           Notify, tsVars
  <2>3. QED
    BY <2>1, <2>2
<1> SUFFICES ASSUME connects' <= 1 PROVE (OneAttempt /\ LateOnly /\ NothingStale)'
  BY <1>1 DEF TsInv
<1>3. OneAttempt /\ LateOnly /\ NothingStale
  BY <1>2 DEF TsInv
<1>4. CASE UNCHANGED tsVars
  BY <1>3, <1>4 DEF OneAttempt, LateOnly, NothingStale, AllFree, tsVars, callVars, wireVars
<1>5. CASE TsNext
  <2>1. NothingStale'
    BY <1>1, <1>3, <1>5, NothingStaleServer, NothingStaleSocket, NothingStaleCall DEF TsNext
  <2>2. (OneAttempt /\ LateOnly)'
    <3>1. CASE \/ Refresh \/ (\E c \in Requests : Request(c))
               \/ (\E k \in Sockets : Line(k))
               \/ (\E c \in Calls : CallTimesOut(c) \/ CallDone(c))
               \/ (\E r \in Refreshes : ListArrived(r) \/ ToolsArrived(r))
               \/ (\E k \in Sockets : \E c \in requests[k], P \in SUBSET Plugins, ok \in BOOLEAN :
                     Answer(k, c, P, ok))
               \/ (\E k \in Sockets, p \in Plugins : Notify(k, p))
      <4>1. UNCHANGED <<socket, status, closed, timers, connects, late>>
        BY <3>1 DEF Refresh, Request, Line, CallTimesOut, CallDone, ListArrived, ToolsArrived,
                    Answer, Notify
      <4>2. QED
        BY <1>3, <4>1, OneAttemptKept
    <3>2. CASE Connect \/ TimerFires
      BY <1>1, <1>3, <3>2, OneAttemptDials
    <3>3. CASE \E k \in Sockets : Connected(k) \/ PeerCloses(k) \/ Overflow(k)
      BY <1>1, <1>3, <3>3, OneAttemptMoves
    <3>4. CASE Disconnect \/ \E k \in Sockets : Close(k)
      BY <1>1, <1>3, <3>4, OneAttemptEnds
    <3>5. QED
      BY <1>5, <3>1, <3>2, <3>3, <3>4 DEF TsNext
  <2>3. QED
    BY <2>1, <2>2
<1>6. QED
  BY <1>4, <1>5

(* Used sockets and timers are one together.                                 *)
LEMMA OneAttemptCounts ==
  ASSUME TsTypes, OneAttempt, connects > 0, ~closed
  PROVE  timers + Cardinality({k \in Sockets : status[k] # "free"}) = 1
<1> DEFINE used == {k \in Sockets : status[k] # "free"}
<1>1. timers \in Nat
  BY DEF TsTypes, TsTypeOK
<1>2. CASE AllFree
  <2>1. used = {} /\ timers = 1
    BY <1>2 DEF OneAttempt, AllFree
  <2>2. QED
    BY <2>1, FS_EmptySet
<1>3. CASE ~AllFree
  <2>1. PICK k \in Sockets : status[k] # "free"
    BY <1>3 DEF AllFree
  <2>2. used = {k} /\ timers = 0
    BY <1>1, <1>3, <2>1 DEF OneAttempt
  <2>3. Cardinality(used) = 1
    BY <2>2, FS_Singleton
  <2>4. QED
    BY <2>2, <2>3
<1>4. QED
  BY <1>2, <1>3

(* A bridge that has been connected once keeps one connection, one attempt   *)
(* at it or one timer, and holds nothing of a connection that is gone; and   *)
(* after disconnect it starts nothing -- for any number of sockets, calls,   *)
(* plugins and lines on their way.                                           *)
THEOREM OneConnectionAtATime ==
  TsSpec => [](connects <= 1 => OneConnection /\ DisconnectedIsQuiet)
<1>1. TsInv => (connects <= 1 => OneConnection /\ DisconnectedIsQuiet)
  <2> SUFFICES ASSUME TsInv, connects <= 1 PROVE OneConnection /\ DisconnectedIsQuiet
    OBVIOUS
  <2>1. TsTypes /\ OneAttempt /\ LateOnly /\ NothingStale
    BY DEF TsInv
  <2>2. ASSUME NEW c \in Calls, call[c] = "pending"
        PROVE  socket # 0 /\ \A k \in Sockets \ {socket} : c \notin requests[k]
    <3>1. socket # 0 /\ socket \in Sockets /\ status[socket] \in {"open", "lost"}
      BY <2>1, <2>2, TsFacts DEF NothingStale, TsTypes, TsTypeOK
    <3>2. \A k \in Sockets \ {socket} : status[k] = "free"
      BY <2>1, <3>1 DEF OneAttempt
    <3>3. QED
      BY <2>1, <3>1, <3>2 DEF NothingStale
  <2>3. OneConnection
    BY <2>1, <2>2, OneAttemptCounts DEF OneConnection, NothingStale, TsTypes
  <2>4. DisconnectedIsQuiet
    BY <2>1 DEF DisconnectedIsQuiet, OneAttempt, LateOnly, NothingStale
  <2>5. QED
    BY <2>3, <2>4
<1>2. QED
  BY <1>1, TsInvInit, TsInvInductive, PTL DEF TsSpec
=============================================================================
