---------------------------- MODULE CommandsProofs ----------------------------
(***************************************************************************)
(* Proofs about the commands of the agent: Funding, Discovery, Keystore    *)
(* and AddressBook.                                                        *)
(***************************************************************************)
EXTENDS Keystore, AddressBook, Funding, Discovery, FiniteSetTheorems, SequenceTheorems, TLAPS

-----------------------------------------------------------------------------
(* Funding.                                                                  *)

(* The payments somebody was told of.                                        *)
Told == {p \in Payments : reported[p] > 0}

(* The ledger is finite, so that what is on it can be counted.               *)
FundInv == FundedAsReported /\ IsFiniteSet(ledger)

LEMMA FundInvInit == FundInit => FundInv
<1> SUFFICES ASSUME FundInit PROVE FundInv
  OBVIOUS
<1>1. 0 \in 0..MaxRound /\ 0 \in 0..MaxRuns /\ (CHOOSE a \in Amounts : TRUE) \in Amounts
  BY FundingAssumption DEF FundingAssumption
<1>2. payment \in Payments
  BY <1>1 DEF FundInit, Payments
<1>3. FundTypeOK
  BY <1>1, <1>2 DEF FundInit, FundTypeOK
<1>4. Told = {} /\ \A p \in Payments : reported[p] = 0
  BY DEF FundInit, Told
<1>5. Cardinality(ledger) = 0 /\ Cardinality(Told) = 0 /\ unanswered = 0 /\ IsFiniteSet(ledger)
  BY <1>4, FS_EmptySet DEF FundInit
<1>6. QED
  BY <1>3, <1>4, <1>5 DEF FundInv, FundedAsReported, Told

(* Steps that pay nothing and say nothing.                                   *)
LEMMA FundInvQuiet ==
  ASSUME FundInv, UNCHANGED chainVars, payment' \in Payments, round' \in 0..MaxRound,
         runs' \in 0..MaxRuns,
         at' \in {"idle", "wallets", "init", "keys", "params", "sign", "submit", "release"}
  PROVE  FundInv'
BY DEF FundInv, FundedAsReported, FundTypeOK, chainVars

(* The node takes a payment that is not on the ledger, hence of which nobody *)
(* was told.                                                                 *)
LEMMA FundInvSubmit == FundInv /\ Submit => FundInv'
<1> SUFFICES ASSUME FundInv, Submit PROVE FundInv'
  OBVIOUS
<1>1. /\ payment \in Payments /\ ledger \subseteq Payments /\ unanswered \in Nat
      /\ reported \in [Payments -> Nat] /\ IsFiniteSet(ledger)
      /\ \A p \in Payments : reported[p] = 0 \/ (reported[p] = 1 /\ p \in ledger)
      /\ Cardinality(ledger) = Cardinality(Told) + unanswered
  BY DEF FundInv, FundedAsReported, FundTypeOK, Told
<1>2. Told \subseteq ledger
  BY <1>1 DEF Told
<1>3. IsFiniteSet(Told) /\ Cardinality(Told) \in Nat /\ Cardinality(ledger) \in Nat
  BY <1>1, <1>2, FS_Subset, FS_CardinalityType
<1>4. UNCHANGED <<payment, runs, round>>
  BY DEF Submit
<1>5. CASE UNCHANGED chainVars /\ at' = "idle"
  BY <1>4, <1>5, FundInvQuiet DEF FundInv, FundedAsReported, FundTypeOK
<1>6. CASE Accepts /\ ledger' = ledger \cup {payment} /\ at' \in {"idle", "release"}
           /\ \/ reported' = [reported EXCEPT ![payment] = @ + 1] /\ unanswered' = unanswered
              \/ reported' = reported /\ unanswered' = unanswered + 1
  <2>1. reported[payment] = 0 /\ payment \notin Told
    BY <1>1, <1>6 DEF Accepts, Told
  <2>2. IsFiniteSet(ledger') /\ Cardinality(ledger') = Cardinality(ledger) + 1
    BY <1>1, <1>6, FS_AddElement DEF Accepts
  <2>3. reported' \in [Payments -> Nat] /\ unanswered' \in Nat
    BY <1>1, <1>6, <2>1
  <2>4. FundTypeOK'
    BY <1>1, <1>4, <1>6, <2>3 DEF FundTypeOK, FundInv, FundedAsReported
  <2>5. \A p \in Payments : reported'[p] = 0 \/ (reported'[p] = 1 /\ p \in ledger')
    BY <1>1, <1>6, <2>1
  <2>6. Cardinality(Told') + unanswered' = Cardinality(Told) + unanswered + 1
    <3>1. CASE reported' = reported /\ unanswered' = unanswered + 1
      <4>1. Told' = Told
        BY <3>1 DEF Told, Payments
      <4>2. QED
        BY <1>1, <1>3, <3>1, <4>1
    <3>2. CASE reported' = [reported EXCEPT ![payment] = @ + 1] /\ unanswered' = unanswered
      <4>1. reported'[payment] = 1 /\ \A p \in Payments \ {payment} : reported'[p] = reported[p]
        BY <1>1, <2>1, <3>2
      <4>2. Told' = {p \in Payments : reported'[p] > 0}
        BY DEF Told, Payments
      <4>3. Told' = Told \cup {payment}
        BY <1>1, <4>1, <4>2 DEF Told
      <4>4. Cardinality(Told') = Cardinality(Told) + 1
        BY <1>3, <2>1, <4>3, FS_AddElement
      <4>5. QED
        BY <1>1, <1>3, <3>2, <4>4
    <3>3. QED
      BY <1>6, <3>1, <3>2
  <2>7. Cardinality(ledger') = Cardinality(Told') + unanswered'
    BY <1>1, <1>3, <2>2, <2>6
  <2>8. QED
    BY <2>2, <2>4, <2>5, <2>7 DEF FundInv, FundedAsReported, Told
<1>7. QED
  BY <1>5, <1>6 DEF Submit, chainVars

LEMMA FundInvInductive == FundInv /\ [FundNext]_fundVars => FundInv'
<1> SUFFICES ASSUME FundInv, [FundNext]_fundVars PROVE FundInv'
  OBVIOUS
<1>1. FundTypeOK /\ MaxRuns \in Nat /\ MaxRound \in Nat
  BY FundingAssumption DEF FundInv, FundedAsReported, FundingAssumption
<1>2. ASSUME NEW a \in Amounts, cmd_fund(a) PROVE FundInv'
  <2>1. payment' \in Payments
    BY <1>1, <1>2 DEF cmd_fund, Payments
  <2>2. runs' \in 0..MaxRuns
    BY <1>1, <1>2 DEF cmd_fund, FundTypeOK
  <2>3. QED
    BY <1>1, <1>2, <2>1, <2>2, FundInvQuiet DEF cmd_fund, FundTypeOK
<1>3. CASE SuggestedParams
  <2>1. payment' \in Payments
    BY <1>1, <1>3 DEF SuggestedParams, Payments, FundTypeOK
  <2>2. QED
    BY <1>1, <1>3, <2>1, FundInvQuiet DEF SuggestedParams, Asks, FundTypeOK
<1>4. CASE Submit
  BY <1>4, FundInvSubmit
<1>5. CASE NewRound
  <2>1. round' \in 0..MaxRound
    BY <1>1, <1>5 DEF NewRound, FundTypeOK
  <2>2. QED
    BY <1>1, <1>5, <2>1, FundInvQuiet DEF NewRound, FundTypeOK
<1>6. CASE ListWallets \/ InitWallet \/ ListKeys \/ Sign \/ Release \/ FundFails
  BY <1>1, <1>6, FundInvQuiet
     DEF ListWallets, InitWallet, ListKeys, Sign, Release, FundFails, Asks, FundTypeOK
<1>7. CASE UNCHANGED fundVars
  BY <1>1, <1>7, FundInvQuiet DEF fundVars, FundTypeOK
<1>8. QED
  BY <1>2, <1>3, <1>4, <1>5, <1>6, <1>7 DEF FundNext

(* However often the user tries again, every "Funded!" is a payment of its   *)
(* own on the ledger, which has no others but those whose answer was lost:   *)
(* a node takes a payment once, and a new one differs in its first round or  *)
(* its amount, or is refused.                                                *)
THEOREM EveryPaymentIsAccountedFor == FundSpec => []FundedAsReported
<1>1. FundInv => FundedAsReported
  BY DEF FundInv
<1>2. QED
  BY FundInvInit, FundInvInductive, <1>1, PTL DEF FundSpec

-----------------------------------------------------------------------------
(* Discovery.                                                                *)

AgentEntries == [sent : Nat, received : Nat, first : Int, last : Int, time : Int]

SentBy(a) == {i \in DOMAIN messages : messages[i].sender = a}
ReceivedBy(a) == {i \in DOMAIN messages : messages[i].receiver = a}
RoundsOf(a) == {messages[i].round : i \in Of(a)}

IsLeast(r, S) == r \in S /\ \A q \in S : r <= q
IsGreatest(r, S) == r \in S /\ \A q \in S : q <= r

(* What an entry says of the rounds an address was seen in.                  *)
Dated(e, S) ==
  IsLeast(e.first, S) /\ IsGreatest(e.last, S) /\ e.time = RoundTime(e.last)

DiscoveryInv ==
  /\ messages \in Seq(ChainMessage)
  /\ DOMAIN agents = {a \in Addresses : Of(a) # {}}
  /\ \A a \in DOMAIN agents :
       /\ agents[a] \in AgentEntries
       /\ agents[a].sent = Cardinality(SentBy(a))
       /\ agents[a].received = Cardinality(ReceivedBy(a))
       /\ Dated(agents[a], RoundsOf(a))

LEMMA ExtremesOf ==
  ASSUME NEW S \in SUBSET Int, NEW r
  PROVE  /\ IsLeast(r, S) => r = Min(S)
         /\ IsGreatest(r, S) => r = Max(S)
<1>1. ASSUME IsLeast(r, S) PROVE r = Min(S)
  <2>1. \A q \in S : (\A y \in S : q <= y) => q = r
    BY <1>1 DEF IsLeast
  <2>2. QED
    BY <1>1, <2>1 DEF IsLeast, Min
<1>2. ASSUME IsGreatest(r, S) PROVE r = Max(S)
  <2>1. \A q \in S : (\A y \in S : q >= y) => q = r
    BY <1>2 DEF IsGreatest
  <2>2. r \in S /\ \A y \in S : r >= y
    BY <1>2 DEF IsGreatest
  <2>3. QED
    BY <2>1, <2>2 DEF Max
<1>3. QED
  BY <1>1, <1>2

(* One more transaction, whatever its round.                                 *)
LEMMA SeenDates ==
  ASSUME NEW e \in AgentEntries, NEW S \in SUBSET Int, NEW m \in ChainMessage,
         \/ Dated(e, S)
         \/ S = {} /\ e.first = m.round /\ e.last = m.round /\ e.time = RoundTime(m.round)
  PROVE  /\ Seen(e, m) \in AgentEntries /\ Dated(Seen(e, m), S \cup {m.round})
         /\ Seen(e, m).sent = e.sent /\ Seen(e, m).received = e.received
<1>1. m.round \in Int
  BY DiscoveryAssumption DEF DiscoveryAssumption, ChainMessage
<1>2. RoundTime(m.round) \in Int
  BY <1>1 DEF RoundTime
<1>3. /\ Seen(e, m) \in AgentEntries
      /\ Seen(e, m).sent = e.sent /\ Seen(e, m).received = e.received
      /\ Seen(e, m).first = IF m.round < e.first THEN m.round ELSE e.first
      /\ Seen(e, m).last = IF m.round > e.last THEN m.round ELSE e.last
      /\ Seen(e, m).time = IF m.round > e.last THEN RoundTime(m.round) ELSE e.time
  BY <1>1, <1>2 DEF Seen, AgentEntries
<1>4. e.first \in Int /\ e.last \in Int
  BY DEF AgentEntries
<1>5. IsLeast(Seen(e, m).first, S \cup {m.round})
  BY <1>1, <1>3, <1>4 DEF Dated, IsLeast
<1>6. IsGreatest(Seen(e, m).last, S \cup {m.round})
  BY <1>1, <1>3, <1>4 DEF Dated, IsGreatest
<1>7. Seen(e, m).time = RoundTime(Seen(e, m).last)
  BY <1>3 DEF Dated
<1>8. QED
  BY <1>3, <1>5, <1>6, <1>7 DEF Dated

LEMMA DiscoveryInvInit == DiscoveryInit => DiscoveryInv
<1> SUFFICES ASSUME DiscoveryInit PROVE DiscoveryInv
  OBVIOUS
<1>1. messages \in Seq(ChainMessage) /\ DOMAIN messages = {} /\ DOMAIN agents = {}
  BY DEF DiscoveryInit
<1>2. \A a : Of(a) = {}
  BY <1>1 DEF Of
<1>3. QED
  BY <1>1, <1>2 DEF DiscoveryInv

(* A transaction counts for its sender and for its receiver.                 *)
LEMMA Counted ==
  ASSUME messages \in Seq(ChainMessage), NEW m \in ChainMessage,
         messages' = Append(messages, m), NEW a
  PROVE  /\ Of(a)' = IF a \in {m.sender, m.receiver} THEN Of(a) \cup {Len(messages) + 1} ELSE Of(a)
         /\ RoundsOf(a)' =
              IF a \in {m.sender, m.receiver} THEN RoundsOf(a) \cup {m.round} ELSE RoundsOf(a)
         /\ Cardinality(SentBy(a))' = Cardinality(SentBy(a)) + (IF m.sender = a THEN 1 ELSE 0)
         /\ Cardinality(ReceivedBy(a))' = Cardinality(ReceivedBy(a)) + (IF m.receiver = a THEN 1 ELSE 0)
         /\ Cardinality(SentBy(a)) \in Nat /\ Cardinality(ReceivedBy(a)) \in Nat
<1> DEFINE n == Len(messages) + 1
<1>1. /\ DOMAIN messages = 1..Len(messages) /\ Len(messages) \in Nat
      /\ DOMAIN messages' = DOMAIN messages \cup {n} /\ n \notin DOMAIN messages
      /\ messages'[n] = m /\ \A i \in DOMAIN messages : messages'[i] = messages[i]
  OBVIOUS
<1> HIDE DEF n
<1>2. Of(a)' = IF a \in {m.sender, m.receiver} THEN Of(a) \cup {n} ELSE Of(a)
  BY <1>1 DEF Of
<1>3. RoundsOf(a)' = IF a \in {m.sender, m.receiver} THEN RoundsOf(a) \cup {m.round} ELSE RoundsOf(a)
  <2>1. RoundsOf(a)' = {messages'[i].round : i \in Of(a)'}
    BY DEF RoundsOf
  <2>2. Of(a) \subseteq DOMAIN messages
    BY DEF Of
  <2>3. QED
    BY <1>1, <1>2, <2>1, <2>2 DEF RoundsOf
<1>4. IsFiniteSet(DOMAIN messages)
  BY <1>1, FS_Interval
<1>5. ASSUME NEW S \in SUBSET DOMAIN messages
      PROVE  /\ Cardinality(S) \in Nat /\ Cardinality(S \cup {n}) = Cardinality(S) + 1
  <2>1. IsFiniteSet(S) /\ n \notin S
    BY <1>1, <1>4, <1>5, FS_Subset
  <2>2. QED
    BY <2>1, FS_CardinalityType, FS_AddElement
<1>6. /\ SentBy(a)' = IF m.sender = a THEN SentBy(a) \cup {n} ELSE SentBy(a)
      /\ ReceivedBy(a)' = IF m.receiver = a THEN ReceivedBy(a) \cup {n} ELSE ReceivedBy(a)
      /\ SentBy(a) \in SUBSET DOMAIN messages /\ ReceivedBy(a) \in SUBSET DOMAIN messages
  BY <1>1 DEF SentBy, ReceivedBy
<1>7. Cardinality(SentBy(a)) \in Nat /\ Cardinality(SentBy(a) \cup {n}) = Cardinality(SentBy(a)) + 1
  BY <1>5, <1>6
<1>8. /\ Cardinality(ReceivedBy(a)) \in Nat
      /\ Cardinality(ReceivedBy(a) \cup {n}) = Cardinality(ReceivedBy(a)) + 1
  BY <1>5, <1>6
<1>9. QED
  BY <1>2, <1>3, <1>6, <1>7, <1>8 DEF n

(* What discover_agents leaves for each address.                             *)
LEMMA Tracked ==
  ASSUME NEW m \in ChainMessage, discover_agents(m)
  PROVE  /\ DOMAIN agents' = DOMAIN agents \cup ({m.sender, m.receiver} \ {NoAddress})
         /\ \A a \in DOMAIN agents : a \notin {m.sender, m.receiver} => agents'[a] = agents[a]
         /\ m.receiver # m.sender =>
              agents'[m.sender] = Seen([AgentEntry(agents, m.sender, m) EXCEPT !.sent = @ + 1], m)
         /\ m.receiver \notin {m.sender, NoAddress} =>
              agents'[m.receiver] =
                Seen([AgentEntry(agents, m.receiver, m) EXCEPT !.received = @ + 1], m)
         /\ m.receiver = m.sender =>
              agents'[m.sender] =
                Seen([Seen([AgentEntry(agents, m.sender, m) EXCEPT !.sent = @ + 1], m)
                        EXCEPT !.received = @ + 1], m)
<1> DEFINE s == m.sender
           e == Seen([AgentEntry(agents, s, m) EXCEPT !.sent = @ + 1], m)
           known == With(agents, s, e)
<1>1. s \in Addresses /\ s # NoAddress
  BY DiscoveryAssumption DEF ChainMessage, DiscoveryAssumption
<1>2. TrackSender(agents, m) = known /\ agents' = TrackReceiver(known, m)
  BY DEF TrackSender, discover_agents
<1> HIDE DEF e
<1>3. /\ DOMAIN known = DOMAIN agents \cup {s} /\ known[s] = e
      /\ \A a \in DOMAIN agents : a # s => known[a] = agents[a]
  BY DEF With
<1> HIDE DEF known
<1>4. CASE m.receiver = NoAddress
  BY <1>1, <1>2, <1>3, <1>4 DEF TrackReceiver, e
<1>5. CASE m.receiver # NoAddress
  <2> DEFINE f == Seen([AgentEntry(known, m.receiver, m) EXCEPT !.received = @ + 1], m)
  <2>1. agents' = With(known, m.receiver, f)
    BY <1>2, <1>5 DEF TrackReceiver
  <2> HIDE DEF f
  <2>2. /\ DOMAIN agents' = DOMAIN known \cup {m.receiver} /\ agents'[m.receiver] = f
        /\ \A a \in DOMAIN known : a # m.receiver => agents'[a] = known[a]
    BY <2>1 DEF With
  <2>3. CASE m.receiver = s
    <3>1. AgentEntry(known, m.receiver, m) = e
      BY <1>3, <2>3 DEF AgentEntry
    <3>2. QED
      BY <1>1, <1>3, <1>5, <2>2, <2>3, <3>1 DEF f, e
  <2>4. CASE m.receiver # s
    <3>1. AgentEntry(known, m.receiver, m) = AgentEntry(agents, m.receiver, m)
      BY <1>3, <2>4 DEF AgentEntry
    <3>2. QED
      BY <1>1, <1>3, <1>5, <2>2, <2>4, <3>1 DEF f, e
  <2>5. QED
    BY <2>3, <2>4
<1>6. QED
  BY <1>4, <1>5

LEMMA DiscoveryInvStep ==
  ASSUME DiscoveryInv, NEW m \in ChainMessage, messages' = Append(messages, m), discover_agents(m)
  PROVE  DiscoveryInv'
<1>1. messages \in Seq(ChainMessage) /\ messages' \in Seq(ChainMessage)
  BY DEF DiscoveryInv
<1>2. /\ m.sender \in Addresses /\ m.receiver \in Addresses \cup {NoAddress}
      /\ NoAddress \notin Addresses /\ m.round \in Int
  BY DiscoveryAssumption DEF ChainMessage, DiscoveryAssumption
<1>3. DOMAIN agents' = {a \in Addresses : Of(a)' # {}}
  <2>1. \A a : Of(a)' = IF a \in {m.sender, m.receiver} THEN Of(a) \cup {Len(messages) + 1} ELSE Of(a)
    BY <1>1, Counted
  <2>2. DOMAIN agents' = DOMAIN agents \cup ({m.sender, m.receiver} \ {NoAddress})
    BY Tracked
  <2>3. QED
    BY <1>2, <2>1, <2>2 DEF DiscoveryInv
<1>4. ASSUME NEW a \in {m.sender, m.receiver} \ {NoAddress}
      PROVE  LET e == AgentEntry(agents, a, m)
             IN  /\ e \in AgentEntries
                 /\ e.sent = Cardinality(SentBy(a)) /\ e.received = Cardinality(ReceivedBy(a))
                 /\ \/ Dated(e, RoundsOf(a))
                    \/ /\ RoundsOf(a) = {} /\ e.first = m.round /\ e.last = m.round
                       /\ e.time = RoundTime(m.round)
  <2> DEFINE e == AgentEntry(agents, a, m)
  <2>1. CASE a \in DOMAIN agents
    BY <2>1 DEF AgentEntry, DiscoveryInv
  <2>2. CASE a \notin DOMAIN agents
    <3>1. a \in Addresses /\ Of(a) = {}
      BY <1>2, <2>2 DEF DiscoveryInv
    <3>2. SentBy(a) = {} /\ ReceivedBy(a) = {} /\ RoundsOf(a) = {}
      BY <3>1 DEF Of, SentBy, ReceivedBy, RoundsOf
    <3>3. RoundTime(m.round) \in Int
      BY <1>2 DEF RoundTime
    <3>4. e = [sent |-> 0, received |-> 0, first |-> m.round, last |-> m.round,
               time |-> RoundTime(m.round)]
      BY <2>2 DEF AgentEntry
    <3> HIDE DEF e
    <3>5. e \in AgentEntries /\ e.sent = 0 /\ e.received = 0
          /\ e.first = m.round /\ e.last = m.round /\ e.time = RoundTime(m.round)
      BY <1>2, <3>3, <3>4 DEF AgentEntries
    <3>6. QED
      BY <3>2, <3>5, FS_EmptySet DEF e
  <2>3. QED
    BY <2>1, <2>2
<1>5. \A a : RoundsOf(a) \in SUBSET Int /\ RoundsOf(a)' \in SUBSET Int
  <2>1. \A c \in ChainMessage : c.round \in Int
    BY DiscoveryAssumption DEF ChainMessage, DiscoveryAssumption
  <2>2. \A i \in DOMAIN messages : messages[i].round \in Int
    BY <1>1, <2>1
  <2>3. \A i \in DOMAIN messages' : messages'[i].round \in Int
    BY <1>1, <2>1
  <2>4. QED
    BY <2>2, <2>3 DEF RoundsOf, Of
<1>6. ASSUME NEW a \in DOMAIN agents'
      PROVE  /\ agents'[a] \in AgentEntries
             /\ agents'[a].sent = Cardinality(SentBy(a))'
             /\ agents'[a].received = Cardinality(ReceivedBy(a))'
             /\ Dated(agents'[a], RoundsOf(a)')
  <2>1. /\ RoundsOf(a)' =
             IF a \in {m.sender, m.receiver} THEN RoundsOf(a) \cup {m.round} ELSE RoundsOf(a)
        /\ Cardinality(SentBy(a))' = Cardinality(SentBy(a)) + (IF m.sender = a THEN 1 ELSE 0)
        /\ Cardinality(ReceivedBy(a))' = Cardinality(ReceivedBy(a)) + (IF m.receiver = a THEN 1 ELSE 0)
        /\ Cardinality(SentBy(a)) \in Nat /\ Cardinality(ReceivedBy(a)) \in Nat
    BY <1>1, Counted
  <2>2. CASE a \notin {m.sender, m.receiver}
    <3>1. a \in DOMAIN agents /\ agents'[a] = agents[a]
      BY <1>6, <2>2, Tracked
    <3>2. QED
      BY <2>1, <2>2, <3>1 DEF DiscoveryInv
  <2>3. CASE a \in {m.sender, m.receiver}
    <3> DEFINE e == AgentEntry(agents, a, m)
               asked == [e EXCEPT !.sent = @ + 1]
               heard == [e EXCEPT !.received = @ + 1]
               both == [Seen(asked, m) EXCEPT !.received = @ + 1]
    <3>1. a # NoAddress
      BY <1>2, <1>3, <1>6
    <3>2. /\ e \in AgentEntries
          /\ e.sent = Cardinality(SentBy(a)) /\ e.received = Cardinality(ReceivedBy(a))
          /\ \/ Dated(e, RoundsOf(a))
             \/ /\ RoundsOf(a) = {} /\ e.first = m.round /\ e.last = m.round
                /\ e.time = RoundTime(m.round)
      BY <1>4, <2>3, <3>1
    <3> HIDE DEF e
    <3>3. /\ asked \in AgentEntries /\ asked.sent = e.sent + 1 /\ asked.received = e.received
          /\ asked.first = e.first /\ asked.last = e.last /\ asked.time = e.time
      BY <3>2 DEF AgentEntries
    <3>4. /\ heard \in AgentEntries /\ heard.sent = e.sent /\ heard.received = e.received + 1
          /\ heard.first = e.first /\ heard.last = e.last /\ heard.time = e.time
      BY <3>2 DEF AgentEntries
    <3> HIDE DEF asked, heard
    <3>5. /\ Seen(asked, m) \in AgentEntries /\ Dated(Seen(asked, m), RoundsOf(a) \cup {m.round})
          /\ Seen(asked, m).sent = e.sent + 1 /\ Seen(asked, m).received = e.received
      <4>1. Dated(asked, RoundsOf(a)) \/ (RoundsOf(a) = {} /\ asked.first = m.round
              /\ asked.last = m.round /\ asked.time = RoundTime(m.round))
        BY <3>2, <3>3 DEF Dated
      <4>2. QED
        BY <1>5, <3>3, <4>1, SeenDates
    <3>6. /\ Seen(heard, m) \in AgentEntries /\ Dated(Seen(heard, m), RoundsOf(a) \cup {m.round})
          /\ Seen(heard, m).sent = e.sent /\ Seen(heard, m).received = e.received + 1
      <4>1. Dated(heard, RoundsOf(a)) \/ (RoundsOf(a) = {} /\ heard.first = m.round
              /\ heard.last = m.round /\ heard.time = RoundTime(m.round))
        BY <3>2, <3>4 DEF Dated
      <4>2. QED
        BY <1>5, <3>4, <4>1, SeenDates
    <3>7. /\ Seen(both, m) \in AgentEntries /\ Dated(Seen(both, m), RoundsOf(a) \cup {m.round})
          /\ Seen(both, m).sent = e.sent + 1 /\ Seen(both, m).received = e.received + 1
      <4>1. /\ both \in AgentEntries /\ both.sent = e.sent + 1 /\ both.received = e.received + 1
            /\ both.first = Seen(asked, m).first /\ both.last = Seen(asked, m).last
            /\ both.time = Seen(asked, m).time
        BY <3>2, <3>5 DEF AgentEntries
      <4> HIDE DEF both
      <4>2. Dated(both, RoundsOf(a) \cup {m.round})
        BY <3>5, <4>1 DEF Dated
      <4>3. RoundsOf(a) \cup {m.round} \in SUBSET Int
        BY <1>2, <1>5
      <4>4. /\ Seen(both, m) \in AgentEntries
            /\ Dated(Seen(both, m), (RoundsOf(a) \cup {m.round}) \cup {m.round})
            /\ Seen(both, m).sent = both.sent /\ Seen(both, m).received = both.received
        BY <4>1, <4>2, <4>3, SeenDates
      <4>5. (RoundsOf(a) \cup {m.round}) \cup {m.round} = RoundsOf(a) \cup {m.round}
        OBVIOUS
      <4>6. QED
        BY <4>1, <4>4, <4>5
    <3> HIDE DEF both
    <3>8. CASE m.sender = a /\ m.receiver # a
      <4>1. agents'[a] = Seen(asked, m)
        BY <3>8, Tracked DEF asked, e
      <4>2. QED
        BY <2>1, <2>3, <3>2, <3>5, <3>8, <4>1
    <3>9. CASE m.sender # a /\ m.receiver = a
      <4>1. agents'[a] = Seen(heard, m)
        BY <3>1, <3>9, Tracked DEF heard, e
      <4>2. QED
        BY <2>1, <2>3, <3>2, <3>6, <3>9, <4>1
    <3>10. CASE m.sender = a /\ m.receiver = a
      <4>1. agents'[a] = Seen(both, m)
        BY <3>10, Tracked DEF both, asked, e
      <4>2. QED
        BY <2>1, <2>3, <3>2, <3>7, <3>10, <4>1
    <3>11. QED
      BY <2>3, <3>8, <3>9, <3>10
  <2>4. QED
    BY <2>2, <2>3
<1>7. QED
  BY <1>1, <1>3, <1>6 DEF DiscoveryInv

(* A conversation is as well named by its addresses in order as by their     *)
(* set.                                                                      *)
LEMMA ConversationsCounted ==
  ASSUME messages \in Seq(ChainMessage)
  PROVE  Cardinality(Pairs) = Cardinality({{m.sender, m.receiver} : m \in Range(messages)})
<1> DEFINE Ordered(m) == IF m.sender < m.receiver THEN <<m.sender, m.receiver>>
                         ELSE <<m.receiver, m.sender>>
           Sets == {{m.sender, m.receiver} : m \in Range(messages)}
           f == [p \in Pairs |-> {p[1], p[2]}]
           g == [i \in DOMAIN messages |-> Ordered(messages[i])]
<1>1. \A m \in Range(messages) : m.sender \in Int /\ m.receiver \in Int
  <2>1. \A m \in ChainMessage : m.sender \in Int /\ m.receiver \in Int
    BY DiscoveryAssumption DEF ChainMessage, DiscoveryAssumption
  <2>2. Range(messages) \subseteq ChainMessage
    BY DEF Range
  <2>3. QED
    BY <2>1, <2>2
<1>2. Pairs = {Ordered(m) : m \in Range(messages)}
  BY DEF Pairs
<1>3. IsFiniteSet(Pairs)
  <2>1. g \in Surjection(DOMAIN messages, Pairs)
    BY <1>2 DEF Surjection, Range
  <2>2. IsFiniteSet(DOMAIN messages)
    <3>1. DOMAIN messages = 1..Len(messages) /\ Len(messages) \in Int
      OBVIOUS
    <3>2. QED
      BY <3>1, FS_Interval
  <2> HIDE DEF g
  <2>3. QED
    BY <2>1, <2>2, FS_Surjection
<1>4. ASSUME NEW m \in Range(messages)
      PROVE  {Ordered(m)[1], Ordered(m)[2]} = {m.sender, m.receiver}
  OBVIOUS
<1>5. \A p \in Pairs : p = <<p[1], p[2]>> /\ p[1] \in Int /\ p[2] \in Int /\ p[1] <= p[2]
  BY <1>1, <1>2
<1>6. f \in [Pairs -> Sets]
  BY <1>2, <1>4
<1>7. \A S \in Sets : \E p \in Pairs : f[p] = S
  <2> SUFFICES ASSUME NEW m \in Range(messages)
               PROVE  \E p \in Pairs : f[p] = {m.sender, m.receiver}
    OBVIOUS
  <2>1. Ordered(m) \in Pairs
    BY <1>2
  <2> HIDE DEF Ordered
  <2>2. f[Ordered(m)] = {m.sender, m.receiver}
    BY <1>4, <2>1
  <2>3. QED
    BY <2>1, <2>2
<1>8. \A p, q \in Pairs : f[p] = f[q] => p = q
  <2> SUFFICES ASSUME NEW p \in Pairs, NEW q \in Pairs, {p[1], p[2]} = {q[1], q[2]}
               PROVE  p = q
    OBVIOUS
  <2>1. p[1] = q[1] /\ p[2] = q[2]
    <3>1. (p[1] = q[1] /\ p[2] = q[2]) \/ (p[1] = q[2] /\ p[2] = q[1])
      OBVIOUS
    <3>2. QED
      BY <1>5, <3>1
  <2>2. QED
    BY <1>5, <2>1
<1> HIDE DEF f, Sets
<1>9. ExistsBijection(Pairs, Sets)
  <2>1. f \in Injection(Pairs, Sets)
    BY <1>6, <1>8 DEF Injection, IsInjective
  <2>2. f \in Surjection(Pairs, Sets)
    BY <1>6, <1>7 DEF Surjection
  <2>3. QED
    BY <2>1, <2>2 DEF ExistsBijection, Bijection
<1>10. QED
  BY <1>3, <1>9, FS_Bijection DEF Sets

(* In whatever order an indexer answers, the entries are those the           *)
(* transactions call for, for every set of addresses and of rounds and every *)
(* limit.                                                                    *)
THEOREM DiscoveryMatchesTheChain == DiscoverySpec => []DiscoveredMatchesChain
<1>1. DiscoveryInv /\ [DiscoveryNext]_discoveryVars => DiscoveryInv'
  <2>1. ASSUME DiscoveryInv, NEW m \in ChainMessage, scan_all_algochat(m), discover_agents(m)
        PROVE  DiscoveryInv'
    BY <2>1, DiscoveryInvStep DEF scan_all_algochat
  <2>2. ASSUME DiscoveryInv, UNCHANGED discoveryVars
        PROVE  DiscoveryInv'
    <3>1. messages' = messages /\ agents' = agents
      BY <2>2 DEF discoveryVars
    <3>2. \A a : /\ Of(a)' = Of(a) /\ RoundsOf(a)' = RoundsOf(a)
                 /\ SentBy(a)' = SentBy(a) /\ ReceivedBy(a)' = ReceivedBy(a)
      BY <3>1 DEF Of, RoundsOf, SentBy, ReceivedBy
    <3>3. \A a : /\ Cardinality(SentBy(a))' = Cardinality(SentBy(a))
                 /\ Cardinality(ReceivedBy(a))' = Cardinality(ReceivedBy(a))
      BY <3>2
    <3>4. QED
      BY <2>2, <3>1, <3>2, <3>3 DEF DiscoveryInv, Dated
  <2>3. QED
    BY <2>1, <2>2 DEF DiscoveryNext
<1>2. DiscoveryInv => DiscoveredMatchesChain
  <2> SUFFICES ASSUME DiscoveryInv PROVE DiscoveredMatchesChain
    OBVIOUS
  <2>1. ASSUME NEW a \in DOMAIN agents
        PROVE  agents[a] = [sent |-> Cardinality({i \in Of(a) : messages[i].sender = a}),
                            received |-> Cardinality({i \in Of(a) : messages[i].receiver = a}),
                            first |-> Min(RoundsOf(a)), last |-> Max(RoundsOf(a)),
                            time |-> RoundTime(Max(RoundsOf(a)))]
    <3>1. /\ {i \in Of(a) : messages[i].sender = a} = SentBy(a)
          /\ {i \in Of(a) : messages[i].receiver = a} = ReceivedBy(a)
      BY DEF Of, SentBy, ReceivedBy
    <3>2. RoundsOf(a) \in SUBSET Int
      <4>1. \A c \in ChainMessage : c.round \in Int
        BY DiscoveryAssumption DEF ChainMessage, DiscoveryAssumption
      <4>2. \A i \in DOMAIN messages : messages[i].round \in Int
        BY <4>1 DEF DiscoveryInv
      <4>3. QED
        BY <4>2 DEF RoundsOf, Of
    <3>3. agents[a].first = Min(RoundsOf(a)) /\ agents[a].last = Max(RoundsOf(a))
      BY <3>2, ExtremesOf DEF DiscoveryInv, Dated
    <3>4. QED
      BY <3>1, <3>3 DEF DiscoveryInv, Dated, AgentEntries
  <2>2. QED
    BY <2>1, ConversationsCounted DEF DiscoveryInv, DiscoveredMatchesChain, RoundsOf
<1>3. QED
  BY DiscoveryInvInit, <1>1, <1>2, PTL DEF DiscoverySpec

-----------------------------------------------------------------------------
(* The wallet and the settings.                                              *)

Writes == {"tmp", "fill", "rename", "mode"}
CommandSteps == Writes \cup {"none", "settings", "toml", "save"}
Files == {"none", "tmp", "enc", "gone"}
CommandsWith(wallets) ==
  [next : CommandSteps, file : Files, wallet : wallets, config : Config, key : Settings,
   first : BOOLEAN]

FileTypes ==
  /\ enc \in Wallet \cup {NoFile, Empty, Torn} /\ tmp \in Wallet \cup {NoFile, Empty, Torn}
  /\ toml \in Config \cup {NoFile, Empty, Torn}
  /\ told \in Wallet \cup {NoWallet} /\ offered \in SUBSET Passwords /\ settled \in Config
  /\ private \in BOOLEAN /\ crossed \in BOOLEAN /\ raced \in BOOLEAN /\ cut \in BOOLEAN

CommandTypes ==
  /\ cmd \in [Shells -> CommandsWith(Wallet \cup {NoWallet})]
  /\ \A p \in Shells : cmd[p].next \in Writes => cmd[p].wallet \in Wallet

(* As long as no two writing commands overlap, the keystore holds the seed   *)
(* that was reported, under a password somebody has given, and so does the   *)
(* file the one writing command has for its place.                           *)
OneSeed ==
  ~crossed =>
    /\ enc \in Wallet \cup {NoFile}
    /\ told # NoWallet =>
         enc \in Wallet /\ enc.seed = told.seed /\ enc.pw \in {told.pw} \cup offered
    /\ \A p, q \in Shells : cmd[p].next \in Writes /\ cmd[q].next \in Writes => p = q
    /\ \A p \in Shells :
         /\ cmd[p].next \in Writes =>
              cmd[p].wallet.pw \in offered /\ (enc \in Wallet => enc.seed = cmd[p].wallet.seed)
         /\ cmd[p].next = "fill" => cmd[p].file = "tmp"
         /\ cmd[p].next = "rename" => tmp = cmd[p].wallet
         /\ cmd[p].next = "mode" => enc = cmd[p].wallet

KeystoreInv == FileTypes /\ CommandTypes /\ OneSeed

LEMMA SeedsAreSeeds == \A s \in Seeds : s # NoSeed /\ Len(s) = SeedBytes /\ Len(Tail(s)) # SeedBytes
<1> SUFFICES ASSUME NEW s \in Seeds PROVE s # NoSeed /\ Len(s) = SeedBytes /\ Len(Tail(s)) # SeedBytes
  OBVIOUS
<1> DEFINE Bytes == 0..2^ByteBits - 1
<1>1. SeedBytes \in Nat \ {0} /\ s \in [1..SeedBytes -> Bytes]
  BY MnemonicAssumption, KeystoreAssumption DEF MnemonicAssumption, KeystoreAssumption
<1> HIDE DEF Bytes
<1>2. s \in Seq(Bytes) /\ Len(s) = SeedBytes
  <2>1. s \in UNION {[1..n -> Bytes] : n \in Nat}
    BY <1>1
  <2>2. s \in Seq(Bytes)
    BY <2>1, SeqDef
  <2>3. QED
    BY <1>1, <2>2, LenProperties
<1>3. s # <<>>
  BY <1>1, <1>2
<1>4. Len(Tail(s)) = SeedBytes - 1
  BY <1>2, <1>3, HeadTailProperties
<1>5. QED
  BY <1>1, <1>2, <1>3, <1>4 DEF NoSeed

LEMMA NothingWritten ==
  /\ \A W : NoWallet \in W => NoCommand \in CommandsWith(W)
  /\ NoCommand.next = "none" /\ NoCommand.first = FALSE
  /\ NoWallet \notin Wallet /\ DefaultConfig \in Config
<1>1. DefaultConfig \in Config /\ Network \in Settings
  BY KeystoreAssumption DEF KeystoreAssumption, DefaultConfig, Config
<1>2. NoWallet \notin Wallet
  BY SeedsAreSeeds DEF NoWallet, Wallet
<1>3. QED
  BY <1>1, <1>2 DEF NoCommand, CommandsWith, CommandSteps, Files

LEMMA FilesDiffer ==
  /\ NoFile \notin Wallet \cup Config /\ Empty \notin Wallet \cup Config
  /\ Torn \notin Wallet \cup Config /\ Empty # NoFile /\ Torn # Empty /\ Torn # NoFile
BY KeystoreAssumption DEF KeystoreAssumption

(* Whatever is typed, a seed that is taken is one there is.                  *)
LEMMA SeedsTyped ==
  ASSUME PhrasesRead, NEW source \in Sources
  PROVE  create_or_import_wallet(source) \in Seeds \cup {NoSeed}
<1>1. CASE source \in [from : {"generate"}, typed : Seeds]
  BY <1>1 DEF create_or_import_wallet
<1>2. CASE source \in [from : {"mnemonic"}, typed : Phrases]
  BY <1>2 DEF create_or_import_wallet, PhrasesRead
<1>3. CASE source \in [from : {"seed"}, typed : Seeds \cup {Tail(s) : s \in Seeds}]
  BY <1>3, SeedsAreSeeds DEF create_or_import_wallet
<1>4. QED
  BY <1>1, <1>2, <1>3 DEF Sources

LEMMA KeystoreInvInit == WalletInit => KeystoreInv
<1> SUFFICES ASSUME WalletInit PROVE KeystoreInv
  OBVIOUS
<1>1. \A p \in Shells : cmd[p] = NoCommand /\ cmd[p].next = "none"
  BY NothingWritten DEF WalletInit
<1>2. FileTypes
  BY NothingWritten DEF WalletInit, FileTypes
<1>3. CommandTypes
  BY <1>1, NothingWritten DEF WalletInit, CommandTypes, Writes
<1>4. OneSeed
  BY <1>1, NothingWritten, FilesDiffer DEF WalletInit, OneSeed, Writes
<1>5. QED
  BY <1>2, <1>3, <1>4 DEF KeystoreInv

(* A command goes to its next step; the others stay where they are.          *)
LEMMA CommandMoves ==
  ASSUME NEW W, cmd \in [Shells -> CommandsWith(W)], NEW p \in Shells,
         NEW step \in CommandSteps, NEW file \in Files,
         cmd' = [cmd EXCEPT ![p].next = step, ![p].file = file]
  PROVE  /\ cmd' \in [Shells -> CommandsWith(W)]
         /\ \A q \in Shells : q # p => cmd'[q] = cmd[q]
         /\ cmd'[p].next = step /\ cmd'[p].file = file
         /\ \A q \in Shells : /\ cmd'[q].wallet = cmd[q].wallet /\ cmd'[q].config = cmd[q].config
                              /\ cmd'[q].key = cmd[q].key /\ cmd'[q].first = cmd[q].first
<1>1. cmd[p] \in CommandsWith(W)
  OBVIOUS
<1>2. cmd'[p] = [cmd[p] EXCEPT !.next = step, !.file = file] /\ cmd' = [cmd EXCEPT ![p] = cmd'[p]]
  OBVIOUS
<1>3. /\ cmd'[p] \in CommandsWith(W) /\ cmd'[p].next = step /\ cmd'[p].file = file
      /\ cmd'[p].wallet = cmd[p].wallet /\ cmd'[p].config = cmd[p].config
      /\ cmd'[p].key = cmd[p].key /\ cmd'[p].first = cmd[p].first
  BY <1>1, <1>2 DEF CommandsWith
<1>4. QED
  BY <1>2, <1>3

LEMMA StepKeepsFile ==
  ASSUME NEW W, cmd \in [Shells -> CommandsWith(W)], NEW p \in Shells,
         NEW step \in CommandSteps, cmd' = [cmd EXCEPT ![p].next = step]
  PROVE  cmd' = [cmd EXCEPT ![p].next = step, ![p].file = cmd[p].file] /\ cmd[p].file \in Files
<1>1. cmd[p] \in CommandsWith(W)
  OBVIOUS
<1>2. cmd[p].file \in Files
  BY <1>1 DEF CommandsWith
<1>3. [cmd[p] EXCEPT !.next = step] = [cmd[p] EXCEPT !.next = step, !.file = cmd[p].file]
  BY <1>1 DEF CommandsWith
<1>4. QED
  BY <1>2, <1>3

(* A command that writes the wallet begins: a first wallet, or another       *)
(* password for the one there is.                                            *)
LEMMA InvCreating ==
  ASSUME KeystoreInv, NEW p \in Shells, cmd[p] = NoCommand,
         NEW c \in CommandsWith(Wallet), c.wallet.pw \in Passwords,
         ~crossed /\ enc \in Wallet => enc.seed = c.wallet.seed, Creating(p, c)
  PROVE  KeystoreInv'
<1>1. /\ FileTypes /\ CommandTypes /\ OneSeed
      /\ UNCHANGED <<enc, private, tmp, toml, told, settled, raced, cut>>
      /\ offered' = offered \cup {c.wallet.pw}
      /\ crossed' = (crossed \/ \E q \in Shells : cmd[q].next \in Writes)
  BY DEF KeystoreInv, Creating, Writing, Writes
<1>2. [c EXCEPT !.next = "tmp"] \in CommandsWith(Wallet) /\ "tmp" \in Writes
  BY DEF CommandsWith, CommandSteps, Writes
<1>3. CommandsWith(Wallet) \subseteq CommandsWith(Wallet \cup {NoWallet})
  BY DEF CommandsWith
<1>4. /\ cmd' \in [Shells -> CommandsWith(Wallet \cup {NoWallet})]
      /\ cmd'[p].next = "tmp" /\ cmd'[p].wallet = c.wallet /\ c.wallet \in Wallet
      /\ \A q \in Shells : q # p => cmd'[q] = cmd[q]
  BY <1>1, <1>2, <1>3 DEF Creating, CommandTypes, CommandsWith
<1>5. FileTypes'
  BY <1>1 DEF FileTypes
<1>6. CommandTypes'
  BY <1>1, <1>4 DEF CommandTypes
<1>7. OneSeed'
  <2> SUFFICES ASSUME ~crossed' PROVE OneSeed'
    BY DEF OneSeed
  <2>1. ~crossed /\ \A q \in Shells : cmd[q].next \notin Writes
    BY <1>1
  <2>2. \A q \in Shells : q # p => cmd'[q].next \notin Writes
    BY <1>4, <2>1
  <2>3. /\ enc' \in Wallet \cup {NoFile}
        /\ told' # NoWallet =>
             enc' \in Wallet /\ enc'.seed = told'.seed /\ enc'.pw \in {told'.pw} \cup offered'
    BY <1>1, <2>1 DEF OneSeed
  <2>4. ASSUME NEW q \in Shells
        PROVE  /\ cmd'[q].next \in Writes => /\ cmd'[q].wallet.pw \in offered'
                                             /\ enc' \in Wallet => enc'.seed = cmd'[q].wallet.seed
               /\ cmd'[q].next \notin {"fill", "rename", "mode"}
    BY <1>1, <1>4, <2>1, <2>2 DEF Writes
  <2>5. QED
    BY <2>2, <2>3, <2>4 DEF OneSeed
<1>8. QED
  BY <1>5, <1>6, <1>7 DEF KeystoreInv

LEMMA InvBegins ==
  ASSUME PhrasesRead, KeystoreInv, NEW p \in Shells,
         \/ \E s \in Sources, pw \in Passwords :
              (\E v \in Values : run_wizard(p, v, s, pw)) \/ cmd_import(p, s, pw)
         \/ \E old, new \in Passwords : cmd_change_password(p, old, new)
  PROVE  KeystoreInv'
<1>1. \A s \in Seeds, pw \in Passwords : [seed |-> s, pw |-> pw] \in Wallet
  BY DEF Wallet
<1>2. ASSUME NEW s \in Sources, NEW pw \in Passwords, NEW v \in Values, run_wizard(p, v, s, pw)
      PROVE  KeystoreInv'
  <2> DEFINE wallet == [seed |-> create_or_import_wallet(s), pw |-> pw]
             config == [DefaultConfig EXCEPT ![Network] = v]
             c == [NoCommand EXCEPT !.wallet = wallet, !.first = TRUE, !.config = config]
  <2>1. wallet \in Wallet /\ wallet.pw \in Passwords
    BY <1>1, <1>2, SeedsTyped DEF run_wizard
  <2>2. config \in Config
    BY NothingWritten, KeystoreAssumption DEF Config, KeystoreAssumption
  <2>3. cmd[p] = NoCommand /\ enc = NoFile /\ Creating(p, c)
    BY <1>2 DEF run_wizard, Begin, keystore_exists
  <2> HIDE DEF wallet, config
  <2>4. c \in CommandsWith(Wallet) /\ c.wallet = wallet
    BY <2>1, <2>2, KeystoreAssumption
       DEF KeystoreAssumption, NoCommand, CommandsWith, CommandSteps, Files
  <2> HIDE DEF c
  <2>5. QED
    BY <2>1, <2>3, <2>4, FilesDiffer, InvCreating
<1>3. ASSUME NEW s \in Sources, NEW pw \in Passwords, cmd_import(p, s, pw)
      PROVE  KeystoreInv'
  <2> DEFINE wallet == [seed |-> create_or_import_wallet(s), pw |-> pw]
             c == [NoCommand EXCEPT !.wallet = wallet]
  <2>1. wallet \in Wallet /\ wallet.pw \in Passwords
    BY <1>1, <1>3, SeedsTyped DEF cmd_import
  <2>2. cmd[p] = NoCommand /\ enc = NoFile /\ Creating(p, c)
    BY <1>3 DEF cmd_import, Begin, keystore_exists
  <2> HIDE DEF wallet
  <2>3. c \in CommandsWith(Wallet) /\ c.wallet = wallet
    BY <2>1, NothingWritten, KeystoreAssumption
       DEF KeystoreAssumption, NoCommand, CommandsWith, CommandSteps, Files
  <2> HIDE DEF c
  <2>4. QED
    BY <2>1, <2>2, <2>3, FilesDiffer, InvCreating
<1>4. ASSUME NEW old \in Passwords, NEW new \in Passwords, cmd_change_password(p, old, new)
      PROVE  KeystoreInv'
  <2> DEFINE wallet == [seed |-> load_keystore(old), pw |-> new]
             c == [NoCommand EXCEPT !.wallet = wallet]
  <2>1. enc \in Wallet /\ load_keystore(old) = enc.seed /\ enc.seed \in Seeds
    BY <1>4 DEF cmd_change_password, load_keystore, Wallet
  <2>2. wallet \in Wallet /\ wallet.pw \in Passwords /\ wallet.seed = enc.seed
    BY <1>1, <2>1
  <2>3. cmd[p] = NoCommand /\ Creating(p, c)
    BY <1>4 DEF cmd_change_password, Begin
  <2> HIDE DEF wallet
  <2>4. c \in CommandsWith(Wallet) /\ c.wallet = wallet
    BY <2>2, NothingWritten, KeystoreAssumption
       DEF KeystoreAssumption, NoCommand, CommandsWith, CommandSteps, Files
  <2> HIDE DEF c
  <2>5. QED
    BY <2>2, <2>3, <2>4, InvCreating
<1>5. QED
  BY <1>2, <1>3, <1>4

(* A step of one command that leaves the keystore's files alone, after which *)
(* it no longer writes them.                                                 *)
LEMMA InvElsewhere ==
  ASSUME KeystoreInv, NEW p \in Shells, UNCHANGED <<enc, tmp, told, offered, crossed>>,
         FileTypes', cmd' \in [Shells -> CommandsWith(Wallet \cup {NoWallet})],
         \A q \in Shells : q # p => cmd'[q] = cmd[q], cmd'[p].next \notin Writes
  PROVE  KeystoreInv'
<1>1. FileTypes /\ CommandTypes /\ OneSeed
  BY DEF KeystoreInv
<1>2. CommandTypes'
  BY <1>1 DEF CommandTypes
<1>3. OneSeed'
  BY <1>1 DEF OneSeed, Writes
<1>4. QED
  BY <1>2, <1>3 DEF KeystoreInv

LEMMA InvWriteTemp == ASSUME KeystoreInv, NEW p \in Shells, WriteTemp(p) PROVE KeystoreInv'
<1>1. /\ FileTypes /\ CommandTypes /\ OneSeed
      /\ cmd \in [Shells -> CommandsWith(Wallet \cup {NoWallet})]
      /\ UNCHANGED <<private, toml, told, offered, settled, crossed, raced, cut>>
  BY DEF KeystoreInv, CommandTypes, WriteTemp
<1>2. CASE cmd[p].next = "tmp"
  <2>1. tmp' = Empty /\ enc' = enc /\ cmd' = [cmd EXCEPT ![p].next = "fill", ![p].file = "tmp"]
    BY <1>2 DEF WriteTemp
  <2>2. "fill" \in CommandSteps /\ "tmp" \in Files
    BY DEF CommandSteps, Writes, Files
  <2>3. /\ cmd' \in [Shells -> CommandsWith(Wallet \cup {NoWallet})]
        /\ cmd'[p].next = "fill" /\ cmd'[p].file = "tmp" /\ cmd'[p].wallet = cmd[p].wallet
        /\ \A q \in Shells : q # p => cmd'[q] = cmd[q]
    <3>1. /\ cmd' \in [Shells -> CommandsWith(Wallet \cup {NoWallet})]
          /\ cmd'[p].next = "fill" /\ cmd'[p].wallet = cmd[p].wallet
          /\ \A q \in Shells : q # p => cmd'[q] = cmd[q]
      BY <1>1, <2>1, <2>2, CommandMoves
    <3>2. cmd'[p].file = "tmp"
      <4>1. cmd[p] \in CommandsWith(Wallet \cup {NoWallet})
        BY <1>1
      <4>2. cmd'[p] = [cmd[p] EXCEPT !.next = "fill", !.file = "tmp"]
        BY <1>1, <2>1
      <4>3. QED
        BY <4>1, <4>2 DEF CommandsWith
    <3>3. QED
      BY <3>1, <3>2
  <2>4. FileTypes' /\ CommandTypes'
    BY <1>1, <1>2, <2>1, <2>3 DEF FileTypes, CommandTypes, Writes
  <2>5. OneSeed'
    BY <1>1, <1>2, <2>1, <2>3 DEF OneSeed, Writes
  <2>6. QED
    BY <2>4, <2>5 DEF KeystoreInv
<1>3. CASE cmd[p].next = "fill"
  <2>1. /\ tmp' = IF cmd[p].file = "tmp" THEN cmd[p].wallet ELSE tmp
        /\ enc' = IF cmd[p].file = "enc" THEN cmd[p].wallet ELSE enc
        /\ cmd' = [cmd EXCEPT ![p].next = "rename", ![p].file = "none"]
    BY <1>3 DEF WriteTemp
  <2>2. "rename" \in CommandSteps /\ "none" \in Files
    BY DEF CommandSteps, Writes, Files
  <2>3. /\ cmd' \in [Shells -> CommandsWith(Wallet \cup {NoWallet})]
        /\ cmd'[p].next = "rename" /\ cmd'[p].wallet = cmd[p].wallet
        /\ \A q \in Shells : q # p => cmd'[q] = cmd[q]
    BY <1>1, <2>1, <2>2, CommandMoves
  <2>4. cmd[p].wallet \in Wallet
    BY <1>1, <1>3 DEF CommandTypes, Writes
  <2>5. FileTypes' /\ CommandTypes'
    BY <1>1, <1>3, <2>1, <2>3, <2>4 DEF FileTypes, CommandTypes, Writes
  <2>6. ~crossed => tmp' = cmd[p].wallet /\ enc' = enc
    BY <1>1, <1>3, <2>1 DEF OneSeed
  <2>7. OneSeed'
    BY <1>1, <1>3, <2>3, <2>6 DEF OneSeed, Writes
  <2>8. QED
    BY <2>5, <2>7 DEF KeystoreInv
<1>4. QED
  BY <1>2, <1>3 DEF WriteTemp

LEMMA InvRenameTemp == ASSUME KeystoreInv, NEW p \in Shells, RenameTemp(p) PROVE KeystoreInv'
<1>1. /\ FileTypes /\ CommandTypes /\ OneSeed /\ cmd[p].next = "rename"
      /\ enc' = tmp /\ private' = FALSE /\ tmp' = NoFile /\ tmp # NoFile
      /\ UNCHANGED <<toml, told, offered, settled, crossed, raced, cut>>
      /\ cmd' = [q \in Shells |-> IF q = p THEN [cmd[q] EXCEPT !.next = "mode"]
                                  ELSE [cmd[q] EXCEPT !.file = Moved(@)]]
  BY DEF KeystoreInv, RenameTemp
<1>2. \A q \in Shells : cmd[q] \in CommandsWith(Wallet \cup {NoWallet})
  BY <1>1 DEF CommandTypes
<1>3. \A file \in Files : Moved(file) \in Files
  BY DEF Moved, Files
<1>4. ASSUME NEW q \in Shells, q # p
      PROVE  /\ cmd'[q] \in CommandsWith(Wallet \cup {NoWallet})
             /\ cmd'[q].next = cmd[q].next /\ cmd'[q].wallet = cmd[q].wallet
  <2>1. cmd'[q] = [cmd[q] EXCEPT !.file = Moved(cmd[q].file)]
    BY <1>1, <1>4
  <2>2. cmd[q].file \in Files
    BY <1>2 DEF CommandsWith
  <2>3. QED
    BY <1>2, <1>3, <2>1, <2>2 DEF CommandsWith
<1>5. /\ cmd'[p] \in CommandsWith(Wallet \cup {NoWallet})
      /\ cmd'[p].next = "mode" /\ cmd'[p].wallet = cmd[p].wallet
  <2>1. cmd'[p] = [cmd[p] EXCEPT !.next = "mode"]
    BY <1>1
  <2>2. QED
    BY <1>2, <2>1 DEF CommandsWith, CommandSteps, Writes
<1>6. cmd' \in [Shells -> CommandsWith(Wallet \cup {NoWallet})]
  <2>1. DOMAIN cmd' = Shells /\ cmd' = [q \in Shells |-> cmd'[q]]
    BY <1>1
  <2>2. QED
    BY <1>4, <1>5, <2>1
<1>7. FileTypes' /\ CommandTypes'
  BY <1>1, <1>4, <1>5, <1>6 DEF FileTypes, CommandTypes, Writes
<1>8. OneSeed'
  <2> SUFFICES ASSUME ~crossed PROVE OneSeed'
    BY <1>1 DEF OneSeed
  <2>1. /\ tmp = cmd[p].wallet /\ cmd[p].wallet \in Wallet /\ cmd[p].wallet.pw \in offered
        /\ enc \in Wallet => enc.seed = cmd[p].wallet.seed
        /\ \A q \in Shells : q # p => cmd[q].next \notin Writes
    BY <1>1 DEF OneSeed, CommandTypes, Writes
  <2>2. \A q \in Shells : q # p => cmd'[q].next \notin Writes
    BY <1>4, <2>1
  <2>3. /\ enc' \in Wallet
        /\ told' # NoWallet => enc'.seed = told'.seed /\ enc'.pw \in {told'.pw} \cup offered'
    BY <1>1, <2>1 DEF OneSeed
  <2>4. ASSUME NEW q \in Shells
        PROVE  /\ cmd'[q].next \in Writes => /\ cmd'[q].wallet.pw \in offered'
                                             /\ enc'.seed = cmd'[q].wallet.seed
               /\ cmd'[q].next # "fill" /\ cmd'[q].next # "rename"
               /\ cmd'[q].next = "mode" => enc' = cmd'[q].wallet
    BY <1>1, <1>5, <2>1, <2>2 DEF Writes
  <2>5. QED
    BY <2>2, <2>3, <2>4 DEF OneSeed
<1>9. QED
  BY <1>7, <1>8 DEF KeystoreInv

LEMMA InvSetPermissions ==
  ASSUME KeystoreInv, NEW p \in Shells, SetPermissions(p) PROVE KeystoreInv'
<1>1. /\ FileTypes /\ CommandTypes /\ OneSeed /\ cmd[p].next = "mode"
      /\ cmd \in [Shells -> CommandsWith(Wallet \cup {NoWallet})]
      /\ private' = TRUE /\ told' = cmd[p].wallet /\ offered' = {}
      /\ UNCHANGED <<enc, tmp, toml, settled, crossed, raced, cut>>
  BY DEF KeystoreInv, CommandTypes, SetPermissions
<1>2. /\ cmd' \in [Shells -> CommandsWith(Wallet \cup {NoWallet})]
      /\ cmd'[p].next \notin Writes /\ \A q \in Shells : q # p => cmd'[q] = cmd[q]
  <2>1. CASE cmd' = [cmd EXCEPT ![p] = NoCommand]
    BY <1>1, <2>1, NothingWritten DEF Writes
  <2>2. CASE cmd' = [cmd EXCEPT ![p] = [@ EXCEPT !.next = "settings"]]
    <3>1. cmd[p] \in CommandsWith(Wallet \cup {NoWallet})
      BY <1>1
    <3>2. /\ [cmd[p] EXCEPT !.next = "settings"] \in CommandsWith(Wallet \cup {NoWallet})
          /\ [cmd[p] EXCEPT !.next = "settings"].next = "settings"
      BY <3>1 DEF CommandsWith, CommandSteps
    <3>3. QED
      BY <1>1, <2>2, <3>2 DEF Writes
  <2>3. QED
    BY <2>1, <2>2 DEF SetPermissions
<1>3. cmd[p].wallet \in Wallet
  BY <1>1 DEF CommandTypes, Writes
<1>4. FileTypes' /\ CommandTypes'
  BY <1>1, <1>2, <1>3 DEF FileTypes, CommandTypes
<1>5. OneSeed'
  <2> SUFFICES ASSUME ~crossed PROVE OneSeed'
    BY <1>1 DEF OneSeed
  <2>1. enc = cmd[p].wallet /\ \A q \in Shells : q # p => cmd[q].next \notin Writes
    BY <1>1 DEF OneSeed, Writes
  <2>2. \A q \in Shells : cmd'[q].next \notin Writes
    BY <1>2, <2>1
  <2>3. QED
    BY <1>1, <1>3, <2>1, <2>2 DEF OneSeed, Writes
<1>6. QED
  BY <1>4, <1>5 DEF KeystoreInv

LEMMA InvCommandDies ==
  ASSUME KeystoreInv, NEW p \in Shells, CommandDies(p) PROVE KeystoreInv'
<1>1. /\ FileTypes /\ CommandTypes /\ OneSeed
      /\ cmd' = [cmd EXCEPT ![p] = NoCommand] /\ tmp' \in {tmp, Torn} /\ enc' \in {enc, Torn}
      /\ enc' # enc => cmd[p].next = "fill" /\ cmd[p].file = "enc"
      /\ tmp' # tmp => cmd[p].next = "fill"
      /\ toml' \in {toml, Torn} /\ cut' \in BOOLEAN
      /\ UNCHANGED <<private, told, offered, settled, crossed, raced>>
  BY DEF KeystoreInv, CommandDies
<1>2. /\ cmd' \in [Shells -> CommandsWith(Wallet \cup {NoWallet})]
      /\ cmd'[p].next = "none" /\ \A q \in Shells : q # p => cmd'[q] = cmd[q]
  BY <1>1, NothingWritten DEF CommandTypes
<1>3. FileTypes' /\ CommandTypes'
  BY <1>1, <1>2 DEF FileTypes, CommandTypes, Writes
<1>4. OneSeed'
  <2> SUFFICES ASSUME ~crossed PROVE OneSeed'
    BY <1>1 DEF OneSeed
  <2>1. enc' = enc
    BY <1>1 DEF OneSeed
  <2>2. \A q \in Shells : q # p /\ cmd[q].next = "rename" => tmp' = tmp
    BY <1>1 DEF OneSeed, Writes
  <2>3. QED
    BY <1>1, <1>2, <2>1, <2>2 DEF OneSeed, Writes
<1>5. QED
  BY <1>3, <1>4 DEF KeystoreInv

LEMMA InvWritesSettings ==
  ASSUME KeystoreInv, NEW p \in Shells, NEW c \in CommandsWith(Wallet \cup {NoWallet}),
         WritesSettings(p, c)
  PROVE  KeystoreInv'
<1>1. /\ cmd' = [cmd EXCEPT ![p] = [c EXCEPT !.next = "toml"]] /\ raced' \in BOOLEAN
      /\ UNCHANGED <<enc, private, tmp, toml, told, offered, settled, crossed, cut>>
      /\ FileTypes /\ CommandTypes
  BY DEF KeystoreInv, FileTypes, WritesSettings
<1>2. /\ [c EXCEPT !.next = "toml"] \in CommandsWith(Wallet \cup {NoWallet})
      /\ [c EXCEPT !.next = "toml"].next \notin Writes
  BY DEF CommandsWith, CommandSteps, Writes
<1>3. FileTypes'
  BY <1>1 DEF FileTypes
<1>4. QED
  BY <1>1, <1>2, <1>3, InvElsewhere DEF CommandTypes

LEMMA InvSettings ==
  ASSUME KeystoreInv, NEW p \in Shells,
         \/ \E k \in Settings, v \in Values : cmd_config(p, k, v)
         \/ RenameFails(p) \/ WriteFirstConfig(p) \/ save_to(p)
  PROVE  KeystoreInv'
<1>1. /\ FileTypes /\ CommandTypes /\ cmd[p] \in CommandsWith(Wallet \cup {NoWallet})
      /\ cmd \in [Shells -> CommandsWith(Wallet \cup {NoWallet})]
  BY DEF KeystoreInv, CommandTypes
<1>2. ASSUME NEW k \in Settings, NEW v \in Values, cmd_config(p, k, v) PROVE KeystoreInv'
  <2> DEFINE config == [ConfigOf(toml) EXCEPT ![k] = v]
             c == [NoCommand EXCEPT !.config = config, !.key = k]
  <2>1. ConfigOf(toml) \in Config
    BY NothingWritten DEF ConfigOf
  <2>2. config \in Config
    BY <2>1 DEF Config
  <2>3. WritesSettings(p, c)
    BY <1>2 DEF cmd_config
  <2> HIDE DEF config
  <2>4. c \in CommandsWith(Wallet \cup {NoWallet})
    BY <2>2 DEF NoCommand, CommandsWith, CommandSteps, Files
  <2> HIDE DEF c
  <2>5. QED
    BY <2>3, <2>4, InvWritesSettings
<1>3. CASE UNCHANGED <<enc, private, tmp, toml, told, offered, settled, crossed, raced, cut>>
           /\ cmd' = [cmd EXCEPT ![p] = NoCommand]
  <2>1. FileTypes'
    BY <1>1, <1>3 DEF FileTypes
  <2>2. QED
    BY <1>1, <1>3, <2>1, NothingWritten, InvElsewhere DEF Writes
<1>4. CASE WriteFirstConfig(p)
  BY <1>1, <1>3, <1>4, InvWritesSettings DEF WriteFirstConfig
<1>5. CASE save_to(p)
  <2>1. /\ UNCHANGED <<enc, private, tmp, told, offered, crossed, raced, cut>>
        /\ toml' \in Config \cup {Empty, Torn} /\ settled' \in Config
    <3>1. cmd[p].config \in Config /\ cmd[p].key \in Settings
      BY <1>1 DEF CommandsWith
    <3>2. [settled EXCEPT ![cmd[p].key] = cmd[p].config[cmd[p].key]] \in Config
      BY <1>1, <3>1 DEF FileTypes, Config
    <3>3. QED
      BY <1>1, <1>5, <3>1, <3>2 DEF save_to, FileTypes
  <2>2. FileTypes'
    BY <1>1, <2>1 DEF FileTypes
  <2>3. CASE cmd' = [cmd EXCEPT ![p] = NoCommand]
    BY <1>1, <2>1, <2>2, <2>3, NothingWritten, InvElsewhere DEF Writes
  <2>4. CASE cmd' = [cmd EXCEPT ![p].next = "save"]
    <3>1. "save" \in CommandSteps /\ "save" \notin Writes
      BY DEF CommandSteps, Writes
    <3>2. cmd' = [cmd EXCEPT ![p].next = "save", ![p].file = cmd[p].file] /\ cmd[p].file \in Files
      BY <1>1, <2>4, <3>1, StepKeepsFile
    <3>3. /\ cmd' \in [Shells -> CommandsWith(Wallet \cup {NoWallet})] /\ cmd'[p].next = "save"
          /\ \A q \in Shells : q # p => cmd'[q] = cmd[q]
      BY <1>1, <3>1, <3>2, CommandMoves
    <3>4. QED
      BY <2>1, <2>2, <3>1, <3>3, InvElsewhere
  <2>5. QED
    BY <1>5, <2>3, <2>4 DEF save_to
<1>6. QED
  BY <1>2, <1>3, <1>4, <1>5 DEF RenameFails

LEMMA KeystoreInvInductive ==
  ASSUME PhrasesRead
  PROVE  KeystoreInv /\ [WalletNext]_walletVars => KeystoreInv'
<1> SUFFICES ASSUME KeystoreInv, [WalletNext]_walletVars PROVE KeystoreInv'
  OBVIOUS
<1>1. CASE UNCHANGED walletVars
  BY <1>1 DEF walletVars, KeystoreInv, FileTypes, CommandTypes, OneSeed
<1>2. CASE DeleteTornConfig
  <2>1. UNCHANGED <<enc, private, tmp, cmd, told, offered, settled, crossed, raced, cut>> /\ toml' = NoFile
    BY <1>2 DEF DeleteTornConfig
  <2>2. QED
    BY <2>1 DEF KeystoreInv, FileTypes, CommandTypes, OneSeed
<1>3. CASE \E p \in Shells :
             \/ \E s \in Sources, pw \in Passwords :
                  (\E v \in Values : run_wizard(p, v, s, pw)) \/ cmd_import(p, s, pw)
             \/ \E old, new \in Passwords : cmd_change_password(p, old, new)
             \/ \E k \in Settings, v \in Values : cmd_config(p, k, v)
             \/ WriteTemp(p) \/ RenameTemp(p) \/ RenameFails(p) \/ SetPermissions(p)
             \/ WriteFirstConfig(p) \/ save_to(p) \/ CommandDies(p)
  BY <1>3, InvBegins, InvWriteTemp, InvRenameTemp, InvSetPermissions, InvCommandDies, InvSettings
<1>4. QED
  BY <1>1, <1>2, <1>3 DEF WalletNext

LEMMA KeystoreInvHolds == ASSUME PhrasesRead PROVE KeystoreSpec => []KeystoreInv
<1>1. KeystoreInv /\ [WalletNext]_walletVars => KeystoreInv'
  BY KeystoreInvInductive
<1>2. QED
  BY KeystoreInvInit, <1>1, PTL DEF KeystoreSpec

(* Once a wallet has been reported, and as long as no two commands that      *)
(* write the keystore overlap, its seed can be read at every moment,         *)
(* whichever commands died at whichever step: keystore.enc is replaced as a  *)
(* whole, by a file of the same seed, under the password last reported or    *)
(* one a command took after that.                                            *)
THEOREM WalletStaysReadable == ASSUME PhrasesRead PROVE KeystoreSpec => []WalletReadable
<1>1. KeystoreInv => WalletReadable
  <2> SUFFICES ASSUME KeystoreInv PROVE WalletReadable
    OBVIOUS
  <2>1. FileTypes /\ CommandTypes /\ OneSeed
    BY DEF KeystoreInv
  <2>2. WalletTypeOK
    BY <2>1 DEF FileTypes, CommandTypes, WalletTypeOK, CommandsWith, CommandSteps, Writes, Files
  <2>3. told # NoWallet /\ ~crossed =>
          \E pw \in {told.pw} \cup offered : load_identity(NoSeed, pw) = told.seed
    BY <2>1 DEF OneSeed, load_identity, load_keystore
  <2>4. QED
    BY <2>2, <2>3 DEF WalletReadable
<1>2. QED
  BY <1>1, KeystoreInvHolds, PTL

(* As long as no two commands that write the keystore overlap, no step puts  *)
(* anything but a wallet of the same seed in the place of one, and what a    *)
(* command reports is what it has stored, for its owner alone to read.       *)
THEOREM WalletsAreKept == ASSUME PhrasesRead PROVE KeystoreSpec => WalletKept
<1>1. KeystoreInv /\ [WalletNext]_walletVars =>
        [~crossed' => /\ enc \in Wallet => enc' \in Wallet /\ enc'.seed = enc.seed
                      /\ told' # told => enc' = told' /\ private']_walletVars
  <2> SUFFICES ASSUME KeystoreInv, WalletNext, ~crossed'
               PROVE  /\ enc \in Wallet => enc' \in Wallet /\ enc'.seed = enc.seed
                      /\ told' # told => enc' = told' /\ private'
    OBVIOUS
  <2>1. OneSeed /\ CommandTypes
    BY DEF KeystoreInv
  <2>2. ASSUME NEW p \in Shells, RenameTemp(p)
        PROVE  enc \in Wallet => enc' \in Wallet /\ enc'.seed = enc.seed
    BY <2>1, <2>2 DEF RenameTemp, OneSeed, CommandTypes, Writes
  <2>3. ASSUME NEW p \in Shells, SetPermissions(p) PROVE enc' = told' /\ private' /\ enc' = enc
    BY <2>1, <2>3 DEF SetPermissions, OneSeed
  <2>4. ASSUME NEW p \in Shells, WriteTemp(p) \/ CommandDies(p) PROVE enc' = enc /\ told' = told
    BY <2>1, <2>4 DEF WriteTemp, CommandDies, OneSeed
  <2>5. \/ \E p \in Shells : RenameTemp(p) /\ told' = told
        \/ \E p \in Shells : SetPermissions(p)
        \/ \E p \in Shells : WriteTemp(p) \/ CommandDies(p)
        \/ enc' = enc /\ told' = told
    BY DEF WalletNext, run_wizard, cmd_import, cmd_change_password, cmd_config, RenameTemp,
           RenameFails, WriteFirstConfig, save_to, DeleteTornConfig, Creating, WritesSettings
  <2>6. QED
    BY <2>2, <2>3, <2>4, <2>5
<1>2. QED
  BY <1>1, KeystoreInvHolds, PTL DEF KeystoreSpec, WalletKept

SettingsTypes ==
  /\ toml \in Config \cup {NoFile, Empty, Torn} /\ settled \in Config
  /\ \E W : NoWallet \in W /\ cmd \in [Shells -> CommandsWith(W)]

(* What the user wants of a command that writes nano.toml.                   *)
Wanted(c) == [settled EXCEPT ![c.key] = c.config[c.key]]

(* Until a command dies inside a write of nano.toml or two of them overlap,  *)
(* what the only one has to write there is what the user wants; a wizard     *)
(* writes it only if there is no file, and then the user has set nothing.    *)
SettingsKept ==
  /\ \A p \in Shells :
       /\ cmd[p].next = "settings" => cmd[p].first
       /\ cmd[p].first => cmd[p].config = [DefaultConfig EXCEPT ![cmd[p].key] = cmd[p].config[cmd[p].key]]
  /\ ~cut /\ ~raced =>
       /\ toml # Torn
       /\ \A p, q \in Shells : cmd[p].next \in {"toml", "save"} /\ cmd[q].next \in {"toml", "save"} => p = q
       /\ (\A p \in Shells : cmd[p].next # "save") => ConfigOf(toml) = settled
       /\ \A p \in Shells :
            /\ cmd[p].next \in {"toml", "save"} => cmd[p].config = Wanted(cmd[p])
            /\ cmd[p].next = "save" => toml = Empty

SettingsInv == SettingsTypes /\ SettingsKept

LEMMA SettingsInvInit == WalletInit => SettingsInv
<1> SUFFICES ASSUME WalletInit PROVE SettingsInv
  OBVIOUS
<1>1. \A p \in Shells : cmd[p] = NoCommand /\ cmd[p].next = "none" /\ cmd[p].first = FALSE
  BY NothingWritten DEF WalletInit
<1>2. SettingsTypes
  <2>1. NoCommand \in CommandsWith({NoWallet})
    BY NothingWritten
  <2>2. cmd \in [Shells -> CommandsWith({NoWallet})]
    BY <2>1 DEF WalletInit
  <2>3. QED
    BY <2>2, NothingWritten DEF WalletInit, SettingsTypes
<1>3. SettingsKept
  BY <1>1, NothingWritten, FilesDiffer DEF WalletInit, SettingsKept, ConfigOf
<1>4. QED
  BY <1>2, <1>3 DEF SettingsInv

(* A step of a command that has nothing to do with nano.toml.                *)
LEMMA SettingsElsewhere ==
  ASSUME SettingsInv, NEW W, NoWallet \in W, cmd' \in [Shells -> CommandsWith(W)],
         UNCHANGED <<toml, settled, raced, cut>>,
         \A q \in Shells :
           /\ cmd'[q].next \in {"toml", "save"} => cmd[q].next = cmd'[q].next
           /\ cmd[q].next = "save" => cmd'[q].next = "save"
           /\ cmd'[q].next = "settings" => cmd'[q].first
           /\ \/ cmd'[q].config = cmd[q].config /\ cmd'[q].key = cmd[q].key /\ cmd'[q].first = cmd[q].first
              \/ /\ cmd'[q].next \notin {"toml", "save"}
                 /\ cmd'[q].first => cmd'[q].config =
                      [DefaultConfig EXCEPT ![cmd'[q].key] = cmd'[q].config[cmd'[q].key]]
  PROVE  SettingsInv'
<1>1. SettingsTypes'
  BY DEF SettingsInv, SettingsTypes
<1>2. \A q \in Shells :
        /\ cmd'[q].next = "settings" => cmd'[q].first
        /\ cmd'[q].first =>
             cmd'[q].config = [DefaultConfig EXCEPT ![cmd'[q].key] = cmd'[q].config[cmd'[q].key]]
  BY DEF SettingsInv, SettingsKept
<1>3. ASSUME ~cut', ~raced'
      PROVE  /\ toml' # Torn
             /\ \A p, q \in Shells :
                  cmd'[p].next \in {"toml", "save"} /\ cmd'[q].next \in {"toml", "save"} => p = q
             /\ (\A p \in Shells : cmd'[p].next # "save") => ConfigOf(toml)' = settled'
             /\ \A p \in Shells : /\ cmd'[p].next \in {"toml", "save"} => cmd'[p].config = Wanted(cmd[p])'
                                  /\ cmd'[p].next = "save" => toml' = Empty
  BY <1>3 DEF SettingsInv, SettingsKept, ConfigOf, Wanted
<1>4. QED
  BY <1>1, <1>2, <1>3 DEF SettingsInv, SettingsKept

LEMMA SettingsCreating ==
  ASSUME SettingsInv, NEW p \in Shells, cmd[p] = NoCommand, NEW W, NEW c \in CommandsWith(W),
         c.first => c.config = [DefaultConfig EXCEPT ![c.key] = c.config[c.key]], Creating(p, c)
  PROVE  SettingsInv'
<1>1. PICK V : NoWallet \in V /\ cmd \in [Shells -> CommandsWith(V)]
  BY DEF SettingsInv, SettingsTypes
<1>2. /\ UNCHANGED <<toml, settled, raced, cut>> /\ cmd' = [cmd EXCEPT ![p] = [c EXCEPT !.next = "tmp"]]
  BY DEF Creating
<1>3. /\ [c EXCEPT !.next = "tmp"] \in CommandsWith(V \cup W) /\ CommandsWith(V) \subseteq CommandsWith(V \cup W)
      /\ [c EXCEPT !.next = "tmp"].next = "tmp" /\ [c EXCEPT !.next = "tmp"].first = c.first
      /\ [c EXCEPT !.next = "tmp"].config = c.config /\ [c EXCEPT !.next = "tmp"].key = c.key
  BY DEF CommandsWith, CommandSteps, Writes
<1>4. /\ cmd' \in [Shells -> CommandsWith(V \cup W)] /\ NoWallet \in V \cup W
      /\ cmd'[p].next = "tmp" /\ cmd'[p].first = c.first /\ cmd'[p].config = c.config
      /\ cmd'[p].key = c.key /\ \A q \in Shells : q # p => cmd'[q] = cmd[q]
  BY <1>1, <1>2, <1>3
<1>5. cmd[p].next = "none"
  BY NothingWritten
<1>6. \A q \in Shells : cmd'[q].next = "settings" => cmd'[q].first
  BY <1>4 DEF SettingsInv, SettingsKept
<1>7. QED
  BY <1>2, <1>4, <1>5, <1>6, SettingsElsewhere

LEMMA SettingsBegin ==
  ASSUME SettingsInv, NEW p \in Shells,
         \/ \E s \in Sources, pw \in Passwords :
              (\E v \in Values : run_wizard(p, v, s, pw)) \/ cmd_import(p, s, pw)
         \/ \E old, new \in Passwords : cmd_change_password(p, old, new)
  PROVE  SettingsInv'
<1>1. cmd[p] = NoCommand
  BY DEF run_wizard, cmd_import, cmd_change_password, Begin
<1>2. CASE \E wallet : Creating(p, [NoCommand EXCEPT !.wallet = wallet])
  <2>1. PICK wallet : Creating(p, [NoCommand EXCEPT !.wallet = wallet])
    BY <1>2
  <2>2. [NoCommand EXCEPT !.wallet = wallet] \in CommandsWith({wallet})
    BY NothingWritten, KeystoreAssumption
       DEF KeystoreAssumption, NoCommand, CommandsWith, CommandSteps, Files
  <2>3. [NoCommand EXCEPT !.wallet = wallet].first = FALSE
    BY DEF NoCommand
  <2>4. QED
    BY <1>1, <2>1, <2>2, <2>3, SettingsCreating
<1>3. ASSUME NEW s \in Sources, NEW pw \in Passwords, NEW v \in Values, run_wizard(p, v, s, pw)
      PROVE  SettingsInv'
  <2> DEFINE wallet == [seed |-> create_or_import_wallet(s), pw |-> pw]
             config == [DefaultConfig EXCEPT ![Network] = v]
             c == [NoCommand EXCEPT !.wallet = wallet, !.first = TRUE, !.config = config]
  <2>1. config \in Config /\ config = [DefaultConfig EXCEPT ![Network] = config[Network]]
    BY NothingWritten, KeystoreAssumption DEF Config, KeystoreAssumption
  <2>2. Creating(p, c)
    BY <1>3 DEF run_wizard
  <2> HIDE DEF wallet, config
  <2>3. c \in CommandsWith({wallet}) /\ c.config = config /\ c.key = Network
    BY <2>1, KeystoreAssumption
       DEF KeystoreAssumption, NoCommand, CommandsWith, CommandSteps, Files
  <2> HIDE DEF c
  <2>4. QED
    BY <1>1, <2>1, <2>2, <2>3, SettingsCreating
<1>4. QED
  BY <1>2, <1>3 DEF cmd_import, cmd_change_password

(* A command comes to write nano.toml.                                       *)
LEMMA SettingsWritten ==
  ASSUME SettingsInv, NEW p \in Shells, NEW W, NEW c \in CommandsWith(W), WritesSettings(p, c),
         cmd[p].next # "save",
         c.first => c.config = [DefaultConfig EXCEPT ![c.key] = c.config[c.key]],
         ~cut /\ ~raced' => c.config = Wanted(c)
  PROVE  SettingsInv'
<1>1. /\ UNCHANGED <<toml, settled, cut>> /\ cmd' = [cmd EXCEPT ![p] = [c EXCEPT !.next = "toml"]]
      /\ raced' = (raced \/ \E q \in Shells : cmd[q].next \in {"toml", "save"})
  BY DEF WritesSettings, Saving
<1>2. PICK V : NoWallet \in V /\ cmd \in [Shells -> CommandsWith(V)]
  BY DEF SettingsInv, SettingsTypes
<1>3. /\ [c EXCEPT !.next = "toml"] \in CommandsWith(V \cup W) /\ CommandsWith(V) \subseteq CommandsWith(V \cup W)
      /\ [c EXCEPT !.next = "toml"].next = "toml" /\ [c EXCEPT !.next = "toml"].first = c.first
      /\ [c EXCEPT !.next = "toml"].config = c.config /\ [c EXCEPT !.next = "toml"].key = c.key
  BY DEF CommandsWith, CommandSteps
<1>4. /\ cmd' \in [Shells -> CommandsWith(V \cup W)] /\ NoWallet \in V \cup W
      /\ cmd'[p].next = "toml" /\ cmd'[p].first = c.first /\ cmd'[p].config = c.config
      /\ cmd'[p].key = c.key /\ \A q \in Shells : q # p => cmd'[q] = cmd[q]
  BY <1>1, <1>2, <1>3
<1>5. SettingsTypes'
  BY <1>1, <1>4 DEF SettingsInv, SettingsTypes
<1>6. \A q \in Shells :
        /\ cmd'[q].next = "settings" => cmd'[q].first
        /\ cmd'[q].first =>
             cmd'[q].config = [DefaultConfig EXCEPT ![cmd'[q].key] = cmd'[q].config[cmd'[q].key]]
  BY <1>4 DEF SettingsInv, SettingsKept
<1>7. ASSUME ~cut', ~raced'
      PROVE  /\ toml' # Torn
             /\ \A q, r \in Shells :
                  cmd'[q].next \in {"toml", "save"} /\ cmd'[r].next \in {"toml", "save"} => q = r
             /\ (\A q \in Shells : cmd'[q].next # "save") => ConfigOf(toml)' = settled'
             /\ \A q \in Shells : /\ cmd'[q].next \in {"toml", "save"} => cmd'[q].config = Wanted(cmd[q])'
                                  /\ cmd'[q].next = "save" => toml' = Empty
  <2>1. ~cut /\ ~raced /\ \A q \in Shells : cmd[q].next \notin {"toml", "save"}
    BY <1>1, <1>7
  <2>2. \A q \in Shells : q # p => cmd'[q].next \notin {"toml", "save"}
    BY <1>4, <2>1
  <2>3. toml # Torn /\ ConfigOf(toml) = settled
    BY <2>1 DEF SettingsInv, SettingsKept
  <2>4. cmd'[p].config = Wanted(cmd[p])'
    BY <1>1, <1>4, <1>7, <2>1 DEF Wanted
  <2>5. QED
    BY <1>1, <1>4, <2>2, <2>3, <2>4 DEF ConfigOf
<1>8. QED
  BY <1>5, <1>6, <1>7 DEF SettingsInv, SettingsKept

LEMMA SettingsConfig ==
  ASSUME SettingsInv, NEW p \in Shells, NEW k \in Settings, NEW v \in Values, cmd_config(p, k, v)
  PROVE  SettingsInv'
<1> DEFINE config == [ConfigOf(toml) EXCEPT ![k] = v]
           c == [NoCommand EXCEPT !.config = config, !.key = k]
<1>1. /\ cmd[p] = NoCommand /\ WritesSettings(p, c) /\ cmd[p].next = "none"
      /\ raced' = (raced \/ \E q \in Shells : cmd[q].next \in {"toml", "save"})
  BY NothingWritten DEF cmd_config, Begin, WritesSettings, Saving
<1>2. ConfigOf(toml) \in Config
  BY NothingWritten DEF ConfigOf
<1>3. config \in Config /\ config[k] = v
  BY <1>2 DEF Config
<1>4. c.config = config /\ c.key = k /\ c.first = FALSE
  BY DEF NoCommand
<1>5. ~cut /\ ~raced' => c.config = Wanted(c)
  <2>1. ~cut /\ ~raced' => ConfigOf(toml) = settled
    BY <1>1 DEF SettingsInv, SettingsKept
  <2>2. ~cut /\ ~raced' => config = [settled EXCEPT ![k] = config[k]]
    BY <1>3, <2>1
  <2> HIDE DEF config, c
  <2>3. QED
    BY <1>4, <2>2 DEF Wanted
<1> HIDE DEF config
<1>6. c \in CommandsWith({NoWallet})
  BY <1>3 DEF NoCommand, CommandsWith, CommandSteps, Files
<1> HIDE DEF c
<1>7. QED
  BY <1>1, <1>4, <1>5, <1>6, SettingsWritten

LEMMA SettingsFirst ==
  ASSUME SettingsInv, NEW p \in Shells, WriteFirstConfig(p), toml = NoFile
  PROVE  SettingsInv'
<1>1. PICK V : NoWallet \in V /\ cmd \in [Shells -> CommandsWith(V)]
  BY DEF SettingsInv, SettingsTypes
<1>2. /\ cmd[p] \in CommandsWith(V) /\ cmd[p].next = "settings" /\ WritesSettings(p, cmd[p])
      /\ raced' = (raced \/ \E q \in Shells : cmd[q].next \in {"toml", "save"})
  BY <1>1 DEF WriteFirstConfig, WritesSettings, Saving
<1>3. cmd[p].first /\ cmd[p].config = [DefaultConfig EXCEPT ![cmd[p].key] = cmd[p].config[cmd[p].key]]
  BY <1>2 DEF SettingsInv, SettingsKept
<1>4. ~cut /\ ~raced' => settled = DefaultConfig
  <2>1. ConfigOf(toml) = DefaultConfig
    BY FilesDiffer DEF ConfigOf
  <2>2. QED
    BY <1>2, <2>1 DEF SettingsInv, SettingsKept
<1>5. ~cut /\ ~raced' => cmd[p].config = Wanted(cmd[p])
  BY <1>3, <1>4 DEF Wanted
<1>6. QED
  BY <1>2, <1>3, <1>5, SettingsWritten

(* A command that does not hold nano.toml half-written ends.                 *)
LEMMA SettingsEnds ==
  ASSUME SettingsInv, NEW p \in Shells, cmd[p].next # "save", cmd' = [cmd EXCEPT ![p] = NoCommand],
         UNCHANGED <<toml, settled, raced, cut>>
  PROVE  SettingsInv'
<1>1. PICK V : NoWallet \in V /\ cmd \in [Shells -> CommandsWith(V)]
  BY DEF SettingsInv, SettingsTypes
<1>2. cmd' \in [Shells -> CommandsWith(V)]
  BY <1>1, NothingWritten
<1>3. /\ \A q \in Shells : q # p => cmd'[q] = cmd[q]
      /\ cmd'[p].next = "none" /\ cmd'[p].first = FALSE
  BY <1>1, NothingWritten
<1>4. \A q \in Shells : cmd[q].next = "settings" => cmd[q].first
  BY DEF SettingsInv, SettingsKept
<1>5. QED
  BY <1>1, <1>2, <1>3, <1>4, SettingsElsewhere

LEMMA SettingsWalletSteps ==
  ASSUME SettingsInv, NEW p \in Shells,
         WriteTemp(p) \/ RenameTemp(p) \/ RenameFails(p) \/ SetPermissions(p)
  PROVE  SettingsInv'
<1>1. PICK V : NoWallet \in V /\ cmd \in [Shells -> CommandsWith(V)]
  BY DEF SettingsInv, SettingsTypes
<1>2. /\ cmd[p].next \in {"tmp", "fill", "rename", "mode"} /\ UNCHANGED <<toml, settled, raced, cut>>
      /\ \A q \in Shells : cmd[q].next = "settings" => cmd[q].first
  BY DEF WriteTemp, RenameTemp, RenameFails, SetPermissions, SettingsInv, SettingsKept
<1>3. CASE cmd' = [cmd EXCEPT ![p] = NoCommand]
  BY <1>2, <1>3, SettingsEnds
<1>4. CASE WriteTemp(p)
  <2>1. PICK step \in {"fill", "rename"}, file \in {"tmp", "none"} :
          cmd' = [cmd EXCEPT ![p].next = step, ![p].file = file]
    BY <1>4 DEF WriteTemp
  <2>2. step \in CommandSteps /\ file \in Files
    BY DEF CommandSteps, Writes, Files
  <2>3. QED
    BY <1>1, <1>2, <2>1, <2>2, CommandMoves, SettingsElsewhere
<1>5. CASE cmd' = [cmd EXCEPT ![p].next = "settings"] /\ cmd[p].first
  <2>1. "settings" \in CommandSteps
    BY DEF CommandSteps
  <2>2. cmd' = [cmd EXCEPT ![p].next = "settings", ![p].file = cmd[p].file] /\ cmd[p].file \in Files
    BY <1>1, <1>5, <2>1, StepKeepsFile
  <2>3. /\ cmd' \in [Shells -> CommandsWith(V)] /\ cmd'[p].next = "settings" /\ cmd'[p].first = cmd[p].first
        /\ cmd'[p].config = cmd[p].config /\ cmd'[p].key = cmd[p].key
        /\ \A q \in Shells : q # p => cmd'[q] = cmd[q]
    BY <1>1, <2>1, <2>2, CommandMoves
  <2>4. QED
    BY <1>1, <1>2, <1>5, <2>3, SettingsElsewhere
<1>6. CASE RenameTemp(p)
  <2>1. \A q \in Shells : cmd[q] \in CommandsWith(V)
    BY <1>1
  <2>2. ASSUME NEW q \in Shells
        PROVE  /\ cmd'[q] \in CommandsWith(V) /\ cmd'[q].first = cmd[q].first
               /\ cmd'[q].config = cmd[q].config /\ cmd'[q].key = cmd[q].key
               /\ cmd'[q].next = IF q = p THEN "mode" ELSE cmd[q].next
    <3>1. cmd'[q] = IF q = p THEN [cmd[q] EXCEPT !.next = "mode"]
                    ELSE [cmd[q] EXCEPT !.file = Moved(cmd[q].file)]
      BY <1>6 DEF RenameTemp
    <3>2. cmd[q].file \in Files /\ Moved(cmd[q].file) \in Files
      BY <2>1 DEF CommandsWith, Moved, Files
    <3>3. QED
      BY <2>1, <3>1, <3>2 DEF CommandsWith, CommandSteps, Writes
  <2>3. cmd' = [q \in Shells |-> cmd'[q]]
    BY <1>6 DEF RenameTemp
  <2>4. cmd' \in [Shells -> CommandsWith(V)]
    BY <2>2, <2>3
  <2>5. QED
    BY <1>1, <1>2, <2>2, <2>4, SettingsElsewhere
<1>7. CASE SetPermissions(p)
  <2>1. \/ cmd' = [cmd EXCEPT ![p].next = "settings"] /\ cmd[p].first
        \/ cmd' = [cmd EXCEPT ![p] = NoCommand]
    BY <1>7 DEF SetPermissions
  <2>2. QED
    BY <1>3, <1>5, <2>1
<1>8. QED
  BY <1>3, <1>4, <1>6, <1>7 DEF RenameFails

LEMMA SettingsSave ==
  ASSUME SettingsInv, NEW p \in Shells, save_to(p) PROVE SettingsInv'
<1>1. PICK V : NoWallet \in V /\ cmd \in [Shells -> CommandsWith(V)]
  BY DEF SettingsInv, SettingsTypes
<1>2. SettingsTypes /\ SettingsKept /\ cmd[p] \in CommandsWith(V) /\ UNCHANGED <<raced, cut>>
  BY <1>1 DEF SettingsInv, save_to
<1>3. CASE cmd[p].next = "toml"
  <2>1. toml' = Empty /\ cmd' = [cmd EXCEPT ![p].next = "save"] /\ settled' = settled
    BY <1>3 DEF save_to
  <2>2. "save" \in CommandSteps
    BY DEF CommandSteps
  <2>3. cmd' = [cmd EXCEPT ![p].next = "save", ![p].file = cmd[p].file] /\ cmd[p].file \in Files
    BY <1>1, <2>1, <2>2, StepKeepsFile
  <2>4. /\ cmd' \in [Shells -> CommandsWith(V)] /\ cmd'[p].next = "save"
        /\ \A q \in Shells : q # p => cmd'[q] = cmd[q]
        /\ cmd'[p].config = cmd[p].config /\ cmd'[p].key = cmd[p].key /\ cmd'[p].first = cmd[p].first
    BY <1>1, <2>2, <2>3, CommandMoves
  <2>5. SettingsTypes'
    BY <1>1, <1>2, <2>1, <2>4 DEF SettingsTypes
  <2>6. \A q \in Shells :
          /\ cmd'[q].next = "settings" => cmd'[q].first
          /\ cmd'[q].first =>
               cmd'[q].config = [DefaultConfig EXCEPT ![cmd'[q].key] = cmd'[q].config[cmd'[q].key]]
    BY <1>2, <2>4 DEF SettingsKept
  <2>7. ASSUME ~cut', ~raced'
        PROVE  /\ toml' # Torn /\ ~(\A q \in Shells : cmd'[q].next # "save")
               /\ \A q, r \in Shells :
                    cmd'[q].next \in {"toml", "save"} /\ cmd'[r].next \in {"toml", "save"} => q = r
               /\ \A q \in Shells : /\ cmd'[q].next \in {"toml", "save"} => cmd'[q].config = Wanted(cmd[q])'
                                    /\ cmd'[q].next = "save" => toml' = Empty
    <3>1. \A q \in Shells : q # p => cmd[q].next \notin {"toml", "save"}
      BY <1>2, <1>3, <2>7 DEF SettingsKept
    <3>2. cmd[p].config = Wanted(cmd[p])
      BY <1>2, <1>3, <2>7 DEF SettingsKept
    <3>3. cmd'[p].config = Wanted(cmd[p])'
      BY <2>1, <2>4, <3>2 DEF Wanted
    <3>4. QED
      BY <2>1, <2>4, <3>1, <3>3, FilesDiffer
  <2>8. QED
    BY <2>5, <2>6, <2>7 DEF SettingsInv, SettingsKept
<1>4. CASE cmd[p].next = "save"
  <2>1. /\ toml' \in {cmd[p].config} \cup (IF toml = Empty THEN {} ELSE {Torn})
        /\ settled' = Wanted(cmd[p]) /\ cmd' = [cmd EXCEPT ![p] = NoCommand]
    BY <1>4 DEF save_to, Wanted
  <2>2. /\ cmd' \in [Shells -> CommandsWith(V)] /\ cmd'[p].next = "none" /\ cmd'[p].first = FALSE
        /\ \A q \in Shells : q # p => cmd'[q] = cmd[q]
    BY <1>1, <2>1, NothingWritten
  <2>3. cmd[p].config \in Config /\ Wanted(cmd[p]) \in Config
    <3>1. cmd[p].config \in Config /\ cmd[p].key \in Settings
      BY <1>2 DEF CommandsWith
    <3>2. QED
      BY <1>2, <3>1 DEF SettingsTypes, Wanted, Config
  <2>4. SettingsTypes'
    BY <1>1, <2>1, <2>2, <2>3 DEF SettingsTypes
  <2>5. \A q \in Shells :
          /\ cmd'[q].next = "settings" => cmd'[q].first
          /\ cmd'[q].first =>
               cmd'[q].config = [DefaultConfig EXCEPT ![cmd'[q].key] = cmd'[q].config[cmd'[q].key]]
    BY <1>2, <2>2 DEF SettingsKept
  <2>6. ASSUME ~cut', ~raced'
        PROVE  /\ toml' # Torn /\ ConfigOf(toml)' = settled'
               /\ \A q \in Shells : cmd'[q].next \notin {"toml", "save"}
    <3>1. \A q \in Shells : cmd'[q].next \notin {"toml", "save"}
      BY <1>2, <1>4, <2>2, <2>6 DEF SettingsKept
    <3>2. toml = Empty /\ cmd[p].config = Wanted(cmd[p])
      BY <1>2, <1>4, <2>6 DEF SettingsKept
    <3>3. toml' = cmd[p].config
      BY <2>1, <3>2
    <3>4. QED
      BY <2>1, <2>3, <3>1, <3>2, <3>3, FilesDiffer DEF ConfigOf
  <2>7. QED
    BY <2>4, <2>5, <2>6 DEF SettingsInv, SettingsKept
<1>5. QED
  BY <1>3, <1>4 DEF save_to

LEMMA SettingsDies ==
  ASSUME SettingsInv, NEW p \in Shells, CommandDies(p) PROVE SettingsInv'
<1>1. /\ cmd' = [cmd EXCEPT ![p] = NoCommand] /\ UNCHANGED <<settled, raced>>
      /\ toml' \in {toml, Torn} /\ cut' = (cut \/ cmd[p].next = "save")
      /\ cmd[p].next # "save" => toml' = toml
  BY DEF CommandDies
<1>2. CASE cmd[p].next # "save"
  <2>1. UNCHANGED <<toml, settled, raced>> /\ cut' = (cut \/ FALSE)
    BY <1>1, <1>2
  <2>2. PICK V : NoWallet \in V /\ cmd \in [Shells -> CommandsWith(V)]
    BY DEF SettingsInv, SettingsTypes
  <2>3. /\ cmd' \in [Shells -> CommandsWith(V)] /\ cmd'[p].next = "none" /\ cmd'[p].first = FALSE
        /\ \A q \in Shells : q # p => cmd'[q] = cmd[q]
    BY <1>1, <2>2, NothingWritten
  <2>4. SettingsTypes'
    BY <2>1, <2>2, <2>3 DEF SettingsInv, SettingsTypes
  <2>5. SettingsKept'
    BY <1>2, <2>1, <2>3 DEF SettingsInv, SettingsKept, Wanted, ConfigOf
  <2>6. QED
    BY <2>4, <2>5 DEF SettingsInv
<1>3. CASE cmd[p].next = "save"
  <2>1. cut'
    BY <1>1, <1>3
  <2>2. PICK V : NoWallet \in V /\ cmd \in [Shells -> CommandsWith(V)]
    BY DEF SettingsInv, SettingsTypes
  <2>3. /\ cmd' \in [Shells -> CommandsWith(V)] /\ cmd'[p].next = "none" /\ cmd'[p].first = FALSE
        /\ \A q \in Shells : q # p => cmd'[q] = cmd[q]
    BY <1>1, <2>2, NothingWritten
  <2>4. SettingsTypes'
    BY <1>1, <2>2, <2>3 DEF SettingsInv, SettingsTypes
  <2>5. SettingsKept'
    BY <2>1, <2>3 DEF SettingsInv, SettingsKept
  <2>6. QED
    BY <2>4, <2>5 DEF SettingsInv
<1>4. QED
  BY <1>2, <1>3

LEMMA SettingsMove == SettingsInv /\ [WalletNext]_walletVars => SettingsInv'
<1> SUFFICES ASSUME SettingsInv, [WalletNext]_walletVars PROVE SettingsInv'
  OBVIOUS
<1>1. CASE UNCHANGED walletVars
  BY <1>1 DEF walletVars, SettingsInv, SettingsTypes, SettingsKept, Wanted, ConfigOf
<1>2. CASE DeleteTornConfig
  <2>1. UNCHANGED <<cmd, settled, raced, cut>> /\ toml = Torn /\ toml' = NoFile
    BY <1>2 DEF DeleteTornConfig
  <2>2. cut \/ raced
    BY <2>1 DEF SettingsInv, SettingsKept
  <2>3. QED
    BY <2>1, <2>2 DEF SettingsInv, SettingsTypes, SettingsKept
<1>3. ASSUME NEW p \in Shells, WriteFirstConfig(p) PROVE SettingsInv'
  <2>1. CASE toml = NoFile
    BY <1>3, <2>1, SettingsFirst
  <2>2. CASE toml # NoFile
    BY <1>3, <2>2, SettingsEnds DEF WriteFirstConfig
  <2>3. QED
    BY <2>1, <2>2
<1>4. CASE \E p \in Shells :
             \/ \E s \in Sources, pw \in Passwords :
                  (\E v \in Values : run_wizard(p, v, s, pw)) \/ cmd_import(p, s, pw)
             \/ \E old, new \in Passwords : cmd_change_password(p, old, new)
             \/ \E k \in Settings, v \in Values : cmd_config(p, k, v)
             \/ WriteTemp(p) \/ RenameTemp(p) \/ RenameFails(p) \/ SetPermissions(p)
             \/ WriteFirstConfig(p) \/ save_to(p) \/ CommandDies(p)
  BY <1>3, <1>4, SettingsBegin, SettingsConfig, SettingsWalletSteps, SettingsSave, SettingsDies
<1>5. QED
  BY <1>1, <1>2, <1>4 DEF WalletNext

(* Unless a command died inside a write of nano.toml or two that write it    *)
(* overlapped, the file holds every setting the successful commands left.    *)
THEOREM SettingsAreKept == KeystoreSpec => []SettingsSurvive
<1>1. SettingsInv => SettingsSurvive
  BY DEF SettingsInv, SettingsKept, SettingsSurvive
<1>2. QED
  BY SettingsInvInit, SettingsMove, <1>1, PTL DEF KeystoreSpec

-----------------------------------------------------------------------------
(* Contacts and groups.  What a command still has to do is known: which kind *)
(* of statements are left, in which order, and what it has read so far,      *)
(* which is still so as long as nobody has written (calm).                   *)

Statement ==
         [do: {"put", "insert"}, of: Names, addr: Addrs, key: Keys]
    \cup [do: {"delete", "resolve"}, of: Names, addr: {None}, key: {None}]
    \cup [do: {"create"}, of: Groups, addr: {None}, key: Keys]
    \cup [do: {"replace"}, of: Groups, addr: SUBSET Addrs, key: Keys]
    \cup [do: {"check", "drop_members", "drop_group", "group_key", "send_members"},
          of: Groups, addr: {None}, key: {None}]
    \cup [do: {"member", "drop_member"}, of: Groups, addr: Addrs, key: {None}]
    \cup [do: {"address"}, of: {None}, addr: Addrs, key: {None}]
    \cup [do: {"message"}, of: Groups, addr: Addrs, key: {None}]
    \cup [do: {"read_members"}, of: Groups, addr: {None}, key: Keys]
    \cup [do: {"bad", "contact_keys", "send", "list_groups", "done"},
          of: {None}, addr: {None}, key: {None}]

Edits == {"put", "insert", "delete", "create", "replace", "check", "member", "drop_member",
          "drop_members", "drop_group", "bad"}
EditOps == {"edit", "import_contacts", "import_groups"}
Ops == EditOps \cup {"none", "export", "send", "send_group", "run"}

Command ==
    [op: Ops, todo: Seq(Statement), keys: [Addrs -> Keys \cup {None}], missed: SUBSET Addrs,
     key: Keys \cup {None}, addr: Addrs \cup {None},
     input: Seq(Names \cup Addrs \cup ContactEntry \cup Entry \cup {Bad}), calm: BOOLEAN]

\* The statements left but for the last one, which is always Done.
Left(r) == 1 .. (Len(r.todo) - 1)
Ends(r) == r.todo # <<>> /\ r.todo[Len(r.todo)] = Done
LastLeft(r, i) == i = Len(r.todo) - 1

Editing(r) == \A i \in Left(r) : r.todo[i].do \in Edits

\* Everything a group message needs is read before the first message is listed,
\* and the key is read from the group whose members are read.
Messaging(r, g) ==
    \A i \in Left(r) :
        /\ r.todo[i].do = "message" /\ r.todo[i].addr # Self
        /\ r.todo[i].addr \notin r.missed => r.keys[r.todo[i].addr] = r.key
        /\ r.calm => r.key = g[r.todo[i].of]

ReadingGroup(r, g) ==
    /\ \A i \in Left(r) : \/ r.todo[i].do \in {"contact_keys", "group_key"}
                          \/ r.todo[i].do = "send_members" /\ LastLeft(r, i)
    /\ \A i, j \in Left(r) :
          r.todo[i].do = "group_key" /\ r.todo[j].do = "send_members" => r.todo[i].of = r.todo[j].of
    /\ r.calm /\ (\A i \in Left(r) : r.todo[i].do # "group_key") =>
          \A i \in Left(r) : r.todo[i].do = "send_members" => r.key = g[r.todo[i].of]

SendingGroup(r, g) == Messaging(r, g) \/ ReadingGroup(r, g)

\* These are keys held for the addresses of contacts, but for those missed.
KeysHeld(keys, missed, c) ==
    \A n \in Names : c[n] # None /\ c[n].addr \notin missed =>
        \E o \in Names : c[o] = [addr |-> c[n].addr, key |-> keys[c[n].addr]]

\* The keys of contacts have been read, and the name has been resolved.
Sending(r, c) ==
    /\ r.input # <<>>
    /\ \A i \in Left(r) :
          \/ r.todo[i].do = "contact_keys"
          \/ r.todo[i].do = "resolve" /\ r.todo[i].of = r.input[1]
          \/ r.todo[i].do = "address" /\ r.input[1] \notin Names
          \/ r.todo[i].do = "send" /\ LastLeft(r, i)
    /\ r.calm /\ (\A i \in Left(r) : r.todo[i].do # "contact_keys") =>
          KeysHeld(r.keys, r.missed, c)
    /\ r.calm /\ r.input[1] \in Names /\ (\A i \in Left(r) : r.todo[i].do # "resolve") =>
          c[r.input[1]] # None /\ r.addr = c[r.input[1]].addr

\* Every member of a group that has been read has the key of a group it is in,
\* unless its registration failed.
Registering(r, g, m) ==
    \/ /\ \E i \in Left(r) : r.todo[i].do = "list_groups"
       /\ \A i \in Left(r) : \/ r.todo[i].do = "contact_keys"
                             \/ r.todo[i].do = "list_groups" /\ LastLeft(r, i)
    \/ /\ \A i \in Left(r) : r.todo[i].do = "read_members"
       /\ r.calm =>
             /\ \A i \in Left(r) : r.todo[i].key = g[r.todo[i].of]
             /\ \A h \in Groups : g[h] # None /\ (\A i \in Left(r) : r.todo[i].of # h) =>
                   \A a \in m[h] \ ({Self} \cup r.missed) :
                       \E k \in Groups : a \in m[k] /\ r.keys[a] = g[k]

Snapshot(g, m) == {[group |-> h, key |-> g[h], members |-> m[h]] : h \in {k \in Groups : g[k] # None}}

\* What has been written and what is still to be read are all the groups.
Exporting(r, g, m) ==
    \/ Len(r.todo) = 2 /\ r.todo[1].do = "list_groups" /\ r.input = <<>>
    \/ /\ \A i \in Left(r) : r.todo[i].do = "read_members"
       /\ r.calm =>
             /\ \A i \in Left(r) : r.todo[i].key = g[r.todo[i].of]
             /\ ToSet(r.input) \cup
                  {[group |-> r.todo[i].of, key |-> r.todo[i].key, members |-> m[r.todo[i].of]] :
                     i \in Left(r)} = Snapshot(g, m)

\* The first k entries have been put, and members of the last of them are
\* still to be added, one for each of the first w statements that is no check.
Imported(r, g, m, k, w) ==
    /\ \A i \in 1 .. k : r.input[i] \in Entry
    /\ \A i \in 1 .. w :
          /\ k > 0 /\ r.todo[i].of = r.input[k].group
          /\ \/ r.todo[i].do = "check"
             \/ r.todo[i].do = "member" /\ r.todo[i].addr \in r.input[k].members
    /\ \A i \in 1 .. (Len(r.input) - k) :
          \/ r.todo[w + i].do = "bad"
          \/ /\ r.input[k + i] \in Entry
             /\ r.todo[w + i] = Stmt("replace", r.input[k + i].group, r.input[k + i].members,
                                     r.input[k + i].key)
    /\ r.calm => \A i \in 1 .. k :
          (\A j \in (i + 1) .. k : r.input[j].group # r.input[i].group) =>
             /\ g[r.input[i].group] = r.input[i].key
             /\ m[r.input[i].group] \subseteq r.input[i].members
             /\ \A a \in r.input[i].members \ m[r.input[i].group] :
                   i = k /\ \E j \in 1 .. w : r.todo[j].do = "member" /\ r.todo[j].addr = a

Importing(r, g, m) ==
    \E k \in 0 .. Len(r.input), w \in Nat :
        Len(r.todo) = w + (Len(r.input) - k) + 1 /\ Imported(r, g, m, k, w)

\* The first k contacts of a file have been put, the rest are left.
ContactsImported(r, c, k) ==
    /\ \A i \in 1 .. k : r.input[i] \in ContactEntry
    /\ \A i \in 1 .. (Len(r.input) - k) :
          \/ r.todo[i].do = "bad"
          \/ /\ r.input[k + i] \in ContactEntry
             /\ r.todo[i] = Stmt("put", r.input[k + i].name, r.input[k + i].addr,
                                 r.input[k + i].key)
    /\ r.calm => \A i \in 1 .. k :
          (\A j \in (i + 1) .. k : r.input[j].name # r.input[i].name) =>
             c[r.input[i].name] = [addr |-> r.input[i].addr, key |-> r.input[i].key]

ImportingContacts(r, c) ==
    \E k \in 0 .. Len(r.input) : Len(r.todo) = (Len(r.input) - k) + 1 /\ ContactsImported(r, c, k)

Plan(r, c, g, m) ==
    /\ r.op # "none" => Ends(r)
    /\ r.op \in EditOps => Editing(r)
    /\ r.op = "import_contacts" => ImportingContacts(r, c)
    /\ r.op = "import_groups" => Importing(r, g, m)
    /\ r.op = "send_group" => SendingGroup(r, g)
    /\ r.op = "send" => Sending(r, c)
    /\ r.op = "run" => Registering(r, g, m)
    /\ r.op = "export" => Exporting(r, g, m)

Book(c, g, m) ==
    /\ c \in [Names -> Contact \cup {None}]
    /\ g \in [Groups -> Keys \cup {None}]
    /\ m \in [Groups -> SUBSET Addrs]
    /\ \A h \in Groups : m[h] # {} => g[h] # None

BookInv ==
    /\ Book(contacts, groups, members)
    /\ proc \in [Procs -> Command]
    /\ \A p \in Procs : /\ proc[p].op = "none" => proc[p].todo = <<>>
                        /\ Plan(proc[p], contacts, groups, members)

LEMMA Kinds ==
  ASSUME NEW s \in Statement
  PROVE  /\ s.do \in {"put", "insert", "delete", "resolve"} => s.of \in Names
         /\ s.do \in {"create", "replace", "check", "drop_members", "drop_group", "group_key",
                      "send_members", "member", "drop_member", "read_members", "message"} => s.of \in Groups
         /\ s.do \in {"put", "insert", "member", "drop_member", "address", "message"} => s.addr \in Addrs
         /\ s.do = "replace" => s.addr \in SUBSET Addrs
         /\ s.do \in {"put", "insert", "create", "replace", "read_members"} => s.key \in Keys
BY DEF Statement

LEMMA DoneIsStatement == Done \in Statement /\ Done.do = "done"
BY DEF Done, On, Stmt, Statement

\* A command with one statement less.
Popped(r) == [r EXCEPT !.todo = Tail(r.todo)]

LEMMA Pops ==
  ASSUME NEW r \in Command, Ends(r), r.todo[1].do # "done"
  PROVE  /\ Popped(r) \in Command /\ Ends(Popped(r))
         /\ Len(Popped(r).todo) = Len(r.todo) - 1 /\ Len(r.todo) \in Nat /\ Len(r.todo) >= 2
         /\ 1 \in Left(r)
         /\ \A i \in Left(Popped(r)) : i + 1 \in Left(r) /\ Popped(r).todo[i] = r.todo[i + 1]
         /\ \A i \in Left(r) : i # 1 => i - 1 \in Left(Popped(r))
         /\ \A i \in Left(Popped(r)) : LastLeft(r, i + 1) => LastLeft(Popped(r), i)
         /\ Popped(r).op = r.op /\ Popped(r).keys = r.keys /\ Popped(r).key = r.key
         /\ Popped(r).addr = r.addr /\ Popped(r).input = r.input /\ Popped(r).calm = r.calm
         /\ Popped(r).missed = r.missed
<1> DEFINE s == r.todo
           t == Tail(s)
<1>1. s \in Seq(Statement) /\ s # <<>> /\ s[Len(s)] = Done
  BY DEF Command, Ends
<1>2. Len(s) \in Nat /\ Len(s) >= 2
  <2>1. Len(s) \in Nat /\ Len(s) # 0
    BY <1>1, LenProperties, EmptySeq
  <2>2. Len(s) # 1
    BY <1>1, DoneIsStatement
  <2>3. \A n \in Nat : n # 0 /\ n # 1 => n >= 2
    OBVIOUS
  <2>4. QED
    BY <2>1, <2>2, <2>3
<1>3. /\ t \in Seq(Statement) /\ Len(t) = Len(s) - 1
      /\ \A i \in 1 .. Len(t) : t[i] = s[i + 1]
  BY <1>1, HeadTailProperties
<1>4. /\ Popped(r) \in Command /\ Popped(r).todo = t
      /\ Popped(r).op = r.op /\ Popped(r).keys = r.keys /\ Popped(r).key = r.key
      /\ Popped(r).addr = r.addr /\ Popped(r).input = r.input /\ Popped(r).calm = r.calm
      /\ Popped(r).missed = r.missed
  BY <1>3 DEF Popped, Command
<1> HIDE DEF t
<1>5. Ends(Popped(r))
  <2>1. t # <<>>
    BY <1>2, <1>3
  <2>2. t[Len(t)] = s[Len(s)]
    BY <1>2, <1>3
  <2>3. QED
    BY <1>1, <1>4, <2>1, <2>2 DEF Ends
<1>6. QED
  BY <1>2, <1>3, <1>4, <1>5 DEF Left, LastLeft

LEMMA FirstIsStatement ==
  ASSUME NEW r \in Command, r.todo # <<>>
  PROVE  Head(r.todo) = r.todo[1] /\ r.todo[1] \in Statement
BY HeadTailProperties, ElementOfSeq, LenProperties, EmptySeq DEF Command

LEMMA AfterPops ==
  ASSUME NEW p \in Procs, proc[p] \in Command, proc[p].todo # <<>>, ~At(p, "replace")
  PROVE  After(p) = Popped(proc[p])
<1>1. Tail(proc[p].todo) \in Seq(Statement)
  BY HeadTailProperties DEF Command
<1>2. <<>> \o Tail(proc[p].todo) = Tail(proc[p].todo)
  BY <1>1, ConcatEmptySeq
<1>3. QED
  BY <1>2 DEF After, Popped

\* A command that somebody else has written beside.
LEMMA Disturbed ==
  ASSUME NEW r \in Command, NEW c, NEW g, NEW m, NEW d, NEW h, NEW n, Plan(r, c, g, m),
         r.op = "none" => r.todo = <<>>
  PROVE  LET u == [r EXCEPT !.calm = FALSE]
         IN u \in Command /\ Plan(u, d, h, n) /\ (u.op = "none" => u.todo = <<>>)
<1> DEFINE u == [r EXCEPT !.calm = FALSE]
<1>1. /\ u \in Command /\ ~u.calm /\ u.op = r.op /\ u.todo = r.todo /\ u.keys = r.keys
      /\ u.key = r.key /\ u.input = r.input /\ Left(u) = Left(r) /\ u.missed = r.missed
  BY DEF Command, Left
<1> HIDE DEF u
<1>2. Ends(r) => Ends(u)
  BY <1>1 DEF Ends
<1>3. Editing(r) => Editing(u)
  BY <1>1 DEF Editing
<1>4. Importing(r, g, m) => Importing(u, h, n)
  <2>1. ASSUME NEW k, NEW w, Imported(r, g, m, k, w) PROVE Imported(u, h, n, k, w)
    BY <1>1, <2>1 DEF Imported
  <2>2. QED
    BY <1>1, <2>1 DEF Importing
<1>5. SendingGroup(r, g) => SendingGroup(u, h)
  <2>1. Messaging(r, g) => Messaging(u, h)
    BY <1>1 DEF Messaging
  <2>2. ReadingGroup(r, g) => ReadingGroup(u, h)
    BY <1>1 DEF ReadingGroup, LastLeft
  <2>3. QED
    BY <2>1, <2>2 DEF SendingGroup
<1>6. Sending(r, c) => Sending(u, d)
  <2> SUFFICES ASSUME Sending(r, c) PROVE Sending(u, d)
    OBVIOUS
  <2>1. u.input # <<>> /\ ~u.calm
    BY <1>1 DEF Sending
  <2>2. \A i \in Left(u) : \/ u.todo[i].do = "contact_keys"
                           \/ u.todo[i].do = "resolve" /\ u.todo[i].of = u.input[1]
                           \/ u.todo[i].do = "address" /\ u.input[1] \notin Names
                           \/ u.todo[i].do = "send" /\ LastLeft(u, i)
    BY <1>1 DEF Sending, LastLeft
  <2>3. QED
    BY <2>1, <2>2 DEF Sending
<1>7. Registering(r, g, m) => Registering(u, h, n)
  BY <1>1 DEF Registering, LastLeft
<1>8. Exporting(r, g, m) => Exporting(u, h, n)
  BY <1>1 DEF Exporting
<1>9. ImportingContacts(r, c) => ImportingContacts(u, d)
  <2>1. ASSUME NEW k, ContactsImported(r, c, k) PROVE ContactsImported(u, d, k)
    BY <1>1, <2>1 DEF ContactsImported
  <2>2. QED
    BY <1>1, <2>1 DEF ImportingContacts
<1>10. QED
  BY <1>1, <1>2, <1>3, <1>4, <1>5, <1>6, <1>7, <1>8, <1>9 DEF Plan, u

LEMMA IdleIsFine ==
  ASSUME NEW c, NEW g, NEW m
  PROVE  Idle \in Command /\ Plan(Idle, c, g, m) /\ Idle.op = "none" /\ Idle.todo = <<>>
BY DEF Idle, Command, Plan, Ops, EditOps, NoKeys

\* What one step leaves to be shown: the book, and the command that made it.
LEMMA BookReads ==
  ASSUME BookInv, NEW p \in Procs, NEW r \in Command, Read(p, r),
         Plan(r, contacts, groups, members), r.op = "none" => r.todo = <<>>
  PROVE  BookInv'
<1>1. /\ proc' \in [Procs -> Command] /\ proc'[p] = r /\ \A q \in Procs \ {p} : proc'[q] = proc[q]
      /\ contacts' = contacts /\ groups' = groups /\ members' = members
  BY DEF Read, BookInv
<1>2. QED
  BY <1>1 DEF BookInv

LEMMA BookWrites ==
  ASSUME BookInv, NEW p \in Procs, Wrote(p), After(p) \in Command,
         Plan(After(p), contacts', groups', members'), After(p).op # "none",
         Book(contacts', groups', members')
  PROVE  BookInv'
<1>1. \A q \in Procs \ {p} :
         LET u == [proc[q] EXCEPT !.calm = FALSE]
         IN u \in Command /\ Plan(u, contacts', groups', members') /\ (u.op = "none" => u.todo = <<>>)
  BY Disturbed DEF BookInv
<1>2. /\ proc' \in [Procs -> Command] /\ proc'[p] = After(p)
      /\ \A q \in Procs \ {p} : proc'[q] = [proc[q] EXCEPT !.calm = FALSE]
  BY <1>1 DEF Wrote, BookInv
<1>3. \A q \in Procs : /\ proc'[q].op = "none" => proc'[q].todo = <<>>
                       /\ Plan(proc'[q], contacts', groups', members')
  <2>1. ASSUME NEW q \in Procs \ {p}
        PROVE  /\ proc'[q].op = "none" => proc'[q].todo = <<>>
               /\ Plan(proc'[q], contacts', groups', members')
    BY <1>1, <1>2
  <2>2. QED
    BY <1>2, <2>1
<1>4. QED
  BY <1>2, <1>3 DEF BookInv

LEMMA BookFails == ASSUME BookInv, NEW p \in Procs, Fail(p) PROVE BookInv'
BY BookReads, IdleIsFine DEF Fail

-----------------------------------------------------------------------------
(* Which commands execute which statements.                                  *)
LEMMA WhoIsAt ==
  ASSUME NEW r \in Command, NEW c, NEW g, NEW m, Plan(r, c, g, m), r.todo # <<>>,
         r.op = "none" => r.todo = <<>>, r.todo[1].do # "done"
  PROVE  /\ r.todo[1].do \in Edits => r.op \in EditOps
         /\ r.todo[1].do = "contact_keys" => r.op \in {"send", "send_group", "run"}
         /\ r.todo[1].do \in {"resolve", "address", "send"} => r.op = "send"
         /\ r.todo[1].do \in {"group_key", "send_members", "message"} => r.op = "send_group"
         /\ r.todo[1].do \in {"list_groups", "read_members"} => r.op \in {"run", "export"}
<1>1. Ends(r)
  BY DEF Plan
<1>2. 1 \in Left(r)
  BY <1>1, Pops
<1>3. r.op \in EditOps => r.todo[1].do \in Edits
  BY <1>2 DEF Plan, Editing
<1>4. r.op = "send_group" =>
        r.todo[1].do \in {"contact_keys", "group_key", "send_members", "message"}
  BY <1>2 DEF Plan, SendingGroup, Messaging, ReadingGroup
<1>5. r.op = "send" => r.todo[1].do \in {"contact_keys", "resolve", "address", "send"}
  BY <1>2 DEF Plan, Sending
<1>6. r.op = "run" => r.todo[1].do \in {"contact_keys", "list_groups", "read_members"}
  BY <1>2 DEF Plan, Registering
<1>7. r.op = "export" => r.todo[1].do \in {"list_groups", "read_members"}
  BY <1>2 DEF Plan, Exporting
<1>8. r.op \in Ops \ {"none"}
  BY DEF Command
<1>9. QED
  BY <1>3, <1>4, <1>5, <1>6, <1>7, <1>8 DEF Ops, EditOps, Edits

LEMMA EditingPops ==
  ASSUME NEW r \in Command, Ends(r), r.todo[1].do # "done", Editing(r)
  PROVE  Editing(Popped(r))
BY Pops DEF Editing

(* A set of addresses as a list.                                             *)
LEMMA ListOfSet ==
  ASSUME NEW S, IsFiniteSet(S)
  PROVE  /\ Cardinality(S) \in Nat
         /\ SetToSeq(S) \in [1 .. Cardinality(S) -> S]
         /\ \A x \in S : \E i \in 1 .. Cardinality(S) : SetToSeq(S)[i] = x
<1> DEFINE n == Cardinality(S)
           D == 1 .. n
           s == SetToSeq(S)
<1>1. n \in Nat /\ \E f \in Bijection(D, S) : TRUE
  BY FS_CardinalityType DEF ExistsBijection
<1>2. IsFiniteSet(D) /\ Cardinality(D) = n
  BY <1>1, FS_Interval
<1>3. \E f \in [D -> S] : IsInjective(f)
  BY <1>1 DEF Bijection, Injection, IsInjective
<1>4. s \in [D -> S] /\ IsInjective(s)
  BY <1>3 DEF SetToSeq
<1> HIDE DEF s, D
<1>5. s \in Injection(D, S)
  BY <1>4 DEF Injection, IsInjective
<1>6. s \in Surjection(D, S)
  BY <1>2, <1>5, FS_Injection
<1>7. \A x \in S : \E i \in D : s[i] = x
  BY <1>6 DEF Surjection
<1>8. QED
  BY <1>1, <1>4, <1>7 DEF D, s

LEMMA AddMembersAre ==
  ASSUME NEW h \in Groups, NEW S \in SUBSET Addrs
  PROVE  LET s == AddMembers(h, S)
         IN /\ s \in Seq(Statement) /\ Len(s) \in Nat
            /\ \A i \in 1 .. Len(s) :
                  /\ s[i].of = h
                  /\ s[i].do = "check" \/ (s[i].do = "member" /\ s[i].addr \in S)
            /\ \A a \in S : \E i \in 1 .. Len(s) : s[i].do = "member" /\ s[i].addr = a
<1> DEFINE n == Cardinality(S)
           l == SetToSeq(S)
           s == AddMembers(h, S)
<1>1. n \in Nat /\ l \in [1 .. n -> S] /\ \A x \in S : \E i \in 1 .. n : l[i] = x
  BY AddressBookAssumption, FS_Subset, ListOfSet DEF AddressBookAssumption
<1>2. s = [i \in 1 .. 2 * n |->
             IF i % 2 = 1 THEN On("check", h) ELSE Stmt("member", h, l[i \div 2], None)]
  BY DEF AddMembers
<1> HIDE DEF n, l, s
<1>3. \A i \in 1 .. 2 * n : i % 2 = 1 \/ i \div 2 \in 1 .. n
  BY <1>1
<1>4. \A i \in 1 .. n : 2 * i \in 1 .. 2 * n /\ (2 * i) % 2 # 1 /\ (2 * i) \div 2 = i
  BY <1>1
<1>5. On("check", h) \in Statement /\ On("check", h).do = "check" /\ On("check", h).of = h
  BY DEF On, Stmt, Statement
<1>6. ASSUME NEW a \in S
      PROVE  LET t == Stmt("member", h, a, None)
             IN t \in Statement /\ t.do = "member" /\ t.of = h /\ t.addr = a
  BY DEF Stmt, Statement
<1>7. ASSUME NEW i \in 1 .. 2 * n
      PROVE  /\ s[i] \in Statement /\ s[i].of = h
             /\ s[i].do = "check" \/ (s[i].do = "member" /\ s[i].addr \in S)
  <2>1. CASE i % 2 = 1
    <3>1. s[i] = On("check", h)
      BY <1>2, <2>1
    <3>2. QED
      BY <1>5, <3>1, Zenon
  <2>2. CASE i % 2 # 1
    <3>1. l[i \div 2] \in S /\ s[i] = Stmt("member", h, l[i \div 2], None)
      BY <1>1, <1>2, <1>3, <2>2
    <3>2. QED
      BY <1>6, <3>1
  <2>3. QED
    BY <2>1, <2>2
<1>8. ASSUME NEW a \in S
      PROVE  \E i \in 1 .. 2 * n : s[i].do = "member" /\ s[i].addr = a
  <2>1. PICK j \in 1 .. n : l[j] = a
    BY <1>1
  <2>2. s[2 * j] = Stmt("member", h, a, None)
    BY <1>2, <1>4, <2>1
  <2>3. QED
    BY <1>4, <1>6, <2>2
<1>9. s \in Seq(Statement) /\ Len(s) = 2 * n
  <2>1. 2 * n \in Nat
    BY <1>1
  <2>2. s \in [1 .. 2 * n -> Statement]
    BY <1>2, <1>7
  <2>3. QED
    BY <2>1, <2>2
<1>10. Len(s) \in Nat
  BY <1>1, <1>9
<1>11. /\ \A i \in 1 .. Len(s) :
              s[i].of = h /\ (s[i].do = "check" \/ (s[i].do = "member" /\ s[i].addr \in S))
       /\ \A a \in S : \E i \in 1 .. Len(s) : s[i].do = "member" /\ s[i].addr = a
  BY <1>7, <1>8, <1>9
<1>12. QED
  BY <1>9, <1>10, <1>11, Zenon DEF s

-----------------------------------------------------------------------------
(* An import: its head is an entry or belongs to the entry put last.         *)
LEMMA ImportMember ==
  ASSUME NEW r \in Command, NEW c, NEW g, NEW m, Ends(r), Importing(r, g, m), Book(c, g, m),
         r.todo[1].do \in {"check", "member"},
         NEW n \in [Groups -> SUBSET Addrs],
         r.todo[1].do = "check" => n = m,
         r.todo[1].do = "member" =>
           n = [m EXCEPT ![r.todo[1].of] = @ \cup {r.todo[1].addr}]
  PROVE  Importing(Popped(r), g, n)
<1> DEFINE u == Popped(r)
           s == r.todo
           t == u.todo
           e == r.input
<1>1. Importing(r, g, m) /\ Ends(r) /\ e \in Seq(Names \cup Addrs \cup ContactEntry \cup Entry \cup {Bad})
  BY DEF Command
<1>2. PICK k \in 0 .. Len(e), w \in Nat :
         Len(s) = w + (Len(e) - k) + 1 /\ Imported(r, g, m, k, w)
  BY <1>1 DEF Importing
<1>3. /\ Len(t) = Len(s) - 1 /\ Len(s) \in Nat /\ Len(s) >= 2
      /\ \A i \in 1 .. (Len(s) - 2) : t[i] = s[i + 1]
      /\ u.input = e /\ u.calm = r.calm
  BY <1>1, Pops DEF Left
<1>4. Len(e) \in Nat
  BY <1>1, LenProperties
<1> HIDE DEF u, s, t, e
<1>5. w > 0
  <2> SUFFICES ASSUME w = 0 PROVE FALSE
    BY <1>2
  <2>1. 1 \in 1 .. (Len(e) - k)
    BY <1>2, <1>3, <1>4
  <2>2. \/ s[w + 1].do = "bad"
        \/ s[w + 1] = Stmt("replace", e[k + 1].group, e[k + 1].members, e[k + 1].key)
    BY <1>2, <2>1 DEF Imported, s, e
  <2>3. QED
    BY <2>2 DEF s, Stmt
<1>6. /\ k > 0 /\ s[1].of = e[k].group /\ e[k] \in Entry
      /\ s[1].do = "check" \/ (s[1].do = "member" /\ s[1].addr \in e[k].members)
  <2>1. 1 \in 1 .. w /\ (k > 0 => k \in 1 .. k)
    BY <1>2, <1>5
  <2>2. QED
    BY <1>2, <2>1 DEF Imported, s, e
<1>7. e[k].group \in Groups
  BY <1>6 DEF Entry
<1>8. \A i \in 1 .. (w - 1) : i + 1 \in 1 .. w /\ t[i] = s[i + 1]
  BY <1>2, <1>3, <1>4
<1>9. \A i \in 1 .. (Len(e) - k) : t[w - 1 + i] = s[w + i]
  <2> SUFFICES ASSUME NEW i \in 1 .. (Len(e) - k) PROVE t[w - 1 + i] = s[w + i]
    OBVIOUS
  <2>1. w - 1 + i \in 1 .. (Len(s) - 2) /\ w - 1 + i + 1 = w + i
    BY <1>2, <1>4, <1>5
  <2>2. QED
    BY <1>3, <2>1
<1>10. ASSUME u.calm, NEW i \in 1 .. k, \A j \in (i + 1) .. k : e[j].group # e[i].group
       PROVE  /\ g[e[i].group] = e[i].key /\ n[e[i].group] \subseteq e[i].members
              /\ \A a \in e[i].members \ n[e[i].group] :
                    i = k /\ \E j \in 1 .. (w - 1) : t[j].do = "member" /\ t[j].addr = a
  <2>1. /\ g[e[i].group] = e[i].key /\ m[e[i].group] \subseteq e[i].members
        /\ \A a \in e[i].members \ m[e[i].group] :
              i = k /\ \E j \in 1 .. w : s[j].do = "member" /\ s[j].addr = a
    BY <1>2, <1>3, <1>10 DEF Imported, s, e
  <2>2. i # k => e[k].group # e[i].group
    BY <1>2, <1>4, <1>10
  <2>3. e[i] \in Entry /\ e[i].group \in Groups
    BY <1>2 DEF Imported, e, Entry
  <2>4. CASE i # k
    <3>1. n[e[i].group] = m[e[i].group]
      BY <1>6, <1>7, <2>2, <2>3, <2>4 DEF Book, s
    <3>2. QED
      BY <2>1, <2>4, <3>1
  <2>5. CASE i = k
    <3>1. n[e[k].group] = IF s[1].do = "member" THEN m[e[k].group] \cup {s[1].addr}
                          ELSE m[e[k].group]
      BY <1>6, <1>7 DEF Book, s
    <3>2. n[e[k].group] \subseteq e[k].members
      BY <1>6, <2>1, <2>5, <3>1
    <3>3. ASSUME NEW a \in e[k].members \ n[e[k].group]
          PROVE  \E j \in 1 .. (w - 1) : t[j].do = "member" /\ t[j].addr = a
      <4>1. PICK j \in 1 .. w : s[j].do = "member" /\ s[j].addr = a
        BY <2>1, <2>5, <3>1, <3>3
      <4>2. j # 1
        BY <3>1, <3>3, <4>1
      <4>3. j - 1 \in 1 .. (w - 1) /\ t[j - 1] = s[j]
        BY <1>8, <4>2
      <4>4. QED
        BY <4>1, <4>3
    <3>4. QED
      BY <2>1, <2>5, <3>2, <3>3
  <2>6. QED
    BY <2>4, <2>5
<1>11. Imported(u, g, n, k, w - 1)
  <2>1. \A i \in 1 .. k : e[i] \in Entry
    BY <1>2 DEF Imported, e
  <2>2. \A i \in 1 .. (w - 1) :
          /\ k > 0 /\ t[i].of = e[k].group
          /\ t[i].do = "check" \/ (t[i].do = "member" /\ t[i].addr \in e[k].members)
    <3>1. \A i \in 1 .. w :
            /\ k > 0 /\ s[i].of = e[k].group
            /\ s[i].do = "check" \/ (s[i].do = "member" /\ s[i].addr \in e[k].members)
      BY <1>2 DEF Imported, s, e
    <3>2. QED
      BY <1>8, <3>1
  <2>3. \A i \in 1 .. (Len(e) - k) :
          \/ t[w - 1 + i].do = "bad"
          \/ /\ e[k + i] \in Entry
             /\ t[w - 1 + i] = Stmt("replace", e[k + i].group, e[k + i].members, e[k + i].key)
    BY <1>2, <1>9 DEF Imported, s, e
  <2>4. QED
    BY <1>3, <1>10, <2>1, <2>2, <2>3 DEF Imported, t
<1>12. w - 1 \in Nat /\ Len(t) = (w - 1) + (Len(e) - k) + 1
  BY <1>2, <1>3, <1>4, <1>5
<1>14. QED
  BY <1>2, <1>3, <1>11, <1>12 DEF Importing, u, t


\* A command whose statement was answered by a list of new ones.
Grown(r, l) == [r EXCEPT !.todo = l \o Tail(r.todo)]

LEMMA Grows ==
  ASSUME NEW r \in Command, Ends(r), r.todo[1].do # "done", NEW l \in Seq(Statement)
  PROVE  /\ Grown(r, l) \in Command /\ Ends(Grown(r, l)) /\ Len(l) \in Nat
         /\ Len(Grown(r, l).todo) = Len(l) + Len(r.todo) - 1
         /\ \A i \in 1 .. Len(l) : Grown(r, l).todo[i] = l[i]
         /\ \A i \in 1 .. (Len(r.todo) - 1) : Grown(r, l).todo[Len(l) + i] = r.todo[i + 1]
         /\ Grown(r, l).op = r.op /\ Grown(r, l).keys = r.keys /\ Grown(r, l).key = r.key
         /\ Grown(r, l).addr = r.addr /\ Grown(r, l).input = r.input /\ Grown(r, l).calm = r.calm
         /\ Grown(r, l).missed = r.missed
<1> DEFINE s == r.todo
           t == Tail(s)
           u == Grown(r, l)
<1>1. s \in Seq(Statement) /\ s # <<>> /\ s[Len(s)] = Done
  BY DEF Command, Ends
<1>2. Len(s) \in Nat /\ Len(s) >= 2
  BY Pops
<1>3. t \in Seq(Statement) /\ Len(t) = Len(s) - 1 /\ \A i \in 1 .. Len(t) : t[i] = s[i + 1]
  BY <1>1, HeadTailProperties
<1> HIDE DEF t
<1>4. /\ l \o t \in Seq(Statement) /\ Len(l \o t) = Len(l) + Len(t) /\ Len(l) \in Nat
      /\ \A i \in 1 .. Len(l) + Len(t) : (l \o t)[i] = IF i <= Len(l) THEN l[i] ELSE t[i - Len(l)]
  BY <1>3, ConcatProperties, LenProperties
<1>5. /\ u \in Command /\ u.todo = l \o t /\ u.op = r.op /\ u.keys = r.keys /\ u.key = r.key
      /\ u.addr = r.addr /\ u.input = r.input /\ u.calm = r.calm /\ u.missed = r.missed
  BY <1>4 DEF Grown, Command, t
<1> HIDE DEF u
<1>6. \A i \in 1 .. Len(l) : u.todo[i] = l[i]
  BY <1>2, <1>3, <1>4, <1>5
<1>7. ASSUME NEW i \in 1 .. (Len(s) - 1) PROVE u.todo[Len(l) + i] = s[i + 1]
  <2>1. /\ Len(l) + i \in 1 .. Len(l) + Len(t) /\ ~(Len(l) + i <= Len(l))
        /\ (Len(l) + i) - Len(l) = i /\ i \in 1 .. Len(t)
    BY <1>2, <1>3, <1>4
  <2>2. QED
    BY <1>3, <1>4, <1>5, <2>1
<1>8. Ends(u)
  <2>1. Len(s) - 1 \in 1 .. (Len(s) - 1) /\ (Len(s) - 1) + 1 = Len(s)
    BY <1>2
  <2>2. u.todo[Len(l) + (Len(s) - 1)] = Done
    BY <1>1, <1>7, <2>1
  <2>3. Len(u.todo) = Len(l) + (Len(s) - 1)
    BY <1>3, <1>4, <1>5
  <2>4. Len(u.todo) # 0
    BY <1>2, <1>4, <2>3
  <2>5. QED
    BY <2>2, <2>3, <2>4 DEF Ends
<1>9. Len(u.todo) = Len(l) + Len(s) - 1
  BY <1>2, <1>3, <1>4, <1>5
<1>10. QED
  BY <1>4, <1>5, <1>6, <1>7, <1>8, <1>9 DEF u

\* The next entry: its row is replaced and its members go; they are to be added.
LEMMA ImportEntry ==
  ASSUME NEW r \in Command, NEW c, NEW g, NEW m, Ends(r), Importing(r, g, m), Book(c, g, m),
         r.todo[1].do = "replace",
         NEW h, h = [g EXCEPT ![r.todo[1].of] = r.todo[1].key],
         NEW n, n = [m EXCEPT ![r.todo[1].of] = {}]
  PROVE  Importing(Grown(r, AddMembers(r.todo[1].of, r.todo[1].addr)), h, n)
<1> DEFINE s == r.todo
           l == AddMembers(s[1].of, s[1].addr)
           u == Grown(r, l)
           t == u.todo
           e == r.input
<1>1. e \in Seq(Names \cup Addrs \cup ContactEntry \cup Entry \cup {Bad})
  BY DEF Command
<1>2. PICK k \in 0 .. Len(e), w \in Nat :
         Len(s) = w + (Len(e) - k) + 1 /\ Imported(r, g, m, k, w)
  BY DEF Importing
<1>3. Len(e) \in Nat
  BY <1>1, LenProperties
<1>4. Len(s) \in Nat /\ Len(s) >= 2 /\ s # <<>>
  BY Pops DEF Ends
<1>5. s[1] \in Statement
  BY <1>4, FirstIsStatement
<1>6. s[1].of \in Groups /\ s[1].addr \in SUBSET Addrs /\ s[1].key \in Keys
  BY <1>5, Kinds
<1>7. /\ l \in Seq(Statement) /\ Len(l) \in Nat
      /\ \A i \in 1 .. Len(l) :
            /\ l[i].of = s[1].of
            /\ l[i].do = "check" \/ (l[i].do = "member" /\ l[i].addr \in s[1].addr)
      /\ \A a \in s[1].addr : \E i \in 1 .. Len(l) : l[i].do = "member" /\ l[i].addr = a
  BY <1>6, AddMembersAre
<1> HIDE DEF l
<1>8. /\ u \in Command /\ u.input = e /\ u.calm = r.calm
      /\ Len(t) = Len(l) + Len(s) - 1
      /\ \A i \in 1 .. Len(l) : t[i] = l[i]
      /\ \A i \in 1 .. (Len(s) - 1) : t[Len(l) + i] = s[i + 1]
  BY <1>7, Grows
<1> HIDE DEF u, s, t, e
<1>9. w = 0
  <2> SUFFICES ASSUME w # 0 PROVE FALSE
    OBVIOUS
  <2>1. 1 \in 1 .. w
    BY <1>2
  <2>2. s[1].do = "check" \/ s[1].do = "member"
    BY <1>2, <2>1 DEF Imported, s, e
  <2>3. QED
    BY <2>2 DEF s
<1>10. k + 1 \in 1 .. Len(e) /\ 1 \in 1 .. (Len(e) - k) /\ k \in Nat
  BY <1>2, <1>3, <1>4, <1>9
<1>11. /\ e[k + 1] \in Entry /\ s[1].of = e[k + 1].group /\ s[1].addr = e[k + 1].members
       /\ s[1].key = e[k + 1].key
  <2>1. \/ s[w + 1].do = "bad"
        \/ /\ e[k + 1] \in Entry
           /\ s[w + 1] = Stmt("replace", e[k + 1].group, e[k + 1].members, e[k + 1].key)
    BY <1>2, <1>10 DEF Imported, s, e
  <2>2. s[w + 1] = s[1] /\ s[1].do # "bad"
    BY <1>9 DEF s
  <2>3. QED
    BY <2>1, <2>2 DEF Stmt
<1>12. /\ h[e[k + 1].group] = e[k + 1].key /\ n[e[k + 1].group] = {}
       /\ \A x \in Groups : x # e[k + 1].group => h[x] = g[x] /\ n[x] = m[x]
  BY <1>6, <1>11 DEF Book, s
<1>13. \A i \in 1 .. (k + 1) : e[i] \in Entry
  <2>1. \A i \in 1 .. (k + 1) : i \in 1 .. k \/ i = k + 1
    BY <1>10
  <2>2. \A i \in 1 .. k : e[i] \in Entry
    BY <1>2 DEF Imported, e
  <2>3. QED
    BY <1>11, <2>1, <2>2
<1>14. ASSUME u.calm, NEW i \in 1 .. (k + 1),
              \A j \in (i + 1) .. (k + 1) : e[j].group # e[i].group
       PROVE  /\ h[e[i].group] = e[i].key /\ n[e[i].group] \subseteq e[i].members
              /\ \A a \in e[i].members \ n[e[i].group] :
                    i = k + 1 /\ \E j \in 1 .. Len(l) : t[j].do = "member" /\ t[j].addr = a
  <2>1. CASE i = k + 1
    <3>1. \A a \in e[k + 1].members : \E j \in 1 .. Len(l) : t[j].do = "member" /\ t[j].addr = a
      <4>1. \A a \in e[k + 1].members : \E j \in 1 .. Len(l) : l[j].do = "member" /\ l[j].addr = a
        BY <1>7, <1>11
      <4>2. \A j \in 1 .. Len(l) : t[j] = l[j]
        BY <1>8
      <4>3. QED
        BY <4>1, <4>2
    <3>2. h[e[k + 1].group] = e[k + 1].key /\ n[e[k + 1].group] = {}
      BY <1>12
    <3>3. QED
      BY <2>1, <3>1, <3>2
  <2>2. CASE i # k + 1
    <3>1. i \in 1 .. k /\ k + 1 \in (i + 1) .. (k + 1) /\ \A j \in (i + 1) .. k : j \in (i + 1) .. (k + 1)
      BY <1>10, <2>2
    <3>2. /\ g[e[i].group] = e[i].key /\ m[e[i].group] \subseteq e[i].members
          /\ \A a \in e[i].members \ m[e[i].group] :
                i = k /\ \E j \in 1 .. w : s[j].do = "member" /\ s[j].addr = a
      BY <1>2, <1>8, <1>14, <3>1 DEF Imported, s, e
    <3>3. 1 .. w = {}
      BY <1>9
    <3>4. h[e[i].group] = g[e[i].group] /\ n[e[i].group] = m[e[i].group]
      BY <1>12, <1>13, <1>14, <3>1 DEF Entry
    <3>5. QED
      BY <3>2, <3>3, <3>4
  <2>3. QED
    BY <2>1, <2>2
<1>15. ASSUME NEW i \in 1 .. (Len(e) - (k + 1))
       PROVE  \/ t[Len(l) + i].do = "bad"
              \/ /\ e[k + 1 + i] \in Entry
                 /\ t[Len(l) + i] = Stmt("replace", e[k + 1 + i].group, e[k + 1 + i].members,
                                         e[k + 1 + i].key)
  <2>1. /\ i + 1 \in 1 .. (Len(e) - k) /\ k + (i + 1) = k + 1 + i /\ w + (i + 1) = i + 1
        /\ i \in 1 .. (Len(s) - 1)
    BY <1>2, <1>3, <1>9, <1>10
  <2>2. \/ s[w + (i + 1)].do = "bad"
        \/ /\ e[k + (i + 1)] \in Entry
           /\ s[w + (i + 1)] = Stmt("replace", e[k + (i + 1)].group, e[k + (i + 1)].members,
                                    e[k + (i + 1)].key)
    BY <1>2, <2>1 DEF Imported, s, e
  <2>3. t[Len(l) + i] = s[i + 1]
    BY <1>8, <2>1
  <2>4. QED
    BY <2>1, <2>2, <2>3
<1>16. Imported(u, h, n, k + 1, Len(l))
  <2>1. \A i \in 1 .. Len(l) :
          /\ k + 1 > 0 /\ t[i].of = e[k + 1].group
          /\ t[i].do = "check" \/ (t[i].do = "member" /\ t[i].addr \in e[k + 1].members)
    BY <1>7, <1>8, <1>10, <1>11
  <2>2. QED
    BY <1>8, <1>13, <1>14, <1>15, <2>1 DEF Imported, t
<1>17. Len(t) = Len(l) + (Len(e) - (k + 1)) + 1 /\ k + 1 \in 0 .. Len(e)
  <2>1. Len(s) = (Len(e) - k) + 1
    BY <1>2, <1>3, <1>9
  <2>2. Len(t) = Len(l) + Len(s) - 1
    BY <1>8
  <2>3. Len(t) = Len(l) + ((Len(e) - k) + 1) - 1
    BY <2>1, <2>2
  <2>4. \A a, b \in Nat : \A d \in 0 .. b : a + ((b - d) + 1) - 1 = a + (b - (d + 1)) + 1
    OBVIOUS
  <2>5. Len(t) = Len(l) + (Len(e) - (k + 1)) + 1
    BY <1>2, <1>3, <1>7, <2>3, <2>4
  <2>6. QED
    BY <1>3, <1>10, <2>5
<1>18. Importing(u, h, n)
  BY <1>7, <1>8, <1>16, <1>17 DEF Importing, t
<1>19. QED
  BY <1>18 DEF u, l, s

-----------------------------------------------------------------------------
(* An import of contacts: its head is an entry, and putting it is progress.  *)
LEMMA ContactHead ==
  ASSUME NEW r \in Command, NEW c, Ends(r), ImportingContacts(r, c), r.todo[1].do # "done"
  PROVE  r.todo[1].do \in {"put", "bad"}
<1> DEFINE s == r.todo
           e == r.input
<1>1. PICK k \in 0 .. Len(e) : Len(s) = (Len(e) - k) + 1 /\ ContactsImported(r, c, k)
  BY DEF ImportingContacts
<1>2. Len(e) \in Nat
  BY LenProperties DEF Command
<1>3. Len(s) \in Nat /\ Len(s) >= 2
  BY Pops
<1> HIDE DEF s, e
<1>4. 1 \in 1 .. (Len(e) - k)
  BY <1>1, <1>2, <1>3
<1>5. \/ s[1].do = "bad"
      \/ s[1] = Stmt("put", e[k + 1].name, e[k + 1].addr, e[k + 1].key)
  BY <1>1, <1>4 DEF ContactsImported, s, e
<1>6. QED
  BY <1>5 DEF Stmt, s

LEMMA ImportContact ==
  ASSUME NEW r \in Command, NEW c \in [Names -> Contact \cup {None}], Ends(r),
         ImportingContacts(r, c), r.todo[1].do = "put", NEW d,
         d = [c EXCEPT ![r.todo[1].of] = [addr |-> r.todo[1].addr, key |-> r.todo[1].key]]
  PROVE  ImportingContacts(Popped(r), d)
<1> DEFINE u == Popped(r)
           s == r.todo
           t == u.todo
           e == r.input
<1>1. PICK k \in 0 .. Len(e) : Len(s) = (Len(e) - k) + 1 /\ ContactsImported(r, c, k)
  BY DEF ImportingContacts
<1>2. /\ Len(t) = Len(s) - 1 /\ Len(s) \in Nat /\ Len(s) >= 2
      /\ \A i \in 1 .. (Len(s) - 2) : t[i] = s[i + 1]
      /\ u.input = e /\ u.calm = r.calm
  BY Pops DEF Left
<1>3. Len(e) \in Nat
  BY LenProperties DEF Command
<1>4. d = [c EXCEPT ![s[1].of] = [addr |-> s[1].addr, key |-> s[1].key]] /\ s[1].do = "put"
  OBVIOUS
<1> HIDE DEF u, s, t, e
<1>5. k + 1 \in 1 .. Len(e) /\ 1 \in 1 .. (Len(e) - k) /\ k \in Nat
  BY <1>1, <1>2, <1>3
<1>6. /\ e[k + 1] \in ContactEntry /\ s[1].of = e[k + 1].name /\ s[1].addr = e[k + 1].addr
      /\ s[1].key = e[k + 1].key
  <2>1. \/ s[1].do = "bad"
        \/ /\ e[k + 1] \in ContactEntry
           /\ s[1] = Stmt("put", e[k + 1].name, e[k + 1].addr, e[k + 1].key)
    BY <1>1, <1>5 DEF ContactsImported, s, e
  <2>2. QED
    BY <1>4, <2>1 DEF Stmt
<1>7. /\ d[e[k + 1].name] = [addr |-> e[k + 1].addr, key |-> e[k + 1].key]
      /\ \A x \in Names : x # e[k + 1].name => d[x] = c[x]
  <2>1. e[k + 1].name \in Names
    BY <1>6 DEF ContactEntry
  <2>2. QED
    BY <1>4, <1>6, <2>1
<1>8. \A i \in 1 .. (k + 1) : i \in 1 .. k \/ i = k + 1
  BY <1>5
<1>9. \A i \in 1 .. k : e[i] \in ContactEntry
  BY <1>1 DEF ContactsImported, e
<1>10. ASSUME u.calm, NEW i \in 1 .. (k + 1), \A j \in (i + 1) .. (k + 1) : e[j].name # e[i].name
       PROVE  d[e[i].name] = [addr |-> e[i].addr, key |-> e[i].key]
  <2>1. CASE i = k + 1
    BY <1>7, <2>1
  <2>2. CASE i # k + 1
    <3>1. i \in 1 .. k /\ k + 1 \in (i + 1) .. (k + 1) /\ \A j \in (i + 1) .. k : j \in (i + 1) .. (k + 1)
      BY <1>5, <2>2
    <3>2. c[e[i].name] = [addr |-> e[i].addr, key |-> e[i].key]
      BY <1>1, <1>2, <1>10, <3>1 DEF ContactsImported, e
    <3>3. e[i].name \in Names /\ e[i].name # e[k + 1].name
      BY <1>9, <1>10, <3>1 DEF ContactEntry
    <3>4. QED
      BY <1>7, <3>2, <3>3
  <2>3. QED
    BY <2>1, <2>2
<1>11. ASSUME NEW i \in 1 .. (Len(e) - (k + 1))
       PROVE  \/ t[i].do = "bad"
              \/ /\ e[k + 1 + i] \in ContactEntry
                 /\ t[i] = Stmt("put", e[k + 1 + i].name, e[k + 1 + i].addr, e[k + 1 + i].key)
  <2>1. /\ i + 1 \in 1 .. (Len(e) - k) /\ k + (i + 1) = k + 1 + i /\ i \in 1 .. (Len(s) - 2)
    <3>1. Len(s) = (Len(e) - k) + 1
      BY <1>1
    <3>2. Len(e) - (k + 1) = Len(s) - 2
      BY <1>2, <1>3, <1>5, <3>1
    <3>3. i \in 1 .. (Len(s) - 2)
      BY <3>2
    <3>4. i + 1 \in 1 .. (Len(e) - k)
      BY <1>2, <1>3, <1>5, <3>1, <3>3
    <3>5. QED
      BY <1>5, <3>3, <3>4
  <2>2. \/ s[i + 1].do = "bad"
        \/ /\ e[k + (i + 1)] \in ContactEntry
           /\ s[i + 1] = Stmt("put", e[k + (i + 1)].name, e[k + (i + 1)].addr, e[k + (i + 1)].key)
    BY <1>1, <2>1 DEF ContactsImported, s, e
  <2>3. t[i] = s[i + 1]
    BY <1>2, <2>1
  <2>4. QED
    BY <2>1, <2>2, <2>3
<1>12. ContactsImported(u, d, k + 1)
  <2>1. \A i \in 1 .. (k + 1) : e[i] \in ContactEntry
    BY <1>6, <1>8, <1>9
  <2>2. QED
    BY <1>2, <1>10, <1>11, <2>1 DEF ContactsImported, t
<1>13. Len(t) = (Len(e) - (k + 1)) + 1 /\ k + 1 \in 0 .. Len(e)
  BY <1>1, <1>2, <1>3, <1>5
<1>14. QED
  BY <1>2, <1>12, <1>13 DEF ImportingContacts, u, t

-----------------------------------------------------------------------------
(* The statements that edit.                                                 *)
LEMMA ImportHead ==
  ASSUME NEW r \in Command, NEW g, NEW m, Ends(r), Importing(r, g, m), r.todo[1].do # "done"
  PROVE  r.todo[1].do \in {"check", "member", "bad", "replace"}
<1> DEFINE s == r.todo
           e == r.input
<1>1. PICK k \in 0 .. Len(e), w \in Nat :
         Len(s) = w + (Len(e) - k) + 1 /\ Imported(r, g, m, k, w)
  BY DEF Importing
<1>2. Len(e) \in Nat
  BY LenProperties DEF Command
<1>3. Len(s) \in Nat /\ Len(s) >= 2
  BY Pops
<1> HIDE DEF s, e
<1>4. CASE w = 0
  <2>1. 1 \in 1 .. (Len(e) - k)
    BY <1>1, <1>2, <1>3, <1>4
  <2>2. \/ s[w + 1].do = "bad"
        \/ s[w + 1] = Stmt("replace", e[k + 1].group, e[k + 1].members, e[k + 1].key)
    BY <1>1, <2>1 DEF Imported, s, e
  <2>3. w + 1 = 1
    BY <1>4
  <2>4. s[1].do = "bad" \/ s[1].do = "replace"
    BY <2>2, <2>3 DEF Stmt
  <2>5. QED
    BY <2>4 DEF s
<1>5. CASE w # 0
  <2>1. 1 \in 1 .. w
    BY <1>1, <1>5
  <2>2. s[1].do = "check" \/ s[1].do = "member"
    BY <1>1, <2>1 DEF Imported, s, e
  <2>3. QED
    BY <2>2 DEF s
<1>6. QED
  BY <1>4, <1>5

\* A process about to execute a statement.
LEMMA AtStatement ==
  ASSUME BookInv, NEW p \in Procs, NEW do, At(p, do), do # "done"
  PROVE  /\ proc[p] \in Command /\ Plan(proc[p], contacts, groups, members)
         /\ proc[p].todo # <<>> /\ Head1(p) = proc[p].todo[1] /\ proc[p].todo[1] \in Statement
         /\ proc[p].todo[1].do = do /\ Head1(p).do = do /\ proc[p].op # "none" /\ Ends(proc[p])
<1>1. /\ proc[p] \in Command /\ Plan(proc[p], contacts, groups, members) /\ proc[p].todo # <<>>
      /\ proc[p].op # "none"
  BY DEF BookInv, At
<1>2. Head1(p) = proc[p].todo[1] /\ proc[p].todo[1] \in Statement
  BY <1>1, FirstIsStatement DEF Head1
<1>3. Head1(p).do = do
  BY DEF At
<1>4. QED
  BY <1>1, <1>2, <1>3 DEF Plan

LEMMA EditPops ==
  ASSUME BookInv, NEW p \in Procs, NEW do \in Edits \ {"replace", "bad"}, At(p, do),
         NEW d, NEW h, NEW n,
         do = "put" =>
           d = [contacts EXCEPT ![Head1(p).of] = [addr |-> Head1(p).addr, key |-> Head1(p).key]],
         do = "check" => h = groups /\ n = members,
         do = "member" =>
           h = groups /\ n = [members EXCEPT ![Head1(p).of] = @ \cup {Head1(p).addr}]
  PROVE  After(p) \in Command /\ After(p).op # "none" /\ Plan(After(p), d, h, n)
<1> DEFINE r == proc[p]
<1>0. do # "done" /\ do # "replace"
  BY DEF Edits
<1>1. /\ r \in Command /\ Plan(r, contacts, groups, members)
      /\ r.todo # <<>> /\ Head1(p) = r.todo[1] /\ r.todo[1] \in Statement
      /\ r.todo[1].do = do /\ Head1(p).do = do /\ r.op # "none" /\ Ends(r)
  BY <1>0, AtStatement
<1>2. r.op \in EditOps
  BY <1>0, <1>1, WhoIsAt
<1>3. After(p) = Popped(r)
  BY <1>0, <1>1, AfterPops DEF At
<1>4. Popped(r) \in Command /\ Ends(Popped(r)) /\ Popped(r).op = r.op
  BY <1>0, <1>1, Pops
<1>5. Editing(Popped(r))
  BY <1>0, <1>1, <1>2, EditingPops DEF Plan
<1>6. ASSUME r.op = "import_groups" PROVE Importing(Popped(r), h, n)
  <2>1. Importing(r, groups, members)
    BY <1>1, <1>6 DEF Plan
  <2>2. do \in {"check", "member"}
    BY <1>0, <1>1, <2>1, ImportHead
  <2>3. Book(contacts, groups, members)
    BY DEF BookInv
  <2>4. h = groups /\ n \in [Groups -> SUBSET Addrs]
    BY <1>1, <2>2, <2>3, Kinds DEF Book
  <2>5. r.todo[1].do = "check" => n = members
    BY <1>1
  <2>6. r.todo[1].do = "member" =>
           n = [members EXCEPT ![r.todo[1].of] = @ \cup {r.todo[1].addr}]
    BY <1>1
  <2>7. QED
    BY <1>1, <2>1, <2>2, <2>3, <2>4, <2>5, <2>6, ImportMember
<1>7. ASSUME r.op = "import_contacts" PROVE ImportingContacts(Popped(r), d)
  <2>1. ImportingContacts(r, contacts)
    BY <1>1, <1>7 DEF Plan
  <2>2. do = "put"
    BY <1>0, <1>1, <2>1, ContactHead
  <2>3. contacts \in [Names -> Contact \cup {None}]
    BY DEF BookInv, Book
  <2>4. d = [contacts EXCEPT ![r.todo[1].of] = [addr |-> r.todo[1].addr, key |-> r.todo[1].key]]
    BY <1>1, <2>2
  <2>5. QED
    BY <1>1, <2>1, <2>2, <2>3, <2>4, ImportContact
<1>8. Plan(Popped(r), d, h, n)
  BY <1>2, <1>4, <1>5, <1>6, <1>7 DEF Plan, EditOps
<1>9. QED
  BY <1>1, <1>3, <1>4, <1>8

LEMMA StepPutContact == ASSUME BookInv, NEW p \in Procs, PutContact(p) PROVE BookInv'
<1>1. PICK do \in {"put", "insert"} : At(p, do)
  BY DEF PutContact
<1>2. do \in Edits \ {"replace", "bad"} /\ do # "check" /\ do # "member" /\ do # "done"
  BY DEF Edits
<1>3. After(p) \in Command /\ After(p).op # "none" /\ Plan(After(p), contacts', groups', members')
  <2>1. contacts' = [contacts EXCEPT ![Head1(p).of] = [addr |-> Head1(p).addr, key |-> Head1(p).key]]
    BY DEF PutContact
  <2>2. QED
    BY <1>1, <1>2, <2>1, EditPops
<1>4. Head1(p) \in Statement /\ Head1(p).do = do
  BY <1>1, <1>2, AtStatement
<1>5. Head1(p).of \in Names /\ Head1(p).addr \in Addrs /\ Head1(p).key \in Keys
  BY <1>4, Kinds
<1>6. Book(contacts', groups', members')
  BY <1>5 DEF BookInv, Book, PutContact, Contact
<1>7. QED
  BY <1>3, <1>6, BookWrites DEF PutContact

LEMMA StepDeleteContact == ASSUME BookInv, NEW p \in Procs, DeleteContact(p) PROVE BookInv'
<1>1. At(p, "delete")
  BY DEF DeleteContact
<1>2. After(p) \in Command /\ After(p).op # "none" /\ Plan(After(p), contacts', groups', members')
  <2>1. "delete" \in Edits \ {"replace", "bad"} /\ "delete" # "check" /\ "delete" # "member" /\ "delete" # "put"
    BY DEF Edits
  <2>2. QED
    BY <1>1, <2>1, EditPops
<1>3. Head1(p) \in Statement /\ Head1(p).do = "delete"
  BY <1>1, AtStatement
<1>4. Head1(p).of \in Names
  BY <1>3, Kinds
<1>5. Book(contacts', groups', members')
  BY <1>4 DEF BookInv, Book, DeleteContact
<1>6. QED
  BY <1>2, <1>5, BookWrites DEF DeleteContact

LEMMA StepPutGroup == ASSUME BookInv, NEW p \in Procs, PutGroup(p) PROVE BookInv'
<1> DEFINE r == proc[p]
<1>1. PICK do \in {"create", "replace"} : At(p, do)
  BY DEF PutGroup
<1>2. /\ r \in Command /\ Plan(r, contacts, groups, members) /\ Head1(p) = r.todo[1]
      /\ r.todo[1] \in Statement /\ r.todo[1].do = do /\ r.op # "none" /\ Ends(r) /\ r.todo # <<>>
  BY <1>1, AtStatement
<1>3. r.todo[1].of \in Groups /\ r.todo[1].key \in Keys
  BY <1>2, Kinds
<1>4. Book(contacts', groups', members')
  BY <1>2, <1>3 DEF BookInv, Book, PutGroup
<1>5. CASE do = "create"
  <2>1. After(p) \in Command /\ After(p).op # "none" /\ Plan(After(p), contacts', groups', members')
    BY <1>1, <1>5, EditPops DEF Edits
  <2>2. QED
    BY <1>4, <2>1, BookWrites DEF PutGroup
<1>6. CASE do = "replace"
  <2> DEFINE l == AddMembers(r.todo[1].of, r.todo[1].addr)
             u == Grown(r, l)
  <2>1. After(p) = u
    BY <1>1, <1>2, <1>6 DEF After, Grown
  <2>2. r.todo[1].addr \in SUBSET Addrs
    BY <1>2, <1>6, Kinds
  <2>3. l \in Seq(Statement) /\ \A i \in 1 .. Len(l) : l[i].do \in {"check", "member"}
    BY <1>3, <2>2, AddMembersAre
  <2> HIDE DEF l
  <2>4. /\ u \in Command /\ Ends(u) /\ u.op = r.op /\ Len(l) \in Nat
        /\ Len(u.todo) = Len(l) + Len(r.todo) - 1
        /\ \A i \in 1 .. Len(l) : u.todo[i] = l[i]
        /\ \A i \in 1 .. (Len(r.todo) - 1) : u.todo[Len(l) + i] = r.todo[i + 1]
    BY <1>2, <1>6, <2>3, Grows
  <2>5. r.op \in EditOps
    BY <1>2, <1>6, WhoIsAt DEF Edits
  <2>6. Editing(u)
    <3> SUFFICES ASSUME NEW i \in Left(u) PROVE u.todo[i].do \in Edits
      BY DEF Editing
    <3>1. CASE i \in 1 .. Len(l)
      BY <2>3, <2>4, <3>1 DEF Edits
    <3>2. CASE i \notin 1 .. Len(l)
      <4>1. Len(r.todo) \in Nat
        BY <1>2, LenProperties DEF Command
      <4>2. /\ i - Len(l) \in 1 .. (Len(r.todo) - 1) /\ Len(l) + (i - Len(l)) = i
            /\ (i - Len(l)) + 1 \in 1 .. (Len(r.todo) - 1)
        BY <2>4, <3>2, <4>1 DEF Left
      <4>3. u.todo[i] = r.todo[(i - Len(l)) + 1]
        BY <2>4, <4>2
      <4>4. Editing(r)
        BY <1>2, <2>5 DEF Plan
      <4>5. QED
        BY <4>2, <4>3, <4>4 DEF Editing, Left
    <3>3. QED
      BY <3>1, <3>2
  <2>7. ASSUME r.op = "import_groups" PROVE Importing(u, groups', members')
    <3>1. Importing(r, groups, members) /\ Book(contacts, groups, members)
      BY <1>2, <2>7 DEF Plan, BookInv
    <3>2. /\ groups' = [groups EXCEPT ![r.todo[1].of] = r.todo[1].key]
          /\ members' = [members EXCEPT ![r.todo[1].of] = {}]
      BY <1>2 DEF PutGroup
    <3>3. QED
      BY <1>2, <1>6, <3>1, <3>2, ImportEntry DEF l
  <2>8. r.op # "import_contacts"
    <3>1. r.op = "import_contacts" => ImportingContacts(r, contacts)
      BY <1>2 DEF Plan
    <3>2. QED
      BY <1>2, <1>6, <3>1, ContactHead
  <2>9. Plan(u, contacts', groups', members')
    BY <2>4, <2>5, <2>6, <2>7, <2>8 DEF Plan, EditOps
  <2>10. QED
    BY <1>2, <1>4, <2>1, <2>4, <2>9, BookWrites DEF PutGroup
<1>7. QED
  BY <1>5, <1>6

LEMMA StepPutMember == ASSUME BookInv, NEW p \in Procs, PutMember(p) PROVE BookInv'
<1>1. /\ At(p, "member") /\ groups' = groups
      /\ members' = [members EXCEPT ![Head1(p).of] = @ \cup {Head1(p).addr}]
  BY DEF PutMember
<1>2. "member" \in Edits \ {"replace", "bad"} /\ "member" # "check"
  BY DEF Edits
<1>3. After(p) \in Command /\ After(p).op # "none" /\ Plan(After(p), contacts', groups', members')
  BY <1>1, <1>2, EditPops
<1>4. Head1(p) \in Statement /\ Head1(p).do = "member"
  BY <1>1, AtStatement
<1>5. Head1(p).of \in Groups /\ Head1(p).addr \in Addrs
  BY <1>4, Kinds
<1>6. Book(contacts', groups', members')
  BY <1>5 DEF BookInv, Book, PutMember
<1>7. QED
  BY <1>3, <1>6, BookWrites DEF PutMember

LEMMA StepDropMembers == ASSUME BookInv, NEW p \in Procs, DropMembers(p) PROVE BookInv'
<1>1. PICK do \in {"drop_member", "drop_members"} : At(p, do)
  BY DEF DropMembers
<1>2. do \in Edits \ {"replace", "bad"} /\ do # "check" /\ do # "member" /\ do # "done"
  BY DEF Edits
<1>3. After(p) \in Command /\ After(p).op # "none" /\ Plan(After(p), contacts', groups', members')
  BY <1>1, <1>2, EditPops
<1>4. Head1(p) \in Statement /\ Head1(p).do = do
  BY <1>1, <1>2, AtStatement
<1>5. Head1(p).of \in Groups
  BY <1>4, Kinds
<1>6. Book(contacts', groups', members')
  BY <1>5 DEF BookInv, Book, DropMembers
<1>7. QED
  BY <1>3, <1>6, BookWrites DEF DropMembers

LEMMA StepDropGroup == ASSUME BookInv, NEW p \in Procs, DropGroup(p) PROVE BookInv'
<1>1. At(p, "drop_group")
  BY DEF DropGroup
<1>2. After(p) \in Command /\ After(p).op # "none" /\ Plan(After(p), contacts', groups', members')
  <2>1. "drop_group" \in Edits \ {"replace", "bad"} /\ "drop_group" # "check" /\ "drop_group" # "member"
            /\ "drop_group" # "put"
    BY DEF Edits
  <2>2. QED
    BY <1>1, <2>1, EditPops
<1>3. Head1(p) \in Statement /\ Head1(p).do = "drop_group"
  BY <1>1, AtStatement
<1>4. Head1(p).of \in Groups
  BY <1>3, Kinds
<1>5. Book(contacts', groups', members')
  BY <1>4 DEF BookInv, Book, DropGroup
<1>6. QED
  BY <1>2, <1>5, BookWrites DEF DropGroup

LEMMA StepCheckGroup == ASSUME BookInv, NEW p \in Procs, CheckGroup(p) PROVE BookInv'
<1>1. At(p, "check") /\ Read(p, After(p))
  BY DEF CheckGroup
<1>2. After(p) \in Command /\ After(p).op # "none" /\ Plan(After(p), contacts, groups, members)
  <2>1. "check" \in Edits \ {"replace", "bad"} /\ "check" # "member" /\ "check" # "put"
    BY DEF Edits
  <2>2. QED
    BY <1>1, <2>1, EditPops
<1>3. QED
  BY <1>1, <1>2, BookReads

-----------------------------------------------------------------------------
(* The statements that read.                                                 *)
LEMMA OneLeft ==
  ASSUME NEW r \in Command, LastLeft(r, 1)
  PROVE  Len(r.todo) = 2 /\ \A i \in Left(r) : i = 1
<1> DEFINE n == Len(r.todo)
<1>1. n \in Nat
  BY LenProperties DEF Command
<1>2. 1 = n - 1
  BY DEF LastLeft
<1> HIDE DEF n
<1>3. n = 2 /\ \A i \in 1 .. (n - 1) : i = 1
  BY <1>1, <1>2
<1>4. QED
  BY <1>3 DEF n, Left

LEMMA StepReadContactKeys == ASSUME BookInv, NEW p \in Procs, ReadContactKeys(p) PROVE BookInv'
<1> DEFINE r == proc[p]
<1>1. At(p, "contact_keys")
  BY DEF ReadContactKeys
<1>2. /\ r \in Command /\ Plan(r, contacts, groups, members) /\ r.todo # <<>>
      /\ r.todo[1].do = "contact_keys" /\ r.op # "none" /\ Ends(r) /\ After(p) = Popped(r)
  BY <1>1, AtStatement, AfterPops DEF At
<1>3. r.op \in {"send", "send_group", "run"}
  BY <1>2, WhoIsAt
<1> DEFINE held(a) == {contacts[n].key : n \in {m \in Names : contacts[m] # None
                                                           /\ contacts[m].addr = a}}
           listed == {a \in Addrs : held(a) # {}}
<1>4. PICK failed \in SUBSET listed, pick \in [Addrs -> Keys \cup {None}] :
         /\ \A a \in listed \ failed : pick[a] \in held(a)
         /\ Read(p, [Popped(r) EXCEPT !.keys = pick, !.missed = (@ \ listed) \cup failed])
  BY <1>2 DEF ReadContactKeys
<1> DEFINE v == Popped(r)
           missed == (r.missed \ listed) \cup failed
           u == [v EXCEPT !.keys = pick, !.missed = missed]
<1>5. /\ v \in Command /\ Ends(v) /\ 1 \in Left(r)
      /\ \A i \in Left(v) : i + 1 \in Left(r) /\ v.todo[i] = r.todo[i + 1]
      /\ \A i \in Left(r) : i # 1 => i - 1 \in Left(v)
      /\ \A i \in Left(v) : LastLeft(r, i + 1) => LastLeft(v, i)
      /\ v.op = r.op /\ v.key = r.key /\ v.addr = r.addr /\ v.input = r.input /\ v.calm = r.calm
      /\ v.missed = r.missed
  BY <1>2, Pops
<1>a. Read(p, u)
  BY <1>4, <1>5
<1>b. missed \in SUBSET Addrs /\ \A a \in listed : a \notin missed => a \in listed \ failed
  BY <1>2 DEF Command
<1> HIDE DEF v, missed
<1>6. /\ u \in Command /\ u.todo = v.todo /\ u.op = r.op /\ u.key = r.key /\ u.addr = r.addr
      /\ u.input = r.input /\ u.calm = r.calm /\ u.keys = pick /\ u.missed = missed
  BY <1>5, <1>b DEF Command
<1> HIDE DEF u
<1>7. /\ Ends(u) /\ Left(u) = Left(v)
      /\ \A i \in Left(u) : i + 1 \in Left(r) /\ u.todo[i] = r.todo[i + 1]
      /\ \A i \in Left(r) : i # 1 => i - 1 \in Left(u) /\ (i - 1) + 1 = i
      /\ \A i \in Left(u) : LastLeft(r, i + 1) => LastLeft(u, i)
  <2>1. Left(r) \subseteq Nat
    BY DEF Left
  <2>2. QED
    BY <1>5, <1>6, <2>1 DEF Ends, Left, LastLeft
<1>8. KeysHeld(pick, missed, contacts)
  <2> SUFFICES ASSUME NEW n \in Names, contacts[n] # None, contacts[n].addr \notin missed
               PROVE  \E o \in Names :
                         contacts[o] = [addr |-> contacts[n].addr, key |-> pick[contacts[n].addr]]
    BY DEF KeysHeld
  <2>1. \A x \in Names : contacts[x] # None => contacts[x] \in Contact
    BY DEF BookInv, Book
  <2>2. contacts[n].addr \in Addrs
    BY <2>1 DEF Contact
  <2>3. PICK o \in Names : /\ contacts[o] # None /\ contacts[o].addr = contacts[n].addr
                           /\ contacts[o].key = pick[contacts[n].addr]
    <3> DEFINE a == contacts[n].addr
    <3>1. contacts[n].key \in held(a)
      OBVIOUS
    <3>2. a \in listed
      BY <2>2, <3>1
    <3>3. pick[a] \in held(a)
      BY <1>4, <1>b, <3>2
    <3>4. QED
      BY <3>3
  <2>4. QED
    BY <2>1, <2>3 DEF Contact
<1>9. ASSUME r.op = "send" PROVE Sending(u, contacts)
  <2>1. Sending(r, contacts)
    BY <1>2, <1>9 DEF Plan
  <2>2. /\ u.input # <<>>
        /\ \A i \in Left(u) : \/ u.todo[i].do = "contact_keys"
                              \/ u.todo[i].do = "resolve" /\ u.todo[i].of = u.input[1]
                              \/ u.todo[i].do = "address" /\ u.input[1] \notin Names
                              \/ u.todo[i].do = "send" /\ LastLeft(u, i)
    BY <1>6, <1>7, <2>1 DEF Sending
  <2>3. (\A i \in Left(u) : u.todo[i].do # "resolve") => \A i \in Left(r) : r.todo[i].do # "resolve"
    BY <1>2, <1>7
  <2>4. u.calm /\ u.input[1] \in Names /\ (\A i \in Left(u) : u.todo[i].do # "resolve") =>
           contacts[u.input[1]] # None /\ u.addr = contacts[u.input[1]].addr
    BY <1>6, <2>1, <2>3 DEF Sending
  <2>5. QED
    BY <1>6, <1>8, <2>2, <2>4 DEF Sending
<1>10. ASSUME r.op = "send_group" PROVE SendingGroup(u, groups)
  <2>1. SendingGroup(r, groups)
    BY <1>2, <1>10 DEF Plan
  <2>2. ReadingGroup(r, groups)
    BY <1>2, <1>5, <2>1 DEF SendingGroup, Messaging
  <2>3. (\A i \in Left(u) : u.todo[i].do # "group_key") => \A i \in Left(r) : r.todo[i].do # "group_key"
    BY <1>2, <1>7
  <2>4. ReadingGroup(u, groups)
    BY <1>6, <1>7, <2>2, <2>3 DEF ReadingGroup
  <2>5. QED
    BY <2>4 DEF SendingGroup
<1>11. ASSUME r.op = "run" PROVE Registering(u, groups, members)
  <2>1. Registering(r, groups, members)
    BY <1>2, <1>11 DEF Plan
  <2>2. /\ \E i \in Left(r) : r.todo[i].do = "list_groups"
        /\ \A i \in Left(r) : \/ r.todo[i].do = "contact_keys"
                              \/ r.todo[i].do = "list_groups" /\ LastLeft(r, i)
    BY <1>2, <1>5, <2>1 DEF Registering
  <2>3. \E i \in Left(u) : u.todo[i].do = "list_groups"
    BY <1>2, <1>7, <2>2
  <2>4. \A i \in Left(u) : \/ u.todo[i].do = "contact_keys"
                           \/ u.todo[i].do = "list_groups" /\ LastLeft(u, i)
    BY <1>7, <2>2
  <2>5. QED
    BY <2>3, <2>4 DEF Registering
<1>12. Plan(u, contacts, groups, members)
  BY <1>3, <1>6, <1>7, <1>9, <1>10, <1>11 DEF Plan, EditOps
<1>13. QED
  BY <1>2, <1>a, <1>6, <1>12, BookReads

LEMMA StepResolveName == ASSUME BookInv, NEW p \in Procs, ResolveName(p) PROVE BookInv'
<1> DEFINE r == proc[p]
<1>1. PICK do \in {"resolve", "address"} :
         /\ At(p, do)
         /\ \/ /\ do = "resolve" /\ contacts[Head1(p).of] # None
               /\ Read(p, [After(p) EXCEPT !.addr = contacts[Head1(p).of].addr])
            \/ do = "address" /\ Read(p, [After(p) EXCEPT !.addr = Head1(p).addr])
  BY DEF ResolveName
<1>2. /\ r \in Command /\ Plan(r, contacts, groups, members) /\ r.todo # <<>>
      /\ Head1(p) = r.todo[1] /\ r.todo[1] \in Statement
      /\ r.todo[1].do = do /\ r.op # "none" /\ Ends(r) /\ After(p) = Popped(r)
  BY <1>1, AtStatement, AfterPops DEF At
<1>3. r.op = "send" /\ Sending(r, contacts)
  <2>1. r.op = "send"
    BY <1>2, WhoIsAt
  <2>2. QED
    BY <1>2, <2>1 DEF Plan
<1>4. PICK a \in Addrs : /\ Read(p, [Popped(r) EXCEPT !.addr = a])
                         /\ do = "resolve" => /\ contacts[r.todo[1].of] # None
                                              /\ a = contacts[r.todo[1].of].addr
  <2>1. CASE do = "resolve"
    <3>1. r.todo[1].of \in Names
      BY <1>2, <2>1, Kinds
    <3>2. contacts[r.todo[1].of] \in Contact
      BY <1>1, <1>2, <2>1, <3>1 DEF BookInv, Book
    <3>3. contacts[r.todo[1].of].addr \in Addrs
      BY <3>2 DEF Contact
    <3>4. QED
      BY <1>1, <1>2, <2>1, <3>3
  <2>2. CASE do = "address"
    <3>1. r.todo[1].addr \in Addrs
      BY <1>2, <2>2, Kinds
    <3>2. QED
      BY <1>1, <1>2, <2>2, <3>1
  <2>3. QED
    BY <2>1, <2>2
<1> DEFINE v == Popped(r)
           u == [v EXCEPT !.addr = a]
<1>5. /\ v \in Command /\ Ends(v) /\ 1 \in Left(r)
      /\ \A i \in Left(v) : i + 1 \in Left(r) /\ v.todo[i] = r.todo[i + 1]
      /\ \A i \in Left(r) : i # 1 => i - 1 \in Left(v)
      /\ \A i \in Left(v) : LastLeft(r, i + 1) => LastLeft(v, i)
      /\ v.op = r.op /\ v.keys = r.keys /\ v.key = r.key /\ v.input = r.input /\ v.calm = r.calm
      /\ v.missed = r.missed
  BY <1>2, Pops
<1> HIDE DEF v
<1>6. /\ u \in Command /\ u.todo = v.todo /\ u.op = r.op /\ u.addr = a
      /\ u.input = r.input /\ u.calm = r.calm /\ u.keys = r.keys /\ u.missed = r.missed
  BY <1>5 DEF Command
<1> HIDE DEF u
<1>7. /\ Ends(u) /\ Left(u) = Left(v)
      /\ \A i \in Left(u) : i + 1 \in Left(r) /\ u.todo[i] = r.todo[i + 1]
      /\ \A i \in Left(r) : i # 1 => i - 1 \in Left(u) /\ (i - 1) + 1 = i
      /\ \A i \in Left(u) : LastLeft(r, i + 1) => LastLeft(u, i)
  <2>1. Left(r) \subseteq Nat
    BY DEF Left
  <2>2. QED
    BY <1>5, <1>6, <2>1 DEF Ends, Left, LastLeft
<1>8. Sending(u, contacts)
  <2>1. /\ u.input # <<>>
        /\ \A i \in Left(u) : \/ u.todo[i].do = "contact_keys"
                              \/ u.todo[i].do = "resolve" /\ u.todo[i].of = u.input[1]
                              \/ u.todo[i].do = "address" /\ u.input[1] \notin Names
                              \/ u.todo[i].do = "send" /\ LastLeft(u, i)
    BY <1>3, <1>6, <1>7 DEF Sending
  <2>2. (\A i \in Left(u) : u.todo[i].do # "contact_keys") =>
           \A i \in Left(r) : r.todo[i].do # "contact_keys"
    BY <1>2, <1>7
  <2>3. u.calm /\ (\A i \in Left(u) : u.todo[i].do # "contact_keys") =>
           KeysHeld(u.keys, u.missed, contacts)
    BY <1>3, <1>6, <2>2 DEF Sending
  <2>4. u.input[1] \in Names => contacts[u.input[1]] # None /\ u.addr = contacts[u.input[1]].addr
    <3>1. \/ do = "resolve" /\ r.todo[1].of = r.input[1]
          \/ do = "address" /\ r.input[1] \notin Names
      BY <1>1, <1>2, <1>3, <1>5 DEF Sending
    <3>2. QED
      BY <1>4, <1>6, <3>1
  <2>5. QED
    BY <2>1, <2>3, <2>4 DEF Sending
<1>9. Plan(u, contacts, groups, members)
  BY <1>3, <1>6, <1>7, <1>8 DEF Plan, EditOps
<1>10. QED
  BY <1>2, <1>4, <1>6, <1>9, BookReads DEF u, v

LEMMA StepReadGroupKey == ASSUME BookInv, NEW p \in Procs, ReadGroupKey(p) PROVE BookInv'
<1> DEFINE r == proc[p]
<1>1. /\ At(p, "group_key") /\ groups[Head1(p).of] # None
      /\ Read(p, [After(p) EXCEPT !.key = groups[Head1(p).of]])
  BY DEF ReadGroupKey
<1>2. /\ r \in Command /\ Plan(r, contacts, groups, members) /\ r.todo # <<>>
      /\ Head1(p) = r.todo[1] /\ r.todo[1] \in Statement
      /\ r.todo[1].do = "group_key" /\ r.op # "none" /\ Ends(r) /\ After(p) = Popped(r)
  BY <1>1, AtStatement, AfterPops DEF At
<1>3. r.op = "send_group" /\ SendingGroup(r, groups)
  <2>1. r.op = "send_group"
    BY <1>2, WhoIsAt
  <2>2. QED
    BY <1>2, <2>1 DEF Plan
<1> DEFINE k == groups[r.todo[1].of]
           v == Popped(r)
           u == [v EXCEPT !.key = k]
<1>4. k \in Keys
  <2>1. r.todo[1].of \in Groups
    BY <1>2, Kinds
  <2>2. QED
    BY <1>1, <1>2, <2>1 DEF BookInv, Book
<1>5. /\ v \in Command /\ Ends(v) /\ 1 \in Left(r)
      /\ \A i \in Left(v) : i + 1 \in Left(r) /\ v.todo[i] = r.todo[i + 1]
      /\ \A i \in Left(v) : LastLeft(r, i + 1) => LastLeft(v, i)
      /\ v.op = r.op
  BY <1>2, Pops
<1>6. Read(p, u)
  BY <1>1, <1>2
<1>a. k = groups[r.todo[1].of]
  OBVIOUS
<1> HIDE DEF v, k
<1>7. u \in Command /\ u.todo = v.todo /\ u.op = r.op /\ u.key = k
  BY <1>4, <1>5 DEF Command
<1> HIDE DEF u
<1>8. /\ Ends(u) /\ Left(u) = Left(v) /\ \A i \in Left(u) : LastLeft(v, i) => LastLeft(u, i)
  BY <1>5, <1>7 DEF Ends, Left, LastLeft
<1>9. SendingGroup(u, groups)
  <2>1. ReadingGroup(r, groups)
    BY <1>2, <1>3, <1>5 DEF SendingGroup, Messaging
  <2>2. /\ \A i \in Left(u) : \/ u.todo[i].do \in {"contact_keys", "group_key"}
                              \/ u.todo[i].do = "send_members" /\ LastLeft(u, i)
        /\ \A i, j \in Left(u) :
              u.todo[i].do = "group_key" /\ u.todo[j].do = "send_members" => u.todo[i].of = u.todo[j].of
    BY <1>5, <1>7, <1>8, <2>1 DEF ReadingGroup
  <2>3. ASSUME NEW i \in Left(u), u.todo[i].do = "send_members" PROVE u.key = groups[u.todo[i].of]
    <3>1. i + 1 \in Left(r) /\ u.todo[i] = r.todo[i + 1]
      BY <1>5, <1>7, <1>8
    <3>2. r.todo[1].of = r.todo[i + 1].of
      BY <1>2, <1>5, <2>1, <2>3, <3>1 DEF ReadingGroup
    <3>3. QED
      BY <1>a, <1>7, <3>1, <3>2
  <2>4. ReadingGroup(u, groups)
    BY <2>2, <2>3 DEF ReadingGroup
  <2>5. QED
    BY <2>4 DEF SendingGroup
<1>10. Plan(u, contacts, groups, members)
  BY <1>3, <1>7, <1>8, <1>9 DEF Plan, EditOps
<1>11. QED
  BY <1>3, <1>6, <1>7, <1>10, BookReads

LEMMA StepSend == ASSUME BookInv, NEW p \in Procs, Send(p) PROVE BookInv'
<1> DEFINE r == proc[p]
<1>1. PICK do \in {"send", "message"} :
         /\ At(p, do)
         /\ \/ do = "send" /\ Read(p, After(p))
            \/ do = "message" /\ Read(p, [After(p) EXCEPT !.addr = Head1(p).addr])
  BY DEF Send
<1>2. /\ r \in Command /\ Plan(r, contacts, groups, members) /\ r.todo # <<>>
      /\ Head1(p) = r.todo[1] /\ r.todo[1] \in Statement
      /\ r.todo[1].do = do /\ r.op # "none" /\ Ends(r) /\ After(p) = Popped(r)
  BY <1>1, AtStatement, AfterPops DEF At
<1> DEFINE v == Popped(r)
<1>3. /\ v \in Command /\ Ends(v) /\ 1 \in Left(r)
      /\ \A i \in Left(v) : i + 1 \in Left(r) /\ v.todo[i] = r.todo[i + 1]
      /\ \A i \in Left(r) : i # 1 => i - 1 \in Left(v)
      /\ \A i \in Left(v) : LastLeft(r, i + 1) => LastLeft(v, i)
      /\ v.op = r.op /\ v.keys = r.keys /\ v.key = r.key /\ v.addr = r.addr /\ v.input = r.input
      /\ v.calm = r.calm /\ v.missed = r.missed
  BY <1>2, Pops
<1>4. CASE do = "send"
  <2>0. Read(p, v)
    BY <1>1, <1>2, <1>4
  <2> HIDE DEF v
  <2>1. r.op = "send"
    BY <1>2, <1>4, WhoIsAt
  <2>2. Sending(r, contacts)
    BY <1>2, <2>1 DEF Plan
  <2>3. Left(v) = {}
    <3>1. LastLeft(r, 1)
      BY <1>2, <1>3, <1>4, <2>2 DEF Sending
    <3>2. \A i \in Left(r) : i = 1
      BY <1>2, <3>1, OneLeft
    <3>3. \A i \in Left(v) : i \in Nat /\ i # 0
      BY DEF Left
    <3>4. QED
      BY <1>3, <3>2, <3>3
  <2>4. \A i \in Left(r) : r.todo[i].do = "send"
    <3>1. LastLeft(r, 1)
      BY <1>2, <1>3, <1>4, <2>2 DEF Sending
    <3>2. \A i \in Left(r) : i = 1
      BY <1>2, <3>1, OneLeft
    <3>3. QED
      BY <1>2, <1>4, <3>2
  <2>5. Sending(v, contacts)
    BY <1>3, <2>2, <2>3, <2>4 DEF Sending
  <2>6. Plan(v, contacts, groups, members)
    BY <1>3, <2>1, <2>5 DEF Plan, EditOps
  <2>7. QED
    BY <1>2, <1>3, <2>0, <2>6, BookReads
<1>5. CASE do = "message"
  <2> DEFINE a == r.todo[1].addr
             u == [v EXCEPT !.addr = a]
  <2>1. Read(p, u)
    BY <1>1, <1>2, <1>5
  <2>2. a \in Addrs
    BY <1>2, <1>5, Kinds
  <2> HIDE DEF v, a
  <2>3. /\ u \in Command /\ u.todo = v.todo /\ u.op = r.op /\ u.keys = r.keys /\ u.key = r.key
        /\ u.missed = r.missed /\ u.calm = r.calm
    BY <1>3, <2>2 DEF Command
  <2> HIDE DEF u
  <2>4. Ends(u) /\ Left(u) = Left(v)
    BY <1>3, <2>3 DEF Ends, Left
  <2>5. r.op = "send_group"
    BY <1>2, <1>5, WhoIsAt
  <2>6. SendingGroup(r, groups)
    BY <1>2, <2>5 DEF Plan
  <2>7. SendingGroup(u, groups)
    <3>1. Messaging(r, groups)
      BY <1>2, <1>3, <1>5, <2>6 DEF SendingGroup, ReadingGroup
    <3>2. Messaging(u, groups)
      BY <1>3, <2>3, <2>4, <3>1 DEF Messaging
    <3>3. QED
      BY <3>2 DEF SendingGroup
  <2>8. Plan(u, contacts, groups, members)
    BY <2>3, <2>4, <2>5, <2>7 DEF Plan, EditOps
  <2>9. QED
    BY <2>1, <2>3, <2>5, <2>8, BookReads
<1>6. QED
  BY <1>4, <1>5

LEMMA StepReadSendMembers == ASSUME BookInv, NEW p \in Procs, ReadSendMembers(p) PROVE BookInv'
<1> DEFINE r == proc[p]
           g == r.todo[1].of
           to == members[g] \ {Self}
           l == Messages(g, to)
           v == Grown(r, l)
<1>1. At(p, "send_members")
  BY DEF ReadSendMembers
<1>2. /\ r \in Command /\ Plan(r, contacts, groups, members) /\ r.todo # <<>>
      /\ Head1(p) = r.todo[1] /\ r.todo[1] \in Statement
      /\ r.todo[1].do = "send_members" /\ r.op # "none" /\ Ends(r) /\ After(p) = Popped(r)
  BY <1>1, AtStatement, AfterPops DEF At
<1>3. r.op = "send_group" /\ SendingGroup(r, groups)
  <2>1. r.op = "send_group"
    BY <1>2, WhoIsAt
  <2>2. QED
    BY <1>2, <2>1 DEF Plan
<1>4. PICK failed \in SUBSET to :
         Read(p, [Registered(p, to, r.key, failed) EXCEPT !.todo = l \o @])
  BY <1>2 DEF ReadSendMembers
<1> DEFINE keys == [a \in Addrs |-> IF a \in to \ failed THEN r.key ELSE r.keys[a]]
           missed == (r.missed \ to) \cup failed
           u == [v EXCEPT !.keys = keys, !.missed = missed]
<1>5. to \in SUBSET Addrs /\ g \in Groups
  <2>1. r.todo[1].of \in Groups
    BY <1>2, Kinds
  <2>2. QED
    BY <1>2, <2>1 DEF BookInv, Book
<1>6. /\ Cardinality(to) \in Nat /\ SetToSeq(to) \in [1 .. Cardinality(to) -> to]
  BY <1>5, AddressBookAssumption, FS_Subset, ListOfSet DEF AddressBookAssumption
<1>7. 1 \in Left(r) /\ Len(r.todo) = 2 /\ (r.calm => r.key = groups[g])
  <2>1. 1 \in Left(r)
    BY <1>2, Pops
  <2>2. ReadingGroup(r, groups)
    BY <1>2, <1>3, <2>1 DEF SendingGroup, Messaging
  <2>3. LastLeft(r, 1)
    BY <1>2, <2>1, <2>2 DEF ReadingGroup
  <2>4. Len(r.todo) = 2 /\ \A i \in Left(r) : i = 1
    BY <1>2, <2>3, OneLeft
  <2>5. \A i \in Left(r) : r.todo[i].do # "group_key"
    BY <1>2, <2>4
  <2>6. r.calm => r.key = groups[g]
    BY <1>2, <2>1, <2>2, <2>5 DEF ReadingGroup
  <2>7. QED
    BY <2>1, <2>4, <2>6
<1>8. Read(p, u)
  BY <1>2, <1>4 DEF Registered, Popped, Grown, Command
<1>9. /\ r.keys \in [Addrs -> Keys \cup {None}] /\ r.key \in Keys \cup {None}
      /\ r.missed \in SUBSET Addrs
  BY <1>2 DEF Command
<1> HIDE DEF to, g
<1>10. ASSUME NEW a \in Addrs
       PROVE  LET x == Stmt("message", g, a, None)
              IN x \in Statement /\ x.do = "message" /\ x.addr = a /\ x.of = g
  BY <1>5 DEF Stmt, Statement
<1>11. /\ l \in Seq(Statement) /\ Len(l) = Cardinality(to)
       /\ \A i \in 1 .. Len(l) : l[i].do = "message" /\ l[i].addr \in to /\ l[i].of = g
  <2>1. \A i \in 1 .. Cardinality(to) : SetToSeq(to)[i] \in to /\ SetToSeq(to)[i] \in Addrs
    BY <1>5, <1>6
  <2>2. \A i \in 1 .. Cardinality(to) : l[i] = Stmt("message", g, SetToSeq(to)[i], None)
    BY DEF Messages
  <2>3. \A i \in 1 .. Cardinality(to) :
           l[i] \in Statement /\ l[i].do = "message" /\ l[i].addr \in to /\ l[i].of = g
    BY <1>10, <2>1, <2>2
  <2>4. l \in [1 .. Cardinality(to) -> Statement]
    BY <2>3 DEF Messages
  <2>5. l \in Seq(Statement) /\ Len(l) = Cardinality(to)
    BY <1>6, <2>4
  <2>6. QED
    BY <2>3, <2>5
<1> HIDE DEF l
<1>12. /\ v \in Command /\ Ends(v) /\ Len(l) \in Nat /\ Len(v.todo) = Len(l) + Len(r.todo) - 1
       /\ \A i \in 1 .. Len(l) : v.todo[i] = l[i]
       /\ v.op = r.op /\ v.key = r.key /\ v.calm = r.calm
  BY <1>2, <1>11, Grows
<1> HIDE DEF v
<1>13. /\ keys \in [Addrs -> Keys \cup {None}] /\ missed \in SUBSET Addrs
       /\ \A a \in to : a \notin missed => keys[a] = r.key
  BY <1>5, <1>9
<1> HIDE DEF keys, missed
<1>14. /\ u \in Command /\ u.todo = v.todo /\ u.op = r.op /\ u.key = r.key /\ u.keys = keys
       /\ u.missed = missed /\ u.calm = r.calm
  BY <1>12, <1>13 DEF Command
<1> HIDE DEF u
<1>15. Ends(u) /\ Left(u) = 1 .. Len(l)
  BY <1>7, <1>12, <1>14 DEF Ends, Left
<1>16. \A a \in to : a # Self
  BY DEF to
<1>17. Messaging(u, groups)
  BY <1>7, <1>11, <1>12, <1>13, <1>14, <1>15, <1>16 DEF Messaging
<1>18. Plan(u, contacts, groups, members)
  BY <1>3, <1>14, <1>15, <1>17 DEF Plan, EditOps, SendingGroup
<1>19. QED
  BY <1>3, <1>8, <1>14, <1>18, BookReads

LEMMA StepListGroups == ASSUME BookInv, NEW p \in Procs, ListGroups(p) PROVE BookInv'
<1> DEFINE r == proc[p]
           here == {g \in Groups : groups[g] # None}
           n == Cardinality(here)
           present == SetToSeq(here)
           l == [i \in DOMAIN present |->
                   Stmt("read_members", present[i], None, groups[present[i]])]
           u == Grown(r, l)
<1>1. At(p, "list_groups")
  BY DEF ListGroups
<1>2. /\ r \in Command /\ Plan(r, contacts, groups, members) /\ r.todo # <<>>
      /\ r.todo[1] \in Statement
      /\ r.todo[1].do = "list_groups" /\ r.op # "none" /\ Ends(r) /\ After(p) = Popped(r)
  BY <1>1, AtStatement, AfterPops DEF At
<1>3. Read(p, u)
  BY <1>2 DEF ListGroups, Popped, Grown, Command
<1>4. r.op \in {"run", "export"} /\ 1 \in Left(r)
  BY <1>2, WhoIsAt, Pops
<1>5. Len(r.todo) = 2
  <2>1. CASE r.op = "run"
    <3>1. Registering(r, groups, members)
      BY <1>2, <2>1 DEF Plan
    <3>2. LastLeft(r, 1)
      BY <1>2, <1>4, <3>1 DEF Registering
    <3>3. QED
      BY <1>2, <3>2, OneLeft
  <2>2. CASE r.op = "export"
    <3>1. Exporting(r, groups, members)
      BY <1>2, <2>2 DEF Plan
    <3>2. QED
      BY <1>2, <1>4, <3>1 DEF Exporting
  <2>3. QED
    BY <1>4, <2>1, <2>2
<1>6. r.op = "export" => r.input = <<>>
  <2> SUFFICES ASSUME r.op = "export" PROVE r.input = <<>>
    OBVIOUS
  <2>1. Exporting(r, groups, members)
    BY <1>2 DEF Plan
  <2>2. QED
    BY <1>2, <1>4, <2>1 DEF Exporting
<1>7. groups \in [Groups -> Keys \cup {None}] /\ members \in [Groups -> SUBSET Addrs]
  BY DEF BookInv, Book
<1>8. /\ n \in Nat /\ present \in [1 .. n -> here]
      /\ \A g \in here : \E i \in 1 .. n : present[i] = g
  BY AddressBookAssumption, FS_Subset, ListOfSet DEF AddressBookAssumption
<1>9. \A g \in here : g \in Groups /\ groups[g] \in Keys
  BY <1>7
<1>10. \A g \in Groups : g \in here <=> groups[g] # None
  OBVIOUS
<1> HIDE DEF present, here, n
<1>11. ASSUME NEW g \in here
       PROVE  LET x == Stmt("read_members", g, None, groups[g])
              IN x \in Statement /\ x.do = "read_members" /\ x.of = g /\ x.key = groups[g]
  BY <1>9 DEF Stmt, Statement
<1>12. /\ l \in Seq(Statement) /\ Len(l) = n
       /\ \A i \in 1 .. n : /\ l[i].do = "read_members" /\ l[i].of \in here
                            /\ l[i].key = groups[l[i].of] /\ l[i].of = present[i]
  <2>1. DOMAIN present = 1 .. n /\ \A i \in 1 .. n : present[i] \in here
    BY <1>8
  <2>2. \A i \in 1 .. n : l[i] = Stmt("read_members", present[i], None, groups[present[i]])
    BY <2>1
  <2>3. \A i \in 1 .. n : /\ l[i] \in Statement /\ l[i].do = "read_members" /\ l[i].of = present[i]
                          /\ l[i].key = groups[present[i]]
    BY <1>11, <2>1, <2>2
  <2>4. l \in [1 .. n -> Statement]
    BY <2>1, <2>3
  <2>5. l \in Seq(Statement) /\ Len(l) = n
    BY <1>8, <2>4
  <2> HIDE DEF l
  <2>6. QED
    BY <2>1, <2>3, <2>5
<1> HIDE DEF l
<1>13. \A g \in here : \E i \in 1 .. n : l[i].of = g
  BY <1>8, <1>12
<1>14. /\ u \in Command /\ Ends(u) /\ Len(u.todo) = Len(l) + Len(r.todo) - 1
       /\ \A i \in 1 .. Len(l) : u.todo[i] = l[i]
       /\ u.op = r.op /\ u.keys = r.keys /\ u.input = r.input
  BY <1>2, <1>12, Grows
<1> HIDE DEF u
<1>15. Left(u) = 1 .. n
  BY <1>5, <1>8, <1>12, <1>14 DEF Left
<1>16. \A i \in Left(u) : /\ u.todo[i].do = "read_members" /\ u.todo[i].of \in here
                          /\ u.todo[i].key = groups[u.todo[i].of]
  BY <1>12, <1>14, <1>15
<1>17. \A g \in Groups : groups[g] # None => \E i \in Left(u) : u.todo[i].of = g
  <2>1. \A g \in Groups : groups[g] # None => \E i \in 1 .. n : l[i].of = g
    BY <1>10, <1>13
  <2>2. \A i \in 1 .. n : u.todo[i] = l[i]
    BY <1>12, <1>14
  <2>3. QED
    BY <1>15, <2>1, <2>2
<1>18. Registering(u, groups, members)
  BY <1>16, <1>17 DEF Registering
<1>19. ASSUME r.op = "export" PROVE Exporting(u, groups, members)
  <2>1. ToSet(u.input) = {}
    BY <1>6, <1>14, <1>19 DEF ToSet
  <2>2. {[group |-> u.todo[i].of, key |-> u.todo[i].key, members |-> members[u.todo[i].of]] :
            i \in Left(u)} = Snapshot(groups, members)
    <3>1. ASSUME NEW i \in Left(u)
          PROVE  [group |-> u.todo[i].of, key |-> u.todo[i].key,
                  members |-> members[u.todo[i].of]] \in Snapshot(groups, members)
      BY <1>9, <1>10, <1>16 DEF Snapshot
    <3>2. ASSUME NEW g \in Groups, groups[g] # None
          PROVE  \E i \in Left(u) :
                    [group |-> g, key |-> groups[g], members |-> members[g]]
                      = [group |-> u.todo[i].of, key |-> u.todo[i].key,
                         members |-> members[u.todo[i].of]]
      <4>1. PICK i \in Left(u) : u.todo[i].of = g
        BY <1>17, <3>2
      <4>2. u.todo[i].key = groups[g]
        BY <1>16, <4>1
      <4>3. QED
        BY <4>1, <4>2
    <3> DEFINE each == {[group |-> u.todo[i].of, key |-> u.todo[i].key,
                         members |-> members[u.todo[i].of]] : i \in Left(u)}
    <3>3. each \subseteq Snapshot(groups, members)
      BY <3>1
    <3>4. ASSUME NEW y \in Snapshot(groups, members) PROVE y \in each
      <4>1. PICK g \in Groups :
               groups[g] # None /\ y = [group |-> g, key |-> groups[g], members |-> members[g]]
        BY DEF Snapshot
      <4>2. QED
        BY <3>2, <4>1
    <3>5. QED
      BY <3>3, <3>4
  <2>3. QED
    BY <1>16, <2>1, <2>2 DEF Exporting
<1>20. Plan(u, contacts, groups, members)
  BY <1>4, <1>14, <1>18, <1>19 DEF Plan, EditOps
<1>21. QED
  BY <1>2, <1>3, <1>14, <1>20, BookReads

LEMMA StepReadMembers == ASSUME BookInv, NEW p \in Procs, ReadMembers(p) PROVE BookInv'
<1> DEFINE r == proc[p]
           g == r.todo[1].of
           here == members[g]
           v == Popped(r)
<1>1. At(p, "read_members")
  BY DEF ReadMembers
<1>2. /\ r \in Command /\ Plan(r, contacts, groups, members) /\ r.todo # <<>>
      /\ Head1(p) = r.todo[1] /\ r.todo[1] \in Statement
      /\ r.todo[1].do = "read_members" /\ r.op # "none" /\ Ends(r) /\ After(p) = Popped(r)
  BY <1>1, AtStatement, AfterPops DEF At
<1>3. r.op \in {"run", "export"}
  BY <1>2, WhoIsAt
<1>4. /\ v \in Command /\ Ends(v) /\ 1 \in Left(r)
      /\ \A i \in Left(v) : i + 1 \in Left(r) /\ v.todo[i] = r.todo[i + 1]
      /\ \A i \in Left(r) : i # 1 => i - 1 \in Left(v)
      /\ v.op = r.op /\ v.keys = r.keys /\ v.key = r.key /\ v.input = r.input /\ v.calm = r.calm
      /\ v.missed = r.missed
  BY <1>2, Pops
<1>5. g \in Groups /\ r.todo[1].key \in Keys
  BY <1>2, Kinds
<1>6. here \in SUBSET Addrs /\ groups \in [Groups -> Keys \cup {None}]
  BY <1>5 DEF BookInv, Book
<1>7. r.keys \in [Addrs -> Keys \cup {None}] /\ r.missed \in SUBSET Addrs
  BY <1>2 DEF Command
<1>8. Left(r) \subseteq Nat
  BY DEF Left
<1>9. CASE r.op = "run"
  <2>a. PICK failed \in SUBSET (here \ {Self}) :
           Read(p, Registered(p, here \ {Self}, r.todo[1].key, failed))
    BY <1>2, <1>9 DEF ReadMembers
  <2> DEFINE keys == [a \in Addrs |-> IF a \in (here \ {Self}) \ failed THEN r.todo[1].key
                                      ELSE r.keys[a]]
             missed == (r.missed \ (here \ {Self})) \cup failed
             u == [v EXCEPT !.keys = keys, !.missed = missed]
  <2>1. Read(p, u)
    BY <1>2, <1>4, <2>a DEF Registered
  <2> HIDE DEF v
  <2>2. keys \in [Addrs -> Keys \cup {None}] /\ missed \in SUBSET Addrs
    BY <1>5, <1>6, <1>7
  <2>3. /\ \A a \in Addrs : keys[a] = IF a \in (here \ {Self}) \ failed THEN r.todo[1].key
                                       ELSE r.keys[a]
        /\ failed \subseteq missed
        /\ \A a \in Addrs \ here : a \notin missed => a \notin r.missed
    OBVIOUS
  <2> HIDE DEF keys, missed
  <2>4. /\ u \in Command /\ u.todo = v.todo /\ u.op = r.op /\ u.keys = keys /\ u.calm = r.calm
        /\ u.missed = missed
    BY <1>4, <2>2 DEF Command
  <2> HIDE DEF u
  <2>5. Ends(u) /\ Left(u) = Left(v)
    BY <1>4, <2>4 DEF Ends, Left
  <2>6. Registering(r, groups, members)
    BY <1>2, <1>9 DEF Plan
  <2>7. /\ \A i \in Left(r) : r.todo[i].do = "read_members"
        /\ r.calm =>
             /\ \A i \in Left(r) : r.todo[i].key = groups[r.todo[i].of]
             /\ \A h \in Groups : groups[h] # None /\ (\A i \in Left(r) : r.todo[i].of # h) =>
                   \A a \in members[h] \ ({Self} \cup r.missed) :
                      \E k \in Groups : a \in members[k] /\ r.keys[a] = groups[k]
    BY <1>2, <1>4, <2>6 DEF Registering
  <2>8. \A i \in Left(u) : i + 1 \in Left(r) /\ u.todo[i] = r.todo[i + 1]
    BY <1>4, <2>4, <2>5
  <2>9. ASSUME u.calm, NEW h \in Groups, groups[h] # None, \A i \in Left(u) : u.todo[i].of # h,
               NEW a \in members[h] \ ({Self} \cup u.missed)
        PROVE  \E k \in Groups : a \in members[k] /\ u.keys[a] = groups[k]
    <3>1. a \in Addrs
      BY DEF BookInv, Book
    <3>2. CASE a \in here
      <4>1. u.keys[a] = groups[g]
        BY <1>4, <2>3, <2>4, <2>7, <2>9, <3>1, <3>2
      <4>2. QED
        BY <1>5, <3>2, <4>1
    <3>3. CASE a \notin here
      <4>1. h # g
        BY <3>3
      <4>2. \A i \in Left(r) : r.todo[i].of # h
        <5> SUFFICES ASSUME NEW i \in Left(r), i # 1 PROVE r.todo[i].of # h
          BY <4>1
        <5>1. i - 1 \in Left(u) /\ (i - 1) + 1 = i
          BY <1>4, <1>8, <2>5
        <5>2. QED
          BY <2>8, <2>9, <5>1
      <4>3. \E k \in Groups : a \in members[k] /\ r.keys[a] = groups[k]
        <5>1. a \in members[h] \ ({Self} \cup r.missed)
          BY <2>3, <2>4, <2>9, <3>1, <3>3
        <5>2. QED
          BY <2>4, <2>7, <2>9, <4>2, <5>1
      <4>4. u.keys[a] = r.keys[a]
        BY <2>3, <2>4, <3>1, <3>3
      <4>5. QED
        BY <4>3, <4>4
    <3>4. QED
      BY <3>2, <3>3
  <2>10. Registering(u, groups, members)
    <3>1. \A i \in Left(u) : u.todo[i].do = "read_members"
      BY <2>7, <2>8
    <3>2. u.calm => \A i \in Left(u) : u.todo[i].key = groups[u.todo[i].of]
      BY <2>4, <2>7, <2>8
    <3>3. QED
      BY <2>9, <3>1, <3>2 DEF Registering
  <2>11. Plan(u, contacts, groups, members)
    BY <1>9, <2>4, <2>5, <2>10 DEF Plan, EditOps
  <2>12. QED
    BY <1>9, <2>1, <2>4, <2>11, BookReads
<1>10. CASE r.op = "export"
  <2> DEFINE x == [group |-> g, key |-> r.todo[1].key, members |-> here]
             b == Append(r.input, x)
             u == [v EXCEPT !.input = b]
  <2>1. Read(p, u)
    BY <1>2, <1>3, <1>4, <1>10 DEF ReadMembers
  <2> HIDE DEF v
  <2>2. x \in Entry
    BY <1>5, <1>6 DEF Entry
  <2> HIDE DEF x
  <2>3. r.input \in Seq(Names \cup Addrs \cup ContactEntry \cup Entry \cup {Bad})
    BY <1>2 DEF Command
  <2>4. /\ b \in Seq(Names \cup Addrs \cup ContactEntry \cup Entry \cup {Bad})
        /\ ToSet(b) = ToSet(r.input) \cup {x}
    <3>1. /\ b \in Seq(Names \cup Addrs \cup ContactEntry \cup Entry \cup {Bad})
          /\ Len(b) = Len(r.input) + 1 /\ Len(r.input) \in Nat
          /\ \A i \in 1 .. Len(r.input) : b[i] = r.input[i]
          /\ b[Len(r.input) + 1] = x
      BY <2>2, <2>3, AppendProperties, LenProperties
    <3>2. DOMAIN b = 1 .. Len(r.input) + 1 /\ DOMAIN r.input = 1 .. Len(r.input)
      BY <2>3, <3>1, LenProperties
    <3> HIDE DEF b
    <3>3. \A i \in 1 .. Len(r.input) + 1 : i \in 1 .. Len(r.input) \/ i = Len(r.input) + 1
      BY <3>1
    <3>4. \A i \in 1 .. Len(r.input) : i \in 1 .. Len(r.input) + 1
      BY <3>1
    <3>5. Len(r.input) + 1 \in 1 .. Len(r.input) + 1
      BY <3>1
    <3>6. QED
      BY <3>1, <3>2, <3>3, <3>4, <3>5 DEF ToSet
  <2> HIDE DEF b
  <2>5. /\ u \in Command /\ u.todo = v.todo /\ u.op = r.op /\ u.input = b /\ u.calm = r.calm
    BY <1>4, <2>4 DEF Command
  <2> HIDE DEF u
  <2>6. Ends(u) /\ Left(u) = Left(v)
    BY <1>4, <2>5 DEF Ends, Left
  <2>7. Exporting(r, groups, members)
    BY <1>2, <1>10 DEF Plan
  <2>8. /\ \A i \in Left(r) : r.todo[i].do = "read_members"
        /\ r.calm =>
             /\ \A i \in Left(r) : r.todo[i].key = groups[r.todo[i].of]
             /\ ToSet(r.input) \cup
                  {[group |-> r.todo[i].of, key |-> r.todo[i].key,
                    members |-> members[r.todo[i].of]] : i \in Left(r)}
                  = Snapshot(groups, members)
    BY <1>2, <1>4, <2>7 DEF Exporting
  <2>9. \A i \in Left(u) : i + 1 \in Left(r) /\ u.todo[i] = r.todo[i + 1]
    BY <1>4, <2>5, <2>6
  <2>10. ASSUME u.calm
         PROVE  ToSet(u.input) \cup
                  {[group |-> u.todo[i].of, key |-> u.todo[i].key,
                    members |-> members[u.todo[i].of]] : i \in Left(u)}
                  = Snapshot(groups, members)
    <3> DEFINE rest(q) == {[group |-> q.todo[i].of, key |-> q.todo[i].key,
                            members |-> members[q.todo[i].of]] : i \in Left(q)}
    <3>1. rest(r) = {x} \cup rest(u)
      <4>1. x \in rest(r)
        BY <1>4 DEF x
      <4>2. \A y \in rest(u) : y \in rest(r)
        BY <2>9
      <4>3. ASSUME NEW i \in Left(r), i # 1
            PROVE  [group |-> r.todo[i].of, key |-> r.todo[i].key,
                    members |-> members[r.todo[i].of]] \in rest(u)
        <5>1. i - 1 \in Left(u) /\ (i - 1) + 1 = i
          BY <1>4, <1>8, <2>6, <4>3
        <5>2. u.todo[i - 1] = r.todo[i]
          BY <2>9, <5>1
        <5>3. QED
          BY <5>1, <5>2
      <4>4. x = [group |-> r.todo[1].of, key |-> r.todo[1].key, members |-> members[r.todo[1].of]]
        BY DEF x
      <4>5. QED
        BY <4>1, <4>2, <4>3, <4>4
    <3>2. ToSet(r.input) \cup rest(r) = Snapshot(groups, members)
      BY <2>5, <2>8, <2>10
    <3> HIDE DEF rest
    <3>3. ToSet(u.input) \cup rest(u) = Snapshot(groups, members)
      BY <2>4, <2>5, <3>1, <3>2
    <3>4. QED
      BY <3>3 DEF rest
  <2>11. Exporting(u, groups, members)
    <3>1. \A i \in Left(u) : u.todo[i].do = "read_members"
      BY <2>8, <2>9
    <3>2. u.calm => \A i \in Left(u) : u.todo[i].key = groups[u.todo[i].of]
      BY <2>5, <2>8, <2>9
    <3>3. QED
      BY <2>10, <3>1, <3>2 DEF Exporting
  <2>12. Plan(u, contacts, groups, members)
    BY <1>10, <2>5, <2>6, <2>11 DEF Plan, EditOps
  <2>13. QED
    BY <1>10, <2>1, <2>5, <2>12, BookReads
<1>11. QED
  BY <1>3, <1>9, <1>10

LEMMA StepEnds ==
  ASSUME BookInv, NEW p \in Procs, Refused(p) \/ Finish(p) \/ ProcessDies(p)
  PROVE  BookInv'
<1>1. Fail(p)
  BY DEF Refused, Finish, ProcessDies, Fail
<1>2. QED
  BY <1>1, BookFails

-----------------------------------------------------------------------------
(* What the commands start with.                                             *)
Begun(op, todo, input) ==
    [Idle EXCEPT !.op = op, !.todo = Append(todo, Done), !.input = input]

Inputs == Seq(Names \cup Addrs \cup ContactEntry \cup Entry \cup {Bad})

LEMMA Begins ==
  ASSUME NEW op \in Ops, NEW todo \in Seq(Statement), NEW input \in Inputs
  PROVE  LET r == Begun(op, todo, input)
         IN /\ r \in Command /\ Ends(r) /\ r.op = op /\ r.input = input /\ r.calm
            /\ Len(todo) \in Nat /\ Len(r.todo) = Len(todo) + 1 /\ Left(r) = 1 .. Len(todo)
            /\ \A i \in 1 .. Len(todo) : r.todo[i] = todo[i]
<1> DEFINE r == Begun(op, todo, input)
           s == Append(todo, Done)
<1>1. /\ s \in Seq(Statement) /\ Len(s) = Len(todo) + 1 /\ Len(todo) \in Nat
      /\ \A i \in 1 .. Len(todo) : s[i] = todo[i]
      /\ s[Len(todo) + 1] = Done
  BY DoneIsStatement, AppendProperties, LenProperties
<1> HIDE DEF s
<1>2. /\ r \in Command /\ r.todo = s /\ r.op = op /\ r.input = input /\ r.calm
  BY <1>1 DEF Begun, Idle, Command, NoKeys, Inputs, s
<1> HIDE DEF r
<1>3. s # <<>>
  BY <1>1
<1>4. Ends(r)
  BY <1>1, <1>2, <1>3 DEF Ends
<1>5. Left(r) = 1 .. Len(todo)
  BY <1>1, <1>2 DEF Left
<1>6. QED
  BY <1>1, <1>2, <1>4, <1>5 DEF r

LEMMA NoInput == <<>> \in Inputs
BY DEF Inputs

LEMMA StepStart ==
  ASSUME BookInv, NEW p \in Procs, NEW op \in Ops \ {"none"}, NEW todo \in Seq(Statement),
         NEW input \in Inputs, Start(p, op, todo, input),
         Plan(Begun(op, todo, input), contacts, groups, members)
  PROVE  BookInv'
<1>1. Read(p, Begun(op, todo, input))
  BY DEF Start, Read, Begun
<1>2. Begun(op, todo, input) \in Command /\ Begun(op, todo, input).op = op
  BY Begins
<1>3. QED
  BY <1>1, <1>2, BookReads

LEMMA StepEdit ==
  ASSUME BookInv, NEW p \in Procs, NEW todo \in Seq(Statement), Start(p, "edit", todo, <<>>),
         \A i \in 1 .. Len(todo) : todo[i].do \in Edits
  PROVE  BookInv'
<1> DEFINE r == Begun("edit", todo, <<>>)
<1>1. "edit" \in Ops \ {"none"} /\ <<>> \in Inputs
  BY NoInput DEF Ops, EditOps
<1>2. /\ Ends(r) /\ r.op = "edit" /\ Left(r) = 1 .. Len(todo)
      /\ \A i \in 1 .. Len(todo) : r.todo[i] = todo[i]
  BY <1>1, Begins
<1>3. Editing(r)
  BY <1>2 DEF Editing
<1>4. Plan(r, contacts, groups, members)
  BY <1>2, <1>3 DEF Plan, EditOps
<1>5. QED
  BY <1>1, <1>4, StepStart

LEMMA One ==
  ASSUME NEW x \in Statement
  PROVE  <<x>> \in Seq(Statement) /\ \A i \in 1 .. Len(<<x>>) : <<x>>[i] = x
OBVIOUS

LEMMA Two ==
  ASSUME NEW x \in Statement, NEW y \in Statement
  PROVE  /\ <<x, y>> \in Seq(Statement) /\ Len(<<x, y>>) = 2
         /\ <<x, y>>[1] = x /\ <<x, y>>[2] = y
         /\ \A i \in 1 .. 2 : i = 1 \/ i = 2
OBVIOUS

LEMMA Three ==
  ASSUME NEW x \in Statement, NEW y \in Statement, NEW z \in Statement
  PROVE  /\ <<x, y, z>> \in Seq(Statement) /\ Len(<<x, y, z>>) = 3
         /\ <<x, y, z>>[1] = x /\ <<x, y, z>>[2] = y /\ <<x, y, z>>[3] = z
         /\ \A i \in 1 .. 3 : i = 1 \/ i = 2 \/ i = 3
OBVIOUS

LEMMA StepImportContacts ==
  ASSUME BookInv, NEW p \in Procs, NEW f \in ContactFiles,
         Start(p, "import_contacts", ImportContacts(f), f)
  PROVE  BookInv'
<1> DEFINE l == ImportContacts(f)
           r == Begun("import_contacts", l, f)
<1>1. f \in Seq(ContactEntry \cup {Bad})
  BY AddressBookAssumption DEF AddressBookAssumption
<1>2. Len(f) \in Nat /\ DOMAIN f = 1 .. Len(f) /\ \A i \in 1 .. Len(f) : f[i] \in ContactEntry \cup {Bad}
  BY <1>1, LenProperties, ElementOfSeq
<1>3. f \in Inputs
  <2>1. ContactEntry \cup {Bad} \subseteq Names \cup Addrs \cup ContactEntry \cup Entry \cup {Bad}
    OBVIOUS
  <2>2. QED
    BY <1>1, <1>2, <2>1 DEF Inputs
<1>4. ASSUME NEW i \in 1 .. Len(f)
      PROVE  /\ l[i] \in Statement /\ l[i].do \in Edits
             /\ \/ l[i].do = "bad"
                \/ /\ f[i] \in ContactEntry
                   /\ l[i] = Stmt("put", f[i].name, f[i].addr, f[i].key)
  <2>1. CASE f[i] = Bad
    <3>1. l[i] = On("bad", None)
      BY <1>2, <2>1 DEF ImportContacts
    <3>2. QED
      BY <3>1 DEF On, Stmt, Statement, Edits
  <2>2. CASE f[i] # Bad
    <3>1. l[i] = Stmt("put", f[i].name, f[i].addr, f[i].key)
      BY <1>2, <2>2 DEF ImportContacts
    <3>2. f[i] \in ContactEntry
      BY <1>2, <2>2
    <3>3. f[i].name \in Names /\ f[i].addr \in Addrs /\ f[i].key \in Keys
      BY <3>2 DEF ContactEntry
    <3>4. l[i] \in Statement /\ l[i].do \in Edits
      BY <3>1, <3>3 DEF Stmt, Statement, Edits
    <3>5. QED
      BY <3>1, <3>2, <3>4
  <2>3. QED
    BY <2>1, <2>2
<1>5. l \in Seq(Statement) /\ Len(l) = Len(f)
  <2>1. l \in [1 .. Len(f) -> Statement]
    BY <1>2, <1>4 DEF ImportContacts
  <2>2. QED
    BY <1>2, <2>1
<1> HIDE DEF l
<1>6. /\ Ends(r) /\ r.op = "import_contacts" /\ r.input = f /\ Len(r.todo) = Len(f) + 1
      /\ Left(r) = 1 .. Len(f) /\ \A i \in 1 .. Len(f) : r.todo[i] = l[i]
  <2>1. "import_contacts" \in Ops
    BY DEF Ops, EditOps
  <2>2. QED
    BY <1>3, <1>5, <2>1, Begins
<1> HIDE DEF r
<1>7. Editing(r)
  BY <1>4, <1>6 DEF Editing
<1>8. ContactsImported(r, contacts, 0)
  <2>1. \A i \in 1 .. 0 : FALSE
    OBVIOUS
  <2>2. ASSUME NEW i \in 1 .. (Len(f) - 0)
        PROVE  \/ r.todo[i].do = "bad"
               \/ /\ f[0 + i] \in ContactEntry
                  /\ r.todo[i] = Stmt("put", f[0 + i].name, f[0 + i].addr, f[0 + i].key)
    <3>1. i \in 1 .. Len(f) /\ 0 + i = i
      BY <1>2
    <3>2. QED
      BY <1>4, <1>6, <3>1
  <2>3. QED
    BY <1>6, <2>1, <2>2 DEF ContactsImported
<1>9. ImportingContacts(r, contacts)
  <2>1. 0 \in 0 .. Len(f) /\ Len(f) + 1 = (Len(f) - 0) + 1
    BY <1>2
  <2>2. QED
    BY <1>6, <1>8, <2>1 DEF ImportingContacts
<1>10. Plan(r, contacts, groups, members)
  BY <1>6, <1>7, <1>9 DEF Plan, EditOps
<1>11. QED
  <2>1. "import_contacts" \in Ops \ {"none"}
    BY DEF Ops, EditOps
  <2>2. Start(p, "import_contacts", l, f)
    BY DEF l
  <2>3. QED
    BY <1>3, <1>5, <1>10, <2>1, <2>2, StepStart DEF r

LEMMA StepContacts == ASSUME BookInv, NEW p \in Procs, cmd_contacts(p) PROVE BookInv'
<1>1. ASSUME NEW n \in Names, NEW a \in Addrs, NEW k \in Keys, NEW force \in BOOLEAN,
             Start(p, "edit", AddContact(n, a, k, force), <<>>)
      PROVE  BookInv'
  <2> DEFINE x == Stmt(IF force THEN "put" ELSE "insert", n, a, k)
  <2>1. x \in Statement /\ x.do \in Edits
    BY DEF Stmt, Statement, Edits
  <2> HIDE DEF x
  <2>2. AddContact(n, a, k, force) = <<x>>
    BY DEF AddContact, x
  <2>3. /\ <<x>> \in Seq(Statement) /\ \A i \in 1 .. Len(<<x>>) : <<x>>[i].do \in Edits
    BY <2>1, One
  <2>4. QED
    BY <1>1, <2>2, <2>3, StepEdit
<1>2. ASSUME NEW n \in Names, Start(p, "edit", RemoveContact(n), <<>>) PROVE BookInv'
  <2> DEFINE x == On("delete", n)
  <2>1. x \in Statement /\ x.do \in Edits
    BY DEF On, Stmt, Statement, Edits
  <2> HIDE DEF x
  <2>2. RemoveContact(n) = <<x>>
    BY DEF RemoveContact, x
  <2>3. /\ <<x>> \in Seq(Statement) /\ \A i \in 1 .. Len(<<x>>) : <<x>>[i].do \in Edits
    BY <2>1, One
  <2>4. QED
    BY <1>2, <2>2, <2>3, StepEdit
<1>3. QED
  BY <1>1, <1>2, StepImportContacts DEF cmd_contacts

LEMMA StepImportGroups ==
  ASSUME BookInv, NEW p \in Procs, NEW f \in GroupFiles,
         Start(p, "import_groups", ImportGroups(f), f)
  PROVE  BookInv'
<1> DEFINE l == ImportGroups(f)
           r == Begun("import_groups", l, f)
<1>1. f \in Seq(Entry \cup {Bad})
  BY AddressBookAssumption DEF AddressBookAssumption
<1>2. Len(f) \in Nat /\ DOMAIN f = 1 .. Len(f) /\ \A i \in 1 .. Len(f) : f[i] \in Entry \cup {Bad}
  BY <1>1, LenProperties, ElementOfSeq
<1>3. f \in Inputs
  <2>1. Entry \cup {Bad} \subseteq Names \cup Addrs \cup ContactEntry \cup Entry \cup {Bad}
    OBVIOUS
  <2>2. QED
    BY <1>1, <1>2, <2>1 DEF Inputs
<1>4. ASSUME NEW i \in 1 .. Len(f)
      PROVE  /\ l[i] \in Statement /\ l[i].do \in Edits
             /\ \/ l[i].do = "bad"
                \/ /\ f[i] \in Entry
                   /\ l[i] = Stmt("replace", f[i].group, f[i].members, f[i].key)
  <2>1. CASE f[i] = Bad
    <3>1. l[i] = On("bad", None)
      BY <1>2, <2>1 DEF ImportGroups
    <3>2. QED
      BY <3>1 DEF On, Stmt, Statement, Edits
  <2>2. CASE f[i] # Bad
    <3>1. l[i] = Stmt("replace", f[i].group, f[i].members, f[i].key)
      BY <1>2, <2>2 DEF ImportGroups
    <3>2. f[i] \in Entry
      BY <1>2, <2>2
    <3>3. f[i].group \in Groups /\ f[i].members \in SUBSET Addrs /\ f[i].key \in Keys
      BY <3>2 DEF Entry
    <3>4. l[i] \in Statement /\ l[i].do \in Edits
      BY <3>1, <3>3 DEF Stmt, Statement, Edits
    <3>5. QED
      BY <3>1, <3>2, <3>4
  <2>3. QED
    BY <2>1, <2>2
<1>5. l \in Seq(Statement) /\ Len(l) = Len(f)
  <2>1. l \in [1 .. Len(f) -> Statement]
    BY <1>2, <1>4 DEF ImportGroups
  <2>2. QED
    BY <1>2, <2>1
<1> HIDE DEF l
<1>6. /\ Ends(r) /\ r.op = "import_groups" /\ r.input = f /\ Len(r.todo) = Len(f) + 1
      /\ Left(r) = 1 .. Len(f) /\ \A i \in 1 .. Len(f) : r.todo[i] = l[i]
  <2>1. "import_groups" \in Ops
    BY DEF Ops, EditOps
  <2>2. QED
    BY <1>3, <1>5, <2>1, Begins
<1> HIDE DEF r
<1>7. Editing(r)
  BY <1>4, <1>6 DEF Editing
<1>8. Imported(r, groups, members, 0, 0)
  <2>1. \A i \in 1 .. 0 : FALSE
    OBVIOUS
  <2>2. ASSUME NEW i \in 1 .. (Len(f) - 0)
        PROVE  \/ r.todo[0 + i].do = "bad"
               \/ /\ f[0 + i] \in Entry
                  /\ r.todo[0 + i] = Stmt("replace", f[0 + i].group, f[0 + i].members, f[0 + i].key)
    <3>1. i \in 1 .. Len(f) /\ 0 + i = i
      BY <1>2
    <3>2. QED
      BY <1>4, <1>6, <3>1
  <2>3. QED
    BY <1>6, <2>1, <2>2 DEF Imported
<1>9. Importing(r, groups, members)
  <2>1. 0 \in 0 .. Len(f) /\ Len(f) + 1 = 0 + (Len(f) - 0) + 1
    BY <1>2
  <2>2. QED
    BY <1>6, <1>8, <2>1 DEF Importing
<1>10. Plan(r, contacts, groups, members)
  BY <1>6, <1>7, <1>9 DEF Plan, EditOps
<1>11. QED
  <2>1. "import_groups" \in Ops \ {"none"}
    BY DEF Ops, EditOps
  <2>2. Start(p, "import_groups", l, f)
    BY DEF l
  <2>3. QED
    BY <1>3, <1>5, <1>10, <2>1, <2>2, StepStart DEF r

LEMMA StepGroups == ASSUME BookInv, NEW p \in Procs, cmd_groups(p) PROVE BookInv'
<1>1. ASSUME NEW g \in Groups, NEW k \in Keys, Start(p, "edit", CreateGroup(g, k), <<>>)
      PROVE  BookInv'
  <2> DEFINE x == Stmt("create", g, None, k)
  <2>1. x \in Statement /\ x.do \in Edits
    BY DEF Stmt, Statement, Edits
  <2> HIDE DEF x
  <2>2. CreateGroup(g, k) = <<x>>
    BY DEF CreateGroup, x
  <2>3. /\ <<x>> \in Seq(Statement) /\ \A i \in 1 .. Len(<<x>>) : <<x>>[i].do \in Edits
    BY <2>1, One
  <2>4. QED
    BY <1>1, <2>2, <2>3, StepEdit
<1>2. ASSUME NEW g \in Groups, NEW a \in Addrs, Start(p, "edit", AddMember(g, a), <<>>)
      PROVE  BookInv'
  <2> DEFINE x == On("check", g)
             y == Stmt("member", g, a, None)
  <2>1. x \in Statement /\ x.do \in Edits /\ y \in Statement /\ y.do \in Edits
    BY DEF On, Stmt, Statement, Edits
  <2> HIDE DEF x, y
  <2>2. AddMember(g, a) = <<x, y>>
    BY DEF AddMember, x, y
  <2>3. /\ <<x, y>> \in Seq(Statement) /\ \A i \in 1 .. Len(<<x, y>>) : <<x, y>>[i].do \in Edits
    BY <2>1, Two
  <2>4. QED
    BY <1>2, <2>2, <2>3, StepEdit
<1>3. ASSUME NEW g \in Groups, NEW a \in Addrs, Start(p, "edit", RemoveMember(g, a), <<>>)
      PROVE  BookInv'
  <2> DEFINE x == Stmt("drop_member", g, a, None)
  <2>1. x \in Statement /\ x.do \in Edits
    BY DEF Stmt, Statement, Edits
  <2> HIDE DEF x
  <2>2. RemoveMember(g, a) = <<x>>
    BY DEF RemoveMember, x
  <2>3. /\ <<x>> \in Seq(Statement) /\ \A i \in 1 .. Len(<<x>>) : <<x>>[i].do \in Edits
    BY <2>1, One
  <2>4. QED
    BY <1>3, <2>2, <2>3, StepEdit
<1>4. ASSUME NEW g \in Groups, Start(p, "edit", RemoveGroup(g), <<>>) PROVE BookInv'
  <2> DEFINE x == On("drop_members", g)
             y == On("drop_group", g)
  <2>1. x \in Statement /\ x.do \in Edits /\ y \in Statement /\ y.do \in Edits
    BY DEF On, Stmt, Statement, Edits
  <2> HIDE DEF x, y
  <2>2. RemoveGroup(g) = <<x, y>>
    BY DEF RemoveGroup, x, y
  <2>3. /\ <<x, y>> \in Seq(Statement) /\ \A i \in 1 .. Len(<<x, y>>) : <<x, y>>[i].do \in Edits
    BY <2>1, Two
  <2>4. QED
    BY <1>4, <2>2, <2>3, StepEdit
<1>5. ASSUME Start(p, "export", ExportGroups, <<>>) PROVE BookInv'
  <2> DEFINE x == On("list_groups", None)
             t == <<x>>
             r == Begun("export", t, <<>>)
  <2>1. x \in Statement /\ x.do = "list_groups" /\ "export" \in Ops /\ "export" # "none"
    BY DEF On, Stmt, Statement, Ops, EditOps
  <2> HIDE DEF x
  <2>2. ExportGroups = t
    BY DEF ExportGroups, x
  <2>3. t \in Seq(Statement) /\ Len(t) = 1 /\ t[1] = x /\ 1 \in 1 .. 1
    BY <2>1
  <2> HIDE DEF t
  <2>4. /\ Ends(r) /\ r.op = "export" /\ r.input = <<>> /\ Len(r.todo) = 2 /\ r.todo[1] = x
    <3>1. /\ Ends(r) /\ r.op = "export" /\ r.input = <<>> /\ Len(r.todo) = Len(t) + 1
          /\ \A i \in 1 .. Len(t) : r.todo[i] = t[i]
      <4>1. "export" \in Ops /\ t \in Seq(Statement)
        BY <2>1, <2>3
      <4>2. QED
        BY <4>1, NoInput, Begins
    <3>2. QED
      BY <2>3, <3>1
  <2> HIDE DEF r
  <2>5. Plan(r, contacts, groups, members)
    BY <2>1, <2>4 DEF Plan, EditOps, Exporting
  <2>6. QED
    BY <1>5, <2>1, <2>2, <2>3, <2>5, NoInput, StepStart DEF r
<1>6. QED
  BY <1>1, <1>2, <1>3, <1>4, <1>5, StepImportGroups DEF cmd_groups

LEMMA StepSendTo ==
  ASSUME BookInv, NEW p \in Procs, NEW to \in Names \cup Addrs, NEW todo,
         todo \in {SendTo(to), tool_send_message(to)}, Start(p, "send", todo, <<to>>)
  PROVE  BookInv'
<1> DEFINE x == On("contact_keys", None)
           y == Resolve(to)
           z == On("send", None)
           in == <<to>>
           r == Begun("send", todo, in)
<1>1. /\ x \in Statement /\ x.do = "contact_keys"
      /\ z \in Statement /\ z.do = "send"
  BY DEF On, Stmt, Statement
<1>2. /\ y \in Statement
      /\ \/ y.do = "resolve" /\ y.of = to
         \/ y.do = "address" /\ to \notin Names
  <2>1. CASE to \in Names
    BY <2>1 DEF Resolve, On, Stmt, Statement
  <2>2. CASE to \notin Names
    BY <2>2 DEF Resolve, On, Stmt, Statement
  <2>3. QED
    BY <2>1, <2>2
<1>3. todo = <<x, y, z>> \/ todo = <<y, x, z>>
  BY DEF SendTo, tool_send_message
<1> HIDE DEF x, y, z
<1>4. /\ todo \in Seq(Statement) /\ Len(todo) = 3 /\ todo[3] = z
      /\ \/ todo[1] = x /\ todo[2] = y
         \/ todo[1] = y /\ todo[2] = x
      /\ \A i \in 1 .. 3 : i = 1 \/ i = 2 \/ i = 3
  <2>1. CASE todo = <<x, y, z>>
    BY <1>1, <1>2, <2>1, Three
  <2>2. CASE todo = <<y, x, z>>
    BY <1>1, <1>2, <2>2, Three
  <2>3. QED
    BY <1>3, <2>1, <2>2
<1>5. in \in Inputs /\ in # <<>> /\ in[1] = to
  BY DEF Inputs
<1> HIDE DEF in
<1>6. "send" \in Ops /\ "send" # "none" /\ 1 \in 1 .. 3 /\ 2 \in 1 .. 3 /\ 3 \in 1 .. 3
  BY DEF Ops, EditOps
<1>7. /\ r \in Command /\ Ends(r) /\ r.op = "send" /\ r.input = in /\ Len(r.todo) = 4
      /\ Left(r) = 1 .. 3 /\ \A i \in 1 .. 3 : r.todo[i] = todo[i]
  <2>1. /\ r \in Command /\ Ends(r) /\ r.op = "send" /\ r.input = in
        /\ Len(r.todo) = Len(todo) + 1 /\ Left(r) = 1 .. Len(todo)
        /\ \A i \in 1 .. Len(todo) : r.todo[i] = todo[i]
    <3>1. "send" \in Ops /\ todo \in Seq(Statement) /\ in \in Inputs
      BY <1>4, <1>5, <1>6
    <3>2. QED
      BY <3>1, Begins
  <2>2. QED
    BY <1>4, <2>1
<1> HIDE DEF r
<1>8. /\ r.todo[3] = z /\ LastLeft(r, 3)
      /\ \/ r.todo[1] = x /\ r.todo[2] = y
         \/ r.todo[1] = y /\ r.todo[2] = x
  BY <1>4, <1>6, <1>7 DEF LastLeft
<1>9. \A i \in Left(r) : \/ r.todo[i].do = "contact_keys"
                         \/ r.todo[i].do = "resolve" /\ r.todo[i].of = r.input[1]
                         \/ r.todo[i].do = "address" /\ r.input[1] \notin Names
                         \/ r.todo[i].do = "send" /\ LastLeft(r, i)
  <2> SUFFICES ASSUME NEW i \in Left(r)
               PROVE  \/ r.todo[i].do = "contact_keys"
                      \/ r.todo[i].do = "resolve" /\ r.todo[i].of = to
                      \/ r.todo[i].do = "address" /\ to \notin Names
                      \/ r.todo[i].do = "send" /\ LastLeft(r, i)
    BY <1>5, <1>7
  <2>1. i = 1 \/ i = 2 \/ i = 3
    BY <1>4, <1>7
  <2>2. CASE i = 3
    BY <1>1, <1>8, <2>2
  <2>3. CASE i \in {1, 2}
    <3>1. r.todo[i] = x \/ r.todo[i] = y
      BY <1>8, <2>3
    <3>2. QED
      BY <1>1, <1>2, <3>1
  <2>4. QED
    BY <2>1, <2>2, <2>3
<1>10. \E i \in Left(r) : r.todo[i].do = "contact_keys"
  BY <1>1, <1>6, <1>7, <1>8
<1>11. r.input[1] \in Names => \E i \in Left(r) : r.todo[i].do = "resolve"
  BY <1>2, <1>5, <1>6, <1>7, <1>8
<1>12. Sending(r, contacts)
  BY <1>5, <1>7, <1>9, <1>10, <1>11 DEF Sending
<1>13. Plan(r, contacts, groups, members)
  BY <1>7, <1>12 DEF Plan, EditOps
<1>14. QED
  BY <1>4, <1>5, <1>6, <1>13, StepStart DEF r, in

LEMMA StepSendGroup ==
  ASSUME BookInv, NEW p \in Procs, NEW g \in Groups, Start(p, "send_group", SendGroup(g), <<>>)
  PROVE  BookInv'
<1> DEFINE x == On("contact_keys", None)
           y == On("group_key", g)
           z == On("send_members", g)
           todo == SendGroup(g)
           r == Begun("send_group", todo, <<>>)
<1>1. /\ x \in Statement /\ x.do = "contact_keys"
      /\ y \in Statement /\ y.do = "group_key" /\ y.of = g
      /\ z \in Statement /\ z.do = "send_members" /\ z.of = g
  BY DEF On, Stmt, Statement
<1>2. todo = <<x, y, z>>
  BY DEF SendGroup
<1> HIDE DEF x, y, z, todo
<1>3. /\ todo \in Seq(Statement) /\ Len(todo) = 3
      /\ todo[1] = x /\ todo[2] = y /\ todo[3] = z
      /\ \A i \in 1 .. 3 : i = 1 \/ i = 2 \/ i = 3
  BY <1>1, <1>2, Three
<1>4. "send_group" \in Ops /\ "send_group" # "none" /\ 1 \in 1 .. 3 /\ 2 \in 1 .. 3 /\ 3 \in 1 .. 3
  BY DEF Ops, EditOps
<1>5. /\ r \in Command /\ Ends(r) /\ r.op = "send_group" /\ Len(r.todo) = 4
      /\ Left(r) = 1 .. 3 /\ \A i \in 1 .. 3 : r.todo[i] = todo[i]
  <2>1. /\ r \in Command /\ Ends(r) /\ r.op = "send_group"
        /\ Len(r.todo) = Len(todo) + 1 /\ Left(r) = 1 .. Len(todo)
        /\ \A i \in 1 .. Len(todo) : r.todo[i] = todo[i]
    <3>1. "send_group" \in Ops /\ todo \in Seq(Statement)
      BY <1>3, <1>4
    <3>2. QED
      BY <3>1, NoInput, Begins
  <2>2. QED
    BY <1>3, <2>1
<1> HIDE DEF r
<1>6. r.todo[1] = x /\ r.todo[2] = y /\ r.todo[3] = z /\ LastLeft(r, 3)
  BY <1>3, <1>4, <1>5 DEF LastLeft
<1>7. \A i \in Left(r) : \/ r.todo[i].do \in {"contact_keys", "group_key"}
                         \/ r.todo[i].do = "send_members" /\ LastLeft(r, i)
  BY <1>1, <1>3, <1>5, <1>6
<1>8. SendingGroup(r, groups)
  <2>1. \A i \in Left(r) : r.todo[i].do \in {"group_key", "send_members"} => r.todo[i].of = g
    BY <1>1, <1>3, <1>5, <1>6
  <2>2. \E i \in Left(r) : r.todo[i].do = "group_key"
    BY <1>1, <1>4, <1>5, <1>6
  <2>3. ReadingGroup(r, groups)
    BY <1>7, <2>1, <2>2 DEF ReadingGroup
  <2>4. QED
    BY <2>3 DEF SendingGroup
<1>9. Plan(r, contacts, groups, members)
  BY <1>5, <1>8 DEF Plan, EditOps
<1>10. QED
  BY <1>3, <1>4, <1>9, NoInput, StepStart DEF r, todo

LEMMA StepRun == ASSUME BookInv, NEW p \in Procs, cmd_run(p) PROVE BookInv'
<1> DEFINE x == On("contact_keys", None)
           y == On("list_groups", None)
           todo == Register
           r == Begun("run", todo, <<>>)
<1>1. /\ x \in Statement /\ x.do = "contact_keys"
      /\ y \in Statement /\ y.do = "list_groups"
  BY DEF On, Stmt, Statement
<1>2. todo = <<x, y>> /\ Start(p, "run", todo, <<>>)
  BY DEF Register, cmd_run
<1> HIDE DEF x, y, todo
<1>3. /\ todo \in Seq(Statement) /\ Len(todo) = 2 /\ todo[1] = x /\ todo[2] = y
      /\ \A i \in 1 .. 2 : i = 1 \/ i = 2
  BY <1>1, <1>2, Two
<1>4. "run" \in Ops /\ "run" # "none" /\ 1 \in 1 .. 2 /\ 2 \in 1 .. 2
  BY DEF Ops, EditOps
<1>5. /\ r \in Command /\ Ends(r) /\ r.op = "run" /\ Len(r.todo) = 3
      /\ Left(r) = 1 .. 2 /\ \A i \in 1 .. 2 : r.todo[i] = todo[i]
  <2>1. /\ r \in Command /\ Ends(r) /\ r.op = "run"
        /\ Len(r.todo) = Len(todo) + 1 /\ Left(r) = 1 .. Len(todo)
        /\ \A i \in 1 .. Len(todo) : r.todo[i] = todo[i]
    <3>1. "run" \in Ops /\ todo \in Seq(Statement)
      BY <1>3, <1>4
    <3>2. QED
      BY <3>1, NoInput, Begins
  <2>2. QED
    BY <1>3, <2>1
<1> HIDE DEF r
<1>6. r.todo[1] = x /\ r.todo[2] = y /\ LastLeft(r, 2)
  BY <1>3, <1>4, <1>5 DEF LastLeft
<1>7. \A i \in Left(r) : \/ r.todo[i].do = "contact_keys"
                         \/ r.todo[i].do = "list_groups" /\ LastLeft(r, i)
  BY <1>1, <1>3, <1>5, <1>6
<1>8. \E i \in Left(r) : r.todo[i].do = "list_groups"
  BY <1>1, <1>4, <1>5, <1>6
<1>9. Registering(r, groups, members)
  BY <1>7, <1>8 DEF Registering
<1>10. Plan(r, contacts, groups, members)
  BY <1>5, <1>9 DEF Plan, EditOps
<1>11. QED
  BY <1>2, <1>3, <1>4, <1>10, NoInput, StepStart DEF r

LEMMA StepTools == ASSUME BookInv, NEW p \in Procs, cmd_mcp(p) PROVE BookInv'
<1>1. ASSUME NEW n \in Names, NEW a \in Addrs \ {Self}, NEW k \in Keys,
             Start(p, "edit", tool_add_contact(n, a, k), <<>>)
      PROVE  cmd_contacts(p)
  <2>1. Start(p, "edit", AddContact(n, a, k, FALSE), <<>>)
    BY <1>1 DEF tool_add_contact
  <2>2. QED
    BY <2>1 DEF cmd_contacts
<1>2. ASSUME NEW n \in Names, Start(p, "edit", tool_remove_contact(n), <<>>)
      PROVE  cmd_contacts(p)
  BY <1>2 DEF cmd_contacts, tool_remove_contact
<1>3. ASSUME NEW to \in Names \cup Addrs, Start(p, "send", tool_send_message(to), <<to>>)
      PROVE  BookInv'
  BY <1>3, StepSendTo
<1>4. QED
  BY <1>1, <1>2, <1>3, StepContacts DEF cmd_mcp

-----------------------------------------------------------------------------
LEMMA BookInvInductive == BookInit /\ [][BookNext]_bookVars => []BookInv
<1>1. BookInit => BookInv
  <2> SUFFICES ASSUME BookInit PROVE BookInv
    OBVIOUS
  <2>1. Book(contacts, groups, members)
    BY DEF BookInit, Book
  <2>2. proc \in [Procs -> Command] /\ \A p \in Procs : proc[p] = Idle
    BY IdleIsFine DEF BookInit
  <2>3. QED
    BY <2>1, <2>2, IdleIsFine DEF BookInv
<1>2. BookInv /\ [BookNext]_bookVars => BookInv'
  <2> SUFFICES ASSUME BookInv, [BookNext]_bookVars PROVE BookInv'
    OBVIOUS
  <2>1. CASE UNCHANGED bookVars
    BY <2>1 DEF bookVars, BookInv
  <2>2. ASSUME NEW p \in Procs, cmd_send(p) PROVE BookInv'
    BY <2>2, StepSendTo, StepSendGroup DEF cmd_send
  <2>3. ASSUME NEW p \in Procs, Execute(p) PROVE BookInv'
    BY <2>3, StepPutContact, StepDeleteContact, StepPutGroup, StepPutMember, StepDropMembers,
       StepDropGroup, StepCheckGroup, StepEnds, StepReadContactKeys, StepResolveName,
       StepReadGroupKey, StepReadSendMembers, StepSend, StepListGroups, StepReadMembers
       DEF Execute
  <2>4. QED
    BY <2>1, <2>2, <2>3, StepContacts, StepGroups, StepRun, StepTools, StepEnds DEF BookNext
<1>3. QED
  BY <1>1, <1>2, PTL

\* A command at its end has nothing left.
LEMMA AtEnd ==
  ASSUME BookInv, NEW p \in Procs, At(p, "done"), proc[p].op # "edit"
  PROVE  /\ proc[p] \in Command /\ Plan(proc[p], contacts, groups, members)
         /\ Left(proc[p]) = {} /\ Len(proc[p].todo) = 1 /\ proc[p].op # "none"
<1> DEFINE r == proc[p]
<1>1. /\ r \in Command /\ Plan(r, contacts, groups, members) /\ r.todo # <<>> /\ r.op # "none"
      /\ Ends(r)
  BY DEF BookInv, At, Plan
<1>2. r.todo[1].do = "done"
  BY <1>1, FirstIsStatement DEF At, Head1
<1>3. 1 \notin Left(r)
  <2>1. r.op \in {"import_groups", "import_contacts"} => \A i \in Left(r) : r.todo[i].do # "done"
    BY <1>1 DEF Plan, EditOps, Editing, Edits
  <2>2. r.op = "send_group" => \A i \in Left(r) : r.todo[i].do # "done"
    BY <1>1 DEF Plan, SendingGroup, Messaging, ReadingGroup
  <2>3. r.op = "send" => \A i \in Left(r) : r.todo[i].do # "done"
    BY <1>1 DEF Plan, Sending
  <2>4. r.op = "run" => \A i \in Left(r) : r.todo[i].do # "done"
    BY <1>1 DEF Plan, Registering
  <2>5. r.op = "export" /\ 1 \in Left(r) => r.todo[1].do # "done"
    BY <1>1 DEF Plan, Exporting
  <2>6. QED
    BY <1>1, <1>2, <2>1, <2>2, <2>3, <2>4, <2>5 DEF Command, Ops, EditOps
<1>4. Len(r.todo) \in Nat /\ Len(r.todo) # 0
  BY <1>1, LenProperties, EmptySeq DEF Command
<1>5. Len(r.todo) = 1
  <2> DEFINE n == Len(r.todo)
  <2>1. n \in Nat /\ n # 0 /\ 1 \notin 1 .. (n - 1)
    BY <1>3, <1>4 DEF Left
  <2> HIDE DEF n
  <2>2. n = 1
    BY <2>1
  <2>3. QED
    BY <2>2 DEF n
<1>6. Left(r) = {}
  BY <1>5 DEF Left
<1>7. QED
  BY <1>1, <1>5, <1>6

\* No member of a group that is gone.
LEMMA MembersOfAGroup == BookInv => MembersHaveGroup
<1> SUFFICES ASSUME BookInv PROVE MembersHaveGroup
  OBVIOUS
<1>1. \A p \in Procs : proc[p].keys \in [Addrs -> Keys \cup {None}] /\ proc[p].missed \subseteq Addrs
  BY DEF BookInv, Command
<1>2. QED
  BY <1>1 DEF BookInv, Book, MembersHaveGroup, BookTypeOK

LEMMA RightKey == BookInv => SentUnderRightKey
<1> SUFFICES ASSUME BookInv, NEW p \in Procs
             PROVE  /\ At(p, "message") =>
                         LET to == Head1(p).addr IN
                         /\ to # Self
                         /\ to \notin proc[p].missed =>
                               /\ proc[p].keys[to] = proc[p].key
                               /\ proc[p].calm => proc[p].key = groups[Head1(p).of]
                    /\ At(p, "send") /\ proc[p].calm /\ proc[p].input[1] \in Names =>
                         LET c == contacts[proc[p].input[1]]
                         IN /\ proc[p].addr = c.addr
                            /\ c.addr \notin proc[p].missed => \E n \in Names :
                                  contacts[n] = [addr |-> c.addr, key |-> proc[p].keys[c.addr]]
                    /\ Finished(p, "run") =>
                         \A g \in Groups : \A a \in members[g] \ ({Self} \cup proc[p].missed) :
                            \E h \in Groups : a \in members[h] /\ proc[p].keys[a] = groups[h]
  BY DEF SentUnderRightKey
<1> DEFINE r == proc[p]
<1>1. ASSUME At(p, "message")
      PROVE  /\ Head1(p).addr # Self
             /\ Head1(p).addr \notin r.missed =>
                   /\ r.keys[Head1(p).addr] = r.key
                   /\ r.calm => r.key = groups[Head1(p).of]
  <2>1. /\ r \in Command /\ Plan(r, contacts, groups, members) /\ r.todo # <<>>
        /\ Head1(p) = r.todo[1] /\ r.todo[1].do = "message" /\ r.op # "none" /\ Ends(r)
    BY <1>1, AtStatement
  <2>2. r.op = "send_group" /\ 1 \in Left(r)
    BY <2>1, WhoIsAt, Pops
  <2>3. SendingGroup(r, groups)
    BY <2>1, <2>2 DEF Plan
  <2>4. Messaging(r, groups)
    BY <2>1, <2>2, <2>3 DEF SendingGroup, ReadingGroup
  <2>5. QED
    BY <2>1, <2>2, <2>4 DEF Messaging
<1>2. ASSUME At(p, "send"), r.calm, r.input[1] \in Names
      PROVE  /\ r.addr = contacts[r.input[1]].addr
             /\ contacts[r.input[1]].addr \notin r.missed =>
                   \E n \in Names : contacts[n] = [addr |-> contacts[r.input[1]].addr,
                                                   key |-> r.keys[contacts[r.input[1]].addr]]
  <2>1. /\ r \in Command /\ Plan(r, contacts, groups, members) /\ r.todo # <<>>
        /\ r.todo[1].do = "send" /\ r.op # "none" /\ Ends(r)
    BY <1>2, AtStatement
  <2>2. r.op = "send" /\ 1 \in Left(r)
    BY <2>1, WhoIsAt, Pops
  <2>3. Sending(r, contacts)
    BY <2>1, <2>2 DEF Plan
  <2>4. LastLeft(r, 1)
    BY <2>1, <2>2, <2>3 DEF Sending
  <2>5. \A i \in Left(r) : r.todo[i].do = "send"
    BY <2>1, <2>4, OneLeft
  <2>6. KeysHeld(r.keys, r.missed, contacts)
    BY <1>2, <2>3, <2>5 DEF Sending
  <2>7. contacts[r.input[1]] # None /\ r.addr = contacts[r.input[1]].addr
    BY <1>2, <2>3, <2>5 DEF Sending
  <2>8. QED
    BY <1>2, <2>6, <2>7 DEF KeysHeld
<1>3. ASSUME Finished(p, "run"), NEW g \in Groups, NEW a \in members[g] \ ({Self} \cup r.missed)
      PROVE  \E h \in Groups : a \in members[h] /\ r.keys[a] = groups[h]
  <2>1. At(p, "done") /\ r.op = "run" /\ r.calm
    BY <1>3 DEF Finished
  <2>2. Plan(r, contacts, groups, members) /\ Left(r) = {}
    BY <2>1, AtEnd
  <2>3. Registering(r, groups, members)
    BY <2>1, <2>2 DEF Plan
  <2>4. groups[g] # None
    BY <1>3 DEF BookInv, Book
  <2>5. QED
    BY <1>3, <2>1, <2>2, <2>3, <2>4 DEF Registering
<1>4. QED
  BY <1>1, <1>2, <1>3

LEMMA Faithful == BookInv => BackupFaithful
<1> SUFFICES ASSUME BookInv, NEW p \in Procs
             PROVE  /\ Finished(p, "export") =>
                         ToSet(proc[p].input) =
                           {[group |-> g, key |-> groups[g], members |-> members[g]] :
                              g \in {h \in Groups : groups[h] # None}}
                    /\ Finished(p, "import_groups") =>
                         \A i \in DOMAIN proc[p].input :
                            LET e == proc[p].input[i]
                            IN (\A j \in i + 1 .. Len(proc[p].input) :
                                   proc[p].input[j].group # e.group)
                                 => groups[e.group] = e.key /\ members[e.group] = e.members
                    /\ Finished(p, "import_contacts") =>
                         \A i \in DOMAIN proc[p].input :
                            LET e == proc[p].input[i]
                            IN (\A j \in i + 1 .. Len(proc[p].input) :
                                   proc[p].input[j].name # e.name)
                                 => contacts[e.name] = [addr |-> e.addr, key |-> e.key]
  BY DEF BackupFaithful, LastOf
<1> DEFINE r == proc[p]
<1>1. ASSUME Finished(p, "export") PROVE ToSet(r.input) = Snapshot(groups, members)
  <2>1. At(p, "done") /\ r.op = "export" /\ r.calm
    BY <1>1 DEF Finished
  <2>2. Plan(r, contacts, groups, members) /\ Left(r) = {} /\ Len(r.todo) = 1
    BY <2>1, AtEnd
  <2>3. Exporting(r, groups, members)
    BY <2>1, <2>2 DEF Plan
  <2>4. ToSet(r.input) \cup
           {[group |-> r.todo[i].of, key |-> r.todo[i].key, members |-> members[r.todo[i].of]] :
              i \in Left(r)} = Snapshot(groups, members)
    BY <2>1, <2>2, <2>3 DEF Exporting
  <2>5. QED
    BY <2>2, <2>4
<1>2. ASSUME Finished(p, "import_groups"), NEW i \in DOMAIN r.input,
             \A j \in i + 1 .. Len(r.input) : r.input[j].group # r.input[i].group
      PROVE  /\ groups[r.input[i].group] = r.input[i].key
             /\ members[r.input[i].group] = r.input[i].members
  <2>1. At(p, "done") /\ r.op = "import_groups" /\ r.calm
    BY <1>2 DEF Finished
  <2>2. r \in Command /\ Plan(r, contacts, groups, members) /\ Len(r.todo) = 1
    BY <2>1, AtEnd
  <2>3. Importing(r, groups, members)
    BY <2>1, <2>2 DEF Plan
  <2>4. Len(r.input) \in Nat /\ DOMAIN r.input = 1 .. Len(r.input)
    BY <2>2, LenProperties DEF Command
  <2>5. PICK k \in 0 .. Len(r.input), w \in Nat :
           1 = w + (Len(r.input) - k) + 1 /\ Imported(r, groups, members, k, w)
    BY <2>2, <2>3 DEF Importing
  <2>6. k = Len(r.input) /\ w = 0
    BY <2>4, <2>5
  <2>7. /\ groups[r.input[i].group] = r.input[i].key
        /\ members[r.input[i].group] \subseteq r.input[i].members
        /\ \A a \in r.input[i].members \ members[r.input[i].group] :
              i = k /\ \E j \in 1 .. w : r.todo[j].do = "member" /\ r.todo[j].addr = a
    BY <1>2, <2>1, <2>4, <2>5, <2>6 DEF Imported
  <2>8. 1 .. w = {}
    BY <2>6
  <2>9. QED
    BY <2>7, <2>8
<1>3. ASSUME Finished(p, "import_contacts"), NEW i \in DOMAIN r.input,
             \A j \in i + 1 .. Len(r.input) : r.input[j].name # r.input[i].name
      PROVE  contacts[r.input[i].name] = [addr |-> r.input[i].addr, key |-> r.input[i].key]
  <2>1. At(p, "done") /\ r.op = "import_contacts" /\ r.calm
    BY <1>3 DEF Finished
  <2>2. r \in Command /\ Plan(r, contacts, groups, members) /\ Len(r.todo) = 1
    BY <2>1, AtEnd
  <2>3. ImportingContacts(r, contacts)
    BY <2>1, <2>2 DEF Plan
  <2>4. Len(r.input) \in Nat /\ DOMAIN r.input = 1 .. Len(r.input)
    BY <2>2, LenProperties DEF Command
  <2>5. PICK k \in 0 .. Len(r.input) :
           1 = (Len(r.input) - k) + 1 /\ ContactsImported(r, contacts, k)
    BY <2>2, <2>3 DEF ImportingContacts
  <2>6. k = Len(r.input)
    BY <2>4, <2>5
  <2>7. QED
    BY <1>3, <2>1, <2>4, <2>5, <2>6 DEF ContactsImported
<1>4. QED
  BY <1>1, <1>2, <1>3 DEF Snapshot

\* No member ever belongs to a group that is gone, however add-member and a
\* removal of the group interleave: the foreign key refuses the late insert.
THEOREM MembersAlwaysHaveGroup == BookSpec => []MembersHaveGroup
<1>1. BookInv => MembersHaveGroup
  BY MembersOfAGroup
<1>2. QED
  BY <1>1, BookInvInductive, PTL DEF BookSpec

\* Every message leaves under the right key unless its registration failed: to a
\* member under the key read, which is the group's while nobody writes, and in an
\* undisturbed send or registration under a key held for the address.
THEOREM AlwaysSentUnderRightKey == BookSpec => []SentUnderRightKey
<1>1. BookInv => SentUnderRightKey
  BY RightKey
<1>2. QED
  BY <1>1, BookInvInductive, PTL DEF BookSpec

\* An undisturbed export of the groups is what is stored, and what is stored
\* after an undisturbed import of groups or of contacts is what the file says of
\* each of them, after any number of imports that died half-way.
THEOREM BackupsAreFaithful == BookSpec => []BackupFaithful
<1>1. BookInv => BackupFaithful
  BY Faithful
<1>2. QED
  BY <1>1, BookInvInductive, PTL DEF BookSpec
=============================================================================
