------------------------------ MODULE Discovery ------------------------------
(* What `can discover` and `can scan` make of the AlgoChat transactions an   *)
(* indexer returns (algorand.rs, discover_agents; main.rs, cmd_scan): one    *)
(* entry for every address that took part, kept up to date transaction by    *)
(* transaction, in whatever order they come.                                 *)
EXTENDS Integers, FiniteSets, FiniteSetsExt, Sequences, SequencesExt

CONSTANTS Addresses,    \* numbers, in the order of the addresses as strings
          NoAddress,    \* receiver of a transaction that is not a payment
          Rounds,
          AfterRound, Limit   \* what the user asked for

ASSUME DiscoveryAssumption ==
    /\ Addresses \cup {NoAddress} \cup Rounds \subseteq Int
    /\ NoAddress \notin Addresses /\ Limit \in Nat

\* Blocks have a time of their own, which grows with their round.
RoundTime(round) == 10 * round + 3

ChainMessage == [sender: Addresses, receiver: Addresses \cup {NoAddress}, round: Rounds]

VARIABLES messages,     \* the transactions looked at so far
          agents        \* the entries: a function of the addresses met

discoveryVars == <<messages, agents>>

DiscoveryInit == messages = <<>> /\ agents = <<>>

\* or_insert_with, and the comparisons behind it.
AgentEntry(known, address, m) ==
    IF address \in DOMAIN known THEN known[address]
    ELSE [sent |-> 0, received |-> 0, first |-> m.round, last |-> m.round,
          time |-> RoundTime(m.round)]

\* Faulty variant: an entry assumes that transactions come in order.
SeenInOrder(e, m) == [e EXCEPT !.last = m.round, !.time = RoundTime(m.round)]

Seen(e, m) ==
    [e EXCEPT !.first = IF m.round < @ THEN m.round ELSE @,
              !.last = IF m.round > @ THEN m.round ELSE @,
              !.time = IF m.round > e.last THEN RoundTime(m.round) ELSE @]

With(known, address, e) ==
    [a \in DOMAIN known \cup {address} |-> IF a = address THEN e ELSE known[a]]

TrackSender(known, m) ==
    LET e == AgentEntry(known, m.sender, m)
    IN With(known, m.sender, Seen([e EXCEPT !.sent = @ + 1], m))

TrackReceiver(known, m) ==
    IF m.receiver = NoAddress THEN known
    ELSE LET e == AgentEntry(known, m.receiver, m)
         IN With(known, m.receiver, Seen([e EXCEPT !.received = @ + 1], m))

\* The next transaction of the indexer's answer.
scan_all_algochat(m) ==
    /\ Len(messages) < Limit /\ m.round > AfterRound
    /\ messages' = Append(messages, m)

discover_agents(m) == agents' = TrackReceiver(TrackSender(agents, m), m)

\* cmd_scan: the conversations, each under the lesser address first.
Pairs ==
    {IF m.sender < m.receiver THEN <<m.sender, m.receiver>> ELSE <<m.receiver, m.sender>> :
        m \in Range(messages)}

DiscoveryNext == \E m \in ChainMessage : scan_all_algochat(m) /\ discover_agents(m)

DiscoverySpec == DiscoveryInit /\ [][DiscoveryNext]_discoveryVars

------------------------------------------------------------------------------
\* The positions of the transactions a took part in.
Of(a) == {i \in DOMAIN messages : a \in {messages[i].sender, messages[i].receiver}}

\* Whatever the order of the answer: everybody who took part is listed once,
\* with the transactions it sent and received (one to itself is both), the
\* first and the last round it was seen in and the time of the latter; and two
\* addresses are one conversation, whoever wrote to whom.
DiscoveredMatchesChain ==
    /\ DOMAIN agents = {a \in Addresses : Of(a) # {}}
    /\ \A a \in DOMAIN agents :
          LET rounds == {messages[i].round : i \in Of(a)}
          IN agents[a] = [sent |-> Cardinality({i \in Of(a) : messages[i].sender = a}),
                          received |-> Cardinality({i \in Of(a) : messages[i].receiver = a}),
                          first |-> Min(rounds), last |-> Max(rounds),
                          time |-> RoundTime(Max(rounds))]
    /\ Cardinality(Pairs) = Cardinality({{m.sender, m.receiver} : m \in Range(messages)})
=============================================================================
