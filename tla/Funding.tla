------------------------------- MODULE Funding -------------------------------
(* can fund on a local network (main.rs, cmd_fund): a transfer from the      *)
(* first account of KMD's default wallet, in one request after the other to  *)
(* KMD and to the node.  Any request may fail or remain unanswered, and then *)
(* the command ends with an error and the user may run it again.             *)
EXTENDS Naturals, FiniteSets

CONSTANTS Amounts,      \* amounts a user asks for
          MaxRuns,      \* commands run, and
          MaxRound      \* rounds the network produces: bounds of the model

ASSUME FundingAssumption == Amounts # {} /\ MaxRuns \in Nat /\ MaxRound \in Nat

VARIABLES at,           \* what the command asks for next, or "idle"
          payment,      \* what it transfers: the amount and the round it is valid from
          runs,
          round,        \* the network's latest round
          ledger,       \* the payments the network has accepted
          reported,     \* "Funded!" printed, how often for which payment
          unanswered    \* submissions whose answer was lost

chainVars == <<ledger, reported, unanswered>>
fundVars == <<at, payment, runs, round, chainVars>>

Payments == [amount: Amounts, first_valid: 0 .. MaxRound]

FundTypeOK ==
    /\ at \in {"idle", "wallets", "init", "keys", "params", "sign", "submit", "release"}
    /\ payment \in Payments /\ ledger \subseteq Payments
    /\ reported \in [Payments -> Nat]
    /\ runs \in 0 .. MaxRuns /\ round \in 0 .. MaxRound
    /\ unanswered \in Nat

FundInit ==
    /\ at = "idle" /\ runs = 0 /\ round = 0
    /\ payment = [amount |-> CHOOSE a \in Amounts : TRUE, first_valid |-> 0]
    /\ ledger = {} /\ reported = [p \in Payments |-> 0]
    /\ unanswered = 0

------------------------------------------------------------------------------
cmd_fund(amount) ==
    /\ at = "idle" /\ runs < MaxRuns
    /\ at' = "wallets" /\ runs' = runs + 1
    /\ payment' = [amount |-> amount, first_valid |-> 0]
    /\ UNCHANGED <<round, chainVars>>

Asks(now, next) == at = now /\ at' = next

ListWallets ==
    /\ Asks("wallets", "init")
    /\ UNCHANGED <<payment, runs, round, chainVars>>

InitWallet ==
    /\ Asks("init", "keys")
    /\ UNCHANGED <<payment, runs, round, chainVars>>

\* There is an account to pay from.
ListKeys ==
    /\ Asks("keys", "params")
    /\ UNCHANGED <<payment, runs, round, chainVars>>

\* The latest round becomes the first in which the payment is valid.
SuggestedParams ==
    /\ Asks("params", "sign")
    /\ payment' = [payment EXCEPT !.first_valid = round]
    /\ UNCHANGED <<runs, round, chainVars>>

\* KMD signs; the signature depends on the payment alone.
Sign ==
    /\ Asks("sign", "submit")
    /\ UNCHANGED <<payment, runs, round, chainVars>>

\* A node takes a payment once: a second one that is the same in every field
\* has the same id.
Accepts == payment \notin ledger

\* Faulty variant: the status of the answer is not looked at.
SubmitUnchecked ==
    /\ at = "submit" /\ at' = "release"
    /\ ledger' = ledger \cup {payment}
    /\ reported' = [reported EXCEPT ![payment] = @ + 1]
    /\ UNCHANGED <<payment, runs, round, unanswered>>

\* The payment is accepted or refused; the answer may not arrive.
Submit ==
    /\ at = "submit"
    /\ \/ Accepts /\ at' = "release" /\ ledger' = ledger \cup {payment}
          /\ reported' = [reported EXCEPT ![payment] = @ + 1] /\ UNCHANGED unanswered
       \/ ~Accepts /\ at' = "idle" /\ UNCHANGED <<ledger, reported, unanswered>>
       \/ Accepts /\ at' = "idle" /\ ledger' = ledger \cup {payment}
          /\ unanswered' = unanswered + 1 /\ UNCHANGED reported
    /\ UNCHANGED <<payment, runs, round>>

\* The release of KMD's handle is tried once and its failure ignored.
Release ==
    /\ Asks("release", "idle")
    /\ UNCHANGED <<payment, runs, round, chainVars>>

\* A request fails before it has had an effect, or the command is interrupted.
FundFails ==
    /\ at # "idle" /\ at' = "idle"
    /\ UNCHANGED <<payment, runs, round, chainVars>>

NewRound ==
    /\ round < MaxRound /\ round' = round + 1
    /\ UNCHANGED <<at, payment, runs, chainVars>>

FundNext ==
    \/ \E a \in Amounts : cmd_fund(a)
    \/ ListWallets \/ InitWallet \/ ListKeys \/ SuggestedParams \/ Sign
    \/ Submit \/ Release \/ FundFails \/ NewRound

FundSpec == FundInit /\ [][FundNext]_fundVars

------------------------------------------------------------------------------
\* Every "Funded!" is one payment on the ledger of its own, and the ledger has
\* no other payments but those whose answer was lost, however often the user
\* tries again and however close together the rounds are.
FundedAsReported ==
    /\ FundTypeOK
    /\ \A p \in Payments : reported[p] = 0 \/ (reported[p] = 1 /\ p \in ledger)
    /\ Cardinality(ledger) = Cardinality({p \in Payments : reported[p] > 0}) + unanswered
=============================================================================
