----------------------------- MODULE MCCommands -----------------------------
(* The commands of the agent: the two halves of its data directory, funding  *)
(* and discovery.  They share no file and no variable, so no step of one can *)
(* change what another does, and each is explored while the others are as    *)
(* they were created.                                                        *)
EXTENDS Keystore, AddressBook, Funding, Discovery, TLC
CONSTANTS g1, me, a1

Init == WalletInit /\ BookInit /\ FundInit /\ DiscoveryInit

Next ==
    \/ BookInit /\ FundInit /\ DiscoveryInit
       /\ WalletNext /\ UNCHANGED <<bookVars, fundVars, discoveryVars>>
    \/ WalletInit /\ FundInit /\ DiscoveryInit
       /\ BookNext /\ UNCHANGED <<walletVars, fundVars, discoveryVars>>
    \/ WalletInit /\ BookInit /\ DiscoveryInit
       /\ FundNext /\ UNCHANGED <<walletVars, bookVars, discoveryVars>>
    \/ WalletInit /\ BookInit /\ FundInit
       /\ DiscoveryNext /\ UNCHANGED <<walletVars, bookVars, fundVars>>

Spec == Init /\ [][Next]_<<walletVars, bookVars, fundVars, discoveryVars>>

\* Two wallets of three bytes: 24 bits do not divide into 11-bit words, as the
\* 256 bits of a real seed do not.
TwoSeeds == {<<255, 0, 129>>, <<1, 170, 7>>}

\* Stands for eleven bits of a hash.
Sum(seed) == IF seed = NoSeed THEN 0 ELSE (seed[1] * 7 + seed[2] * 5 + seed[3] * 3) % 2^WordBits

\* Files of two contacts with two keys, of one name or two, or of one contact and
\* a malformed entry; of one group, with and without a malformed entry behind it.
ShortContactFiles ==
    LET Entries == {[name |-> n, addr |-> a1, key |-> k] : n \in Names, k \in Keys}
    IN {<<c, Bad>> : c \in Entries} \cup
       {f \in Entries \X Entries : f[1].key # f[2].key}
ShortGroupFiles ==
    {<<[group |-> g1, key |-> k, members |-> {a1, me}]>> : k \in Keys} \cup
    {<<[group |-> g1, key |-> k, members |-> {a1}], Bad>> : k \in Keys}

\* So it is with the two wallets and the stand-in for the hash.
ASSUME PhrasesOfTheRun == PhrasesRead

\* What no property of the wallet and the settings reads any longer makes no two
\* states different: crossed, raced and cut are never taken back.
Telling == <<bookVars, fundVars, discoveryVars, crossed, raced \/ cut,
             IF crossed /\ (raced \/ cut) THEN <<>>
             ELSE <<enc, private, tmp, toml, cmd, raced, cut>>,
             IF crossed THEN <<>> ELSE <<told, offered>>,
             IF raced \/ cut THEN <<>> ELSE <<settled>>>>

\* In the run the good passwords are the keys, and the shells the processes.
Alike == Permutations(Procs) \cup Permutations(Names) \cup Permutations(Keys)
=============================================================================
