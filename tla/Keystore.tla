------------------------------ MODULE Keystore ------------------------------
(* The files of the data directory that hold the wallet and the settings:    *)
(* keystore.enc (src/src/keystore.rs), written through keystore.tmp, and     *)
(* nano.toml (src/src/config.rs).  Commands run in several processes at once *)
(* and take no lock; each makes one file-system call per step, and may die   *)
(* between any two of them.                                                  *)
EXTENDS Mnemonic

CONSTANTS Shells,       \* the processes, each with one command at a time
          Seeds,        \* the seeds of the wallets there are
          Passwords,    \* passwords, of which
          Short,        \* these have fewer than eight characters
          Settings,     \* keys of nano.toml; Network is one of them
          Network, Values, Default,
          NoFile,       \* what a file may hold besides its contents: no file,
          Empty,        \* truncated and nothing written yet,
          Torn          \* cut off inside the write

DefaultConfig == [k \in Settings |-> Default]
Config == [Settings -> Values]
Wallet == [seed: Seeds, pw: Passwords]

ASSUME KeystoreAssumption ==
    /\ Seeds \subseteq [1 .. SeedBytes -> 0 .. 2^ByteBits - 1]
    /\ Network \in Settings /\ Default \in Values
    /\ Empty # NoFile /\ Torn \notin {Empty, NoFile}
    /\ {NoFile, Empty, Torn} \cap (Wallet \cup Config) = {}

NoWallet == [seed |-> NoSeed, pw |-> "none"]

VARIABLES enc,          \* keystore.enc: NoFile or the wallet it encrypts
          private,      \* keystore.enc has mode 0600
          tmp,          \* keystore.tmp
          toml,         \* nano.toml
          cmd,          \* the command of each process: what it does next, with what
          told,         \* the wallet the last successful command reported
          offered,      \* the passwords commands have taken for a wallet since then
          settled,      \* the settings the successful commands were asked for
          crossed,      \* two commands that write the keystore were under way at once
          raced,        \* two commands that write nano.toml were
          cut           \* some command died while it wrote nano.toml

walletVars == <<enc, private, tmp, toml, cmd, told, offered, settled, crossed, raced, cut>>

\* "file" is where the file is by now that the command opened as keystore.tmp,
\* "key" the setting that it is about, "first" that it writes the first nano.toml.
NoCommand == [next |-> "none", file |-> "none", wallet |-> NoWallet,
              config |-> DefaultConfig, key |-> Network, first |-> FALSE]

\* A command writes the keystore from its look for a wallet, before its prompts,
\* until the permissions are set; and nano.toml from its look at the file.
Writing(p) == cmd[p].next \in {"tmp", "fill", "rename", "mode"}
Saving(p) == cmd[p].next \in {"toml", "save"}

WalletTypeOK ==
    /\ {enc, tmp} \subseteq Wallet \cup {NoFile, Empty, Torn}
    /\ toml \in Config \cup {NoFile, Empty, Torn}
    /\ cmd \in [Shells ->
           [next: {"none", "tmp", "fill", "rename", "mode", "settings", "toml", "save"},
            file: {"none", "tmp", "enc", "gone"}, wallet: Wallet \cup {NoWallet},
            config: Config, key: Settings, first: BOOLEAN]]
    /\ told \in Wallet \cup {NoWallet} /\ offered \subseteq Passwords /\ settled \in Config
    /\ {private, crossed, raced, cut} \subseteq BOOLEAN

WalletInit ==
    /\ enc = NoFile /\ tmp = NoFile /\ toml = NoFile /\ private = FALSE
    /\ cmd = [p \in Shells |-> NoCommand]
    /\ told = NoWallet /\ offered = {} /\ settled = DefaultConfig
    /\ crossed = FALSE /\ raced = FALSE /\ cut = FALSE

------------------------------------------------------------------------------
keystore_exists == enc # NoFile

\* The seed a reader obtains with a password; decryption authenticates it.
load_keystore(pw) ==
    IF enc \in Wallet /\ enc.pw = pw THEN enc.seed ELSE NoSeed

\* --seed wins over the keystore.
load_identity(seed, pw) == IF seed # NoSeed THEN seed ELSE load_keystore(pw)

\* A missing file and an empty one both parse to the defaults.
ConfigOf(file) == IF file \in Config THEN file ELSE DefaultConfig

\* Every command loads nano.toml before it looks at its arguments.
Begin(p) == cmd[p] = NoCommand /\ toml # Torn

\* The command has what create_keystore needs.
Creating(p, c) ==
    /\ cmd' = [cmd EXCEPT ![p] = [c EXCEPT !.next = "tmp"]]
    /\ offered' = offered \cup {c.wallet.pw}
    /\ crossed' = (crossed \/ \E q \in Shells : Writing(q))
    /\ UNCHANGED <<enc, private, tmp, toml, told, settled, raced, cut>>

\* Phrases a user may type: a right one, or one with a word changed, missing
\* or misspelt.
Phrases ==
    UNION {LET p == seed_to_mnemonic(s)
           IN {p, Tail(p), [p EXCEPT ![1] = Unknown],
               [p EXCEPT ![1] = (@ + 1) % 2^WordBits]} : s \in Seeds}

\* Right phrases bring their seed back, and no mistake makes one of a seed that
\* is not in use: a matter of the checksum.
PhrasesRead ==
    /\ \A s \in Seeds : mnemonic_to_seed(seed_to_mnemonic(s)) = s
    /\ \A p \in Phrases : mnemonic_to_seed(p) \in Seeds \cup {NoSeed}

\* How the wizard and `can import` come by a seed: a new one, a phrase, or
\* hexadecimal digits, which may be too few.
Sources ==
    [from: {"generate"}, typed: Seeds] \cup [from: {"mnemonic"}, typed: Phrases] \cup
    [from: {"seed"}, typed: Seeds \cup {Tail(s) : s \in Seeds}]

create_or_import_wallet(source) ==
    CASE source.from = "generate" -> source.typed
      [] source.from = "mnemonic" -> mnemonic_to_seed(source.typed)
      [] source.from = "seed" -> IF Len(source.typed) = SeedBytes THEN source.typed ELSE NoSeed

\* The prompts repeat until two entries agree and are long enough.
get_password == Passwords \ Short

\* can setup: generate or import a wallet, then leave a first nano.toml.
run_wizard(p, network, source, pw) ==
    LET seed == create_or_import_wallet(source) IN
    /\ Begin(p) /\ ~keystore_exists
    /\ seed # NoSeed /\ pw \in get_password
    /\ Creating(p, [NoCommand EXCEPT !.wallet = [seed |-> seed, pw |-> pw], !.first = TRUE,
                                     !.config = [DefaultConfig EXCEPT ![Network] = network]])

\* Faulty variant: an import does not look for a wallet.
ImportOverWallet(p, source, pw) ==
    LET seed == create_or_import_wallet(source) IN
    /\ Begin(p)
    /\ source.from # "generate" /\ seed # NoSeed /\ pw \in get_password
    /\ Creating(p, [NoCommand EXCEPT !.wallet = [seed |-> seed, pw |-> pw]])

\* can import: from a phrase or a hex seed, as on any machine of the user.
cmd_import(p, source, pw) ==
    LET seed == create_or_import_wallet(source) IN
    /\ Begin(p) /\ ~keystore_exists
    /\ source.from # "generate" /\ seed # NoSeed /\ pw \in get_password
    /\ Creating(p, [NoCommand EXCEPT !.wallet = [seed |-> seed, pw |-> pw]])

cmd_change_password(p, old, new) ==
    /\ Begin(p) /\ keystore_exists
    /\ load_keystore(old) # NoSeed /\ new \in get_password
    /\ Creating(p, [NoCommand EXCEPT !.wallet = [seed |-> load_keystore(old), pw |-> new]])

\* The command is about to write nano.toml.
WritesSettings(p, c) ==
    /\ cmd' = [cmd EXCEPT ![p] = [c EXCEPT !.next = "toml"]]
    /\ raced' = (raced \/ \E q \in Shells : Saving(q))
    /\ UNCHANGED <<enc, private, tmp, toml, told, offered, settled, crossed, cut>>

\* Faulty variant: the other settings are left at their defaults.
SetFromDefaults(p, key, value) ==
    /\ Begin(p)
    /\ WritesSettings(p, [NoCommand EXCEPT !.config = [DefaultConfig EXCEPT ![key] = value],
                                           !.key = key])

\* can config set: the whole file is rewritten from the loaded settings.
cmd_config(p, key, value) ==
    /\ Begin(p)
    /\ WritesSettings(p, [NoCommand EXCEPT !.config = [ConfigOf(toml) EXCEPT ![key] = value],
                                           !.key = key])

------------------------------------------------------------------------------
\* Faulty variant: keystore.enc is written in place.
WriteInPlace(p) ==
    /\ \/ /\ cmd[p].next = "tmp" /\ enc' = Empty
          /\ cmd' = [cmd EXCEPT ![p].next = "fill"]
       \/ /\ cmd[p].next = "fill" /\ enc' = cmd[p].wallet
          /\ cmd' = [cmd EXCEPT ![p].next = "mode"]
    /\ UNCHANGED <<tmp, private, toml, told, offered, settled, crossed, raced, cut>>

\* create_keystore, one file-system call per step.  Another command's rename may
\* have moved the open file, or replaced it; all keystores have one length.
WriteTemp(p) ==
    /\ \/ /\ cmd[p].next = "tmp" /\ tmp' = Empty /\ enc' = enc
          /\ cmd' = [cmd EXCEPT ![p].next = "fill", ![p].file = "tmp"]
       \/ /\ cmd[p].next = "fill"
          /\ tmp' = IF cmd[p].file = "tmp" THEN cmd[p].wallet ELSE tmp
          /\ enc' = IF cmd[p].file = "enc" THEN cmd[p].wallet ELSE enc
          /\ cmd' = [cmd EXCEPT ![p].next = "rename", ![p].file = "none"]
    /\ UNCHANGED <<private, toml, told, offered, settled, crossed, raced, cut>>

Moved(file) == CASE file = "tmp" -> "enc" [] file = "enc" -> "gone" [] OTHER -> file

RenameTemp(p) ==
    /\ cmd[p].next = "rename" /\ tmp # NoFile
    /\ enc' = tmp /\ private' = FALSE /\ tmp' = NoFile
    /\ cmd' = [q \in Shells |-> IF q = p THEN [cmd[q] EXCEPT !.next = "mode"]
                                ELSE [cmd[q] EXCEPT !.file = Moved(@)]]
    /\ UNCHANGED <<toml, told, offered, settled, crossed, raced, cut>>

\* Another command has renamed it away.
RenameFails(p) ==
    /\ cmd[p].next = "rename" /\ tmp = NoFile
    /\ cmd' = [cmd EXCEPT ![p] = NoCommand]
    /\ UNCHANGED <<enc, private, tmp, toml, told, offered, settled, crossed, raced, cut>>

SetPermissions(p) ==
    /\ cmd[p].next = "mode"
    /\ private' = TRUE /\ told' = cmd[p].wallet /\ offered' = {}
    /\ cmd' = [cmd EXCEPT ![p] = IF @.first THEN [@ EXCEPT !.next = "settings"] ELSE NoCommand]
    /\ UNCHANGED <<enc, tmp, toml, settled, crossed, raced, cut>>

\* The wizard keeps a nano.toml that is already there.
WriteFirstConfig(p) ==
    /\ cmd[p].next = "settings"
    /\ IF toml = NoFile THEN WritesSettings(p, cmd[p])
       ELSE /\ cmd' = [cmd EXCEPT ![p] = NoCommand]
            /\ UNCHANGED <<enc, private, tmp, toml, told, offered, settled, crossed, raced, cut>>

\* NanoConfig::save_to truncates and writes in place; over another command's
\* longer text it leaves the end of that.
save_to(p) ==
    /\ \/ /\ cmd[p].next = "toml" /\ toml' = Empty
          /\ cmd' = [cmd EXCEPT ![p].next = "save"] /\ UNCHANGED settled
       \/ /\ cmd[p].next = "save"
          /\ toml' \in {cmd[p].config} \cup IF toml = Empty THEN {} ELSE {Torn}
          /\ settled' = [settled EXCEPT ![cmd[p].key] = cmd[p].config[cmd[p].key]]
          /\ cmd' = [cmd EXCEPT ![p] = NoCommand]
    /\ UNCHANGED <<enc, private, tmp, told, offered, crossed, raced, cut>>

\* The process dies; a write under way may have reached the disk in part.
CommandDies(p) ==
    LET c == cmd[p]
        left(file, now) == {file} \cup IF now THEN {Torn} ELSE {}
    IN
    /\ c # NoCommand /\ cmd' = [cmd EXCEPT ![p] = NoCommand]
    /\ tmp' \in left(tmp, c.next = "fill" /\ c.file = "tmp")
    /\ enc' \in left(enc, c.next = "fill" /\ c.file = "enc")
    /\ toml' \in left(toml, c.next = "save")
    /\ cut' = (cut \/ c.next = "save")
    /\ UNCHANGED <<private, told, offered, settled, crossed, raced>>

\* The user removes a file nothing can read.
DeleteTornConfig ==
    /\ \A p \in Shells : ~Saving(p)
    /\ toml = Torn /\ toml' = NoFile
    /\ UNCHANGED <<enc, private, tmp, cmd, told, offered, settled, crossed, raced, cut>>

WalletNext ==
    \/ \E p \in Shells :
          \/ \E s \in Sources, pw \in Passwords :
                (\E v \in Values : run_wizard(p, v, s, pw)) \/ cmd_import(p, s, pw)
          \/ \E old, new \in Passwords : cmd_change_password(p, old, new)
          \/ \E k \in Settings, v \in Values : cmd_config(p, k, v)
          \/ WriteTemp(p) \/ RenameTemp(p) \/ RenameFails(p) \/ SetPermissions(p)
          \/ WriteFirstConfig(p) \/ save_to(p) \/ CommandDies(p)
    \/ DeleteTornConfig

KeystoreSpec == WalletInit /\ [][WalletNext]_walletVars

------------------------------------------------------------------------------
\* As long as no two commands that write the keystore overlap, from the look for
\* a wallet to the permissions: once a wallet is reported, its seed can be read
\* back from keystore.enc at every moment, whatever command died at whatever
\* step, with the password last reported or one that a command took after that.
\* (create_keystore's write-then-rename.)
WalletReadable ==
    /\ WalletTypeOK
    /\ told # NoWallet /\ ~crossed =>
          \E pw \in {told.pw} \cup offered : load_identity(NoSeed, pw) = told.seed

\* As long as none overlap, no command puts a wallet of another seed, or anything
\* but a wallet, in the place of one; and what a command reports is what is
\* stored, readable by the owner only.
WalletKept ==
    [][~crossed' =>
         /\ enc \in Wallet => enc' \in Wallet /\ enc'.seed = enc.seed
         /\ told' # told => enc' = told' /\ private']_walletVars

\* As long as no command died inside a write of nano.toml and no two commands
\* that write it overlapped, the file holds every setting the successful commands
\* left: `config set` and the wizard's first file disturb no other setting.
\* (main.rs cmd_config, run_wizard.)
SettingsSurvive ==
    ~cut /\ ~raced /\ (\A p \in Shells : cmd[p].next # "save") => ConfigOf(toml) = settled
=============================================================================
