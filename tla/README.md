# A verification development for corvid-agent-nano

This directory holds TLA+ specifications of corvid-agent-nano - its concurrent and
failure-prone parts, the commands that keep its data, and its pure algorithms -, the TLC
configurations that model-check them on small instances, and proofs, checked by TLAPS, of what
matters most for every instance. Paths below are relative to the repository.

Conventions. A module is named for the component it models, a variable or action for the
field or function it stands for. An action whose comment starts with "Faulty variant" is not
part of any specification: it is the code with a plausible bug in it, and shows that a
property would notice. Variables marked "history" record what happened and influence nothing.
A module about a component declares no more than that component; modules named `MC...` choose
plugin sets, releases or files for TLC and put several components into one state graph.
Bounds are CONSTANTS, named `Max...` or `Limit`.

## 1. The system and its parts

`can` is an agent on the Algorand chain. It reads encrypted messages addressed to it, hands
them to plugins or to a hub, and answers on chain. Around that core it serves an HTTP task
endpoint, supervises a process that runs WASM plugins, and keeps its keys, contacts, groups
and message cache in files and SQLite databases.

| Part | Source | State | Operations | Talks to |
| --- | --- | --- | --- | --- |
| plugin slot | `crates/corvid-plugin-host/src/registry.rs` | `state`, `active_calls`, `module` of one plugin | `try_acquire`, guard drop, `drain_and_reload`, `unload` | request handlers, by shared `Arc` |
| plugin registry, request handlers | `registry.rs`, `main.rs` of the host | map id -> slot under an async RwLock | `plugin.load/unload/reload/invoke/event/list/tools`, `health.check` | slots, loader, WASM threads; clients over the socket |
| loader, executor, discovery, invoke | `loader.rs`, `executor.rs`, `discovery.rs`, `invoke.rs`, `wasm_mem.rs`, `engine.rs` | none between calls | signature and manifest checks, one call into WASM | wasmtime |
| sandbox, host functions | `sandbox.rs`, `host_functions/*` | memory counters, one key-value store for all plugins | storage, db, fs, http, llm, tts, algo, messaging calls | files, SQLite, network |
| bridge | `src/bridge.rs` | `conn`, `next_id` | `connect`, `call` and its typed wrappers | the host, by lines on a Unix socket |
| sidecar supervisor | `src/sidecar.rs` | backoff, child process, `Notify` | spawn, wait, back off, `shutdown` | the host process, its socket file |
| plugin runtime | `crates/nano-runtime` | event channel, plugin list, state store | `add_plugin`, `run`, `dispatch_event`, `execute_action` | transport, built-in plugins `hub` and `auto-reply` |
| transport | `crates/nano-transport`, `src/algochat_transport.rs` | inbox, sync position | `recv`, `send` | the chain |
| legacy message loop | `src/agent.rs` | none of its own | `run_message_loop`, `send_reply` | chain, hub, message cache |
| A2A server | `src/a2a.rs` | `TaskStore`: map and order, one worker per task | create, list, get, cancel; `process_task` | hub, by HTTP |
| message cache, key storage | `src/storage.rs` | tables `messages`, `sync_rounds`, `keys` | `store`, `retrieve`, `set_last_sync_round`, `clear` | SQLite |
| contacts, groups | `src/contacts.rs`, `src/groups.rs` | tables with foreign keys | add, remove, rename, import, export | SQLite |
| keystore, wallet | `src/keystore.rs`, `src/wallet.rs` | one encrypted file | create, load, change password | file system |
| chain client | `src/algorand.rs`, `src/transaction.rs` | none | encode, sign, submit, search | algod, indexer |
| MCP server | `src/mcp.rs` | none between requests | tools over stdin/stdout | the stores above |
| command line | `src/main.rs`, `config.rs`, `wizard.rs`, `ui.rs` | configuration | 20-odd commands; `cmd_run` assembles the agent | all of the above |
| TypeScript bridge | `server/plugins/rust-bridge.ts`, `server/routes/plugins.ts` | socket, pending calls, registered tools, timers | `connect`, `disconnect`, `rpc`, `refreshTools`, notifications | the host |
| SDK, macros, plugin CLI, example plugins | `crates/corvid-plugin-sdk`, `-macros`, `-cli`, `plugins/*` | none in the agent | types, code generation, plugin code | the host, by its ABI |

How they interact: the agent's process runs one Tokio runtime. `cmd_run` spawns the sidecar
supervisor, waits for the host's socket, connects a bridge, spawns the A2A server and then
runs either the plugin runtime or the legacy message loop until ctrl-c, after which it shuts
the supervisor down. The host is a second process with a Tokio runtime of its own: one task
per connection, requests of one connection served one after the other, requests of several
connections interleaved at every await and, in the slots, at every atomic access. WASM code
runs on blocking threads that cannot be aborted.

What is hard, and what therefore has to be right:

* **plugin slots** - lock-free counting against a drain. No call may run while its module is
  swapped; the count must be exact, or drains wait for nobody or for ever; a slot must never be
  left refusing calls; reloads and invocations must return although plugin code need not.
* **registry** - handlers keep a slot across awaits while others unload and load the same id.
  Two generations of one plugin must not run side by side, and what is taken out of the map
  must be unloaded.
* **runtime** - the event loop is producer and consumer of one bounded channel and awaits
  plugin code. No message may be skipped because another plugin or a send failed, receipts
  must match sends, and shutdown must be answered.
* **A2A server** - workers, cancellations and evictions race. An outcome must never be
  overwritten, both halves of the store must agree, every open task must end.
* **bridge** - replies are matched by order alone. A call must take its own reply, and return.
* **sidecar** - `shutdown` may be called in any state of the restart cycle. Afterwards there
  must be no process and no socket file; before, a host that dies must come back.
* **TypeScript bridge** - one object is called, timed and notified in any order. There must be
  one connection and not two, no call may wait on one that is gone, and no tool may outlive it.
* **message loop** - a crash may come between caching a message, moving the bookmark and
  answering it. No message may be answered twice, and every message must get into the cache.
* **keystore, settings** - files are written in several steps and read at any moment. A wallet
  must never be lost or replaced, nor a setting, by any command that runs undisturbed. No lock keeps
  two commands apart.
* **contacts, groups** - a command is several SQL statements, another command comes between any
  two, and a replaced row cascades. Members must have a group, backups be complete, and a
  message leave under the key it should.
* **plugin installation** - the installer, the host's scan and its loader work on one directory.
  What is trusted must have been signed, and one broken file must not keep others out.
* **plugin tools** - instances run in parallel over one key-value store and may trap anywhere.
  What an LLM is asked must be well formed and a conversation be remembered.
* **funding, discovery, load order, recovery phrases** - retries after lost answers, unordered
  input, repeated input, bits that do not divide evenly.

## 2. Modules

| Module | Models | EXTENDS or implements |
| --- | --- | --- |
| `PluginSlot` | `PluginSlot`, `CallGuard`, the handlers of one plugin, access by access | implements `DrainGate` |
| `DrainGate` | abstract: a gate that is closed, waits to be empty, and is opened or removed | |
| `PluginRegistry` | the map of slots and the requests that hold slots across awaits | |
| `PluginTools` | the example plugins' tools, one host call at a time, over the key-value store | |
| `PluginInstall` | the plugin CLI's install and uninstall, the loader, the host's scan | |
| `LoadOrder` | `topological_order` and `check_dependencies` | |
| `NanoRuntime` | `Runtime`, its bus, its built-in plugins' actions, and what `cmd_run` does around it | |
| `A2ATasks` | `TaskStore`, the handlers and `process_task` | implements `TaskBoard` |
| `TaskBoard` | abstract: tasks that are open, end once with one outcome, and are forgotten | |
| `PluginBridge` | `bridge.rs` and the connection handler of the host | |
| `TsBridge` | `rust-bridge.ts` | |
| `Sidecar` | `cmd_run` from start to end, `sidecar.rs`, the start of the host process | |
| `MessageLoop` | `agent.rs`, and the cache and bookmark of `storage.rs` | |
| `Keystore` | `keystore.rs`, `config.rs`, `wizard.rs` and the commands that write the files | extends `Mnemonic` |
| `Mnemonic` | the recovery phrase of `wallet.rs` | |
| `AddressBook` | `contacts.rs`, `groups.rs` and the commands and MCP tools that use them | |
| `Funding` | `cmd_fund` | |
| `Discovery` | `scan_all_algochat`, `discover_agents`, the pairs of `cmd_scan` | |
| `MCPluginRegistry`, `MCNanoRuntime` | instances for TLC | |
| `MCPluginHost` | registry, tools, installation and load order in one state graph | |
| `MCAgentLifecycle` | `Sidecar` and `MessageLoop` | |
| `MCEndpoints` | `A2ATasks`, `PluginBridge` and `TsBridge` | |
| `MCCommands` | `Keystore`, `AddressBook`, `Funding` and `Discovery` | |
| `PluginSlotProofs`, `RegistryProofs`, `NanoRuntimeProofs`, `A2ATasksProofs` | theorems about the module of that name | |
| `HostProofs` | theorems about `PluginInstall`, `LoadOrder` and `PluginTools` | |
| `BridgeProofs` | theorems about `PluginBridge` and `TsBridge` | |
| `AgentProofs` | theorems about `Sidecar` and `MessageLoop` | |
| `CommandsProofs` | theorems about `Keystore`, `AddressBook`, `Funding` and `Discovery` | |

`MCPluginHost`, `MCAgentLifecycle`, `MCEndpoints` and `MCCommands` put components side by side that
share no variable: no step of one can enable, disable or change a step of another, so nothing is
gained by interleaving them, and each is explored while the others are as they were created. They
are no models of an interaction. The interactions are inside modules: slots with their requests,
the bridge with the host's connection handler, the agent with its supervisor, host process and
socket file, the loop with the cache, the installer with the host that scans and loads, several
processes on one database or one data directory.

### PluginSlot

`state`, `active_calls` and `module` are the fields of the struct; `call[c]` and `step[a]` are
program counters of a request that invokes the plugin and of a connection that reloads or unloads
it. Every access to an atomic is an action: `CheckState`, `Increment`, `Recheck` and `BackOut` are
the four of `try_acquire`, `Poll` and `Wake` the loop of a drain, `DropGuard` the guard's `Drop`.
`Timeout` is the `tokio::time::timeout` around the blocking thread: the request is answered and the
guard dropped, the thread stays (`orphan`). `Cancel` is a handler's future dropped at an await. A
reload's scope guard puts ACTIVE back if the state is still DRAINING; an unload has none
(`registry.rs:129`), and dropped at its drain's await, or at the lock of the map, it leaves a slot
that refuses calls and is still listed, until the next reload or unload of it (`abandoned`;
`DrainGate` has the state "left" and the action `Abandon` for it). With `StoreBuffer` a plain
release store is delayed past the loads that follow it, as x86 and the Rust memory model allow,
until `Flush`.

### PluginRegistry

One level up: a drain takes two actions (it begins, it ends), and the interest is in who holds
which slot across which await. `slots` is the map; `state`, `manifest`, `module` and `guards`
belong to slot objects, which are freed when nothing refers to them (`FreeSlot`, the `Arc`).
`Timeout` ends an invocation and lets its guard go while the thread runs on (`strays`, until
`StrayEnds`); it comes to the clients in `invoking`, the others being calls without a timeout.
`handle_load` inserts only when the id is vacant; `handle_unload` looks up, drains, marks,
removes by id; `handle_event` takes a snapshot of the manifests and looks each one up later.
A manifest and a module are represented by the binary they come from.

### PluginTools

`run[i]` is the invocation in instance `i`: its plugin, tool, session, and the host call it makes
next (`at`). Each host call is an action, because the host's store (`data`, keyed by plugin and
key) is locked per call. `Trap` ends an invocation anywhere and leaves what it stored; `HostEnds`
empties the store, which is memory only. `Recall` says what the plugins really get back: three of
the four expect the value in an envelope the host never makes, and always find their default.
`mingled` remembers the conversations in which two calls have overlapped.

### PluginInstall

`file`, `sigFile` and `row` are the plugin directory and the CLI's table, `command[p]` is the step
an install or uninstall has come to, `host`, `toScan` and `slot` the host that scans the directory,
serves and goes down. A write is two actions, so that half a file can be read. What a binary is
good for (its manifest's id, ABI, imports, capabilities) is a constant; `Loads` is the loader's
decision over them. `checked` of a slot is the tier its present code was verified for.

### LoadOrder

One execution of Kahn's algorithm for every function from sets of ids to dependency lists. The
code walks `HashMap`s, hence any order among plugins that become free together; the first queue is
sorted by the code.

### NanoRuntime

One task executes everything, so there is one program counter, spread over `phase`, `receiving`,
`event`, `todo`, `handling`, `actions` and `pending`. At the `select!` (`AtSelect`) the loop starts
to poll the transport (`Tick`, ended by `Poll`), takes an event from the bus or sees the shutdown;
otherwise it is inside `dispatch_event`, where it calls plugin after plugin, executes the actions
each returns, and may have to wait for room on the bus (`PutOnBus`). `Registered` lists plugins as
records of what they subscribe to, which lists of actions they may return and whether they may
hang; `HubPlugin` and `AutoReplyPlugin` are those records for the two built-in ones, read off their
code. `todo` is the set of plugins an event has yet to be offered to, called from the first on. A
handler, a send and a poll may fail; with `TransportHangs` a request may never return.

### A2ATasks

`order` and `tasks` are the store, changed under one lock, so `Insert` (with its eviction),
`Cancel`, `MarkRunning` and `File` are one action each. `worker[t]` is where `process_task` is:
it submits to the hub and polls it up to `MaxAttempts` times, or echoes when no hub is
configured; `hub` is chosen once. A `Wide` message makes `truncate` cut inside a character.

### PluginBridge

`holder` is the `tokio::sync::Mutex` around `conn`. A call takes it (`Lock`), writes its line
(`Write`) and reads the next line that comes, whatever its id. Only the read has a timeout:
`WriteWaits` is a write for which the socket has no room, because the host does not read
(`MaxUnread`); it waits with the mutex held, for as long as the host likes. The host reads a request
at a time from each connection and writes replies in order; it may be slow, crash (`Crash`) and come
back. `gaveUp` remembers the connections on which a call timed out and left its reply in the stream.

### TsBridge

A single-threaded object. An action is one turn of the event loop; `Idle` says that a turn may
begin, that is, no chunk is half handled and no promise that was settled still has its
continuation to run. A call that is settled (`ok`, `err`) keeps its continuation waiting until
`ListArrived`, `ToolsArrived` or `CallDone` runs it. `timers` counts the reconnect timers that
run, of which the code keeps one; a socket object is an address that is reused when it is free.

### Sidecar

`agent` is how far `cmd_run` has come, `sup` where the supervisor task is in its cycle (spawn, wait
in a `select!`, back off in another), `permit` the one stored permit of `Notify::notify_one`,
`child` its process. `host[h]` is a host process from the check of the socket file (`CheckSocket`,
`RemoveStale`, `Bind`, three steps other hosts may come between) to its accept loop, `socket` the
host that made the file. An agent ends by its shutdown, by one of its early returns
(`EarlyReturn`, where the dropped child is killed), or killed, which leaves its host behind.

### MessageLoop

`at` is where the loop is: in `AlgoChat::sync`, which caches each message, moves the bookmark of the
conversation and only then returns them; or in the handling of one message, from the hub to the
submission of the reply. Every statement and request is an action that may fail, and the process
dies between any two. A request to the hub, the node or the indexer may also never return
(`RequestHangs`, and the loop is then "hung"): their clients are made without a timeout
(`agent.rs:82, 259`, `algorand.rs:25`). `AlgoChat::sync` is a dependency of the repository; it is
modelled from the cache and bookmark functions of `storage.rs` it is given, and marked external.

### Keystore, Mnemonic

`enc`, `tmp` and `toml` are the three files, `cmd[p]` the command that process `p` (of `Shells`) has
come to. There is no lock: processes take turns at every file-system call. `create_keystore` is four
of them, `save_to` two; `CommandDies` comes between any two and may leave a torn file. A command
looks for a wallet before it prompts (`Begin`, `Creating`) and renames long after; all write the
same `keystore.tmp`, so one may truncate or rename what another has open (`file`, `Moved`,
`RenameFails`); `nano.toml` is loaded at the start of a command and saved whole. History: `told` is
the wallet last reported and `offered` the passwords accepted since, `settled` the settings that
successful commands left; `crossed` says that two commands that write the keystore have overlapped,
from the look for a wallet to the permissions, `raced` that two that write `nano.toml` have, from
load to save, `cut` that one died in that write. Passwords, hex seeds and phrases are typed right or
wrong (`Sources`, `Phrases`). `Mnemonic` is the shift register of `wallet.rs` bit by bit, with the
accumulator's width, the padding and the checksum word.

### AddressBook

A command is the list of SQL statements it has yet to execute (`proc[p].todo`), taken from the code
of the command: a statement is one action, since SQLite executes it atomically, and none of these
commands opens a transaction around several. Constraint failures end a command and leave what it has
written. An import is one statement per entry of its file; when the row of a group has been put, the
statements for its members take that one's place (`After`). `calm` says that no other process has
written since the command began. Registering a key with the messaging library may fail, which the
code passes over or warns of: `missed` are the addresses whose last registration did. A message on
its way carries the group it is for. The contacts' export is one SELECT, so only the groups' export,
which reads group by group, is a command here.

### Funding, Discovery

`Funding` is the chain of requests `cmd_fund` makes; each may fail, and the answer to the last one
that counts may be lost after it took effect. `Discovery` folds transactions, in whatever order an
indexer returns them, into one entry per address.

## 3. What the runs check

| Run | Instance | Distinct states | Question |
| --- | --- | --- | --- |
| `PluginSlotSerial` | 3 callers (2 timed), 1 admin, 2 modules | 74 000 | Is a drained slot quiet, and is the slot a gate? |
| `PluginSlotConcurrent` | 2 callers, 2 admins, cancellation of reloads and unloads, delayed stores | 420 000 | Is the count exact, does every drain and call return, does a slot refuse calls only while somebody is at work on it, in the worst environment? |
| `PluginSlotTwoReloads` | 1 caller, 2 admins | finds a violation | May two reloads overlap? |
| `PluginHost` | registry: 2 versions of 1 plugin, 2 slots, 1 operator, 2 clients; tools: 2 instances, 3 invocations; installation: 2 processes, 3 commands, 5 releases; order: 3 manifests of up to 2 dependencies | 2 010 000 | Do generations stay apart, are conversations kept whole, is what is trusted signed, does a start load what it can, is the order right? |
| `RegistryDoubleUnload` | the registry with 2 operators, 1 client | finds a violation | May two unloads overlap with a load? |
| `RegistryTimedOutCall` | the registry with 1 operator, 1 client | finds a violation | Has old code stopped when a drain ends without giving up? |
| `InstallWithoutRestart` | the installation with 1 command | finds a violation | Does a running host get a newly installed plugin? |
| `RuntimeDispatch` | hub, auto-reply and a third plugin, bus of 4, 2 messages, 1 injected event, a transport that may hang | 87 000 | Is dispatch complete and in order, do receipts match, does shutdown come unless the loop is stuck? |
| `RuntimeBusFull` | the hub plugin, bus of 2, 3 messages | finds a violation | Does shutdown always come? |
| `AgentLifecycle` | 2 hosts, 2 starts, 2 exits; 3 messages of 2 senders, 2 lives, 2 attempts | 18 000 | Is an agent's end clean, does its host come back, is a message answered once at most and always cached? |
| `Endpoints` | A2A: 3 tasks, store of 2, 2 attempts, hub or none; agent's bridge: 2 callers, 3 calls, 2 connections, room for 1 unread request; server's: 2 sockets, 1 connect, 1 request, 2 lines | 294 000 | Are outcomes final, is the store consistent, do tasks end? Does a call get its own reply and return, is there one connection, quiet after disconnect? |
| `Commands` | wallet: 2 processes, 2 wallets, 3 passwords, 2 settings; address book: 2 processes, 2 contacts, 1 group, 2 keys; funding: 2 amounts, 3 runs; discovery: 2 addresses, 3 transactions | 1 087 000 | Do wallet, settings and backups survive, do messages go out under the right key, is what is reported what happened? |

Why the bounds are enough. Every property is about a pair of actors (a caller and a drainer, two
workers of one store, a command and one that comes between its statements) and a third one to
disturb them; three callers are the least for which one is counted, one held and one backing out at
once. A store of two with three tasks evicts. Two attempts are a first and a last one. A bus of four
is filled by three startup notices and an event, one of two by a poll of three messages. Two
connections are a lost one and its successor; three calls are one that gives up, the one that would
take its reply, and one more. Two lines in flight are a chunk with an answer and a notification in
it. One unread request that fills the socket is enough for a write that waits with the mutex held
and a second call that waits for the mutex. Two processes are enough for one command to come between
any two steps of another, and a file of two contacts for an entry that replaces the one before it.
One id with two binaries is enough for the registry because ids share nothing but the map, whose
operations on different ids commute; the installation has two ids because they share a directory.
Two starts of an agent are one that leaves something and one that finds it. Three messages are two
of a conversation around one of another. Three bytes of a seed make 24 bits, which do not divide
into 11-bit words, as 256 do not. A group of one's own address and a peer is the least that
distinguishes both. Three manifests make chains, forks and cycles of one, two and three; a diamond
would need a fourth, whose lists are too many to enumerate along with the rest. `Commands` gives two
processes and two secrets one name in two components each, which halves its symmetry group twice
over, and has a `VIEW`: what no property of the wallet or the settings reads any longer (`told` once
`crossed`, `settled` once `raced` or `cut`, the files once both) makes no two states different. These
three are never taken back, so nothing is missed but the types of what is left out, which are proved. Bounds on counters are `CONSTANTS` named in
the configurations; set sizes and the files an import may read bound the rest.

The configurations say `CHECK_DEADLOCK FALSE` because their bounded inputs run out, except
`RegistryDoubleUnload` and `RegistryTimedOutCall`, where somebody can always issue a request. Being
stuck is the subject of the liveness properties instead.

Preconditions that are part of a property, and are not hidden in the model:

* `DrainedMeansQuiet` excepts drains that hit their 30 s deadline (`forced`), `OneGeneration` the
  slots of such drains (`gaveUp`). `OneGeneration` is about calls; the threads of calls that timed
  out are the subject of `OldCodeStopped`, which the code violates (`RegistryTimedOutCall`).
* `RefusalHasOwner`, and the gate, except an unload that was dropped at an await (`abandoned`), up
  to the next reload or unload of the slot.
* `AnswersOwnRequest` and `NothingPending` except connections on which a call has timed out;
  `CallsReturn` a write that waits for ever because the host no longer reads (`WriteWaits`);
  `DisconnectedIsQuiet` a connection that was being made.
* `StopsUnlessStuck` and `MessagesHandled` except a full bus and a handler or a request that never
  returns; `OpenTaskHasWorker` and `TasksEnd` the messages that make `truncate` panic and the hub
  that never answers.
* `StoppedIsClean` excepts agents that were killed, `HostComesBack` a host that has lost its socket
  file to one that started beside it (`Unreachable`), `CatchesUp` an agent that is down or whose
  loop waits for an answer that never comes ("hung").
* `WalletReadable` and `WalletKept` except histories in which two commands that write the keystore
  overlapped (`crossed`), `SettingsSurvive` those in which two that write `nano.toml` did (`raced`)
  or one died in the write (`cut`).
* `BackupFaithful` and part of `SentUnderRightKey` hold of commands no other command wrote beside
  (`calm`); `SentUnderRightKey` excepts addresses whose last registration failed (`missed`).
* `RemembersConversation` excepts conversations with two calls at a time (`mingled`);
  `StartLoadsWhatItCan` files and slots changed since the host started (`undisturbed`).
* `LoadOrderRight` says that a manifest which lists a dependency twice is refused (`ListedTwice`).

Each is a place where the code really lets go; section 5 says which of them its documentation does
not expect.

### Fairness

* `PluginSlot`: the executor polls ready tasks, clocks advance, store buffers drain. `Lookup` and
  `Begin` (a client's decision) and `ThreadEnds` (plugin code) are not fair.
* `NanoRuntime`: the loop's task runs; the branches of `select!` are strongly fair because
  Tokio picks at random among the ready ones. Handlers that do not hang return; a transport that
  answers does not fail for ever.
* `A2ATasks`: worker tasks run; requests to the hub are answered or fail except for `MayHang`.
* `PluginBridge`: Tokio's mutex is first-come first-served, hence strong fairness of taking it; a
  write for which there is room is made, the 30 s timeout of the read fires, a closed socket reads
  as end of file. The host owes nothing, not even to read.
* `Sidecar`: the supervisor's task runs, `select!` as above, a host that starts gets to its accept
  loop. Spawning the host may fail, but not for ever (only `HostComesBack` needs that).
* `MessageLoop`: the loop runs on and its timers end; a request to the indexer, and with it a whole
  sync, succeeds some time unless the loop is hung. Nothing is assumed of the hub or of the node,
  which may refuse, fail, or never answer.
* Everything else is checked for safety only.

In `MCAgentLifecycle` and `MCEndpoints` the fair actions of the component that is not being explored
are disabled in its initial state, so the fairness of one does not interfere with another.

## 4. What is proved

Every safety property the passing runs check is also a theorem, checked by TLAPS for every value
of the constants that satisfies the `...Assumption` of its module: any number of callers, admins,
hosts, connections, tasks, plugins, processes, names and files, and any value of the `Max...`
bounds. (Of the gate `PluginSlot` implements, this is the safety part.) `PROJECT.json` lists the
theorems. What follows is the argument of each, that is, what has to be said besides the property
to make it inductive, and the hypotheses of those that have any.

`PluginSlotProofs`

* `TypeCorrect`, `CountCorrect`: neither is inductive alone: that `active_calls` stays a natural
  number when a guard is dropped needs that the dropping caller is counted, and the count needs
  types. `CountInv`, their conjunction, is. Four lemmas say how one caller's step changes the
  cardinality of the set of counted callers. Concurrent admins, delayed stores and cancellations
  are included.
* `RefusalIsOwned`: `OwnerInv` says which stores of an admin may still be on their way at each of
  its steps (`HeldBack`), and that while a listed slot is not ACTIVE some admin is at work
  (`AtWork`: draining, retiring, or with such a store), or an unload was dropped and nobody has come
  since.
* `DrainIsSafe`, `ImplementsGateSafety`: for `Serial` (one admin connection, sequentially consistent
  accesses). `SerialInv` ties `state` to what the admin is doing: while it drains, the state is
  DRAINING, and so a caller that rechecks backs out. The poll that reads 0 finds nobody holding a
  guard, because whoever holds one is counted. `Serial` cannot be dropped: `PluginSlotTwoReloads` is
  the counterexample without its second half; without its first half (`StoreBuffer = TRUE`, one
  admin) `DrainedMeansQuiet` fails as well (section 5).

`RegistryProofs`

* `ActiveSlotsAreListed`: under `[]OneOperatorEach`, that is, while no two requests that load,
  reload or unload are at work on one id. `RegistryInv` says at each step of such a request what it
  holds (a slot that is listed, and in which state), what clients and guards refer to, and that a
  slot that is not listed has no guards unless its drain gave up; `RequestTypes` and `ThreadTypes`
  keep the types of requests and of threads that run without a guard apart. The theorem is about
  calls, whose guards a drain counts; that threads of timed-out calls are not among them is
  `RegistryTimedOutCall`. The hypothesis cannot be dropped: `RegistryDoubleUnload` violates
  `ActiveIsListed` without it.

`NanoRuntimeProofs`

* `ReceiptsAlwaysMatchSends`: `LoopInv` adds which of `event`, `todo`, `handling`, `actions` and
  `pending` are set where the one task is, since the receipt that waits for room on the bus counts.
* `DispatchAlwaysComplete`: a plugin that has been passed over by the loop has been called
  (`CurrentHandled`); for the order of replies, `OrderInv` says that what waits on the bus is in
  order and later than what has been answered (`Waiting`, `Answered`, `Asked`). Hypothesis
  `ReceiptsUnanswered`: no plugin returns a message for a `MessageSent` event, as neither of the two
  in the repository does; a plugin that did would speak out of turn by design.

`A2ATasksProofs`

* `StoreAlwaysConsistent`, `OpenTasksAreWorkedOn`: `Inv` is their conjunction with what a worker
  that is still at work knows of its task (`WorkerMatchesTask`) and that it has attempts left. The
  lemmas are about an order without duplicates from which one is removed and to which one is added.
* `EndpointImplementsBoard`: under the refinement mapping each action is a step of `TaskBoard` or
  leaves it as it is.

`HostProofs`

* `TrustedCodeWasSigned`, `StartLoadsAll`: `InstallInv` adds what each step of an installer knows of
  the files and that what a host has scanned and found loadable is in it, unless it changed since.
* `LoadOrderIsRight`: the invariant of Kahn's algorithm: `in_degree` counts the dependencies that
  are not in the order, the queue holds what has none left, and the order satisfies dependencies.
  When the queue is empty and plugins are left, each of them depends on another one left, which is a
  cycle; a dependency listed twice is why the converse needs `ListedTwice`.
* `PromptsAlternate`: a history is stored turn by turn, and an even limit cuts it between turns
  (`WholeHistories`). `ConversationsAreRemembered`: as long as no two calls of a session have
  overlapped (`OverlapsNoted`), what a call has read is what is stored (`AloneIsCurrent`).

`BridgeProofs`

* `NothingLeftOnConnection`, `CallsGetTheirAnswers`: only the holder of the mutex has anything on a
  connection, and that is its own request, or the host working on it, or its reply, and never two of
  these (`JustOne`), through crashes and reconnections. A connection on which a call timed out is
  excepted, as in the properties.
* `OneConnectionAtATime`: while `connects <= 1`. `TsInv` says that there is one socket, attempt or
  timer (`OneAttempt`), that only a late connection is open after `disconnect` (`LateOnly`), and
  that no call waits and no tool is registered without the connection it belongs to
  (`NothingStale`). The hypothesis cannot be dropped (section 5, `rust-bridge.ts`).

`AgentProofs`

* `NoHostLeftBehind`: unless an agent was killed, a host that runs is the supervisor's child, and so
  nobody can make the socket file again once the supervisor is done (`NoStrayHost`).
* `NoMessageAnsweredTwice`: `LoopInv` says that what the loop has in its batch or in its hands has
  not been answered, that what has been answered is behind the bookmark, and that what a sync has
  found is ahead of it. The bookmark moves before the batch is returned, hence after a death the
  loop never sees the batch again.

`CommandsProofs`

* `WalletStaysReadable`, `WalletsAreKept`: for any number of processes. As long as no two commands
  that write the keystore have overlapped, the file one of them is writing is nobody else's, and it
  and the keystore hold the seed that was reported, under a password of sufficient length.
  Hypothesis `PhrasesRead`: every phrase the wizard shows brings its seed back. It is a round trip
  through recursively defined bit operations, which is out of this prover's reach; TLC evaluates it
  for every seed of the instance.
* `SettingsAreKept`: for any number of processes. The file, or the configuration in the hands of the
  one command that is about to write it, has every settled setting, unless a write was cut or two
  such commands overlapped.
* `MembersAlwaysHaveGroup`, `AlwaysSentUnderRightKey`, `BackupsAreFaithful`: `BookInv` says of each
  command what it still has to do and what it has read so far. `SendingGroup` has two phases: while
  members are read (`ReadingGroup`) the key in hand is that of the group they are read from, and
  when messages are on their way (`Messaging`) each address has that key unless its registration
  failed. `Sending`, `Registering`, `Exporting`: what has been read, with what is still to be read,
  is what is stored, as long as nobody has written. `Importing`, `ImportingContacts`: the entries up
  to some `k` are in place, but for the members of the `k`-th group that have a statement left.
* `EveryPaymentIsAccountedFor`: with the finiteness of the ledger. `DiscoveryMatchesTheChain`: the
  extremes and counts of each entry are those of the transactions seen; lemmas say how one more
  transaction changes the set of an address's rounds and its minimum and maximum.

Only model-checked, and why:

* the liveness properties `DrainReturns`, `InvokeAnswered`, `StopsUnlessStuck`, `MessagesHandled`,
  `TasksEnd`, `CallsReturn`, `ShutdownReturns`, `HostComesBack` and `CatchesUp`, and the liveness
  part of `ImplementsGate`: they rest on fairness, and so on ENABLED, which this prover does not
  handle;
* `PhrasesRead` (induction over the bits of a seed), `ReceiptsUnanswered` of the plugins of a run,
  and the `...Assumption` of each module: TLC evaluates them for the instances of section 3;
* that the hypotheses are needed: the runs that find a violation, and section 5.

## 5. Where the code and its documentation disagree

Five runs end in a violation on purpose; the behaviour TLC prints is a schedule of the code.

* `PluginSlotTwoReloads`: `drain_and_reload` stores ACTIVE without asking whether another
  connection is draining (`registry.rs:120`); a call enters and its module is swapped under it.
  `specs/plugin/plugin-host.spec.md:338` promises a wait for in-flight calls.
* `RegistryDoubleUnload`: `unload` removes by id what it looked up as a slot (`registry.rs:205`);
  with another unload and a load in between it drops the new, active slot undrained
  (`plugin-host.spec.md:57`, "drain + shutdown").
* `RegistryTimedOutCall`: the wall-clock timeout of an invocation drops its guard while its thread
  runs on (`main.rs:418` of the host), and may still write to the key-value store. A reload then
  drains at once and opens the slot with the new module beside it (`plugin-host.spec.md:371`, "3
  in-flight calls complete; old instance shuts down").
* `RuntimeBusFull`: the loop awaits room on the bus that only it reads (`runtime.rs:193`), and
  then sees no shutdown (`runtime.rs:83`, "Blocks until shutdown signal or ctrl-c").
* `InstallWithoutRestart`: `cmd_install` asks the host for a reload (`main.rs:346` of the plugin
  CLI), which the host refuses for an id it has not loaded (`registry.rs:213`): a first install
  takes effect at the next start (`plugin-cli.spec.md:140`, "does not require host restart").

Others are in the models, as the exceptions listed in section 3, as what an action does, or by a
change of constants.

Plugin host:

* `registry.rs:64, 82`: with `StoreBuffer = TRUE` and one admin, `DrainedMeansQuiet` is violated:
  the double check of `try_acquire` and the drain's store-then-load need sequentially consistent
  accesses, not Release and Acquire.
* `registry.rs:129`: `unload` has no scope guard like the reload's (`registry.rs:86`): dropped at an
  await it leaves a slot that refuses calls for good. Today only the end of the host's runtime drops
  a request's future.
* `registry.rs:120, 128`: a reload that overlaps an unload stores ACTIVE into the removed slot.
* `registry.rs:116`: a reload replaces the module but not the manifest or the tier
  (`plugin-host.spec.md:337`).
* `main.rs:219` of the host: `handle_load` does not check dependencies
  (`plugin-host.spec.md:350`: "checked at registration time"); `check_dependencies`,
  `topological_order` and the executor have no callers but tests.
* `registry.rs:319`: a dependency listed twice counts twice and is subtracted once, so it is
  reported as a cycle.
* The loader instantiates with an empty linker, so a plugin that imports host functions does not
  load (`plugin-host.spec.md:284, 322, 335-337`). Plugins found at startup are always Untrusted and
  the table's `enabled` is not read; a `.sig` the installer verified is not stored, so a Trusted
  plugin cannot be loaded as one without the operator copying it. The CLI refuses manifests that ask
  for more than their tier, which the host loads.
* An install overwrites the artifact before it validates it: a failed upgrade deletes the installed
  file and keeps its row, and "already installed" is said after overwriting. Uninstalling removes
  every `.wasm` file whose name contains the id.
* `llm-personality/src/lib.rs:358`, `coding-companion/src/lib.rs:13`: the value of `host_kv_get` is
  expected in a map the host does not make, so that what these plugins store is never read back
  (`plugin-personality.spec.md:18`). Plugins get no project directory, so `analyze_file` always
  fails. Two chats of one session at a time lose a turn; the store is lost with the host.

Agent:

* `runtime.rs:157`, `plugins/hub.rs:51`: a handler is awaited without a timeout and outside the
  `select!`; so are requests of the transport. A hub that accepts and never answers keeps the agent
  from shutting down.
* `src/main.rs:1247`: auto-reply is registered beside the hub plugin, so that both answer a
  message; `docs/src/guides/nano-runtime.md:280` says "for when no AI hub is connected".
* `runtime.rs:126`: events on the bus at shutdown are dropped, confirmed sends among them
  (`nano-runtime.md:100`).
* `agent.rs:380`: the log line's `truncate` slices inside a character and panics; the message loop
  ends and the agent returns without an error. `a2a.rs:732` has the same function: the task stays
  Running (`a2a.rs:63`).
* A sync that fails after it stored a conversation's messages and bookmark returns none of them:
  they are cached and never answered.
* `a2a.rs:372`: `created_at` is drawn before the lock is taken, so the order of the store need not
  be the "creation time" of `a2a.rs:137`.
* `a2a.rs:546`: the hub client has no request timeout, so the "5 minutes" of `a2a.rs:544` are none.
* `agent.rs:82, 259`, `algorand.rs:25`: the loop's clients have no request timeout either. A hub,
  node or indexer that accepts a request and never answers stops the message loop;
  `HUB_POLL_MAX_ATTEMPTS` bounds nothing then.
* `bridge.rs:108`: the request is written with the mutex held and outside the 30 s timeout. A host
  that stays up and stops reading stops that call, and every later one behind the mutex.
* `bridge.rs:114`: after a timeout every later call on the connection reads the reply of the call
  before it; ids are not compared (`bridge.rs:91`).
* `sidecar.rs:105`: the backoff is reset when a process could be spawned, so a host that exits at
  once is restarted every second (`sidecar.rs:3-4, 82-83`, "1s → 2s → 4s").
* `sidecar.rs:29-30`: "Dropping the handle signals the supervisor to stop": there is no `Drop`; that
  the child dies with an agent that returns early is owed to `kill_on_drop`.
* Two hosts that start together, as after an agent was killed, take each other's socket file away.
* `rust-bridge.ts:145`: a socket that connects after `disconnect` is installed on the closed bridge;
  and with `MaxConnects = 2` `OneConnection` fails: `connect` does not look at the connection there
  is, and right after `disconnect` the old socket's "close" nulls the new socket and schedules
  another connection.

Commands:

* `GETTING_STARTED.md:108`, `config.rs:3`: most settings of `nano.toml` are not used by `can run`.
* `keystore.rs:79`: permissions are set after the rename, so that a death in between leaves a
  keystore that others may read (`keystore.spec.md:65`).
* `wizard.rs:45`, `main.rs:847`: the look for a wallet, the prompts and the rename are steps apart
  and nothing locks them; of two setups or imports that overlap, the second replaces the wallet
  whose recovery phrase the first has just shown. They share `keystore.tmp` (`keystore.rs:78`): one
  renames what the other has just truncated, and `keystore.enc` holds no wallet until that one has
  written it, or for good if it dies (`keystore.spec.md:64`, "written atomically"). Without the
  condition `~crossed` TLC finds both as violations of `WalletKept` and `WalletReadable`.
* `main.rs:2854, 2324`: `config set` saves the file it loaded when it began; of two that overlap,
  the later write takes the other's setting back, and one that loads a truncated file saves
  defaults.
* `main.rs:1888, 1857, 1036`: the errors of `add_psk_contact` are thrown away or warned of. A member
  of a group who is also a contact is then sent the group's message under the contact's key
  (`docs/src/guides/group-channels.md:7`, "encrypts the message with the group PSK").
* `groups.rs:244`: an import replaces the row of a group that exists, and its members go with it
  until they are inserted again.
* A group's message count includes the agent itself, to which nothing is sent. A contact who is also
  a group member is registered twice by `can run`; the group's key wins.
* `main.rs:2525`: KMD's handle is released only on success. When the answer to a submission is lost
  and the user tries again in a later round, an account is funded twice.
* `algorand.rs:305`: the limit is applied before transactions are filtered, so that `discover` and
  `scan` report the first of what there is.

## 6. What is not modelled

* Cryptography, msgpack and address encoding, HTTP, SQL and wasm parsing as such: parameters or
  outcomes. WASM execution beyond which host calls a tool makes and that it may trap.
* `routes/plugins.ts`: HTTP wrappers around single calls of the bridge, without state.
* The A2A server's HTTP parsing, token check and agent card; the commands that only print or forward
  one request (balance, status, info, inbox, register, plugin); `plugin.list`, `plugin.tools`,
  `health.check`; MCP's `list_messages` and `get_status`; the CLI's `list` and its `new` template.
* `StoreState` and the runtime's `StateStore`, which only its writer reads; the key tables of
  `storage.rs`, written once by one caller.
* The host functions for databases, the chain and messaging, which have no backend in the host.
* SDK types and macros but for the dispatch of an invocation; `hello-world`, which keeps nothing.
* Wording, logging and layout; `docs/`, tests and specs are read as documentation.

`PROJECT.json` lists every component with its status.

## 7. Plan

1. What the hypotheses leave open could be proved in a weaker form: `OneGeneration` of ids on which
   no two operators have ever met, and `OneConnection` between two calls of `connect`.
2. `CallsGetTheirAnswers` for a connection on which a call timed out: the reply a later call reads
   is that of the call before it, and never of another connection.
3. A lemma that every prefix of a phrase holds the bits of a prefix of the seed, as a step towards
   `PhrasesRead` for seeds of every length.
4. The part of the liveness arguments that needs no fairness: measures that every step of a drain, a
   worker or a shutdown decreases.

## 8. Running the checks

    tlc -config PluginSlotSerial.cfg PluginSlot
    tlc -config PluginSlotConcurrent.cfg PluginSlot
    tlc -config PluginHost.cfg MCPluginHost
    tlc -config RuntimeDispatch.cfg MCNanoRuntime
    tlc -config AgentLifecycle.cfg MCAgentLifecycle
    tlc -config Endpoints.cfg MCEndpoints
    tlc -config Commands.cfg MCCommands
    tlapm PluginSlotProofs.tla
    tlapm RegistryProofs.tla
    tlapm NanoRuntimeProofs.tla
    tlapm A2ATasksProofs.tla
    tlapm HostProofs.tla
    tlapm BridgeProofs.tla
    tlapm AgentProofs.tla
    tlapm CommandsProofs.tla

The runs that find a violation: `PluginSlotTwoReloads.cfg` with `PluginSlot`,
`RegistryDoubleUnload.cfg` and `RegistryTimedOutCall.cfg` with `MCPluginRegistry`,
`InstallWithoutRestart.cfg` with `MCPluginHost`, `RuntimeBusFull.cfg` with `MCNanoRuntime`.
