---------------------------- MODULE PluginInstall ----------------------------
(***************************************************************************)
(* How a plugin gets from a release into the host: the install and         *)
(* uninstall commands of corvid-plugin, the files and the table they keep, *)
(* and the host's loader, at its start, for plugin.load and for the reload *)
(* an install asks for.  Commands of several processes interleave, die     *)
(* between any two steps, and the host comes and goes.                     *)
(***************************************************************************)
EXTENDS Naturals, FiniteSets

CONSTANTS
  Releases,       \* records: id, version, tier, artifact, binary, sig
  ManifestId,     \* the id in the manifest of a binary
  WrongAbi,       \* binaries of an ABI version the host does not know
  Malformed,      \* binaries whose manifest has a bad field or wants a newer host
  Overreaching,   \* binaries whose manifest asks for more than its tier allows
  Importers,      \* binaries that import host functions
  Uninstallable,  \* pairs of an id and an artifact whose name contains it
  Processes,      \* corvid-plugin processes
  MaxCommands,    \* bound: commands given in all
  Absent, Torn    \* no file or signature; a file that is being written

WasmBinaries == DOMAIN ManifestId
Artifacts == {r.artifact : r \in Releases}
PluginIds == {r.id : r \in Releases} \cup {ManifestId[b] : b \in WasmBinaries}
Tiers == {"trusted", "verified", "untrusted"}

(* What the host keeps of a plugin: its manifest and tier, the code that is *)
(* in its slot and the tier that code was verified for.                     *)
Loaded == [manifest : WasmBinaries, module : WasmBinaries, tier : Tiers, checked : Tiers]

ASSUME InstallAssumption ==
  /\ MaxCommands \in Nat
  /\ \A r \in Releases :
       /\ r.tier \in Tiers
       /\ \/ r.sig = Absent
          \/ r.sig = [of |-> r.sig.of, trusted |-> r.sig.trusted] /\ r.sig.trusted \in BOOLEAN
  /\ {Absent, Torn} \cap WasmBinaries = {}
  /\ Absent \notin Loaded

VARIABLES
  file,           \* file[a]: what plugins/<a> holds
  sigFile,        \* sigFile[a]: what plugins/<a>.sig holds
  row,            \* row[id]: the version in the plugins table, or Absent
  host,           \* the plugin host: down, scanning or up
  toScan,         \* the files its start has not come to yet
  slot,           \* slot[id]: the loaded plugin, or Absent
  command,        \* command[p]: the command of process p and its next step
  commands,       \* commands given so far
  undisturbed     \* history: since the host started no file and no slot was
                  \* changed by anybody else

diskVars == <<file, sigFile, row>>
hostVars == <<host, toScan, slot>>
installVars == <<diskVars, hostVars, command, commands, undisturbed>>

NoCommand == [at |-> "idle", release |-> Absent, id |-> Absent]

InstallInit ==
  /\ file = [a \in Artifacts |-> Absent]
  /\ sigFile = [a \in Artifacts |-> Absent]
  /\ row = [id \in PluginIds |-> Absent]
  /\ host = "down" /\ toScan = {}
  /\ slot = [id \in PluginIds |-> Absent]
  /\ command = [p \in Processes |-> NoCommand]
  /\ commands = 0
  /\ undisturbed = FALSE

-----------------------------------------------------------------------------
(* The loader. *)

(* Faulty variant: any signature by a trusted key will do.                  *)
VerifyKeyOnly(binary, sig, tier) == tier = "trusted" => sig # Absent /\ sig.trusted

VerifySignature(binary, sig, tier) ==
  tier = "trusted" => sig # Absent /\ sig.of = binary /\ sig.trusted

(* The instance that yields the manifest is made with no host functions.    *)
Instantiates(binary) == binary \notin Importers

check_abi_version(binary) == binary \notin WrongAbi

(* The id, the versions, the dependencies' ids, author and description.     *)
validate_manifest(binary) == binary \notin Malformed

(* load_plugin; half a file does not compile.                               *)
Loads(binary, sig, tier) ==
  /\ binary \in WasmBinaries
  /\ VerifySignature(binary, sig, tier)
  /\ Instantiates(binary)
  /\ check_abi_version(binary)
  /\ validate_manifest(binary)

(* The CLI also looks at the capabilities, which the host does not.         *)
validate_plugin(binary) == Loads(binary, Absent, "untrusted") /\ binary \notin Overreaching

(* Whatever is loaded keeps the manifest and the tier it was first loaded   *)
(* with.                                                                    *)
Register(binary, tier) ==
  slot' = [slot EXCEPT ![ManifestId[binary]] =
    IF @ = Absent THEN [manifest |-> binary, module |-> binary, tier |-> tier, checked |-> tier]
    ELSE @]

-----------------------------------------------------------------------------
(* The host. *)

HostStarts ==
  /\ host = "down"
  /\ host' = "scanning"
  /\ toScan' = {a \in Artifacts : file[a] # Absent}
  /\ undisturbed' = TRUE
  /\ UNCHANGED <<diskVars, slot, command, commands>>

(* Faulty variant: a file that does not load ends the scan.                 *)
ScanUntilFailure(a) ==
  /\ host = "scanning" /\ a \in toScan
  /\ IF Loads(file[a], sigFile[a], "untrusted")
     THEN Register(file[a], "untrusted") /\ toScan' = toScan \ {a}
     ELSE toScan' = {} /\ UNCHANGED slot
  /\ UNCHANGED <<diskVars, host, command, commands, undisturbed>>

(* Every file of the directory is loaded as untrusted, or skipped.          *)
Scan(a) ==
  /\ host = "scanning" /\ a \in toScan
  /\ toScan' = toScan \ {a}
  /\ IF Loads(file[a], sigFile[a], "untrusted")
     THEN Register(file[a], "untrusted")
     ELSE UNCHANGED slot
  /\ UNCHANGED <<diskVars, host, command, commands, undisturbed>>

Serve ==
  /\ host = "scanning" /\ toScan = {}
  /\ host' = "up"
  /\ UNCHANGED <<diskVars, toScan, slot, command, commands, undisturbed>>

HostExits ==
  /\ host # "down"
  /\ host' = "down" /\ toScan' = {}
  /\ slot' = [id \in PluginIds |-> Absent]
  /\ UNCHANGED <<diskVars, command, commands, undisturbed>>

(* plugin.load with a path and a tier.                                      *)
HandleLoad(a, tier) ==
  /\ host = "up"
  /\ Loads(file[a], sigFile[a], tier)
  /\ Register(file[a], tier)
  /\ UNCHANGED <<diskVars, host, toScan, command, commands, undisturbed>>

(* plugin.reload swaps the code of a plugin that is loaded.                 *)
HandleReload(id, a, tier) ==
  IF host = "up" /\ slot[id] # Absent /\ Loads(file[a], sigFile[a], tier)
  THEN slot' = [slot EXCEPT ![id].module = file[a], ![id].checked = tier]
  ELSE UNCHANGED slot

(* The operator puts a signature beside a plugin.                           *)
PlaceSignature(a) ==
  \E r \in Releases :
    /\ r.sig # Absent /\ sigFile[a] # r.sig
    /\ sigFile' = [sigFile EXCEPT ![a] = r.sig]
    /\ UNCHANGED <<file, row, hostVars, command, commands, undisturbed>>

-----------------------------------------------------------------------------
(* corvid-plugin install *)

At(p, step) == command[p].at = step
Step(p, step) == command' = [command EXCEPT ![p].at = step]
End(p) == command' = [command EXCEPT ![p] = NoCommand]

(* plugin.toml and the artifact are fetched; those of a trusted plugin are  *)
(* checked against their signature, which is not kept.                      *)
cmd_install(p, r) ==
  /\ At(p, "idle") /\ commands < MaxCommands
  /\ commands' = commands + 1
  /\ VerifySignature(r.binary, r.sig, r.tier)
  /\ command' = [command EXCEPT ![p] = [at |-> "create", release |-> r, id |-> r.id]]
  /\ UNCHANGED <<diskVars, hostVars, undisturbed>>

WriteFile(p, step, content) ==
  /\ file' = [file EXCEPT ![command[p].release.artifact] = content]
  /\ undisturbed' = FALSE
  /\ Step(p, step)
  /\ UNCHANGED <<sigFile, row, hostVars, commands>>

CreateArtifact(p) == At(p, "create") /\ WriteFile(p, "write", Torn)
WriteArtifact(p) == At(p, "write") /\ WriteFile(p, "validate", command[p].release.binary)

(* The file is read again and goes through the loader as an untrusted one;  *)
(* its manifest must have the id of plugin.toml.                            *)
ValidatePlugin(p) ==
  LET r == command[p].release IN
  /\ At(p, "validate")
  /\ IF file[r.artifact] = Absent THEN End(p)
     ELSE Step(p, IF validate_plugin(file[r.artifact]) /\ ManifestId[file[r.artifact]] = r.id
                  THEN "query" ELSE "discard")
  /\ UNCHANGED <<diskVars, hostVars, commands, undisturbed>>

DiscardArtifact(p) ==
  /\ At(p, "discard")
  /\ file' = [file EXCEPT ![command[p].release.artifact] = Absent]
  /\ undisturbed' = FALSE
  /\ End(p)
  /\ UNCHANGED <<sigFile, row, hostVars, commands>>

(* The version that is installed already ends the command.                  *)
QueryVersion(p) ==
  /\ At(p, "query")
  /\ IF row[command[p].id] = command[p].release.version THEN End(p) ELSE Step(p, "register")
  /\ UNCHANGED <<diskVars, hostVars, commands, undisturbed>>

RegisterVersion(p) ==
  /\ At(p, "register")
  /\ row' = [row EXCEPT ![command[p].id] = command[p].release.version]
  /\ Step(p, "signal")
  /\ UNCHANGED <<file, sigFile, hostVars, commands, undisturbed>>

SignalReload(p) ==
  LET r == command[p].release IN
  /\ At(p, "signal")
  /\ HandleReload(r.id, r.artifact, r.tier)
  /\ End(p)
  /\ UNCHANGED <<diskVars, host, toScan, commands, undisturbed>>

-----------------------------------------------------------------------------
(* corvid-plugin uninstall *)

cmd_uninstall(p, id) ==
  /\ At(p, "idle") /\ commands < MaxCommands
  /\ row[id] # Absent
  /\ commands' = commands + 1
  /\ command' = [command EXCEPT ![p] = [at |-> "unload", release |-> Absent, id |-> id]]
  /\ UNCHANGED <<diskVars, hostVars, undisturbed>>

SignalUnload(p) ==
  /\ At(p, "unload")
  /\ slot' = IF host = "up" THEN [slot EXCEPT ![command[p].id] = Absent] ELSE slot
  /\ undisturbed' = FALSE
  /\ Step(p, "delete")
  /\ UNCHANGED <<diskVars, host, toScan, commands>>

DeleteRow(p) ==
  /\ At(p, "delete")
  /\ row' = [row EXCEPT ![command[p].id] = Absent]
  /\ Step(p, "remove")
  /\ UNCHANGED <<file, sigFile, hostVars, commands, undisturbed>>

(* Every file goes whose name contains the id.                              *)
RemoveFiles(p) ==
  /\ At(p, "remove")
  /\ file' = [a \in Artifacts |->
                IF <<command[p].id, a>> \in Uninstallable THEN Absent ELSE file[a]]
  /\ undisturbed' = FALSE
  /\ End(p)
  /\ UNCHANGED <<sigFile, row, hostVars, commands>>

CommandDies(p) ==
  /\ ~At(p, "idle")
  /\ End(p)
  /\ UNCHANGED <<diskVars, hostVars, commands, undisturbed>>

-----------------------------------------------------------------------------
InstallNext ==
  \/ HostStarts \/ Serve \/ HostExits
  \/ \E a \in Artifacts : \/ Scan(a) \/ PlaceSignature(a)
                          \/ \E tier \in Tiers : HandleLoad(a, tier)
  \/ \E p \in Processes :
       \/ \E r \in Releases : cmd_install(p, r)
       \/ CreateArtifact(p) \/ WriteArtifact(p) \/ ValidatePlugin(p) \/ DiscardArtifact(p)
       \/ QueryVersion(p) \/ RegisterVersion(p) \/ SignalReload(p)
       \/ \E id \in PluginIds : cmd_uninstall(p, id)
       \/ SignalUnload(p) \/ DeleteRow(p) \/ RemoveFiles(p) \/ CommandDies(p)

InstallSpec == InstallInit /\ [][InstallNext]_installVars

-----------------------------------------------------------------------------
(* "Signature verification — Ed25519 on WASM binary (Trusted tier only)":   *)
(* code that was loaded for the Trusted tier, at first or by a reload, was  *)
(* itself signed by a trusted key, whatever files were replaced meanwhile.  *)
TrustedWasSigned ==
  \A id \in PluginIds : slot[id] # Absent =>
    /\ slot[id].checked = "trusted" =>
         \E r \in Releases : r.sig = [of |-> slot[id].module, trusted |-> TRUE]
    /\ slot[id].tier = "trusted" =>
         \E r \in Releases : r.sig = [of |-> slot[id].manifest, trusted |-> TRUE]

(* A start loads every plugin in the directory that can be loaded: broken   *)
(* files, half-written ones and second versions do not keep others out.     *)
StartLoadsWhatItCan ==
  host = "up" /\ undisturbed =>
    \A a \in Artifacts : Loads(file[a], Absent, "untrusted") => slot[ManifestId[file[a]]] # Absent

(* "Install sends a reload signal to the running host -- does not require   *)
(* host restart."                                                           *)
InstallReachesHost ==
  [][\A p \in Processes :
       SignalReload(p) /\ host = "up" /\ command[p].release.tier = "untrusted"
         => slot'[command[p].id] # Absent]_installVars
=============================================================================
