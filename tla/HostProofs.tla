------------------------------ MODULE HostProofs ------------------------------
(***************************************************************************)
(* Proofs about the installation of plugins, the order of their loading    *)
(* and the tools of the example plugins: PluginInstall, LoadOrder and      *)
(* PluginTools.                                                            *)
(***************************************************************************)
EXTENDS PluginInstall, LoadOrder, PluginTools, NaturalsInduction, FiniteSetTheorems,
        SequenceTheorems, TLAPS

-----------------------------------------------------------------------------
(* Installation.                                                             *)

InstallSteps == {"create", "write", "validate", "discard", "query", "register", "signal"}

Commands ==
  [at : InstallSteps \cup {"idle", "unload", "delete", "remove"},
   release : Releases \cup {Absent}, id : PluginIds \cup {Absent}]

InstallTypes ==
  /\ slot \in [PluginIds -> Loaded \cup {Absent}]
  /\ sigFile \in [Artifacts -> {r.sig : r \in Releases} \cup {Absent}]
  /\ command \in [Processes -> Commands]
  /\ \A p \in Processes : command[p].at \in InstallSteps => command[p].release \in Releases

(* What the scan of a start has come to is in a slot, if it loads.           *)
Scanned ==
  /\ host = "up" => toScan = {}
  /\ undisturbed /\ host # "down" =>
       \A a \in Artifacts \ toScan :
         Loads(file[a], Absent, "untrusted") => slot[ManifestId[file[a]]] # Absent

InstallInv == InstallTypes /\ TrustedWasSigned /\ Scanned

Signed(b) == \E r \in Releases : r.sig = [of |-> b, trusted |-> TRUE]

(* An untrusted plugin is not asked for a signature.                         *)
LEMMA LoadsUntrusted ==
  \A b, sig : Loads(b, sig, "untrusted") <=> Loads(b, Absent, "untrusted")
BY DEF Loads, VerifySignature

LEMMA LoadedWasSigned ==
  ASSUME InstallTypes, NEW a \in Artifacts, NEW b, NEW tier, Loads(b, sigFile[a], tier)
  PROVE  b \in WasmBinaries /\ ManifestId[b] \in PluginIds /\ (tier = "trusted" => Signed(b))
<1>1. b \in WasmBinaries
  BY DEF Loads
<1>2. ASSUME tier = "trusted" PROVE Signed(b)
  <2>1. sigFile[a] # Absent /\ sigFile[a].of = b /\ sigFile[a].trusted
    BY <1>2 DEF Loads, VerifySignature
  <2>2. PICK r \in Releases : sigFile[a] = r.sig
    BY <2>1 DEF InstallTypes
  <2>3. r.sig = [of |-> r.sig.of, trusted |-> r.sig.trusted] /\ r.sig.trusted \in BOOLEAN
    BY <2>1, <2>2, InstallAssumption DEF InstallAssumption
  <2>4. r.sig.of = b /\ r.sig.trusted = TRUE
    BY <2>1, <2>2, <2>3
  <2>5. QED
    BY <2>3, <2>4 DEF Signed
<1>3. QED
  BY <1>1, <1>2 DEF PluginIds

(* A plugin that is registered leaves the ones that are loaded alone.        *)
LEMMA Registers ==
  ASSUME InstallTypes, TrustedWasSigned, NEW b \in WasmBinaries, NEW tier \in Tiers,
         tier = "trusted" => Signed(b), Register(b, tier)
  PROVE  /\ slot' \in [PluginIds -> Loaded \cup {Absent}]
         /\ TrustedWasSigned'
         /\ slot'[ManifestId[b]] # Absent
         /\ \A id \in PluginIds : slot[id] # Absent => slot'[id] # Absent
<1> DEFINE new == [manifest |-> b, module |-> b, tier |-> tier, checked |-> tier]
           i == ManifestId[b]
<1>1. new \in Loaded /\ new # Absent /\ i \in PluginIds
  BY InstallAssumption DEF InstallAssumption, Loaded, PluginIds
<1>2. /\ new.manifest = b /\ new.module = b /\ new.tier = tier /\ new.checked = tier
  OBVIOUS
<1>3. slot \in [PluginIds -> Loaded \cup {Absent}]
  BY DEF InstallTypes
<1>4. slot' = [slot EXCEPT ![i] = IF slot[i] = Absent THEN new ELSE slot[i]]
  BY DEF Register
<1> HIDE DEF new, i
<1>5. \A id \in PluginIds :
        slot'[id] = IF id = i /\ slot[i] = Absent THEN new ELSE slot[id]
  BY <1>1, <1>3, <1>4
<1>6. slot' \in [PluginIds -> Loaded \cup {Absent}]
  BY <1>1, <1>3, <1>4, <1>5
<1>7. TrustedWasSigned'
  <2> SUFFICES ASSUME NEW id \in PluginIds, slot'[id] # Absent
               PROVE  /\ slot'[id].checked = "trusted" => Signed(slot'[id].module)
                      /\ slot'[id].tier = "trusted" => Signed(slot'[id].manifest)
    BY DEF TrustedWasSigned, Signed
  <2>1. CASE slot'[id] = slot[id]
    BY <2>1 DEF TrustedWasSigned, Signed
  <2>2. CASE slot'[id] = new
    BY <1>2, <2>2
  <2>3. QED
    BY <1>5, <2>1, <2>2
<1>8. QED
  BY <1>1, <1>5, <1>6, <1>7 DEF i

LEMMA Reloads ==
  ASSUME InstallTypes, TrustedWasSigned, NEW id \in PluginIds, NEW a \in Artifacts,
         NEW tier \in Tiers, HandleReload(id, a, tier)
  PROVE  /\ slot' \in [PluginIds -> Loaded \cup {Absent}]
         /\ TrustedWasSigned'
         /\ \A i \in PluginIds : slot[i] # Absent => slot'[i] # Absent
<1>1. slot \in [PluginIds -> Loaded \cup {Absent}]
  BY DEF InstallTypes
<1>2. CASE slot' = slot
  BY <1>1, <1>2 DEF TrustedWasSigned
<1>3. CASE slot' # slot
  <2> DEFINE b == file[a]
             new == [slot[id] EXCEPT !.module = b, !.checked = tier]
  <2>1. /\ slot[id] # Absent /\ Loads(b, sigFile[a], tier)
        /\ slot' = [slot EXCEPT ![id] = new]
    BY <1>3 DEF HandleReload
  <2>2. b \in WasmBinaries /\ (tier = "trusted" => Signed(b))
    BY <2>1, LoadedWasSigned
  <2>3. slot[id] \in Loaded
    BY <1>1, <2>1
  <2>4. /\ new \in Loaded /\ new.module = b /\ new.checked = tier
        /\ new.manifest = slot[id].manifest /\ new.tier = slot[id].tier
    BY <2>2, <2>3 DEF Loaded
  <2>5. new # Absent
    BY <2>4, InstallAssumption DEF InstallAssumption
  <2> HIDE DEF b, new
  <2>6. /\ slot' \in [PluginIds -> Loaded \cup {Absent}]
        /\ slot'[id] = new /\ \A i \in PluginIds : i # id => slot'[i] = slot[i]
    BY <1>1, <2>1, <2>4
  <2>7. TrustedWasSigned'
    <3> SUFFICES ASSUME NEW i \in PluginIds, slot'[i] # Absent
                 PROVE  /\ slot'[i].checked = "trusted" => Signed(slot'[i].module)
                        /\ slot'[i].tier = "trusted" => Signed(slot'[i].manifest)
      BY DEF TrustedWasSigned, Signed
    <3>1. CASE i # id
      BY <2>6, <3>1 DEF TrustedWasSigned, Signed
    <3>2. CASE i = id
      <4>1. slot'[i] = new
        BY <2>6, <3>2
      <4>2. slot[id].tier = "trusted" => Signed(slot[id].manifest)
        BY <2>1 DEF TrustedWasSigned, Signed
      <4>3. QED
        BY <2>2, <2>4, <4>1, <4>2
    <3>3. QED
      BY <3>1, <3>2
  <2>8. QED
    BY <2>5, <2>6, <2>7
<1>4. QED
  BY <1>2, <1>3

LEMMA InstallInvInit == InstallInit => InstallInv
<1> SUFFICES ASSUME InstallInit PROVE InstallInv
  OBVIOUS
<1>1. InstallTypes
  BY DEF InstallInit, InstallTypes, NoCommand, Commands, InstallSteps
<1>2. TrustedWasSigned /\ Scanned
  BY DEF InstallInit, TrustedWasSigned, Scanned
<1>3. QED
  BY <1>1, <1>2 DEF InstallInv

(* The host.                                                                 *)
LEMMA InvHost ==
  ASSUME InstallInv,
         \/ HostStarts \/ Serve \/ HostExits
         \/ \E a \in Artifacts : Scan(a) \/ PlaceSignature(a)
         \/ \E a \in Artifacts, tier \in Tiers : HandleLoad(a, tier)
  PROVE  InstallInv'
<1>1. InstallTypes /\ TrustedWasSigned /\ Scanned
  BY DEF InstallInv
<1>2. command' = command
  BY DEF HostStarts, Serve, HostExits, Scan, PlaceSignature, HandleLoad
<1>3. CASE HostStarts
  <2>1. (InstallTypes /\ TrustedWasSigned)'
    BY <1>1, <1>3 DEF HostStarts, diskVars, InstallTypes, TrustedWasSigned
  <2>2. Scanned'
    <3>1. Absent \notin WasmBinaries
      BY InstallAssumption DEF InstallAssumption
    <3>2. QED
      BY <1>3, <3>1 DEF HostStarts, diskVars, Scanned, Loads
  <2>3. QED
    BY <2>1, <2>2 DEF InstallInv
<1>4. CASE Serve
  <2>1. (InstallTypes /\ TrustedWasSigned)'
    BY <1>1, <1>4 DEF Serve, diskVars, InstallTypes, TrustedWasSigned
  <2>2. Scanned'
    BY <1>1, <1>4 DEF Serve, diskVars, Scanned, Loads, VerifySignature
  <2>3. QED
    BY <2>1, <2>2 DEF InstallInv
<1>5. CASE HostExits
  <2>1. (InstallTypes /\ TrustedWasSigned)'
    BY <1>1, <1>5 DEF HostExits, diskVars, InstallTypes, TrustedWasSigned
  <2>2. Scanned'
    BY <1>5 DEF HostExits, Scanned
  <2>3. QED
    BY <2>1, <2>2 DEF InstallInv
<1>6. ASSUME NEW a \in Artifacts, PlaceSignature(a) PROVE InstallInv'
  <2>1. PICK r \in Releases : sigFile' = [sigFile EXCEPT ![a] = r.sig]
    BY <1>6 DEF PlaceSignature
  <2>2. UNCHANGED <<file, host, toScan, slot, undisturbed>>
    BY <1>6 DEF PlaceSignature, hostVars
  <2>3. sigFile' \in [Artifacts -> {q.sig : q \in Releases} \cup {Absent}]
    BY <1>1, <2>1 DEF InstallTypes
  <2>4. InstallTypes'
    BY <1>1, <1>2, <2>2, <2>3 DEF InstallTypes
  <2>5. (TrustedWasSigned /\ Scanned)'
    BY <1>1, <2>2 DEF TrustedWasSigned, Scanned, Loads, VerifySignature
  <2>6. QED
    BY <2>4, <2>5 DEF InstallInv
<1>7. ASSUME NEW a \in Artifacts, Scan(a) PROVE InstallInv'
  <2>1. /\ UNCHANGED <<file, sigFile, host, undisturbed>>
        /\ toScan' = toScan \ {a} /\ host = "scanning"
    BY <1>7 DEF Scan, diskVars
  <2>2. CASE Loads(file[a], Absent, "untrusted")
    <3>1. Loads(file[a], sigFile[a], "untrusted") /\ Register(file[a], "untrusted")
      BY <1>7, <2>2, LoadsUntrusted DEF Scan
    <3>2. "untrusted" \in Tiers
      BY DEF Tiers
    <3>3. file[a] \in WasmBinaries
      BY <1>1, <3>1, LoadedWasSigned
    <3>4. /\ slot' \in [PluginIds -> Loaded \cup {Absent}]
          /\ TrustedWasSigned' /\ slot'[ManifestId[file[a]]] # Absent
          /\ \A id \in PluginIds : slot[id] # Absent => slot'[id] # Absent
      BY <1>1, <3>1, <3>2, <3>3, Registers
    <3>5. InstallTypes'
      BY <1>1, <1>2, <2>1, <3>4 DEF InstallTypes
    <3>6. Scanned'
      <4> SUFFICES ASSUME undisturbed, NEW c \in Artifacts \ toScan',
                          Loads(file[c], Absent, "untrusted")
                   PROVE  slot'[ManifestId[file[c]]] # Absent
        BY <2>1 DEF Scanned, Loads, VerifySignature
      <4>1. ManifestId[file[c]] \in PluginIds
        BY DEF Loads, PluginIds
      <4>2. QED
        BY <1>1, <2>1, <3>4, <4>1 DEF Scanned
    <3>7. QED
      BY <3>4, <3>5, <3>6 DEF InstallInv
  <2>3. CASE ~Loads(file[a], Absent, "untrusted")
    <3>1. slot' = slot
      BY <1>7, <2>3, LoadsUntrusted DEF Scan
    <3>2. (InstallTypes /\ TrustedWasSigned)'
      BY <1>1, <1>2, <2>1, <3>1 DEF InstallTypes, TrustedWasSigned
    <3>3. Scanned'
      BY <1>1, <2>1, <2>3, <3>1 DEF Scanned, Loads, VerifySignature
    <3>4. QED
      BY <3>2, <3>3 DEF InstallInv
  <2>4. QED
    BY <2>2, <2>3
<1>8. ASSUME NEW a \in Artifacts, NEW tier \in Tiers, HandleLoad(a, tier) PROVE InstallInv'
  <2>1. /\ UNCHANGED <<file, sigFile, host, toScan, undisturbed>>
        /\ Loads(file[a], sigFile[a], tier) /\ Register(file[a], tier)
    BY <1>8 DEF HandleLoad, diskVars
  <2>2. file[a] \in WasmBinaries /\ (tier = "trusted" => Signed(file[a]))
    BY <1>1, <2>1, LoadedWasSigned
  <2>3. /\ slot' \in [PluginIds -> Loaded \cup {Absent}] /\ TrustedWasSigned'
        /\ \A id \in PluginIds : slot[id] # Absent => slot'[id] # Absent
    BY <1>1, <2>1, <2>2, Registers
  <2>4. InstallTypes'
    BY <1>1, <1>2, <2>1, <2>3 DEF InstallTypes
  <2>5. Scanned'
    BY <1>1, <2>1, <2>3 DEF Scanned, Loads, PluginIds, VerifySignature
  <2>6. QED
    BY <2>3, <2>4, <2>5 DEF InstallInv
<1>9. QED
  BY <1>3, <1>4, <1>5, <1>6, <1>7, <1>8

(* A step of a command that leaves the host alone, or changes the files.     *)
LEMMA InvCommandSteps ==
  ASSUME InstallInv, NEW p \in Processes, NEW next \in Commands, next.at \in InstallSteps => next.release \in Releases,
         command' = [command EXCEPT ![p] = next],
         UNCHANGED <<sigFile, hostVars>>,
         UNCHANGED <<file, undisturbed>> \/ undisturbed' = FALSE
  PROVE  InstallInv'
<1>1. InstallTypes /\ TrustedWasSigned /\ Scanned
  BY DEF InstallInv
<1>2. /\ command' \in [Processes -> Commands]
      /\ \A q \in Processes : command'[q] = IF q = p THEN next ELSE command[q]
  BY <1>1 DEF InstallTypes
<1>3. InstallTypes'
  BY <1>1, <1>2 DEF InstallTypes, hostVars
<1>4. (TrustedWasSigned /\ Scanned)'
  BY <1>1 DEF TrustedWasSigned, Scanned, Loads, VerifySignature, hostVars
<1>5. QED
  BY <1>3, <1>4 DEF InstallInv

LEMMA InvCommand ==
  ASSUME InstallInv, NEW p \in Processes,
         \/ \E r \in Releases : cmd_install(p, r)
         \/ CreateArtifact(p) \/ WriteArtifact(p) \/ ValidatePlugin(p) \/ DiscardArtifact(p)
         \/ QueryVersion(p) \/ RegisterVersion(p)
         \/ \E id \in PluginIds : cmd_uninstall(p, id)
         \/ DeleteRow(p) \/ RemoveFiles(p) \/ CommandDies(p)
  PROVE  InstallInv'
<1>1. command \in [Processes -> Commands] /\ (At(p, "signal") \/ ~At(p, "signal"))
  BY DEF InstallInv, InstallTypes
<1>2. /\ UNCHANGED <<sigFile, hostVars>>
      /\ UNCHANGED <<file, undisturbed>> \/ undisturbed' = FALSE
  BY DEF cmd_install, CreateArtifact, WriteArtifact, WriteFile, ValidatePlugin, DiscardArtifact,
         QueryVersion, RegisterVersion, cmd_uninstall, DeleteRow, RemoveFiles, CommandDies, diskVars
<1>3. NoCommand \in Commands /\ NoCommand.at \notin InstallSteps
  BY DEF NoCommand, Commands, InstallSteps
<1>4. CASE End(p)
  BY <1>2, <1>3, <1>4, InvCommandSteps DEF End
<1>5. ASSUME NEW step \in InstallSteps \cup {"remove"}, Step(p, step),
             (At(p, "delete") /\ step = "remove") \/ command[p].at \in InstallSteps
      PROVE  InstallInv'
  <2> DEFINE next == [command[p] EXCEPT !.at = step]
  <2>1. next \in Commands /\ next.at = step /\ next.release = command[p].release
    BY <1>1 DEF Commands
  <2>2. next.at \in InstallSteps => next.release \in Releases
    BY <1>5, <2>1 DEF InstallInv, InstallTypes, InstallSteps
  <2>3. command' = [command EXCEPT ![p] = next]
    BY <1>5 DEF Step
  <2> HIDE DEF next
  <2>4. QED
    BY <1>2, <2>1, <2>2, <2>3, InvCommandSteps
<1>6. ASSUME NEW r \in Releases, cmd_install(p, r) PROVE InstallInv'
  <2> DEFINE next == [at |-> "create", release |-> r, id |-> r.id]
  <2>1. next \in Commands /\ next.release \in Releases
    BY DEF Commands, InstallSteps, PluginIds
  <2>2. command' = [command EXCEPT ![p] = next]
    BY <1>6 DEF cmd_install
  <2> HIDE DEF next
  <2>3. QED
    BY <1>2, <2>1, <2>2, InvCommandSteps
<1>7. ASSUME NEW id \in PluginIds, cmd_uninstall(p, id) PROVE InstallInv'
  <2> DEFINE next == [at |-> "unload", release |-> Absent, id |-> id]
  <2>1. next \in Commands /\ next.at \notin InstallSteps
    BY DEF Commands, InstallSteps
  <2>2. command' = [command EXCEPT ![p] = next]
    BY <1>7 DEF cmd_uninstall
  <2> HIDE DEF next
  <2>3. QED
    BY <1>2, <2>1, <2>2, InvCommandSteps
<1>8. CASE \/ CreateArtifact(p) \/ WriteArtifact(p) \/ ValidatePlugin(p) \/ QueryVersion(p)
           \/ RegisterVersion(p) \/ DeleteRow(p)
  <2>1. \/ End(p)
        \/ \E step \in InstallSteps \cup {"remove"} :
             /\ Step(p, step)
             /\ (At(p, "delete") /\ step = "remove") \/ command[p].at \in InstallSteps
    BY <1>8 DEF CreateArtifact, WriteArtifact, WriteFile, ValidatePlugin, QueryVersion,
                RegisterVersion, DeleteRow, At, InstallSteps
  <2>2. QED
    BY <1>4, <1>5, <2>1
<1>9. CASE DiscardArtifact(p) \/ RemoveFiles(p) \/ CommandDies(p)
  BY <1>4, <1>9 DEF DiscardArtifact, RemoveFiles, CommandDies
<1>10. QED
  BY <1>6, <1>7, <1>8, <1>9

(* The steps that ask the host to reload or to unload a plugin.              *)
LEMMA InvSignals ==
  ASSUME InstallInv, NEW p \in Processes, SignalReload(p) \/ SignalUnload(p)
  PROVE  InstallInv'
<1>1. InstallTypes /\ TrustedWasSigned /\ Scanned
  BY DEF InstallInv
<1>2. CASE SignalReload(p)
  <2> DEFINE r == command[p].release
  <2>1. r \in Releases /\ r.id \in PluginIds /\ r.artifact \in Artifacts /\ r.tier \in Tiers
    <3>1. r \in Releases
      BY <1>1, <1>2 DEF SignalReload, At, InstallTypes, InstallSteps
    <3>2. QED
      BY <3>1, InstallAssumption DEF InstallAssumption, PluginIds, Artifacts
  <2>2. /\ HandleReload(r.id, r.artifact, r.tier) /\ command' = [command EXCEPT ![p] = NoCommand]
        /\ UNCHANGED <<file, sigFile, host, toScan, undisturbed>>
    BY <1>2 DEF SignalReload, End, diskVars
  <2>3. /\ slot' \in [PluginIds -> Loaded \cup {Absent}] /\ TrustedWasSigned'
        /\ \A i \in PluginIds : slot[i] # Absent => slot'[i] # Absent
    BY <1>1, <2>1, <2>2, Reloads
  <2>4. NoCommand \in Commands /\ NoCommand.at \notin InstallSteps
    BY DEF NoCommand, Commands, InstallSteps
  <2>5. InstallTypes'
    BY <1>1, <2>2, <2>3, <2>4 DEF InstallTypes
  <2>6. Scanned'
    BY <1>1, <2>2, <2>3 DEF Scanned, Loads, PluginIds, VerifySignature
  <2>7. QED
    BY <2>3, <2>5, <2>6 DEF InstallInv
<1>3. CASE SignalUnload(p)
  <2> DEFINE next == [command[p] EXCEPT !.at = "delete"]
  <2>1. next \in Commands /\ next.at \notin InstallSteps
    BY <1>1 DEF InstallTypes, Commands, InstallSteps
  <2>2. command' = [command EXCEPT ![p] = next] /\ UNCHANGED <<sigFile, host, toScan>>
    BY <1>3 DEF SignalUnload, Step, diskVars
  <2>3. undisturbed' = FALSE
    BY <1>3 DEF SignalUnload
  <2> HIDE DEF next
  <2>4. /\ slot' \in [PluginIds -> Loaded \cup {Absent}]
        /\ \A id \in PluginIds : slot'[id] = slot[id] \/ slot'[id] = Absent
    BY <1>1, <1>3 DEF SignalUnload, InstallTypes
  <2>5. InstallTypes'
    BY <1>1, <2>1, <2>2, <2>4 DEF InstallTypes
  <2>6. (TrustedWasSigned /\ Scanned)'
    BY <1>1, <2>2, <2>3, <2>4 DEF TrustedWasSigned, Scanned
  <2>7. QED
    BY <2>5, <2>6 DEF InstallInv
<1>4. QED
  BY <1>2, <1>3

LEMMA InstallInvInductive == InstallInv /\ [InstallNext]_installVars => InstallInv'
<1> SUFFICES ASSUME InstallInv, [InstallNext]_installVars PROVE InstallInv'
  OBVIOUS
<1>1. CASE UNCHANGED installVars
  <2>1. UNCHANGED <<file, sigFile, host, toScan, slot, command, undisturbed>>
    BY <1>1 DEF installVars, diskVars, hostVars
  <2>2. QED
    BY <2>1 DEF InstallInv, InstallTypes, TrustedWasSigned, Scanned, Loads, VerifySignature
<1>2. CASE InstallNext
  BY <1>2, InvHost, InvCommand, InvSignals DEF InstallNext
<1>3. QED
  BY <1>1, <1>2

(* Code that is in the host under the Trusted tier was signed, whatever      *)
(* commands, loads and starts have brought it there.                         *)
THEOREM TrustedCodeWasSigned == InstallSpec => []TrustedWasSigned
<1>1. InstallInv => TrustedWasSigned
  BY DEF InstallInv
<1>2. QED
  BY <1>1, InstallInvInit, InstallInvInductive, PTL DEF InstallSpec

(* A start of the host loads every file that loads, whatever the others are. *)
THEOREM StartLoadsAll == InstallSpec => []StartLoadsWhatItCan
<1>1. InstallInv => StartLoadsWhatItCan
  BY DEF InstallInv, Scanned, StartLoadsWhatItCan
<1>2. QED
  BY <1>1, InstallInvInit, InstallInvInductive, PTL DEF InstallSpec

-----------------------------------------------------------------------------
(* The order of loading.                                                     *)

LEMMA LeastOf ==
  ASSUME NEW S \in SUBSET Nat, S # {}
  PROVE  \E x \in S : \A y \in S : x <= y
<1>1. PICK x \in S : \A y \in S : ~(<<y, x>> \in OpToRel(<, Nat))
  BY WFMin, NatLessThanWellFounded
<1>2. \A y \in S : ~(y < x)
  BY <1>1 DEF OpToRel
<1>3. QED
  BY <1>2

(* A queue made of a set holds every element of it once.                     *)
LEMMA QueueOfSet ==
  ASSUME NEW S, IsFiniteSet(S), NEW s \in SetToSeqs(S)
  PROVE  s \in Seq(S) /\ IsInjective(s) /\ Range(s) = S
<1> DEFINE D == 1..Cardinality(S)
<1>1. Cardinality(S) \in Nat
  BY FS_CardinalityType
<1>2. IsFiniteSet(D) /\ Cardinality(D) = Cardinality(S)
  BY <1>1, FS_Interval
<1>3. s \in [D -> S] /\ \A i, j \in D : i # j => s[i] # s[j]
  BY DEF SetToSeqs
<1>4. IsInjective(s) /\ s \in Injection(D, S)
  BY <1>3 DEF IsInjective, Injection
<1>5. s \in Surjection(D, S)
  BY <1>2, <1>4, FS_Injection
<1>6. Range(s) = S
  BY <1>3, <1>5 DEF Surjection, Range
<1>7. s \in Seq(S)
  BY <1>1, <1>3
<1>8. QED
  BY <1>4, <1>6, <1>7

GivenOK ==
  /\ DOMAIN given \subseteq PluginNames
  /\ \A p \in DOMAIN given : given[p] \in Seq(PluginNames)

(* A plugin depends on at most as many others as its list has entries, and   *)
(* on fewer only when one is listed twice.                                   *)
LEMMA Dependencies ==
  ASSUME GivenOK, NEW p \in DOMAIN given
  PROVE  /\ Deps(p) \subseteq DOMAIN given
         /\ IsFiniteSet(DepAt(p)) /\ IsFiniteSet(Deps(p))
         /\ Cardinality(DepAt(p)) \in Nat /\ Cardinality(Deps(p)) \in Nat
         /\ Cardinality(Deps(p)) <= Cardinality(DepAt(p))
         /\ Cardinality(Deps(p)) = Cardinality(DepAt(p)) <=>
              \A m, n \in DepAt(p) : given[p][m] = given[p][n] => m = n
<1> DEFINE f == [n \in DepAt(p) |-> given[p][n]]
<1>1. Deps(p) \subseteq DOMAIN given
  BY DEF Deps, DepAt
<1>2. IsFiniteSet(DepAt(p))
  <2>1. DOMAIN given[p] = 1..Len(given[p]) /\ Len(given[p]) \in Nat
    BY DEF GivenOK
  <2>2. IsFiniteSet(1..Len(given[p]))
    BY <2>1, FS_Interval
  <2>3. DepAt(p) \in SUBSET (1..Len(given[p]))
    BY <2>1 DEF DepAt
  <2>4. QED
    BY <2>2, <2>3, FS_Subset
<1>3. f \in Surjection(DepAt(p), Deps(p))
  BY DEF Surjection, Deps
<1>4. /\ IsFiniteSet(Deps(p))
      /\ Cardinality(Deps(p)) <= Cardinality(DepAt(p))
      /\ Cardinality(Deps(p)) = Cardinality(DepAt(p)) <=> f \in Injection(DepAt(p), Deps(p))
  BY <1>2, <1>3, FS_Surjection
<1>5. f \in Injection(DepAt(p), Deps(p)) <=>
        \A m, n \in DepAt(p) : given[p][m] = given[p][n] => m = n
  BY <1>3 DEF Injection, IsInjective, Surjection
<1>6. Cardinality(DepAt(p)) \in Nat /\ Cardinality(Deps(p)) \in Nat
  BY <1>2, <1>4, FS_CardinalityType
<1>7. QED
  BY <1>1, <1>2, <1>4, <1>5, <1>6

LEMMA EntriesCounted == GivenOK => \A p \in DOMAIN given : Cardinality(DepAt(p)) \in Nat
BY Dependencies

Out == Range(order)
Waiting == Range(queue)

(* The in-degree of a plugin is the number of entries of its list less the   *)
(* dependencies that are out, and the plugins that are out or in the queue   *)
(* are those with nothing left to wait for.                                  *)
Counted ==
  /\ in_degree \in [DOMAIN given -> Int]
  /\ \A p \in DOMAIN given :
       /\ in_degree[p] = Cardinality(DepAt(p)) - Cardinality(Deps(p) \cap Out)
       /\ in_degree[p] = 0 <=> p \in Out \cup Waiting

Queued ==
  /\ order \in Seq(DOMAIN given) /\ queue \in Seq(DOMAIN given)
  /\ IsInjective(order) /\ IsInjective(queue) /\ Out \cap Waiting = {}

DependenciesFirst ==
  \A i \in DOMAIN order : Deps(order[i]) \subseteq {order[j] : j \in 1..(i - 1)}

Phases ==
  /\ phase \in {"idle", "loop", "done"}
  /\ phase = "idle" => order = <<>> /\ queue = <<>>
  /\ phase = "done" => queue = <<>>

OrderInv == GivenOK /\ Queued /\ Counted /\ DependenciesFirst /\ Phases

(* Nothing to wait for: everything the plugin depends on is out, and nothing *)
(* is listed twice.                                                          *)
LEMMA NothingToWaitFor ==
  ASSUME GivenOK, Counted, NEW p \in DOMAIN given
  PROVE  /\ in_degree[p] \in Nat
         /\ in_degree[p] = 0 => /\ Deps(p) \subseteq Out
                                /\ Cardinality(Deps(p)) = Cardinality(DepAt(p))
<1> DEFINE S == Deps(p) \cap Out
<1>1. /\ IsFiniteSet(Deps(p)) /\ Cardinality(Deps(p)) \in Nat /\ Cardinality(DepAt(p)) \in Nat
      /\ Cardinality(Deps(p)) <= Cardinality(DepAt(p))
  BY Dependencies
<1>2. /\ S \in SUBSET Deps(p) /\ IsFiniteSet(S) /\ Cardinality(S) \in Nat
      /\ Cardinality(S) <= Cardinality(Deps(p))
      /\ Cardinality(Deps(p)) = Cardinality(S) => Deps(p) = S
  BY <1>1, FS_Subset, FS_CardinalityType
<1>3. in_degree[p] = Cardinality(DepAt(p)) - Cardinality(S)
  BY DEF Counted
<1>4. QED
  BY <1>1, <1>2, <1>3

LEMMA OrderInvInit == OrderInit => OrderInv
<1> SUFFICES ASSUME OrderInit PROVE OrderInv
  OBVIOUS
<1>1. DOMAIN given = {} /\ DOMAIN order = {} /\ DOMAIN queue = {} /\ DOMAIN in_degree = {}
  BY DEF OrderInit
<1>2. GivenOK /\ DependenciesFirst /\ Phases
  BY <1>1 DEF OrderInit, GivenOK, DependenciesFirst, Phases
<1>3. Queued
  BY <1>1 DEF OrderInit, Queued, Out, Waiting, Range, IsInjective
<1>4. Counted
  BY <1>1 DEF OrderInit, Counted
<1>5. QED
  BY <1>2, <1>3, <1>4 DEF OrderInv

LEMMA InvOrderStarts ==
  ASSUME OrderInv, NEW S \in SUBSET PluginNames, NEW m \in [S -> Lists], topological_order(m)
  PROVE  OrderInv'
<1>1. /\ given' = m /\ DOMAIN given' = S /\ order' = <<>> /\ phase' = "loop"
      /\ in_degree' = [p \in S |-> Cardinality(DepAt(p)')]
  BY DEF topological_order, OrderInv, Phases
<1>2. GivenOK'
  <2>1. \A l \in Lists : l \in Seq(PluginNames)
    BY LoadOrderAssumption DEF LoadOrderAssumption, Lists, SeqOf
  <2>2. QED
    BY <1>1, <2>1 DEF GivenOK
<1> DEFINE free == {p \in S : in_degree'[p] = 0}
<1>3. queue' \in SetToSeqs(free)
  BY <1>1 DEF topological_order, SortedQueues
<1>4. IsFiniteSet(free)
  <2>1. free \in SUBSET PluginNames /\ IsFiniteSet(PluginNames)
    BY LoadOrderAssumption DEF LoadOrderAssumption
  <2>2. QED
    BY <2>1, FS_Subset
<1>5. queue' \in Seq(free) /\ IsInjective(queue') /\ Range(queue') = free
  BY <1>3, <1>4, QueueOfSet
<1>6. Out' = {} /\ DOMAIN order' = {}
  BY <1>1 DEF Out, Range
<1>7. Queued'
  <2>1. queue' \in Seq(S)
    BY <1>5
  <2>2. order' \in Seq(S) /\ IsInjective(order')
    BY <1>1, <1>6 DEF IsInjective
  <2>3. QED
    BY <1>1, <1>5, <1>6, <2>1, <2>2 DEF Queued
<1>8. Counted'
  <2>1. \A p \in S : Cardinality(DepAt(p)') \in Nat
    <3>1. (GivenOK => \A p \in DOMAIN given : Cardinality(DepAt(p)) \in Nat)'
      BY EntriesCounted, PTL
    <3>2. QED
      BY <1>1, <1>2, <3>1
  <2>2. in_degree' \in [S -> Int]
    BY <1>1, <2>1
  <2>3. \A p \in S : /\ in_degree'[p] = Cardinality(DepAt(p)') - 0
                      /\ in_degree'[p] = 0 <=> p \in Range(queue')
    BY <1>1, <1>5, <2>1
  <2>4. \A p : (Deps(p) \cap Out)' = {}
    BY <1>6
  <2>5. QED
    BY <1>1, <1>6, <2>2, <2>3, <2>4, FS_EmptySet DEF Counted, Waiting
<1>9. DependenciesFirst' /\ Phases'
  BY <1>1, <1>6 DEF DependenciesFirst, Phases
<1>10. QED
  BY <1>2, <1>7, <1>8, <1>9 DEF OrderInv

LEMMA InvPop == ASSUME OrderInv, Pop PROVE OrderInv'
<1> DEFINE G == DOMAIN given
           id == Head(queue)
<1>1. /\ GivenOK /\ Queued /\ Counted /\ DependenciesFirst /\ Phases
      /\ queue \in Seq(G) /\ order \in Seq(G) /\ queue # <<>>
  BY DEF OrderInv, Queued, Pop
<1>2. PICK s \in SetToSeqs(Freed(id)) : queue' = Tail(queue) \o s
  BY DEF Pop
<1>3. /\ given' = given /\ phase' = phase /\ order' = Append(order, id)
      /\ in_degree' = [p \in G |-> IF id \in Deps(p) THEN in_degree[p] - 1 ELSE in_degree[p]]
  BY DEF Pop
<1>4. /\ id = queue[1] /\ id \in G /\ id \in Waiting /\ id \notin Out
      /\ Len(queue) \in Nat \ {0} /\ DOMAIN queue = 1..Len(queue)
  <2>1. Len(queue) \in Nat \ {0} /\ DOMAIN queue = 1..Len(queue) /\ id = queue[1]
    BY <1>1
  <2>2. id \in G /\ id \in Waiting
    BY <1>1, <2>1 DEF Waiting, Range
  <2>3. QED
    BY <1>1, <2>1, <2>2 DEF Queued
<1>5. Freed(id) \in SUBSET G /\ IsFiniteSet(Freed(id))
  <2>1. Freed(id) \in SUBSET PluginNames /\ Freed(id) \in SUBSET G
    BY <1>1 DEF Freed, GivenOK
  <2>2. QED
    BY <2>1, FS_Subset, LoadOrderAssumption DEF LoadOrderAssumption
<1>6. s \in Seq(G) /\ IsInjective(s) /\ Range(s) = Freed(id)
  BY <1>2, <1>5, QueueOfSet
<1> HIDE DEF id
<1>7. \A p \in G : in_degree[p] = 0 => id \notin Deps(p)
  BY <1>1, <1>4, NothingToWaitFor
<1>8. Freed(id) \cap (Out \cup Waiting) = {}
  BY <1>1, <1>7 DEF Freed, Counted
<1> DEFINE rest == Tail(queue)
<1>9. /\ rest \in Seq(G) /\ IsInjective(rest) /\ Range(rest) = Waiting \ {id}
      /\ Len(rest) \in Nat /\ DOMAIN rest = 1..Len(rest)
  <2>1. /\ rest \in Seq(G) /\ Len(rest) = Len(queue) - 1 /\ DOMAIN rest = 1..Len(rest)
        /\ \A i \in 1..Len(rest) : rest[i] = queue[i + 1]
    BY <1>1, HeadTailProperties, LenProperties
  <2> HIDE DEF rest
  <2>2. \A i, j \in 1..Len(queue) : queue[i] = queue[j] => i = j
    BY <1>1, <1>4 DEF Queued, IsInjective
  <2>3. IsInjective(rest)
    <3> SUFFICES ASSUME NEW i \in 1..Len(rest), NEW j \in 1..Len(rest), rest[i] = rest[j]
                 PROVE  i = j
      BY <2>1 DEF IsInjective
    <3>1. i + 1 \in 1..Len(queue) /\ j + 1 \in 1..Len(queue)
      BY <1>4, <2>1
    <3>2. i + 1 = j + 1
      BY <2>1, <2>2, <3>1
    <3>3. QED
      BY <3>2
  <2>4. ASSUME NEW x \in Range(rest) PROVE x \in Waiting \ {id}
    <3>1. PICK i \in 1..Len(rest) : x = rest[i]
      BY <2>1 DEF Range
    <3>2. i + 1 \in 1..Len(queue) /\ x = queue[i + 1] /\ 1 \in 1..Len(queue) /\ i + 1 # 1
      BY <1>4, <2>1, <3>1
    <3>3. QED
      BY <1>4, <2>2, <3>2 DEF Waiting, Range
  <2>5. ASSUME NEW x \in Waiting \ {id} PROVE x \in Range(rest)
    <3>1. PICK i \in 1..Len(queue) : x = queue[i]
      BY <1>4 DEF Waiting, Range
    <3>2. i # 1 /\ i - 1 \in 1..Len(rest) /\ (i - 1) + 1 = i
      BY <1>4, <2>1, <2>5, <3>1
    <3>3. rest[i - 1] = x
      BY <2>1, <3>1, <3>2
    <3>4. QED
      BY <2>1, <3>2, <3>3 DEF Range
  <2>6. QED
    BY <1>4, <2>1, <2>3, <2>4, <2>5
<1>10. /\ queue' \in Seq(G) /\ IsInjective(queue') /\ Waiting' = (Waiting \ {id}) \cup Freed(id)
  <2> HIDE DEF rest
  <2>1. /\ queue' \in Seq(G) /\ Len(queue') = Len(rest) + Len(s)
        /\ \A i \in 1..(Len(rest) + Len(s)) :
             queue'[i] = IF i <= Len(rest) THEN rest[i] ELSE s[i - Len(rest)]
    BY <1>2, <1>6, <1>9, ConcatProperties DEF rest
  <2>2. Range(rest \o s) = Range(rest) \cup Range(s)
    BY <1>6, <1>9, RangeConcatenation
  <2>3. Waiting' = (Waiting \ {id}) \cup Freed(id)
    BY <1>2, <1>6, <1>9, <2>2 DEF Waiting, rest
  <2>4. Len(s) \in Nat /\ DOMAIN s = 1..Len(s) /\ DOMAIN queue' = 1..(Len(rest) + Len(s))
    BY <1>6, <2>1, LenProperties
  <2>5. \A i \in 1..Len(rest), j \in 1..Len(s) : rest[i] # s[j]
    BY <1>6, <1>8, <1>9, <2>4 DEF Range
  <2>6. IsInjective(queue')
    <3> SUFFICES ASSUME NEW i \in 1..(Len(rest) + Len(s)), NEW j \in 1..(Len(rest) + Len(s)),
                        queue'[i] = queue'[j]
                 PROVE  i = j
      BY <2>4 DEF IsInjective
    <3>1. CASE i <= Len(rest) /\ j <= Len(rest)
      <4>1. i \in 1..Len(rest) /\ j \in 1..Len(rest)
        BY <1>9, <3>1
      <4>2. QED
        BY <1>9, <2>1, <3>1, <4>1 DEF IsInjective
    <3>2. CASE i > Len(rest) /\ j > Len(rest)
      <4>1. i - Len(rest) \in 1..Len(s) /\ j - Len(rest) \in 1..Len(s)
        BY <1>9, <2>4, <3>2
      <4>2. queue'[i] = s[i - Len(rest)] /\ queue'[j] = s[j - Len(rest)]
        BY <1>9, <2>1, <2>4, <3>2
      <4>3. i - Len(rest) = j - Len(rest)
        BY <1>6, <2>4, <4>1, <4>2 DEF IsInjective
      <4>4. QED
        BY <1>9, <2>4, <4>3
    <3>3. CASE i <= Len(rest) /\ j > Len(rest)
      <4>1. i \in 1..Len(rest) /\ j - Len(rest) \in 1..Len(s)
        BY <1>9, <2>4, <3>3
      <4>2. queue'[i] = rest[i] /\ queue'[j] = s[j - Len(rest)]
        BY <1>9, <2>1, <2>4, <3>3
      <4>3. QED
        BY <2>5, <4>1, <4>2
    <3>4. CASE i > Len(rest) /\ j <= Len(rest)
      <4>1. j \in 1..Len(rest) /\ i - Len(rest) \in 1..Len(s)
        BY <1>9, <2>4, <3>4
      <4>2. queue'[j] = rest[j] /\ queue'[i] = s[i - Len(rest)]
        BY <1>9, <2>1, <2>4, <3>4
      <4>3. QED
        BY <2>5, <4>1, <4>2
    <3>5. QED
      BY <1>9, <2>4, <3>1, <3>2, <3>3, <3>4
  <2>7. QED
    BY <2>1, <2>3, <2>6
<1>11. /\ order' \in Seq(G) /\ IsInjective(order') /\ Out' = Out \cup {id}
       /\ Len(order) \in Nat /\ DOMAIN order = 1..Len(order) /\ DOMAIN order' = 1..(Len(order) + 1)
       /\ \A i \in 1..Len(order) : order'[i] = order[i]
       /\ order'[Len(order) + 1] = id
  <2>1. /\ order' \in Seq(G) /\ Len(order') = Len(order) + 1
        /\ \A i \in 1..Len(order) : order'[i] = order[i]
        /\ order'[Len(order) + 1] = id
    BY <1>1, <1>3, <1>4, AppendProperties
  <2>2. /\ Len(order) \in Nat /\ DOMAIN order = 1..Len(order)
        /\ DOMAIN order' = 1..(Len(order) + 1)
    BY <1>1, <2>1, LenProperties
  <2>3. \A i \in 1..Len(order) : order[i] # id
    BY <1>4, <2>2 DEF Out, Range
  <2>4. \A i, j \in 1..Len(order) : order[i] = order[j] => i = j
    BY <1>1, <2>2 DEF Queued, IsInjective
  <2>5. \A i \in 1..(Len(order) + 1) : i \in 1..Len(order) \/ i = Len(order) + 1
    BY <2>2
  <2>6. IsInjective(order')
    BY <2>1, <2>2, <2>3, <2>4, <2>5 DEF IsInjective
  <2>7. ASSUME NEW x \in Out' PROVE x \in Out \cup {id}
    <3>1. PICK i \in 1..(Len(order) + 1) : x = order'[i]
      BY <2>2 DEF Out, Range
    <3>2. QED
      BY <2>1, <2>2, <2>5, <3>1 DEF Out, Range
  <2>8. ASSUME NEW x \in Out \cup {id} PROVE x \in Out'
    <3>1. CASE x = id
      <4>1. Len(order) + 1 \in 1..(Len(order) + 1)
        BY <2>2
      <4>2. QED
        BY <2>1, <2>2, <3>1, <4>1 DEF Out, Range
    <3>2. CASE x \in Out
      <4>1. PICK i \in 1..Len(order) : x = order[i]
        BY <2>2, <3>2 DEF Out, Range
      <4>2. i \in 1..(Len(order) + 1)
        BY <2>2
      <4>3. QED
        BY <2>1, <2>2, <4>1, <4>2 DEF Out, Range
    <3>3. QED
      BY <2>8, <3>1, <3>2
  <2>9. QED
    BY <2>1, <2>2, <2>6, <2>7, <2>8
<1>12. (GivenOK /\ Phases)'
  <2>1. phase = "loop"
    BY <1>1 DEF Phases
  <2>2. QED
    BY <1>1, <1>3, <2>1 DEF GivenOK, Phases
<1>13. Queued'
  BY <1>1, <1>3, <1>4, <1>8, <1>10, <1>11 DEF Queued
<1>14. Counted'
  <2>1. in_degree' \in [G -> Int]
    BY <1>1, <1>3 DEF Counted
  <2>2. ASSUME NEW p \in G
        PROVE  /\ in_degree'[p] = Cardinality(DepAt(p)) - Cardinality(Deps(p) \cap Out')
               /\ in_degree'[p] = 0 <=> p \in Out' \cup Waiting'
    <3>1. /\ in_degree[p] = Cardinality(DepAt(p)) - Cardinality(Deps(p) \cap Out)
          /\ in_degree[p] = 0 <=> p \in Out \cup Waiting
          /\ in_degree[p] \in Nat
      BY <1>1, NothingToWaitFor DEF Counted
    <3>2. p \in Out' \cup Waiting' <=> p \in Out \cup Waiting \/ p \in Freed(id)
      BY <1>4, <1>10, <1>11
    <3>3. /\ IsFiniteSet(Deps(p)) /\ Cardinality(DepAt(p)) \in Nat
          /\ IsFiniteSet(Deps(p) \cap Out) /\ Cardinality(Deps(p) \cap Out) \in Nat
      BY <1>1, Dependencies, FS_Intersection, FS_CardinalityType
    <3>4. CASE id \in Deps(p)
      <4>1. Deps(p) \cap Out' = (Deps(p) \cap Out) \cup {id} /\ id \notin Deps(p) \cap Out
        BY <1>4, <1>11, <3>4
      <4>2. Cardinality(Deps(p) \cap Out') = Cardinality(Deps(p) \cap Out) + 1
        BY <3>3, <4>1, FS_AddElement
      <4>3. in_degree'[p] = in_degree[p] - 1 /\ in_degree[p] # 0
        BY <1>3, <1>7, <3>4
      <4>4. p \in Freed(id) <=> in_degree[p] = 1
        BY <3>4 DEF Freed
      <4>5. QED
        BY <3>1, <3>2, <3>3, <4>2, <4>3, <4>4
    <3>5. CASE id \notin Deps(p)
      <4>1. Deps(p) \cap Out' = Deps(p) \cap Out
        BY <1>11, <3>5
      <4>2. in_degree'[p] = in_degree[p] /\ p \notin Freed(id)
        BY <1>3, <3>5 DEF Freed
      <4>3. QED
        BY <3>1, <3>2, <4>1, <4>2
    <3>6. QED
      BY <3>4, <3>5
  <2>3. \A p : DepAt(p)' = DepAt(p) /\ Deps(p)' = Deps(p)
    BY <1>3 DEF DepAt, Deps
  <2>4. QED
    BY <1>3, <2>1, <2>2, <2>3 DEF Counted
<1>15. DependenciesFirst'
  <2>1. in_degree[id] = 0
    BY <1>1, <1>4 DEF Counted
  <2>2. Deps(id) \subseteq Out
    BY <1>1, <1>4, <2>1, NothingToWaitFor
  <2>3. \A p : Deps(p)' = Deps(p)
    BY <1>3 DEF DepAt, Deps
  <2> SUFFICES ASSUME NEW i \in 1..(Len(order) + 1)
               PROVE  Deps(order'[i]) \subseteq {order'[j] : j \in 1..(i - 1)}
    BY <1>11, <2>3 DEF DependenciesFirst
  <2>4. CASE i = Len(order) + 1
    <3>1. i - 1 = Len(order) /\ order'[i] = id
      BY <1>11, <2>4
    <3>2. Out = {order'[j] : j \in 1..(i - 1)}
      BY <1>11, <3>1 DEF Out, Range
    <3>3. QED
      BY <2>2, <3>1, <3>2
  <2>5. CASE i # Len(order) + 1
    <3>1. i \in 1..Len(order) /\ \A j \in 1..(i - 1) : j \in 1..Len(order)
      BY <1>11, <2>5
    <3>2. {order'[j] : j \in 1..(i - 1)} = {order[j] : j \in 1..(i - 1)}
      BY <1>11, <3>1
    <3>3. QED
      BY <1>1, <1>11, <3>1, <3>2 DEF DependenciesFirst
  <2>6. QED
    BY <2>4, <2>5
<1>16. QED
  BY <1>12, <1>13, <1>14, <1>15 DEF OrderInv

LEMMA OrderInvInductive == OrderInv /\ [OrderNext]_orderVars => OrderInv'
<1> SUFFICES ASSUME OrderInv, [OrderNext]_orderVars PROVE OrderInv'
  OBVIOUS
<1>1. ASSUME UNCHANGED <<given, in_degree, queue, order>>, phase' = phase \/ EndOfLoop
      PROVE  OrderInv'
  <2>1. \A p : DepAt(p)' = DepAt(p) /\ Deps(p)' = Deps(p)
    BY <1>1 DEF DepAt, Deps
  <2>2. Out' = Out /\ Waiting' = Waiting
    BY <1>1 DEF Out, Waiting
  <2>3. GivenOK' /\ DependenciesFirst'
    BY <1>1, <2>1 DEF OrderInv, GivenOK, DependenciesFirst
  <2>4. Phases'
    BY <1>1 DEF OrderInv, Phases, EndOfLoop
  <2>5. Queued'
    BY <1>1, <2>2 DEF OrderInv, Queued
  <2>6. Counted'
    BY <1>1, <2>1, <2>2 DEF OrderInv, Counted
  <2>7. QED
    BY <2>3, <2>4, <2>5, <2>6 DEF OrderInv
<1>2. CASE \E S \in SUBSET PluginNames : \E m \in [S -> Lists] : topological_order(m)
  BY <1>2, InvOrderStarts
<1>3. CASE Pop
  BY <1>3, InvPop
<1>4. QED
  BY <1>1, <1>2, <1>3 DEF OrderNext, orderVars, EndOfLoop

(* All plugins are out just when their number is.                            *)
LEMMA OrderedIsAll ==
  ASSUME OrderInv PROVE Ordered <=> Out = DOMAIN given
<1>1. order \in Seq(DOMAIN given) /\ IsInjective(order) /\ IsFiniteSet(DOMAIN given)
  <2>1. DOMAIN given \in SUBSET PluginNames
    BY DEF OrderInv, GivenOK
  <2>2. QED
    BY <2>1, FS_Subset, LoadOrderAssumption DEF LoadOrderAssumption, OrderInv, Queued
<1> DEFINE D == 1..Len(order)
<1>2. Len(order) \in Nat /\ DOMAIN order = D /\ order \in [D -> DOMAIN given]
  BY <1>1, LenProperties
<1>3. IsFiniteSet(D) /\ Cardinality(D) = Len(order)
  BY <1>2, FS_Interval
<1>4. order \in Injection(D, DOMAIN given)
  BY <1>1, <1>2 DEF Injection
<1>5. Cardinality(D) = Cardinality(DOMAIN given) <=> order \in Surjection(D, DOMAIN given)
  BY <1>1, <1>4, FS_Injection
<1>6. order \in Surjection(D, DOMAIN given) <=> Out = DOMAIN given
  BY <1>2 DEF Surjection, Out, Range
<1>7. QED
  BY <1>3, <1>5, <1>6 DEF Ordered

(* The first plugin of a circle to come out would have to wait for another.  *)
LEMMA OrderedIsAcyclic ==
  ASSUME OrderInv, Out = DOMAIN given PROVE ~Cyclic /\ ~ListedTwice
<1>1. /\ GivenOK /\ Counted /\ DependenciesFirst /\ order \in Seq(DOMAIN given)
  BY DEF OrderInv, Queued
<1>2. ASSUME NEW S \in (SUBSET DOMAIN given) \ {{}}, \A p \in S : Deps(p) \cap S # {}
      PROVE  FALSE
  <2> DEFINE at == {i \in DOMAIN order : order[i] \in S}
  <2>1. Len(order) \in Nat /\ DOMAIN order = 1..Len(order)
    BY <1>1
  <2>2. at \in SUBSET Nat /\ at # {}
    <3>1. S # {} /\ S \subseteq DOMAIN given
      BY <1>2
    <3>2. PICK p \in S : p \in Out
      BY <3>1
    <3>3. PICK i \in DOMAIN order : order[i] = p
      BY <3>2 DEF Out, Range
    <3>4. QED
      BY <2>1, <3>2, <3>3
  <2>3. PICK i \in at : \A j \in at : i <= j
    BY <2>2, LeastOf
  <2>4. PICK d \in Deps(order[i]) : d \in S
    BY <1>2, <2>3
  <2>5. PICK j \in 1..(i - 1) : d = order[j]
    BY <1>1, <2>3, <2>4 DEF DependenciesFirst
  <2>6. j \in at /\ j < i
    BY <2>1, <2>3, <2>4, <2>5
  <2>7. QED
    BY <2>1, <2>3, <2>6
<1>3. ASSUME NEW p \in DOMAIN given
      PROVE  \A m, n \in DepAt(p) : given[p][m] = given[p][n] => m = n
  <2>1. in_degree[p] = 0
    BY <1>1 DEF Counted
  <2>2. Cardinality(Deps(p)) = Cardinality(DepAt(p))
    BY <1>1, <2>1, NothingToWaitFor
  <2>3. QED
    BY <1>1, <2>2, Dependencies
<1>4. QED
  BY <1>2, <1>3 DEF Cyclic, ListedTwice

(* What never comes out waits for others that never do.                      *)
LEMMA AcyclicIsOrdered ==
  ASSUME OrderInv, phase = "done", ~Cyclic, ~ListedTwice PROVE Out = DOMAIN given
<1> DEFINE S == DOMAIN given \ Out
<1>1. GivenOK /\ Counted /\ Out \subseteq DOMAIN given /\ Waiting = {}
  <2>1. queue = <<>> /\ order \in Seq(DOMAIN given)
    BY DEF OrderInv, Phases, Queued
  <2>2. QED
    BY <2>1, RangeOfSeq DEF OrderInv, Out, Waiting, Range
<1>2. ASSUME NEW p \in S PROVE Deps(p) \cap S # {}
  <2>1. \A m, n \in DepAt(p) : given[p][m] = given[p][n] => m = n
    BY DEF ListedTwice
  <2>2. /\ Cardinality(Deps(p)) = Cardinality(DepAt(p)) /\ Cardinality(Deps(p)) \in Nat
        /\ Deps(p) \subseteq DOMAIN given
    BY <1>1, <2>1, Dependencies
  <2>3. in_degree[p] # 0 /\ in_degree[p] = Cardinality(DepAt(p)) - Cardinality(Deps(p) \cap Out)
    BY <1>1 DEF Counted
  <2>4. Deps(p) \cap Out # Deps(p)
    <3>1. ASSUME Deps(p) \cap Out = Deps(p) PROVE FALSE
      <4>1. in_degree[p] = Cardinality(DepAt(p)) - Cardinality(Deps(p))
        BY <2>3, <3>1
      <4>2. QED
        BY <2>2, <2>3, <4>1
    <3>2. QED
      BY <3>1
  <2>5. QED
    BY <2>2, <2>4
<1>3. S = {}
  BY <1>2 DEF Cyclic
<1>4. QED
  BY <1>1, <1>3

(* The answer of topological_order is right for any manifests: what it puts  *)
(* in order can be loaded in that order, and it gives up only on a cycle or  *)
(* on a list with a dependency twice.                                        *)
THEOREM LoadOrderIsRight == OrderSpec => []LoadOrderRight
<1>1. OrderInv => LoadOrderRight
  <2> SUFFICES ASSUME OrderInv PROVE LoadOrderRight
    OBVIOUS
  <2>1. /\ GivenOK /\ Counted /\ IsInjective(order) /\ DependenciesFirst
    BY DEF OrderInv, Queued
  <2>2. \A p \in DOMAIN in_degree : in_degree[p] \in Nat
    BY <2>1, NothingToWaitFor DEF Counted
  <2>3. phase = "done" => (Ordered <=> ~Cyclic /\ ~ListedTwice)
    BY OrderedIsAll, OrderedIsAcyclic, AcyclicIsOrdered
  <2>4. QED
    BY <2>1, <2>2, <2>3 DEF LoadOrderRight, DependenciesFirst, check_dependencies
<1>2. QED
  BY <1>1, OrderInvInit, OrderInvInductive, PTL DEF OrderSpec

-----------------------------------------------------------------------------
(* The tools.                                                                *)

Messages == [role : {"user", "assistant"}, of : Nat]

(* The user speaks first, and each answer is one to the message before it.   *)
Alternates(h) ==
  \A n \in 1..Len(h) :
    /\ h[n].role = IF n % 2 = 1 THEN "user" ELSE "assistant"
    /\ n % 2 = 0 => h[n].of = h[n - 1].of

Whole(h) == h \in Seq(Messages) /\ Alternates(h) /\ Len(h) % 2 = 0

LEMMA NothingIsWhole == Whole(<<>>)
BY DEF Whole, Alternates

LEMMA AskedAlternates ==
  ASSUME NEW h, Whole(h), NEW k \in Nat
  PROVE  LET asked == Append(h, [role |-> "user", of |-> k])
         IN  asked \in Seq(Messages) /\ Alternates(asked)
<1> DEFINE m == [role |-> "user", of |-> k]
           asked == Append(h, m)
<1>1. m \in Messages /\ m.role = "user" /\ m.of = k /\ h \in Seq(Messages)
  BY DEF Messages, Whole
<1> HIDE DEF m
<1>2. /\ asked \in Seq(Messages) /\ Len(asked) = Len(h) + 1 /\ Len(h) \in Nat
      /\ \A n \in 1..Len(h) : asked[n] = h[n]
      /\ asked[Len(h) + 1] = m
  BY <1>1, AppendProperties, LenProperties
<1> HIDE DEF asked
<1>3. ASSUME NEW n \in 1..Len(asked)
      PROVE  /\ asked[n].role = IF n % 2 = 1 THEN "user" ELSE "assistant"
             /\ n % 2 = 0 => asked[n].of = asked[n - 1].of
  <2>1. CASE n = Len(h) + 1
    <3>1. n % 2 = 1
      BY <1>2, <2>1 DEF Whole
    <3>2. QED
      BY <1>1, <1>2, <2>1, <3>1
  <2>2. CASE n # Len(h) + 1
    <3>1. n \in 1..Len(h) /\ (n % 2 = 0 => n - 1 \in 1..Len(h))
      BY <1>2, <2>2
    <3>2. asked[n] = h[n] /\ (n % 2 = 0 => asked[n - 1] = h[n - 1])
      BY <1>2, <3>1
    <3>3. QED
      BY <3>1, <3>2 DEF Whole, Alternates
  <2>3. QED
    BY <2>1, <2>2
<1>4. QED
  BY <1>2, <1>3 DEF Alternates, asked, m

LEMMA TurnIsWhole ==
  ASSUME NEW h, Whole(h), NEW k \in Nat
  PROVE  LET turn == <<[role |-> "user", of |-> k], [role |-> "assistant", of |-> k]>>
         IN  turn \in Seq(Messages) /\ Len(turn) = 2 /\ Whole(h \o turn)
<1> DEFINE turn == <<[role |-> "user", of |-> k], [role |-> "assistant", of |-> k]>>
           all == h \o turn
<1>1. /\ turn \in Seq(Messages) /\ Len(turn) = 2 /\ h \in Seq(Messages)
      /\ turn[1].role = "user" /\ turn[2].role = "assistant" /\ turn[1].of = k /\ turn[2].of = k
  BY DEF Messages, Whole
<1> HIDE DEF turn
<1>2. /\ all \in Seq(Messages) /\ Len(all) = Len(h) + 2 /\ Len(h) \in Nat
      /\ \A n \in 1..(Len(h) + 2) : all[n] = IF n <= Len(h) THEN h[n] ELSE turn[n - Len(h)]
  <2>1. /\ all \in Seq(Messages) /\ Len(all) = Len(h) + Len(turn)
        /\ \A n \in 1..(Len(h) + Len(turn)) :
             all[n] = IF n <= Len(h) THEN h[n] ELSE turn[n - Len(h)]
    BY <1>1, ConcatProperties
  <2>2. Len(h) \in Nat
    BY <1>1
  <2>3. QED
    BY <1>1, <2>1, <2>2
<1> HIDE DEF all
<1>3. Len(h) % 2 = 0
  BY DEF Whole
<1>4. ASSUME NEW n \in 1..Len(all)
      PROVE  /\ all[n].role = IF n % 2 = 1 THEN "user" ELSE "assistant"
             /\ n % 2 = 0 => all[n].of = all[n - 1].of
  <2>1. CASE n = Len(h) + 1
    <3>1. n % 2 = 1 /\ all[n] = turn[1]
      BY <1>2, <1>3, <2>1
    <3>2. QED
      BY <1>1, <3>1
  <2>2. CASE n = Len(h) + 2
    <3>1. n % 2 = 0 /\ all[n] = turn[2] /\ all[n - 1] = turn[1]
      BY <1>2, <1>3, <2>2
    <3>2. QED
      BY <1>1, <3>1
  <2>3. CASE n # Len(h) + 1 /\ n # Len(h) + 2
    <3>1. n \in 1..Len(h) /\ (n % 2 = 0 => n - 1 \in 1..Len(h))
      BY <1>2, <2>3
    <3>2. all[n] = h[n] /\ (n % 2 = 0 => all[n - 1] = h[n - 1])
      BY <1>2, <3>1
    <3>3. QED
      BY <3>1, <3>2 DEF Whole, Alternates
  <2>4. QED
    BY <2>1, <2>2, <2>3
<1>5. Len(all) % 2 = 0
  BY <1>2, <1>3
<1>6. QED
  BY <1>1, <1>2, <1>4, <1>5 DEF Whole, Alternates, all, turn

LEMMA LatestElements ==
  ASSUME NEW S, NEW s \in Seq(S), NEW m \in Nat \ {0}
  PROVE  /\ Latest(m, s) \in Seq(S)
         /\ Len(s) <= m => Latest(m, s) = s
         /\ Len(s) > m => /\ Len(Latest(m, s)) = m
                          /\ \A n \in 1..m : Latest(m, s)[n] = s[Len(s) - m + n]
<1>1. CASE Len(s) <= m
  BY <1>1 DEF Latest
<1>2. CASE Len(s) > m
  <2> DEFINE a == Len(s) - m + 1
  <2>1. a \in Int /\ Len(s) \in Int /\ a <= Len(s) /\ a >= 1 /\ Len(s) - a + 1 = m
    BY <1>2
  <2>2. \A n \in a..Len(s) : s[n] \in S
    BY <2>1
  <2>3. Latest(m, s) = SubSeq(s, a, Len(s))
    BY <1>2 DEF Latest
  <2> HIDE DEF a
  <2>4. /\ SubSeq(s, a, Len(s)) \in Seq(S) /\ Len(SubSeq(s, a, Len(s))) = m
        /\ \A n \in 1..m : SubSeq(s, a, Len(s))[n] = s[a + n - 1]
    BY <2>1, <2>2, SubSeqProperties
  <2>5. \A n \in 1..m : a + n - 1 = Len(s) - m + n
    BY <2>1 DEF a
  <2>6. QED
    BY <1>2, <2>3, <2>4, <2>5
<1>3. QED
  BY <1>1, <1>2

(* Dropping messages two by two from the front leaves whole turns.           *)
LEMMA LatestIsWhole ==
  ASSUME NEW h, Whole(h)
  PROVE  Whole(Capped(h))
<1> DEFINE m == MaxMessages
           l == Latest(m, h)
<1>1. m \in Nat \ {0} /\ m % 2 = 0 /\ h \in Seq(Messages) /\ Len(h) \in Nat /\ Len(h) % 2 = 0
  <2>1. m \in Nat \ {0} /\ m % 2 = 0
    BY ToolsAssumption DEF ToolsAssumption
  <2>2. h \in Seq(Messages) /\ Len(h) % 2 = 0
    BY DEF Whole
  <2>3. QED
    BY <2>1, <2>2
<1> HIDE DEF m
<1>2. /\ l \in Seq(Messages)
      /\ Len(h) <= m => l = h
      /\ Len(h) > m => /\ Len(l) = m
                       /\ \A n \in 1..m : l[n] = h[Len(h) - m + n]
  BY <1>1, LatestElements
<1> HIDE DEF l
<1>3. CASE Len(h) <= m
  BY <1>2, <1>3 DEF Capped, l, m
<1>4. CASE Len(h) > m
  <2>1. ASSUME NEW n \in 1..m
        PROVE  /\ l[n].role = IF n % 2 = 1 THEN "user" ELSE "assistant"
               /\ n % 2 = 0 => l[n].of = l[n - 1].of
    <3> DEFINE k == Len(h) - m + n
    <3>1. k \in 1..Len(h) /\ k % 2 = n % 2 /\ l[n] = h[k]
      <4>1. k \in 1..Len(h)
        BY <1>1, <1>4
      <4>2. k % 2 = n % 2
        BY <1>1, <4>1
      <4>3. QED
        BY <1>2, <1>4, <4>1, <4>2
    <3>2. ASSUME n % 2 = 0 PROVE l[n - 1] = h[k - 1]
      <4>1. n - 1 \in 1..m /\ Len(h) - m + (n - 1) = k - 1
        BY <1>1, <3>2
      <4>2. QED
        BY <1>2, <1>4, <4>1
    <3>3. QED
      BY <3>1, <3>2 DEF Whole, Alternates
  <2>2. Len(l) = m
    BY <1>2, <1>4
  <2>3. QED
    BY <1>1, <1>2, <2>1, <2>2 DEF Whole, Alternates, Capped, l, m
<1>5. QED
  BY <1>1, <1>3, <1>4

(* Keeping the end of a conversation turn by turn keeps the end of it all.   *)
LEMMA LatestOfLatest ==
  ASSUME NEW S, NEW t \in Seq(S), NEW u \in Seq(S), u # <<>>, NEW m \in Nat \ {0}
  PROVE  Latest(m, Latest(m, t) \o u) = Latest(m, t \o u)
<1>1. Len(t) \in Nat /\ Len(u) \in Nat \ {0}
  OBVIOUS
<1>2. ASSUME NEW s \in Seq(S), Len(s) > m
      PROVE  /\ Latest(m, s) \in Seq(S) /\ Len(Latest(m, s)) = m
             /\ \A n \in 1..m : Latest(m, s)[n] = s[Len(s) - m + n]
  BY <1>2, LatestElements
<1>3. CASE Len(t) <= m
  BY <1>3, LatestElements
<1>4. CASE Len(t) > m
  <2> DEFINE l == Latest(m, t)
             a == l \o u
             b == t \o u
  <2>1. l \in Seq(S) /\ Len(l) = m /\ \A n \in 1..m : l[n] = t[Len(t) - m + n]
    BY <1>4, LatestElements
  <2> HIDE DEF l
  <2>2. /\ a \in Seq(S) /\ Len(a) = m + Len(u)
        /\ \A n \in 1..(m + Len(u)) : a[n] = IF n <= m THEN l[n] ELSE u[n - m]
    BY <2>1, ConcatProperties
  <2>3. /\ b \in Seq(S) /\ Len(b) = Len(t) + Len(u)
        /\ \A n \in 1..(Len(t) + Len(u)) : b[n] = IF n <= Len(t) THEN t[n] ELSE u[n - Len(t)]
    BY ConcatProperties
  <2> HIDE DEF a, b
  <2>4. /\ Latest(m, a) \in Seq(S) /\ Len(Latest(m, a)) = m
        /\ \A n \in 1..m : Latest(m, a)[n] = a[Len(u) + n]
    <3>1. Len(a) > m
      BY <1>1, <2>2
    <3>2. \A n \in 1..m : Len(a) - m + n = Len(u) + n
      BY <1>1, <2>2
    <3>3. /\ Latest(m, a) \in Seq(S) /\ Len(Latest(m, a)) = m
          /\ \A n \in 1..m : Latest(m, a)[n] = a[Len(a) - m + n]
      BY <1>2, <2>2, <3>1
    <3>4. QED
      BY <3>2, <3>3
  <2>5. /\ Latest(m, b) \in Seq(S) /\ Len(Latest(m, b)) = m
        /\ \A n \in 1..m : Latest(m, b)[n] = b[Len(t) + Len(u) - m + n]
    <3>1. Len(b) > m
      BY <1>1, <1>4, <2>3
    <3>2. \A n \in 1..m : Len(b) - m + n = Len(t) + Len(u) - m + n
      BY <2>3
    <3>3. /\ Latest(m, b) \in Seq(S) /\ Len(Latest(m, b)) = m
          /\ \A n \in 1..m : Latest(m, b)[n] = b[Len(b) - m + n]
      BY <1>2, <2>3, <3>1
    <3>4. QED
      BY <3>2, <3>3
  <2>6. ASSUME NEW n \in 1..m PROVE Latest(m, a)[n] = Latest(m, b)[n]
    <3>1. CASE Len(u) + n <= m
      <4>1. Len(u) + n \in 1..m /\ Len(t) + Len(u) - m + n \in 1..(Len(t) + Len(u))
            /\ Len(t) + Len(u) - m + n <= Len(t) /\ Len(u) + n \in 1..(m + Len(u))
            /\ Len(t) - m + (Len(u) + n) = Len(t) + Len(u) - m + n
        BY <1>1, <1>4, <3>1
      <4>2. a[Len(u) + n] = t[Len(t) + Len(u) - m + n]
        BY <2>1, <2>2, <4>1
      <4>3. QED
        BY <2>3, <2>4, <2>5, <4>1, <4>2
    <3>2. CASE Len(u) + n > m
      <4>1. Len(t) + Len(u) - m + n \in 1..(Len(t) + Len(u)) /\ Len(u) + n \in 1..(m + Len(u))
            /\ Len(t) + Len(u) - m + n > Len(t)
            /\ (Len(u) + n) - m = (Len(t) + Len(u) - m + n) - Len(t)
        BY <1>1, <1>4, <3>2
      <4>2. a[Len(u) + n] = u[(Len(u) + n) - m]
        BY <1>1, <2>2, <3>2, <4>1
      <4>3. b[Len(t) + Len(u) - m + n] = u[(Len(t) + Len(u) - m + n) - Len(t)]
        BY <1>1, <2>3, <4>1
      <4>4. QED
        BY <2>4, <2>5, <4>1, <4>2, <4>3
    <3>3. QED
      BY <1>1, <3>1, <3>2
  <2>7. Latest(m, a) = Latest(m, b)
    BY <2>4, <2>5, <2>6, SeqEqual
  <2>8. QED
    BY <2>7 DEF a, b, l
<1>5. QED
  BY <1>1, <1>3, <1>4

-----------------------------------------------------------------------------
Configurations ==
  [provider : {"claude", "custom"}, key : BOOLEAN, base : {"default", "kept", "allowed", "other"}]

Steps ==
  {"idle", "config", "persona", "history", "file", "llm", "save", "emotion", "speak", "write",
   "speed", "answer"}
ToolNames == (UNION {ToolsOf[p] : p \in Plugins}) \cup {"none"}

Runs ==
  [plugin : Plugins \cup {"none"}, tool : ToolNames, at : Steps, session : Sessions \cup {""},
   number : Nat, config : Configurations, history : Seq(Messages), prompt : Seq(Messages)]

Conversations == {"personality", "llm"} \X Sessions

Remembered(s) == Recall("personality", History(s), <<>>)
KnownConfig == Recall("personality", Key("config"), Unconfigured)

(* An invocation that has read the history of its conversation and not yet   *)
(* written it.                                                               *)
Asking(r) == r.plugin = "personality" /\ r.at \in {"llm", "save"} /\ r.session \in Sessions

Together(r, q) ==
  r.plugin = "personality" /\ q.plugin = "personality" /\ r.session = q.session /\ r.session \in Sessions

ToolTypes ==
  /\ run \in [Instances -> Runs] /\ invoked \in Nat
  /\ turns \in [Conversations -> Seq(Messages)]
  /\ KnownConfig \in Configurations

WholeHistories ==
  /\ \A s \in Sessions \cup {""} : Whole(Remembered(s))
  /\ \A i \in Instances : Whole(run[i].history) /\ Alternates(run[i].prompt)

(* Two calls of one conversation are known to have overlapped, and one that  *)
(* has been alone holds what is stored.                                      *)
OverlapsNoted ==
  \A i, j \in Instances :
    i # j /\ Together(run[i], run[j]) => <<"personality", run[i].session>> \in mingled

AloneIsCurrent ==
  \A i \in Instances :
    Asking(run[i]) /\ <<"personality", run[i].session>> \notin mingled
      => run[i].history = Remembered(run[i].session)

ToolsInv ==
  ToolTypes /\ WholeHistories /\ OverlapsNoted /\ AloneIsCurrent /\ RemembersConversation

LEMMA IdleRun == Idle \in Runs /\ Whole(Idle.history) /\ Alternates(Idle.prompt) /\ Idle.plugin = "none"
<1>1. Unconfigured \in Configurations
  BY DEF Unconfigured, Configurations
<1>2. Idle \in Runs
  <2>1. <<>> \in Seq(Messages)
    OBVIOUS
  <2>2. "none" \in ToolNames
    BY DEF ToolNames
  <2>3. "idle" \in Steps
    BY DEF Steps
  <2>4. QED
    BY <1>1, <2>1, <2>2, <2>3 DEF Idle, Runs
<1>3. QED
  BY <1>2, NothingIsWhole DEF Idle, Whole

LEMMA ToolsInvInit == ToolsInit => ToolsInv
<1> SUFFICES ASSUME ToolsInit PROVE ToolsInv
  OBVIOUS
<1>1. \A s : Remembered(s) = <<>>
  BY DEF ToolsInit, Remembered, Recall, Holds
<1>2. KnownConfig \in Configurations
  BY DEF ToolsInit, KnownConfig, Recall, Holds, Unconfigured, Configurations
<1>3. turns \in [Conversations -> Seq(Messages)] /\ \A c \in Conversations : turns[c] = <<>>
  BY DEF ToolsInit, Conversations
<1>4. \A i \in Instances : run[i] = Idle
  BY DEF ToolsInit
<1>5. ToolTypes
  BY <1>2, <1>3, IdleRun DEF ToolsInit, ToolTypes
<1>6. WholeHistories
  BY <1>1, <1>4, IdleRun, NothingIsWhole DEF WholeHistories
<1>7. OverlapsNoted /\ AloneIsCurrent
  BY <1>4, IdleRun DEF OverlapsNoted, AloneIsCurrent, Together, Asking
<1>8. RemembersConversation
  <2>1. MaxMessages \in Nat \ {0} /\ Latest(MaxMessages, <<>>) = <<>>
    <3>1. MaxMessages \in Nat \ {0}
      BY ToolsAssumption DEF ToolsAssumption
    <3>2. <<>> \in Seq(Messages) /\ Len(<<>>) = 0
      OBVIOUS
    <3>3. QED
      BY <3>1, <3>2 DEF Latest
  <2>2. \A s \in Sessions : <<"personality", s>> \in Conversations
    BY DEF Conversations
  <2>3. QED
    BY <1>1, <1>3, <2>1, <2>2 DEF RemembersConversation, Remembered
<1>9. QED
  BY <1>5, <1>6, <1>7, <1>8 DEF ToolsInv

(* What Recall returns after a write.                                        *)
LEMMA Stores ==
  ASSUME NEW plugin, NEW key, NEW value, Store(plugin, key, value)
  PROVE  \A k, d : Recall("personality", k, d)' =
           IF plugin = "personality" /\ k = key THEN value ELSE Recall("personality", k, d)
BY DEF Store, Recall, Holds, FullKey

(* A step of one invocation that leaves what personality has stored alone.   *)
LEMMA ToolMoves ==
  ASSUME ToolsInv, NEW i \in Instances, NEW r \in Runs, run' = [run EXCEPT ![i] = r],
         invoked' \in Nat, turns' \in [Conversations -> Seq(Messages)],
         \A s \in Sessions : turns'[<<"personality", s>>] = turns[<<"personality", s>>],
         \A s \in Sessions \cup {""} : Remembered(s)' = Remembered(s),
         KnownConfig' \in Configurations, mingled \subseteq mingled',
         Whole(r.history), Alternates(r.prompt),
         \A j \in Instances \ {i} :
           Together(r, run[j]) => <<"personality", r.session>> \in mingled',
         Asking(r) /\ <<"personality", r.session>> \notin mingled'
           => r.history = Remembered(r.session)
  PROVE  ToolsInv'
<1>1. ToolTypes /\ WholeHistories /\ OverlapsNoted /\ AloneIsCurrent /\ RemembersConversation
  BY DEF ToolsInv
<1>2. run' \in [Instances -> Runs] /\ run'[i] = r /\ \A j \in Instances \ {i} : run'[j] = run[j]
  BY <1>1 DEF ToolTypes
<1>3. ToolTypes'
  BY <1>2 DEF ToolTypes
<1>4. WholeHistories'
  <2>1. \A j \in Instances : Whole(run'[j].history) /\ Alternates(run'[j].prompt)
    BY <1>1, <1>2 DEF WholeHistories
  <2>2. QED
    BY <1>1, <2>1 DEF WholeHistories
<1>5. OverlapsNoted'
  <2> SUFFICES ASSUME NEW j \in Instances, NEW k \in Instances, j # k, Together(run'[j], run'[k])
               PROVE  <<"personality", run'[j].session>> \in mingled'
    BY DEF OverlapsNoted
  <2>1. CASE j = i
    BY <1>2, <2>1
  <2>2. CASE k = i
    <3>1. Together(r, run[j]) /\ run'[j] = run[j] /\ run[j].session = r.session
      BY <1>2, <2>2 DEF Together
    <3>2. QED
      BY <2>2, <3>1
  <2>3. CASE j # i /\ k # i
    BY <1>1, <1>2, <2>3 DEF OverlapsNoted
  <2>4. QED
    BY <2>1, <2>2, <2>3
<1>6. AloneIsCurrent'
  <2> SUFFICES ASSUME NEW j \in Instances, NEW s \in Sessions, s = run'[j].session,
                      Asking(run'[j]), <<"personality", s>> \notin mingled'
               PROVE  run'[j].history = Remembered(s)
    BY DEF AloneIsCurrent, Asking
  <2>1. QED
    BY <1>1, <1>2 DEF AloneIsCurrent
<1>7. RemembersConversation'
  BY <1>1 DEF RemembersConversation, Remembered
<1>8. QED
  BY <1>3, <1>4, <1>5, <1>6, <1>7 DEF ToolsInv

(* The invocation ends, or goes on to another step.                          *)
LEMMA ToolGoesOn ==
  ASSUME ToolsInv, NEW i \in Instances, invoked' = invoked, mingled' = mingled,
         turns' \in [Conversations -> Seq(Messages)],
         \A s \in Sessions : turns'[<<"personality", s>>] = turns[<<"personality", s>>],
         \A s \in Sessions \cup {""} : Remembered(s)' = Remembered(s),
         KnownConfig' \in Configurations,
         \/ Finish(i)
         \/ \E at \in Steps, config \in Configurations :
              /\ run' = [run EXCEPT ![i] = [run[i] EXCEPT !.at = at, !.config = config]]
              /\ run[i].plugin # "personality" \/ at \notin {"llm", "save"} \/ run[i].at = "llm"
  PROVE  ToolsInv'
<1>1. ToolTypes /\ WholeHistories /\ OverlapsNoted /\ AloneIsCurrent
  BY DEF ToolsInv
<1>2. invoked' \in Nat
  BY <1>1 DEF ToolTypes
<1>3. CASE Finish(i)
  <2>1. run' = [run EXCEPT ![i] = Idle]
    BY <1>3 DEF Finish
  <2>2. ~Asking(Idle) /\ \A q : ~Together(Idle, q)
    BY IdleRun DEF Asking, Together
  <2>3. QED
    BY <1>2, <2>1, <2>2, IdleRun, ToolMoves
<1>4. ASSUME NEW at \in Steps, NEW config \in Configurations,
             run' = [run EXCEPT ![i] = [run[i] EXCEPT !.at = at, !.config = config]],
             run[i].plugin # "personality" \/ at \notin {"llm", "save"} \/ run[i].at = "llm"
      PROVE  ToolsInv'
  <2> DEFINE r == [run[i] EXCEPT !.at = at, !.config = config]
  <2>1. run[i] \in Runs
    BY <1>1 DEF ToolTypes
  <2>2. r \in Runs /\ run' = [run EXCEPT ![i] = r]
    BY <1>4, <2>1 DEF Runs
  <2>3. /\ r.plugin = run[i].plugin /\ r.session = run[i].session /\ r.at = at
        /\ r.history = run[i].history /\ r.prompt = run[i].prompt
    BY <2>1 DEF Runs
  <2> HIDE DEF r
  <2>4. Whole(r.history) /\ Alternates(r.prompt)
    BY <1>1, <2>3 DEF WholeHistories
  <2>5. ASSUME NEW j \in Instances \ {i}, Together(r, run[j])
        PROVE  <<"personality", r.session>> \in mingled'
    <3>1. Together(run[i], run[j]) /\ i # j
      BY <2>3, <2>5 DEF Together
    <3>2. QED
      BY <1>1, <2>3, <3>1 DEF OverlapsNoted
  <2>6. Asking(r) => Asking(run[i])
    BY <1>4, <2>3 DEF Asking
  <2>7. Asking(r) /\ <<"personality", r.session>> \notin mingled' => r.history = Remembered(r.session)
    BY <1>1, <2>3, <2>6 DEF AloneIsCurrent
  <2>8. QED
    BY <1>2, <2>2, <2>4, <2>5, <2>7, ToolMoves
<1>5. QED
  BY <1>3, <1>4

(* A run with its configuration unchanged.                                   *)
LEMMA GoesTo ==
  ASSUME ToolsInv, NEW i \in Instances, NEW at \in Steps, Goto(i, at)
  PROVE  /\ run[i].config \in Configurations
         /\ run' = [run EXCEPT ![i] = [run[i] EXCEPT !.at = at, !.config = run[i].config]]
<1>1. run \in [Instances -> Runs] /\ run[i] \in Runs
  BY DEF ToolsInv, ToolTypes
<1>2. run[i].config \in Configurations
  BY <1>1 DEF Runs
<1>3. [run[i] EXCEPT !.at = at, !.config = run[i].config] = [run[i] EXCEPT !.at = at]
  BY <1>1 DEF Runs
<1>4. run' = [run EXCEPT ![i] = [run[i] EXCEPT !.at = at]]
  BY DEF Goto
<1>5. QED
  BY <1>2, <1>3, <1>4

(* Steps that store nothing.                                                 *)
LEMMA InvToolReads ==
  ASSUME ToolsInv, NEW i \in Instances,
         \/ Refuse(i) \/ Trap(i) \/ ReadConfig(i) \/ ReadPersona(i)
         \/ handle_analyze_file(i) \/ handle_explain_error(i) \/ handle_hint(i)
         \/ CompanionReplies(i) \/ host_tts_speak(i) \/ Answer(i)
         \/ PersonalityReplies(i) \/ host_http_post_fails(i)
         \/ LlmReplies(i) \/ host_llm_chat_fails(i)
  PROVE  ToolsInv'
<1>1. UNCHANGED <<data, invoked, turns, mingled>>
  BY DEF Refuse, Trap, ReadConfig, ReadPersona, handle_analyze_file, handle_explain_error,
         handle_hint, CompanionReplies, host_tts_speak, Answer, PersonalityReplies,
         host_http_post_fails, LlmReplies, host_llm_chat_fails
<1>2. /\ turns' \in [Conversations -> Seq(Messages)] /\ KnownConfig \in Configurations
      /\ run[i] \in Runs /\ run \in [Instances -> Runs]
  BY <1>1 DEF ToolsInv, ToolTypes
<1>3. KnownConfig' = KnownConfig /\ \A s \in Sessions \cup {""} : Remembered(s)' = Remembered(s)
  BY <1>1 DEF KnownConfig, Remembered, Recall, Holds
<1>4. SUFFICES
        \/ Finish(i)
        \/ \E at \in Steps, config \in Configurations :
             /\ run' = [run EXCEPT ![i] = [run[i] EXCEPT !.at = at, !.config = config]]
             /\ run[i].plugin # "personality" \/ at \notin {"llm", "save"} \/ run[i].at = "llm"
  BY <1>1, <1>2, <1>3, ToolGoesOn
<1>5. ASSUME NEW at \in Steps, Goto(i, at),
             run[i].plugin # "personality" \/ at \notin {"llm", "save"} \/ run[i].at = "llm"
      PROVE  \E step \in Steps, config \in Configurations :
               /\ run' = [run EXCEPT ![i] = [run[i] EXCEPT !.at = step, !.config = config]]
               /\ run[i].plugin # "personality" \/ step \notin {"llm", "save"} \/ run[i].at = "llm"
  BY <1>5, GoesTo
<1>6. CASE \/ Refuse(i) \/ Trap(i) \/ host_tts_speak(i) \/ Answer(i)
           \/ host_http_post_fails(i) \/ host_llm_chat_fails(i)
  BY <1>6 DEF Refuse, Trap, host_tts_speak, Answer, host_http_post_fails, host_llm_chat_fails
<1>7. CASE ReadPersona(i)
  <2>1. Goto(i, "history") \/ Goto(i, "write")
    BY <1>7 DEF ReadPersona
  <2>2. "history" \in Steps /\ "write" \in Steps
    BY DEF Steps
  <2>3. QED
    BY <1>5, <2>1, <2>2
<1>8. CASE handle_analyze_file(i) \/ handle_explain_error(i) \/ handle_hint(i) \/ CompanionReplies(i)
  <2>1. (Finish(i) \/ Goto(i, "llm") \/ Goto(i, "speak")) /\ run[i].plugin # "personality"
    BY <1>8 DEF handle_analyze_file, handle_explain_error, handle_hint, CompanionReplies, Running
  <2>2. "llm" \in Steps /\ "speak" \in Steps
    BY DEF Steps
  <2>3. QED
    BY <1>5, <2>1, <2>2
<1>9. CASE PersonalityReplies(i) \/ LlmReplies(i)
  <2>1. Goto(i, "save") /\ run[i].at = "llm"
    BY <1>9 DEF PersonalityReplies, LlmReplies, Running
  <2>2. "save" \in Steps
    BY DEF Steps
  <2>3. QED
    BY <1>5, <2>1, <2>2
<1>10. CASE ReadConfig(i)
  <2> DEFINE stored == KnownConfig
             wanted == Configured(run[i].config, stored)
  <2>1. wanted \in Configurations
    <3>1. run[i].config \in Configurations
      BY <1>2 DEF Runs
    <3>2. QED
      BY <1>2, <3>1 DEF Configured, Configurations
  <2> HIDE DEF wanted
  <2>2. \/ Finish(i)
        \/ run' = [run EXCEPT ![i].config = stored, ![i].at = "persona"]
        \/ run' = [run EXCEPT ![i].config = wanted, ![i].at = "write"]
    BY <1>10 DEF ReadConfig, KnownConfig, wanted
  <2>3. ASSUME NEW at \in {"persona", "write"}, NEW config \in Configurations,
               run' = [run EXCEPT ![i].config = config, ![i].at = at]
        PROVE  \E step \in Steps, set \in Configurations :
                 /\ run' = [run EXCEPT ![i] = [run[i] EXCEPT !.at = step, !.config = set]]
                 /\ run[i].plugin # "personality" \/ step \notin {"llm", "save"} \/ run[i].at = "llm"
    <3>1. [[run[i] EXCEPT !.config = config] EXCEPT !.at = at] =
            [run[i] EXCEPT !.at = at, !.config = config]
      BY <1>2 DEF Runs
    <3>2. run' = [run EXCEPT ![i] = [run[i] EXCEPT !.at = at, !.config = config]]
      BY <1>2, <2>3, <3>1
    <3>3. at \in Steps /\ at \notin {"llm", "save"}
      BY DEF Steps
    <3>4. QED
      BY <3>2, <3>3
  <2>4. QED
    BY <1>2, <2>1, <2>2, <2>3
<1>11. QED
  BY <1>6, <1>7, <1>8, <1>9, <1>10

(* Steps that store something else than a history of personality.            *)
LEMMA InvToolWrites ==
  ASSUME ToolsInv, NEW i \in Instances,
         \/ SaveEmotion(i) \/ WritePersonality(i) \/ WriteLlmPersonality(i) \/ SaveLlmTurn(i)
         \/ handle_set_config(i) \/ handle_set_voice(i) \/ SetSpeed(i)
  PROVE  ToolsInv'
<1>1. invoked' = invoked /\ mingled' = mingled
  BY DEF SaveEmotion, WritePersonality, WriteLlmPersonality, SaveLlmTurn, handle_set_config,
         handle_set_voice, SetSpeed
<1>2. /\ turns \in [Conversations -> Seq(Messages)] /\ KnownConfig \in Configurations
      /\ run[i] \in Runs
  BY DEF ToolsInv, ToolTypes
<1>3. /\ \A s \in Sessions \cup {""} : Remembered(s)' = Remembered(s)
      /\ KnownConfig' \in Configurations
  <2>1. ASSUME NEW plugin, NEW key, NEW value, Store(plugin, key, value),
               plugin # "personality" \/ key \in {Key("persona"), Key("emotion")}
        PROVE  /\ \A s \in Sessions \cup {""} : Remembered(s)' = Remembered(s)
               /\ KnownConfig' \in Configurations
    <3>1. \A k, d : Recall("personality", k, d)' =
            IF plugin = "personality" /\ k = key THEN value ELSE Recall("personality", k, d)
      BY <2>1, Stores
    <3>2. \A s : History(s) # Key("persona") /\ History(s) # Key("emotion")
      BY DEF History, Key
    <3>3. Key("config") # Key("persona") /\ Key("config") # Key("emotion")
      BY DEF Key
    <3>4. QED
      BY <1>2, <2>1, <3>1, <3>2, <3>3 DEF Remembered, KnownConfig
  <2>2. CASE SaveEmotion(i)
    BY <2>1, <2>2 DEF SaveEmotion
  <2>3. CASE WritePersonality(i) /\ run[i].tool # "configure"
    BY <2>1, <2>3 DEF WritePersonality
  <2>4. CASE WritePersonality(i) /\ run[i].tool = "configure"
    <3>1. Store("personality", Key("config"), run[i].config)
      BY <2>4 DEF WritePersonality
    <3>2. \A k, d : Recall("personality", k, d)' =
            IF k = Key("config") THEN run[i].config ELSE Recall("personality", k, d)
      BY <3>1, Stores
    <3>3. \A s : History(s) # Key("config")
      BY DEF History, Key
    <3>4. run[i].config \in Configurations
      BY <1>2 DEF Runs
    <3>5. QED
      BY <3>2, <3>3, <3>4 DEF Remembered, KnownConfig
  <2>5. CASE WriteLlmPersonality(i)
    <3>1. \E key, value : Store("llm", key, value)
      BY <2>5 DEF WriteLlmPersonality
    <3>2. QED
      BY <2>1, <3>1
  <2>6. CASE SaveLlmTurn(i)
    BY <2>1, <2>6 DEF SaveLlmTurn
  <2>7. CASE handle_set_config(i)
    BY <2>1, <2>7 DEF handle_set_config
  <2>8. CASE handle_set_voice(i) \/ SetSpeed(i)
    BY <2>1, <2>8 DEF handle_set_voice, SetSpeed
  <2>9. QED
    BY <2>2, <2>3, <2>4, <2>5, <2>6, <2>7, <2>8
<1>4. /\ turns' \in [Conversations -> Seq(Messages)]
      /\ \A s \in Sessions : turns'[<<"personality", s>>] = turns[<<"personality", s>>]
  <2>1. CASE UNCHANGED turns
    BY <1>2, <2>1
  <2>2. ASSUME NEW spoken \in Seq(Messages), run[i].plugin = "llm",
               turns' = [turns EXCEPT ![Conversation(i)] = spoken]
        PROVE  /\ turns' \in [Conversations -> Seq(Messages)]
               /\ \A s \in Sessions : turns'[<<"personality", s>>] = turns[<<"personality", s>>]
    <3>1. \A s : Conversation(i) # <<"personality", s>>
      BY <2>2 DEF Conversation
    <3>2. \A s \in Sessions : <<"personality", s>> \in Conversations
      BY DEF Conversations
    <3>3. turns' \in [Conversations -> Seq(Messages)]
      BY <1>2, <2>2
    <3>4. QED
      BY <1>2, <2>2, <3>1, <3>2, <3>3
  <2>3. CASE SaveLlmTurn(i)
    <3>1. turns' = [turns EXCEPT ![Conversation(i)] = @ \o Turn(i)] /\ run[i].plugin = "llm"
      BY <2>3 DEF SaveLlmTurn, Running
    <3>2. Turn(i) \in Seq(Messages)
      <4>1. run[i].number \in Nat
        BY <1>2 DEF Runs
      <4>2. Message("user", i) \in Messages /\ Message("assistant", i) \in Messages
        BY <4>1 DEF Message, Messages
      <4>3. QED
        BY <4>2 DEF Turn
    <3>3. CASE Conversation(i) \in Conversations
      <4>1. turns[Conversation(i)] \o Turn(i) \in Seq(Messages)
        BY <1>2, <3>2, <3>3
      <4>2. QED
        BY <2>2, <3>1, <4>1
    <3>4. CASE Conversation(i) \notin Conversations
      <4>1. turns' = turns
        BY <1>2, <3>1, <3>4
      <4>2. QED
        BY <2>1, <4>1
    <3>5. QED
      BY <3>3, <3>4
  <2>4. CASE WriteLlmPersonality(i)
    <3>1. \/ UNCHANGED turns
          \/ turns' = [turns EXCEPT ![Conversation(i)] = <<>>] /\ run[i].plugin = "llm"
      BY <2>4 DEF WriteLlmPersonality, Running
    <3>2. <<>> \in Seq(Messages)
      OBVIOUS
    <3>3. QED
      BY <2>1, <2>2, <3>1, <3>2
  <2>5. CASE \/ SaveEmotion(i) \/ WritePersonality(i) \/ handle_set_config(i)
             \/ handle_set_voice(i) \/ SetSpeed(i)
    BY <2>1, <2>5 DEF SaveEmotion, WritePersonality, handle_set_config, handle_set_voice, SetSpeed
  <2>6. QED
    BY <2>3, <2>4, <2>5
<1>5. Finish(i) \/ Goto(i, "speed") \/ (Goto(i, "emotion") /\ run[i].plugin = "llm")
  BY DEF SaveEmotion, WritePersonality, WriteLlmPersonality, SaveLlmTurn, handle_set_config,
         handle_set_voice, SetSpeed, Running
<1>6. "speed" \in Steps /\ "emotion" \in Steps
  BY DEF Steps
<1>7. \/ Finish(i)
      \/ \E at \in Steps, config \in Configurations :
           /\ run' = [run EXCEPT ![i] = [run[i] EXCEPT !.at = at, !.config = config]]
           /\ run[i].plugin # "personality" \/ at \notin {"llm", "save"} \/ run[i].at = "llm"
  BY <1>5, <1>6, GoesTo
<1>8. QED
  BY <1>1, <1>3, <1>4, <1>7, ToolGoesOn

LEMMA InvReadHistories ==
  ASSUME ToolsInv, NEW i \in Instances, ReadHistory(i) \/ ReadLlmHistory(i)
  PROVE  ToolsInv'
<1>1. ToolTypes /\ WholeHistories /\ OverlapsNoted /\ UNCHANGED <<data, invoked, turns, mingled>>
  BY DEF ToolsInv, ReadHistory, ReadLlmHistory
<1>2. /\ run[i] \in Runs /\ run[i].number \in Nat /\ run[i].session \in Sessions \cup {""}
      /\ Whole(run[i].history)
  <2>1. run[i] \in Runs
    BY <1>1 DEF ToolTypes
  <2>2. QED
    BY <1>1, <2>1 DEF Runs, WholeHistories
<1>3. KnownConfig' = KnownConfig /\ \A s \in Sessions \cup {""} : Remembered(s)' = Remembered(s)
  BY <1>1 DEF KnownConfig, Remembered, Recall, Holds
<1>4. ASSUME NEW h, Whole(h), NEW asked \in Seq(Messages), Alternates(asked), run[i].plugin = "personality" => h = Remembered(run[i].session),
             run' = [run EXCEPT ![i] = [run[i] EXCEPT !.history = h, !.at = "llm", !.prompt = asked]]
      PROVE  ToolsInv'
  <2> DEFINE r == [run[i] EXCEPT !.history = h, !.at = "llm", !.prompt = asked]
  <2>1. "llm" \in Steps /\ h \in Seq(Messages)
    BY <1>4 DEF Steps, Whole
  <2>2. r \in Runs
    BY <1>2, <1>4, <2>1 DEF Runs
  <2>3. /\ r.plugin = run[i].plugin /\ r.session = run[i].session /\ r.at = "llm"
        /\ r.history = h /\ r.prompt = asked
    BY <1>2 DEF Runs
  <2>4. run' = [run EXCEPT ![i] = r]
    BY <1>4
  <2> HIDE DEF r
  <2>5. ASSUME NEW j \in Instances \ {i}, Together(r, run[j])
        PROVE  <<"personality", r.session>> \in mingled'
    <3>1. Together(run[i], run[j]) /\ i # j
      BY <2>3, <2>5 DEF Together
    <3>2. QED
      BY <1>1, <2>3, <3>1 DEF OverlapsNoted
  <2>6. Asking(r) => r.history = Remembered(r.session)
    BY <1>4, <2>3 DEF Asking
  <2>7. Whole(r.history) /\ Alternates(r.prompt)
    BY <1>4, <2>3
  <2>8. /\ invoked' \in Nat /\ turns' \in [Conversations -> Seq(Messages)]
        /\ KnownConfig' \in Configurations /\ turns' = turns /\ mingled' = mingled
    BY <1>1, <1>3 DEF ToolTypes
  <2>9. QED
    BY <1>3, <2>2, <2>4, <2>5, <2>6, <2>7, <2>8, ToolMoves
<1>5. CASE ReadHistory(i)
  <2> DEFINE h == Remembered(run[i].session)
             asked == Append(h, [role |-> "user", of |-> run[i].number])
  <2>1. Whole(h)
    BY <1>1, <1>2 DEF WholeHistories
  <2>2. asked \in Seq(Messages) /\ Alternates(asked)
    BY <1>2, <2>1, AskedAlternates
  <2>3. run' = [run EXCEPT ![i].history = h, ![i].at = "llm", ![i].prompt = asked]
    BY <1>5 DEF ReadHistory, Remembered, Message
  <2> HIDE DEF h, asked
  <2>4. run' = [run EXCEPT ![i] = [run[i] EXCEPT !.history = h, !.at = "llm", !.prompt = asked]]
    BY <1>1, <1>2, <2>3 DEF ToolTypes, Runs
  <2>5. QED
    BY <1>4, <2>1, <2>2, <2>4 DEF h
<1>6. CASE ReadLlmHistory(i)
  <2> DEFINE h == run[i].history
             first == Append(<<>>, [role |-> "user", of |-> run[i].number])
  <2>1. first \in Seq(Messages) /\ Alternates(first)
    BY <1>2, NothingIsWhole, AskedAlternates
  <2>2. Latest(MaxHistory, first) = first
    <3>1. MaxHistory \in Nat \ {0}
      BY ToolsAssumption DEF ToolsAssumption
    <3>2. Len(first) = 1
      OBVIOUS
    <3>3. Len(first) <= MaxHistory
      BY <3>1, <3>2
    <3> HIDE DEF first
    <3>4. QED
      BY <2>1, <3>1, <3>3, LatestElements
  <2>3. run[i].plugin = "llm" /\ run' = [run EXCEPT ![i].at = "llm", ![i].prompt = first]
    BY <1>6, <2>2 DEF ReadLlmHistory, Running, Recall, Message
  <2> HIDE DEF first
  <2>4. [run[i] EXCEPT !.history = h, !.at = "llm", !.prompt = first] =
          [run[i] EXCEPT !.at = "llm", !.prompt = first]
    BY <1>2 DEF Runs
  <2>5. run' = [run EXCEPT ![i] = [run[i] EXCEPT !.at = "llm", !.prompt = first]]
    BY <1>1, <1>2, <2>3 DEF ToolTypes, Runs
  <2>6. run' = [run EXCEPT ![i] = [run[i] EXCEPT !.history = h, !.at = "llm", !.prompt = first]]
    BY <2>4, <2>5
  <2>7. run[i].plugin # "personality" /\ Whole(h)
    BY <1>2, <2>3
  <2> HIDE DEF h
  <2>8. QED
    BY <1>4, <2>1, <2>6, <2>7
<1>7. QED
  BY <1>5, <1>6

LEMMA InvSaveTurn ==
  ASSUME ToolsInv, NEW i \in Instances, SaveTurn(i), NEW s, s = run[i].session
  PROVE  ToolsInv'
<1>1. /\ ToolTypes /\ WholeHistories /\ OverlapsNoted /\ AloneIsCurrent /\ RemembersConversation
      /\ UNCHANGED <<invoked, mingled>>
      /\ run[i].plugin = "personality" /\ run[i].at = "save"
  BY DEF ToolsInv, SaveTurn, Running
<1> DEFINE h == run[i].history
<1>2. run[i] \in Runs /\ run[i].number \in Nat /\ s \in Sessions \cup {""} /\ Whole(h)
  <2>1. run[i] \in Runs
    BY <1>1 DEF ToolTypes
  <2>2. QED
    BY <1>1, <2>1 DEF Runs, WholeHistories
<1>3. Turn(i) \in Seq(Messages) /\ Len(Turn(i)) = 2 /\ Whole(h \o Turn(i))
  BY <1>2, TurnIsWhole DEF Turn, Message
<1>4. Whole(Capped(h \o Turn(i)))
  BY <1>3, LatestIsWhole
<1>5. \A k, d : Recall("personality", k, d)' =
        IF k = History(s) THEN Capped(h \o Turn(i)) ELSE Recall("personality", k, d)
  <2>1. Store("personality", History(s), Capped(h \o Turn(i)))
    BY DEF SaveTurn
  <2>2. QED
    BY <2>1, Stores
<1>6. /\ Remembered(s)' = Capped(h \o Turn(i)) /\ KnownConfig' = KnownConfig
      /\ \A t : t # s => Remembered(t)' = Remembered(t)
  <2>1. \A t : History(t) # Key("config") /\ (t # s => History(t) # History(s))
    BY DEF History, Key
  <2>2. Recall("personality", History(s), <<>>)' = Capped(h \o Turn(i))
    BY <1>5
  <2>3. QED
    BY <1>5, <2>1 DEF Remembered, KnownConfig
<1>7. /\ run' \in [Instances -> Runs]
      /\ run'[i] = [run[i] EXCEPT !.at = "emotion"]
      /\ \A j \in Instances \ {i} : run'[j] = run[j]
  <2>1. "emotion" \in Steps
    BY DEF Steps
  <2>2. [run[i] EXCEPT !.at = "emotion"] \in Runs
    BY <1>2, <2>1 DEF Runs
  <2>3. run' = [run EXCEPT ![i] = [run[i] EXCEPT !.at = "emotion"]]
    BY DEF SaveTurn, Goto
  <2>4. QED
    BY <1>1, <2>2, <2>3 DEF ToolTypes
<1>8. /\ run'[i].plugin = run[i].plugin /\ run'[i].session = s /\ run'[i].history = h
      /\ run'[i].prompt = run[i].prompt /\ run'[i].at = "emotion"
  BY <1>2, <1>7 DEF Runs
<1>9. /\ turns' \in [Conversations -> Seq(Messages)]
      /\ \A t \in Sessions : turns'[<<"personality", t>>] =
           IF t = s THEN turns[<<"personality", t>>] \o Turn(i) ELSE turns[<<"personality", t>>]
  <2>1. turns' = [turns EXCEPT ![<<"personality", s>>] = @ \o Turn(i)]
    BY <1>1 DEF SaveTurn, Conversation
  <2>2. turns \in [Conversations -> Seq(Messages)]
    BY <1>1 DEF ToolTypes
  <2>3. \A t : <<"personality", t>> \in Conversations <=> t \in Sessions
    BY DEF Conversations
  <2>4. CASE s \in Sessions
    <3>1. turns[<<"personality", s>>] \o Turn(i) \in Seq(Messages)
      BY <1>3, <2>2, <2>3, <2>4
    <3>2. QED
      BY <2>1, <2>2, <2>3, <2>4, <3>1
  <2>5. CASE s \notin Sessions
    <3>1. turns' = turns
      BY <2>1, <2>2, <2>3, <2>5
    <3>2. QED
      BY <2>2, <2>5, <3>1
  <2>6. QED
    BY <2>4, <2>5
<1>10. ToolTypes'
  BY <1>1, <1>6, <1>7, <1>9 DEF ToolTypes
<1>11. WholeHistories'
  <2>1. \A t \in Sessions \cup {""} : Whole(Remembered(t)')
    <3> SUFFICES ASSUME NEW t \in Sessions \cup {""} PROVE Whole(Remembered(t)')
      OBVIOUS
    <3>1. CASE t = s
      <4>1. Remembered(t)' = Capped(h \o Turn(i))
        BY <1>5, <3>1 DEF Remembered
      <4>2. QED
        BY <1>4, <4>1
    <3>2. CASE t # s
      BY <1>1, <1>6, <3>2 DEF WholeHistories
    <3>3. QED
      BY <3>1, <3>2
  <2>2. \A j \in Instances : Whole(run'[j].history) /\ Alternates(run'[j].prompt)
    BY <1>1, <1>7, <1>8 DEF WholeHistories
  <2>3. QED
    BY <2>1, <2>2 DEF WholeHistories, Whole, Alternates
<1>12. OverlapsNoted'
  <2> SUFFICES ASSUME NEW j \in Instances, NEW k \in Instances, j # k, Together(run'[j], run'[k])
               PROVE  <<"personality", run'[j].session>> \in mingled
    BY <1>1 DEF OverlapsNoted
  <2>1. /\ run'[j].plugin = run[j].plugin /\ run'[j].session = run[j].session
        /\ run'[k].plugin = run[k].plugin /\ run'[k].session = run[k].session
    BY <1>7, <1>8
  <2>2. Together(run[j], run[k])
    BY <2>1 DEF Together
  <2>3. QED
    BY <1>1, <2>1, <2>2 DEF OverlapsNoted
<1>13. AloneIsCurrent'
  <2> SUFFICES ASSUME NEW j \in Instances, NEW t \in Sessions, t = run'[j].session,
                      Asking(run'[j]), <<"personality", t>> \notin mingled
               PROVE  run'[j].history = Remembered(t)'
    BY <1>1 DEF AloneIsCurrent, Asking
  <2>1. j # i /\ run'[j] = run[j]
    BY <1>7, <1>8 DEF Asking
  <2>2. t # s
    <3>1. ASSUME t = s PROVE FALSE
      <4>1. Together(run[j], run[i])
        BY <1>1, <2>1, <3>1 DEF Together, Asking
      <4>2. QED
        BY <1>1, <2>1, <4>1 DEF OverlapsNoted
    <3>2. QED
      BY <3>1
  <2>3. QED
    BY <1>1, <1>6, <2>1, <2>2 DEF AloneIsCurrent
<1>14. RemembersConversation'
  <2> SUFFICES ASSUME NEW t \in Sessions, <<"personality", t>> \notin mingled
               PROVE  Remembered(t)' = Latest(MaxMessages, turns'[<<"personality", t>>])
    BY <1>1 DEF RemembersConversation, Remembered
  <2>1. Remembered(t) = Latest(MaxMessages, turns[<<"personality", t>>])
    BY <1>1 DEF RemembersConversation, Remembered
  <2>2. CASE t # s
    BY <1>6, <1>9, <2>1, <2>2
  <2>3. CASE t = s
    <3>1. h = Remembered(t)
      BY <1>1, <2>3 DEF AloneIsCurrent, Asking
    <3>2. /\ turns[<<"personality", t>>] \in Seq(Messages) /\ Turn(i) # <<>>
          /\ MaxMessages \in Nat \ {0}
      <4>1. <<"personality", t>> \in Conversations
        BY DEF Conversations
      <4>2. turns[<<"personality", t>>] \in Seq(Messages)
        BY <1>1, <4>1 DEF ToolTypes
      <4>3. MaxMessages \in Nat \ {0}
        BY ToolsAssumption DEF ToolsAssumption
      <4>4. Len(Turn(i)) = 2 => Turn(i) # <<>>
        OBVIOUS
      <4>5. QED
        BY <1>3, <4>2, <4>3, <4>4
    <3>3. Latest(MaxMessages, h \o Turn(i)) =
            Latest(MaxMessages, turns[<<"personality", t>>] \o Turn(i))
      BY <1>3, <2>1, <3>1, <3>2, LatestOfLatest
    <3>4. Remembered(t)' = Capped(h \o Turn(i))
      BY <1>5, <2>3 DEF Remembered
    <3>5. QED
      BY <1>9, <2>3, <3>3, <3>4 DEF Capped
  <2>4. QED
    BY <2>2, <2>3
<1>15. QED
  BY <1>10, <1>11, <1>12, <1>13, <1>14 DEF ToolsInv

(* A new invocation; it may find another of its conversation under way.      *)
LEMMA InvBegin ==
  ASSUME ToolsInv, NEW i \in Instances, Invoke(i) \/ OnEvent(i)
  PROVE  ToolsInv'
<1>0. invoked + 1 \in Nat
  BY DEF ToolsInv, ToolTypes
<1>1. ASSUME NEW plugin \in Plugins, NEW tool \in ToolsOf[plugin],
             NEW session \in Sessions \cup {""}, NEW config \in Configurations,
             Begin(i, plugin, tool, session, config)
      PROVE  ToolsInv'
  <2> DEFINE first == FirstStep(plugin, tool)
             r == [Idle EXCEPT !.plugin = plugin, !.tool = tool, !.session = session,
                               !.number = invoked', !.at = first, !.config = config]
  <2>1. /\ invoked' \in Nat /\ UNCHANGED <<data, turns>> /\ run' = [run EXCEPT ![i] = r]
        /\ mingled' = mingled \cup
             {Conversation(j) : j \in {j \in Instances : session # "" /\
                                         Conversation(j) = <<plugin, session>>}}
    <3>1. invoked' \in Nat
      BY <1>0, <1>1 DEF Begin
    <3>2. QED
      BY <1>1, <3>1 DEF Begin
  <2>2. first \in Steps /\ (plugin = "personality" => first \notin {"llm", "save"})
    <3>1. plugin = "personality" => tool \in PersonalityTools
      <4>1. ToolsOf["personality"] = PersonalityTools
        BY DEF ToolsOf
      <4>2. QED
        BY <4>1
    <3>2. QED
      BY <3>1 DEF FirstStep, Steps, PersonalityTools
  <2>3. tool \in ToolNames
    BY DEF ToolNames
  <2> HIDE DEF first
  <2>4. /\ r \in Runs /\ r.plugin = plugin /\ r.session = session /\ r.at = first
        /\ r.history = Idle.history /\ r.prompt = Idle.prompt
    <3>1. plugin \in Plugins \cup {"none"} /\ Idle \in Runs
      BY IdleRun
    <3>2. QED
      BY <2>1, <2>2, <2>3, <3>1 DEF Runs
  <2> HIDE DEF r
  <2>5. Whole(r.history) /\ Alternates(r.prompt)
    BY <2>4, IdleRun
  <2>6. ASSUME NEW j \in Instances \ {i}, Together(r, run[j])
        PROVE  <<"personality", r.session>> \in mingled'
    <3>1. Conversation(j) = <<"personality", r.session>> /\ plugin = "personality"
          /\ session = r.session /\ session # ""
      BY <2>4, <2>6, ToolsAssumption DEF Together, Conversation, ToolsAssumption
    <3>2. QED
      BY <2>1, <3>1
  <2>7. ~Asking(r)
    BY <2>2, <2>4 DEF Asking
  <2>8. /\ turns' \in [Conversations -> Seq(Messages)] /\ turns' = turns
        /\ mingled \subseteq mingled'
    BY <2>1 DEF ToolsInv, ToolTypes
  <2>9. /\ KnownConfig' \in Configurations
        /\ \A s \in Sessions \cup {""} : Remembered(s)' = Remembered(s)
    <3>1. KnownConfig' = KnownConfig /\ \A s \in Sessions \cup {""} : Remembered(s)' = Remembered(s)
      BY <2>1 DEF KnownConfig, Remembered, Recall, Holds
    <3>2. QED
      BY <3>1 DEF ToolsInv, ToolTypes
  <2>10. QED
    BY <2>1, <2>4, <2>5, <2>6, <2>7, <2>8, <2>9, ToolMoves
<1>2. Configs \subseteq Configurations /\ Unconfigured \in Configurations
  BY DEF Configs, Configurations, Unconfigured
<1>3. CASE Invoke(i)
  <2>1. PICK plugin \in Plugins : \E tool \in ToolsOf[plugin] :
          \E session \in IF tool \in {"chat", "clear_history"} THEN Sessions ELSE {""} :
          \E config \in IF tool = "configure" THEN Configs ELSE {Unconfigured} :
            Begin(i, plugin, tool, session, config)
    BY <1>3 DEF Invoke
  <2>2. PICK tool \in ToolsOf[plugin] :
          \E session \in Sessions \cup {""}, config \in Configurations :
            Begin(i, plugin, tool, session, config)
    BY <1>2, <2>1
  <2>3. QED
    BY <1>1, <2>2
<1>4. CASE OnEvent(i)
  <2>1. "personality" \in Plugins /\ "chat" \in ToolsOf["personality"]
    BY DEF Plugins, ToolsOf, PersonalityTools
  <2>2. "agent-event" \in Sessions \cup {""}
    BY ToolsAssumption DEF ToolsAssumption
  <2>3. Begin(i, "personality", "chat", "agent-event", Unconfigured)
    BY <1>4 DEF OnEvent
  <2>4. QED
    BY <1>1, <1>2, <2>1, <2>2, <2>3
<1>5. QED
  BY <1>3, <1>4

(* Nothing is left of the store, nor of what was said.                       *)
LEMMA InvHostEnds == ToolsInv /\ HostEnds => ToolsInv'
<1> SUFFICES ASSUME ToolsInv, HostEnds PROVE ToolsInv'
  OBVIOUS
<1>1. data' = <<>> /\ mingled' = {} /\ invoked' = invoked
  BY DEF HostEnds
<1>2. \A k, d : Recall("personality", k, d)' = d
  BY <1>1 DEF Recall, Holds
<1>3. (\A s : Remembered(s)' = <<>>) /\ KnownConfig' \in Configurations
  <2>1. Unconfigured \in Configurations
    BY DEF Unconfigured, Configurations
  <2>2. QED
    BY <1>2, <2>1 DEF Remembered, KnownConfig
<1>4. turns' \in [Conversations -> Seq(Messages)] /\ \A c \in Conversations : turns'[c] = <<>>
  <2>1. DOMAIN turns = Conversations
    BY DEF ToolsInv, ToolTypes
  <2>2. turns' = [c \in Conversations |-> <<>>]
    BY <2>1 DEF HostEnds
  <2>3. QED
    BY <2>2
<1>5. run' \in [Instances -> Runs] /\ \A i \in Instances : run'[i] = Idle
  BY IdleRun DEF HostEnds
<1>6. ToolTypes'
  BY <1>1, <1>3, <1>4, <1>5 DEF ToolTypes, ToolsInv
<1>7. WholeHistories'
  <2>1. \A i \in Instances : Whole(run'[i].history) /\ Alternates(run'[i].prompt)
    BY <1>5, IdleRun
  <2>2. QED
    BY <1>3, <2>1, NothingIsWhole DEF WholeHistories
<1>8. OverlapsNoted' /\ AloneIsCurrent'
  BY <1>5, IdleRun DEF OverlapsNoted, AloneIsCurrent, Together, Asking
<1>9. RemembersConversation'
  <2>1. Latest(MaxMessages, <<>>) = <<>>
    <3>1. MaxMessages \in Nat \ {0}
      BY ToolsAssumption DEF ToolsAssumption
    <3>2. <<>> \in Seq(Messages) /\ Len(<<>>) = 0
      OBVIOUS
    <3>3. QED
      BY <3>1, <3>2 DEF Latest
  <2>2. \A s \in Sessions : <<"personality", s>> \in Conversations
    BY DEF Conversations
  <2>3. QED
    BY <1>3, <1>4, <2>1, <2>2 DEF RemembersConversation, Remembered
<1>10. QED
  BY <1>6, <1>7, <1>8, <1>9 DEF ToolsInv

LEMMA ToolsInvStutters == ToolsInv /\ UNCHANGED toolVars => ToolsInv'
<1> SUFFICES ASSUME ToolsInv, UNCHANGED toolVars PROVE ToolsInv'
  OBVIOUS
<1>1. data' = data /\ run' = run /\ invoked' = invoked /\ turns' = turns /\ mingled' = mingled
  BY DEF toolVars
<1>2. KnownConfig' = KnownConfig /\ \A s : Remembered(s)' = Remembered(s)
  BY <1>1 DEF KnownConfig, Remembered, Recall, Holds
<1>3. ToolTypes'
  BY <1>1, <1>2 DEF ToolsInv, ToolTypes
<1>4. WholeHistories'
  BY <1>1, <1>2 DEF ToolsInv, WholeHistories
<1>5. OverlapsNoted'
  BY <1>1 DEF ToolsInv, OverlapsNoted
<1>6. AloneIsCurrent'
  <2> SUFFICES ASSUME NEW i \in Instances, NEW s \in Sessions, s = run[i].session,
                      Asking(run[i]), <<"personality", s>> \notin mingled
               PROVE  run[i].history = Remembered(s)'
    BY <1>1 DEF AloneIsCurrent, Asking
  <2>1. QED
    BY <1>2 DEF ToolsInv, AloneIsCurrent
<1>7. RemembersConversation'
  BY <1>1, <1>2 DEF ToolsInv, RemembersConversation, Remembered
<1>8. QED
  BY <1>3, <1>4, <1>5, <1>6, <1>7 DEF ToolsInv

LEMMA ToolsInvInductive == ToolsInv /\ [ToolsNext]_toolVars => ToolsInv'
<1> SUFFICES ASSUME ToolsInv, [ToolsNext]_toolVars PROVE ToolsInv'
  OBVIOUS
<1>1. CASE UNCHANGED toolVars
  BY <1>1, ToolsInvStutters
<1>2. CASE HostEnds
  BY <1>2, InvHostEnds
<1>3. ASSUME NEW i \in Instances, Invoke(i) \/ OnEvent(i)
      PROVE  ToolsInv'
  BY <1>3, InvBegin
<1>4. ASSUME NEW i \in Instances,
             \/ Refuse(i) \/ Trap(i) \/ ReadConfig(i) \/ ReadPersona(i)
             \/ handle_analyze_file(i) \/ handle_explain_error(i) \/ handle_hint(i)
             \/ CompanionReplies(i) \/ host_tts_speak(i) \/ Answer(i)
             \/ PersonalityReplies(i) \/ host_http_post_fails(i)
             \/ LlmReplies(i) \/ host_llm_chat_fails(i)
      PROVE  ToolsInv'
  BY <1>4, InvToolReads
<1>5. ASSUME NEW i \in Instances,
             \/ SaveEmotion(i) \/ WritePersonality(i) \/ WriteLlmPersonality(i) \/ SaveLlmTurn(i)
             \/ handle_set_config(i) \/ handle_set_voice(i) \/ SetSpeed(i)
      PROVE  ToolsInv'
  BY <1>5, InvToolWrites
<1>6. ASSUME NEW i \in Instances, ReadHistory(i) \/ ReadLlmHistory(i)
      PROVE  ToolsInv'
  BY <1>6, InvReadHistories
<1>7. ASSUME NEW i \in Instances, SaveTurn(i)
      PROVE  ToolsInv'
  BY <1>7, InvSaveTurn
<1>8. QED
  BY <1>1, <1>2, <1>3, <1>4, <1>5, <1>6, <1>7 DEF ToolsNext

LEMMA ToolsInvHolds == ToolsSpec => []ToolsInv
BY ToolsInvInit, ToolsInvInductive, PTL DEF ToolsSpec

(* Whichever invocations overlap, fail or trap, the LLM is asked with        *)
(* messages that begin with the user and alternate, every answer among them  *)
(* to the message before it: a history is stored whole turn by whole turn,   *)
(* and an even limit cuts it between two turns.                              *)
THEOREM PromptsAlternate == ToolsSpec => []PromptAlternates
<1>1. ToolsInv => PromptAlternates
  BY DEF ToolsInv, WholeHistories, Alternates, PromptAlternates
<1>2. QED
  BY ToolsInvHolds, <1>1, PTL

(* What personality has stored of a conversation in which no two calls have  *)
(* overlapped is the end of what was said in it.                             *)
THEOREM ConversationsAreRemembered == ToolsSpec => []RemembersConversation
<1>1. ToolsInv => RemembersConversation
  BY DEF ToolsInv
<1>2. QED
  BY ToolsInvHolds, <1>1, PTL
=============================================================================
