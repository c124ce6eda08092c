-------------------------- MODULE PluginStoreProofs --------------------------
(***************************************************************************)
(* Theorems about PluginStore, for any plugins, versions, tools and        *)
(* bundles, with commands killed anywhere: the variables keep their types; *)
(* what is registered loads from its directory in the registered version;  *)
(* what is active applies; what a sync exported is what is registered; and *)
(* a bootstrap that ends has installed and enabled what it is to.  About   *)
(* RuntimeDaemon beside it, for any number of commands and any ports:      *)
(* commands that do not overlap leave at most one daemon, which the two    *)
(* files name.  And about DigestCache, Digests and ChunkedReads, for any   *)
(* files, inputs, budgets and directories: what the model is given in      *)
(* place of a file is true of the file.                                    *)
(***************************************************************************)
EXTENDS MCPluginStore, FiniteSetTheorems, SequenceTheorems, NaturalsInduction,
        WellFoundedInduction, TLAPS

-----------------------------------------------------------------------------
\* What the locals of a command must be at each of its steps.
OpOK(r) ==
  /\ r \in Op
  /\ r.pc \in {"clear", "manifest", "rules", "entry", "writeEntry", "dropEntry", "config",
               "writeConfig"} => r.plugin \in Plugins
  /\ r.pc \in {"manifest", "rules", "entry"} => r.kind = "install"
  /\ r.pc = "dropEntry" => r.kind = "remove"
  /\ r.pc \in {"clear", "writeEntry"} => r.kind \in {"install", "remove"}
  /\ r.pc \in {"idle", "sync"} => r.kind \notin {"install", "remove"}
  /\ r.pc = "writeConfig" => r.kind \in {"enable", "disable", "remove"}
  /\ r.pc = "config" => /\ r.kind \in {"enable", "disable", "remove"}
                        /\ r.active # Missing
                        /\ r.kind # "enable" => r.active # None
  /\ r.kind = "install" => r.version \in Versions
  /\ r.pc = "writeEntry" => r.entries \in Registry
  /\ r.pc = "writeConfig" => r.active \in SUBSET Plugins
  /\ r.kind = "remove" => r.active \in {Missing} \cup SUBSET Plugins /\ r.then = "none"

TypeInv == TypeOK /\ OpOK(op)

LEMMA NoneIsNoSet == \A S \in SUBSET Plugins : S \notin {Missing, Torn, None}
BY PluginAssumption

LEMMA IdleOK == OpOK(Idle)
<1>1. Idle \in Op
  BY DEF Idle, Op
<1>2. Idle.pc = "idle" /\ Idle.kind = "none"
  BY DEF Idle
<1>3. QED
  BY <1>1, <1>2 DEF OpOK

LEMMA BeginInstallOK ==
  ASSUME TypeOK, NEW p \in Plugins, NEW then \in {"none", "enable"}, source[p] # Invalid,
         BeginInstall(p, then)
  PROVE  OpOK(op')
<1>1. source[p] \in Versions
  BY DEF TypeOK
<1>2. QED
  BY <1>1 DEF BeginInstall, OpOK, Idle, Op

LEMMA BeginEnableOK ==
  ASSUME TypeOK, NEW p \in Plugins, Enabled(p), BeginEnable(p)
  PROVE  OpOK(op')
<1> DEFINE active == config \cup {p}
<1>1. active \in SUBSET Plugins /\ active # Missing /\ active # None
  BY NoneIsNoSet DEF TypeOK, Enabled
<1>2. op' = [Idle EXCEPT !.pc = "config", !.kind = "enable", !.plugin = p,
                         !.active = active, !.then = "sync"]
  BY DEF BeginEnable
<1> HIDE DEF active
<1>3. QED
  BY <1>1, <1>2 DEF OpOK, Idle, Op

-----------------------------------------------------------------------------
\* A command that the user gives starts well-formed.
LEMMA CommandOK == ASSUME TypeInv, Command PROVE TypeInv'
<1> USE DEF TypeInv
<1>1. ASSUME NEW p \in Plugins, NEW force \in BOOLEAN, NEW then \in {"none", "enable"},
             Install(p, force, then)
      PROVE  TypeInv'
  <2>1. OpOK(op')
    BY <1>1, BeginInstallOK DEF Install, Installable
  <2>2. QED
    BY <1>1, <2>1 DEF Install, TypeOK, stores, OpOK
<1>2. ASSUME NEW p \in Plugins, Enable(p)
      PROVE  TypeInv'
  <2>1. OpOK(op')
    BY <1>2, BeginEnableOK DEF Enable
  <2>2. QED
    BY <1>2, <2>1 DEF Enable, TypeOK, stores, OpOK
<1>3. ASSUME NEW p \in Plugins, Disable(p)
      PROVE  TypeInv'
  <2> DEFINE active == config \ {p}
  <2>1. active \in SUBSET Plugins /\ active # Missing /\ active # None
    BY <1>3, NoneIsNoSet DEF TypeOK, Disable
  <2>2. op' = [Idle EXCEPT !.pc = "config", !.kind = "disable", !.plugin = p,
                           !.active = active, !.then = "sync"]
    BY <1>3 DEF Disable
  <2> HIDE DEF active
  <2>3. OpOK(op')
    BY <2>1, <2>2 DEF OpOK, Idle, Op
  <2>4. QED
    BY <1>3, <2>3 DEF Disable, TypeOK, stores, OpOK
<1>4. ASSUME NEW p \in Plugins, Remove(p)
      PROVE  TypeInv'
  <2> DEFINE active == IF config = Missing THEN Missing ELSE config \ {p}
  <2>1. active \in {Missing} \cup SUBSET Plugins
    BY <1>4 DEF TypeOK, Remove
  <2>2. op' = [Idle EXCEPT !.pc = "clear", !.kind = "remove", !.plugin = p, !.active = active]
    BY <1>4 DEF Remove
  <2> HIDE DEF active
  <2>3. OpOK(op')
    BY <2>1, <2>2 DEF OpOK, Idle, Op
  <2>4. QED
    BY <1>4, <2>3 DEF Remove, TypeOK, stores, OpOK
<1>5. ASSUME NEW tools \in {connected} \cup SUBSET Tools, Sync(tools)
      PROVE  TypeInv'
  <2>1. tools \in SUBSET Tools
    BY DEF TypeOK
  <2>2. OpOK(op')
    BY <1>5, <2>1 DEF Sync, OpOK, Idle, Op
  <2>3. QED
    BY <1>5, <2>2 DEF Sync, TypeOK, stores, OpOK
<1>6. CASE BootStart
  BY <1>6 DEF BootStart, TypeOK, stores, NoBoot
<1>7. QED
  BY <1>1, <1>2, <1>3, <1>4, <1>5, <1>6 DEF Command

\* A running command, and a bootstrap, stay well-formed at every step.
LEMMA StepOK == ASSUME TypeInv, Step PROVE TypeInv'
<1> USE DEF TypeInv
<1>1. CASE ClearDirectory
  <2>1. OpOK(op')
    BY <1>1 DEF ClearDirectory, OpOK, Op
  <2>2. dir' \in [Plugins -> Directory]
    BY <1>1 DEF ClearDirectory, TypeOK, OpOK, Directory, Empty
  <2>3. QED
    BY <1>1, <2>1, <2>2 DEF ClearDirectory, TypeOK, OpOK
<1>2. CASE CopyManifest
  <2>1. OpOK(op')
    BY <1>2 DEF CopyManifest, OpOK, Op
  <2>2. op.version \in Versions \cup {None} /\ op.plugin \in Plugins
    BY <1>2 DEF CopyManifest, OpOK
  <2>3. dir' \in [Plugins -> Directory]
    BY <1>2, <2>2 DEF CopyManifest, TypeOK, Directory
  <2>4. QED
    BY <1>2, <2>1, <2>3 DEF CopyManifest, TypeOK, OpOK
<1>3. CASE CopyRules
  <2>1. OpOK(op')
    BY <1>3 DEF CopyRules, OpOK, Op
  <2>2. op.version \in Versions \cup {None} /\ op.plugin \in Plugins
    BY <1>3 DEF CopyRules, OpOK
  <2>3. dir' \in [Plugins -> Directory]
    BY <1>3, <2>2 DEF CopyRules, TypeOK, Directory
  <2>4. QED
    BY <1>3, <2>1, <2>3 DEF CopyRules, TypeOK, OpOK
<1>4. CASE TruncateRegistry
  <2> DEFINE entries == [registry EXCEPT ![op.plugin] = IF op.pc = "entry" THEN op.version ELSE None]
  <2>1. entries \in Registry
    BY <1>4 DEF TruncateRegistry, TypeOK, OpOK, Registry
  <2>2. op' = [op EXCEPT !.pc = "writeEntry", !.entries = entries]
    BY <1>4 DEF TruncateRegistry
  <2> HIDE DEF entries
  <2>3. OpOK(op')
    BY <1>4, <2>1, <2>2 DEF TruncateRegistry, OpOK, Op
  <2>4. QED
    BY <1>4, <2>3 DEF TruncateRegistry, TypeOK, OpOK
<1>5. CASE WriteRegistry
  <2>1. op.plugin \in Plugins /\ op.entries \in Registry
    BY <1>5 DEF WriteRegistry, OpOK
  <2>2. CASE op.kind = "remove" /\ op.active # Missing
    <3>1. op' = [op EXCEPT !.pc = "config", !.entries = None]
      BY <1>5, <2>2 DEF WriteRegistry
    <3>2. op.active # None
      BY <2>2, NoneIsNoSet DEF OpOK
    <3>3. OpOK(op')
      BY <2>1, <2>2, <3>1, <3>2 DEF OpOK, Op
    <3>4. QED
      BY <1>5, <2>1, <3>3 DEF WriteRegistry, TypeOK, OpOK
  <2>3. CASE ~ (op.kind = "remove" /\ op.active # Missing) /\ op.then = "enable"
    <3>1. op' = [Idle EXCEPT !.pc = "config", !.kind = "enable", !.plugin = op.plugin]
      BY <1>5, <2>3 DEF WriteRegistry
    <3>2. None # Missing
      BY PluginAssumption
    <3>3. OpOK(op')
      BY <2>1, <3>1, <3>2 DEF OpOK, Op, Idle
    <3>4. QED
      BY <1>5, <2>1, <3>3 DEF WriteRegistry, TypeOK, OpOK
  <2>4. CASE ~ (op.kind = "remove" /\ op.active # Missing) /\ op.then # "enable"
    <3>1. op' = Idle
      BY <1>5, <2>4 DEF WriteRegistry
    <3>2. QED
      BY <1>5, <2>1, <3>1, IdleOK DEF WriteRegistry, TypeOK, OpOK
  <2>5. QED
    BY <2>2, <2>3, <2>4
<1>6. CASE TruncateConfig
  <2>1. CASE op.active = None /\ config = Torn
    BY <1>6, <2>1, IdleOK DEF TruncateConfig, TypeOK, OpOK
  <2>2. CASE op.active = None /\ config # Torn
    <3> DEFINE active == IF config = Missing THEN {} ELSE config
               more == active \cup {op.plugin}
    <3>1. more \in SUBSET Plugins
      BY <1>6, <2>2 DEF TruncateConfig, TypeOK, OpOK
    <3>2. op' = [op EXCEPT !.pc = "writeConfig", !.active = more] /\ config' = Torn
      BY <1>6, <2>2 DEF TruncateConfig
    <3> HIDE DEF more
    <3>3. OpOK(op')
      BY <1>6, <3>1, <3>2 DEF TruncateConfig, OpOK, Op
    <3>4. QED
      BY <1>6, <3>2, <3>3 DEF TruncateConfig, TypeOK, OpOK
  <2>3. CASE op.active # None
    <3>1. op' = [op EXCEPT !.pc = "writeConfig"] /\ config' = Torn
      BY <1>6, <2>3 DEF TruncateConfig
    <3>2. OpOK(op')
      BY <1>6, <2>3, <3>1 DEF TruncateConfig, OpOK, Op
    <3>3. QED
      BY <1>6, <3>1, <3>2 DEF TruncateConfig, TypeOK, OpOK
  <2>4. QED
    BY <2>1, <2>2, <2>3
<1>7. CASE WriteConfig
  <2>1. op.active \in SUBSET Plugins /\ op.plugin \in Plugins /\ op.kind \in {"enable", "disable", "remove"}
    BY <1>7 DEF WriteConfig, OpOK
  <2>2. CASE op.then = "sync"
    <3>1. op' = [Idle EXCEPT !.pc = "sync", !.kind = op.kind, !.plugin = op.plugin,
                             !.tools = connected]
      BY <1>7, <2>2 DEF WriteConfig
    <3>2. op.kind # "remove"
      BY <2>2 DEF OpOK
    <3>3. OpOK(op')
      BY <2>1, <3>1, <3>2 DEF TypeOK, OpOK, Op, Idle
    <3>4. QED
      BY <1>7, <2>1, <3>3 DEF WriteConfig, TypeOK, OpOK
  <2>3. CASE op.then # "sync"
    BY <1>7, <2>1, <2>3, IdleOK DEF WriteConfig, TypeOK, OpOK
  <2>4. QED
    BY <2>2, <2>3
<1>8. ASSUME NEW t \in Tools, ExportTarget(t)
      PROVE  TypeInv'
  <2>1. OpOK(op')
    BY <1>8 DEF ExportTarget, OpOK, Op
  <2>2. [p \in Plugins |-> IF p \in Registered THEN dir[p].rules ELSE exported[t][p]] \in Registry
    BY DEF TypeOK, Directory, Registry
  <2>3. exported' \in [Tools -> Registry]
    <3> DEFINE new == [p \in Plugins |-> IF p \in Registered THEN dir[p].rules ELSE exported[t][p]]
    <3>1. exported' = [exported EXCEPT ![t] = new]
      BY <1>8 DEF ExportTarget, TypeOK
    <3> HIDE DEF new
    <3>2. new \in Registry
      BY <2>2 DEF new
    <3>3. QED
      BY <3>1, <3>2 DEF TypeOK
  <2>4. connected' \subseteq Tools
    BY <1>8 DEF ExportTarget, TypeOK
  <2>5. QED
    BY <1>8, <2>1, <2>3, <2>4 DEF ExportTarget, TypeOK, OpOK
<1>9. CASE ExportFails
  BY <1>9, IdleOK DEF ExportFails, TypeOK, stores, OpOK
<1>10. CASE SyncDone
  BY <1>10, IdleOK DEF SyncDone, TypeOK, stores, OpOK
<1>11. ASSUME NEW p \in Plugins, BootInstall(p)
       PROVE  TypeInv'
  <2>1. OpOK(op')
    <3>1. CASE Installable(p, FALSE)
      BY <1>11, <3>1, BeginInstallOK DEF BootInstall, Installable
    <3>2. CASE ~ Installable(p, FALSE)
      BY <1>11, <3>2 DEF BootInstall
    <3>3. QED
      BY <3>1, <3>2
  <2>2. boot'.enable \subseteq AutoEnabled /\ boot'.todo \subseteq Bundled
        /\ boot' \in [on : BOOLEAN, todo : SUBSET Bundled, checked : BOOLEAN, enable : SUBSET AutoEnabled]
    BY <1>11 DEF BootInstall, TypeOK
  <2>3. QED
    BY <1>11, <2>1, <2>2 DEF BootInstall, TypeOK, stores, OpOK
<1>12. ASSUME NEW p \in Plugins, BootEnable(p)
       PROVE  TypeInv'
  <2>1. OpOK(op')
    BY <1>12, BeginEnableOK DEF BootEnable
  <2>2. QED
    BY <1>12, <2>1 DEF BootEnable, TypeOK, stores, OpOK
<1>13. CASE BootConfig
  BY <1>13 DEF BootConfig, TypeOK, OpOK
<1>14. CASE BootEnd
  BY <1>14 DEF BootEnd, TypeOK, stores, NoBoot, OpOK
<1>15. QED
  BY <1>1, <1>2, <1>3, <1>4, <1>5, <1>6, <1>7, <1>8, <1>9, <1>10, <1>11, <1>12, <1>13, <1>14
  DEF Step

\* What the user does beside the commands, and a kill.
LEMMA EnvironmentOK == ASSUME TypeInv, Environment PROVE TypeInv'
<1> USE DEF TypeInv
<1>1. ASSUME NEW p \in Plugins, EditSource(p)
      PROVE  TypeInv'
  BY <1>1 DEF EditSource, TypeOK, OpOK
<1>2. CASE InitProject
  BY <1>2 DEF InitProject, TypeOK, OpOK
<1>3. ASSUME NEW t \in Tools, ConnectTool(t)
      PROVE  TypeInv'
  BY <1>3 DEF ConnectTool, TypeOK, OpOK
<1>4. CASE Crash
  <2>1. harmed' \subseteq Plugins
    <3>1. op.kind \in {"install", "remove"} /\ op.pc # "clear" =>
            op.plugin \in Plugins
      BY DEF OpOK, Op
    <3>2. QED
      BY <1>4, <3>1 DEF Crash, TypeOK
  <2>2. QED
    BY <1>4, <2>1, IdleOK DEF Crash, TypeOK, stores, NoBoot, OpOK
<1>5. QED
  BY <1>1, <1>2, <1>3, <1>4 DEF Environment

-----------------------------------------------------------------------------
\* The types, and that a command past its first step knows its plugin and what it
\* is about to write, are inductive together.
LEMMA TypeInvariance == Spec => []TypeInv
<1>1. Init => TypeInv
  BY IdleOK DEF Init, TypeInv, TypeOK, OpOK, Registry, Directory, Empty, NoBoot
<1>2. TypeInv /\ [Next]_vars => TypeInv'
  <2>1. CASE UNCHANGED vars
    BY <2>1 DEF vars, stores, TypeInv, TypeOK, OpOK
  <2>2. QED
    BY <2>1, CommandOK, StepOK, EnvironmentOK DEF Next
<1>3. QED
  BY <1>1, <1>2, PTL DEF Spec

\* Every store keeps its type whatever runs and wherever it is killed.
THEOREM PluginTypeCorrect == Spec => []TypeOK
<1>1. TypeInv => TypeOK
  BY DEF TypeInv
<1>2. QED
  BY <1>1, TypeInvariance, PTL

-----------------------------------------------------------------------------
(* RegisteredLoads speaks of the time between commands.  While one runs, its *)
(* plugin is out of order, and what is about to become the registry must     *)
(* agree with the directories already.                                       *)

Busy == IF op.pc \in {"manifest", "rules", "entry", "dropEntry", "writeEntry"}
          THEN {op.plugin} ELSE {}

\* The directories hold what these entries say, but for the plugins of no account.
EntriesLoad(entries, except) ==
  \A p \in Plugins \ except :
    entries[p] # None => dir[p] = [manifest |-> entries[p], rules |-> entries[p]]

WholeInv ==
  /\ registry # Torn => EntriesLoad(registry, harmed \cup Busy)
  /\ op.pc = "writeEntry" =>
       /\ EntriesLoad(op.entries, harmed \cup Busy)
       /\ op.entries[op.plugin] = IF op.kind = "install" THEN op.version ELSE None
  /\ op.pc = "rules" => dir[op.plugin].manifest = op.version
  /\ op.pc = "entry" \/ (op.pc = "writeEntry" /\ op.kind = "install")
       => dir[op.plugin] = [manifest |-> op.version, rules |-> op.version]

LEMMA IdleIsFree == op = Idle => op.pc = "idle" /\ Busy = {}
BY DEF Idle, Busy

\* Steps that touch neither directories nor registry, and leave no plugin busy.
LEMMA WholeKept ==
  ASSUME WholeInv, dir' = dir, registry' = registry, harmed' = harmed, Busy = {},
         op'.pc \notin {"manifest", "rules", "entry", "dropEntry", "writeEntry"}
  PROVE  WholeInv'
BY DEF WholeInv, EntriesLoad, Busy

\* Each step of an install or a removal keeps the agreement of entries and
\* directories; the others touch neither.
LEMMA WholeInvariance == TypeInv /\ WholeInv /\ [Next]_vars => WholeInv'
<1> SUFFICES ASSUME TypeInv, WholeInv, [Next]_vars
             PROVE  WholeInv'
  OBVIOUS
<1>0. op \in Op /\ OpOK(op) /\ dir \in [Plugins -> Directory] /\ harmed \subseteq Plugins
  BY DEF TypeInv, TypeOK
<1>1. CASE Command
  <2>1. dir' = dir /\ registry' = registry /\ harmed' = harmed
    BY <1>1 DEF Command, Install, Enable, Disable, Remove, Sync, BootStart, stores
  <2>2. op = Idle /\ Busy = {}
    BY <1>1, IdleIsFree DEF Command, Install, Enable, Disable, Remove, Sync, BootStart, AtRest
  <2>3. op'.pc \in {"clear", "config", "sync", "idle"}
    <3>1. ASSUME NEW p \in Plugins, Enable(p) \/ Disable(p) \/ Remove(p)
                   \/ \E force \in BOOLEAN, then \in {"none", "enable"} : Install(p, force, then)
          PROVE  op'.pc \in {"clear", "config"}
      BY <3>1 DEF Install, BeginInstall, Enable, BeginEnable, Disable, Remove, Idle
    <3>2. ASSUME NEW tools, Sync(tools)
          PROVE  op'.pc = "sync"
      BY <3>2 DEF Sync, Idle
    <3>3. BootStart => op'.pc = "idle"
      BY <2>2 DEF BootStart, stores, Idle
    <3>4. QED
      BY <1>1, <3>1, <3>2, <3>3 DEF Command
  <2>4. QED
    BY <2>1, <2>2, <2>3, WholeKept
<1>2. CASE ClearDirectory
  <2>1. op.plugin \in Plugins /\ op'.plugin = op.plugin /\ op'.pc \in {"manifest", "dropEntry"}
    BY <1>0, <1>2 DEF ClearDirectory, OpOK, Op
  <2>2. \A p \in Plugins \ {op.plugin} : dir'[p] = dir[p]
    BY <1>0, <1>2 DEF ClearDirectory
  <2>3. Busy' = {op.plugin} /\ Busy = {}
    BY <1>2, <2>1 DEF ClearDirectory, Busy
  <2>4. QED
    BY <1>2, <2>1, <2>2, <2>3 DEF ClearDirectory, WholeInv, EntriesLoad
<1>3. CASE CopyManifest
  <2>1. op.plugin \in Plugins /\ op'.plugin = op.plugin /\ op'.version = op.version /\ op'.pc = "rules"
    BY <1>0, <1>3 DEF CopyManifest, OpOK, Op
  <2>2. /\ \A p \in Plugins \ {op.plugin} : dir'[p] = dir[p]
        /\ dir'[op.plugin].manifest = op.version
    BY <1>0, <1>3, <2>1 DEF CopyManifest, Directory
  <2>3. Busy' = {op.plugin} /\ Busy = {op.plugin}
    BY <1>3, <2>1 DEF CopyManifest, Busy
  <2>4. QED
    BY <1>3, <2>1, <2>2, <2>3 DEF CopyManifest, WholeInv, EntriesLoad
<1>4. CASE CopyRules
  <2>1. op.plugin \in Plugins /\ op'.plugin = op.plugin /\ op'.version = op.version /\ op'.pc = "entry"
    BY <1>0, <1>4 DEF CopyRules, OpOK, Op
  <2>2. /\ \A p \in Plugins \ {op.plugin} : dir'[p] = dir[p]
        /\ dir'[op.plugin] = [manifest |-> op.version, rules |-> op.version]
    <3>1. dir[op.plugin].manifest = op.version
      BY <1>4 DEF CopyRules, WholeInv
    <3>2. QED
      BY <1>0, <1>4, <2>1, <3>1 DEF CopyRules, Directory
  <2>3. Busy' = {op.plugin} /\ Busy = {op.plugin}
    BY <1>4, <2>1 DEF CopyRules, Busy
  <2>4. QED
    BY <1>4, <2>1, <2>2, <2>3 DEF CopyRules, WholeInv, EntriesLoad
<1>5. CASE TruncateRegistry
  <2> DEFINE v == IF op.pc = "entry" THEN op.version ELSE None
             entries == [registry EXCEPT ![op.plugin] = v]
  <2>1. op.plugin \in Plugins /\ registry \in Registry /\ (op.pc = "entry" <=> op.kind = "install")
    BY <1>0, <1>5 DEF TruncateRegistry, OpOK, TypeInv, TypeOK
  <2>2. op' = [op EXCEPT !.pc = "writeEntry", !.entries = entries]
    BY <1>5 DEF TruncateRegistry
  <2>3. /\ entries[op.plugin] = v
        /\ \A p \in Plugins \ {op.plugin} : entries[p] = registry[p]
    BY <2>1 DEF Registry
  <2> HIDE DEF entries
  <2>4. op'.pc = "writeEntry" /\ op'.entries = entries /\ op'.plugin = op.plugin
        /\ op'.kind = op.kind /\ op'.version = op.version
    BY <1>0, <2>2 DEF Op
  <2>5. Busy' = {op.plugin} /\ Busy = {op.plugin}
    BY <1>5, <2>4 DEF TruncateRegistry, Busy
  <2>6. EntriesLoad(registry, harmed \cup Busy) /\ registry' = Torn /\ dir' = dir /\ harmed' = harmed
    BY <1>5 DEF TruncateRegistry, WholeInv
  <2>7. EntriesLoad(op.entries, harmed \cup Busy)'
    BY <2>3, <2>4, <2>5, <2>6 DEF EntriesLoad
  <2>8. op.pc = "entry" => dir[op.plugin] = [manifest |-> op.version, rules |-> op.version]
    BY DEF WholeInv
  <2>9. QED
    BY <2>1, <2>3, <2>4, <2>6, <2>7, <2>8 DEF WholeInv
<1>6. CASE WriteRegistry
  <2>1. op.plugin \in Plugins /\ op.pc = "writeEntry" /\ registry' = op.entries
        /\ dir' = dir /\ harmed' = harmed \ {op.plugin}
    BY <1>0, <1>6 DEF WriteRegistry, OpOK
  <2>2. op'.pc \in {"config", "idle"}
    BY <1>0, <1>6 DEF WriteRegistry, Op, Idle
  <2>3. Busy' = {} /\ Busy = {op.plugin}
    BY <2>1, <2>2 DEF Busy
  <2>4. op.entries[op.plugin] # None =>
          dir[op.plugin] = [manifest |-> op.entries[op.plugin], rules |-> op.entries[op.plugin]]
    BY <2>1 DEF WholeInv
  <2>5. EntriesLoad(registry, harmed \cup Busy)'
    BY <2>1, <2>3, <2>4 DEF WholeInv, EntriesLoad
  <2>6. QED
    BY <2>2, <2>5 DEF WholeInv
<1>7. CASE TruncateConfig \/ WriteConfig \/ ExportFails \/ SyncDone \/ BootConfig \/ BootEnd
           \/ \E t \in Tools : ExportTarget(t)
  <2>1. dir' = dir /\ registry' = registry /\ harmed' = harmed
    BY <1>7 DEF TruncateConfig, WriteConfig, ExportFails, SyncDone, BootConfig, BootEnd,
                ExportTarget, stores
  <2>2. Busy = {}
    BY <1>7, IdleIsFree DEF TruncateConfig, WriteConfig, ExportFails, SyncDone, BootConfig, BootEnd,
                            BootDone, ExportTarget, Busy
  <2>3. op'.pc \in {"writeConfig", "sync", "idle"}
    <3>1. TruncateConfig => op'.pc \in {"writeConfig", "idle"}
      <4>1. ASSUME NEW active PROVE [op EXCEPT !.pc = "writeConfig", !.active = active].pc = "writeConfig"
        BY <1>0 DEF Op
      <4>2. [op EXCEPT !.pc = "writeConfig"].pc = "writeConfig" /\ Idle.pc = "idle"
        BY <1>0 DEF Op, Idle
      <4>3. QED
        BY <4>1, <4>2 DEF TruncateConfig
    <3>2. WriteConfig \/ ExportFails \/ SyncDone \/ BootConfig \/ BootEnd => op'.pc \in {"sync", "idle"}
      <4>1. WriteConfig => op' = Idle \/ op'.pc = "sync"
        BY DEF WriteConfig, Idle
      <4>2. ExportFails \/ SyncDone \/ BootConfig \/ BootEnd => op' = Idle
        BY DEF ExportFails, SyncDone, BootConfig, BootEnd, BootDone, stores
      <4>3. QED
        BY <4>1, <4>2 DEF Idle
    <3>3. ASSUME NEW t \in Tools, ExportTarget(t)
          PROVE  op'.pc = "sync"
      BY <1>0, <3>3 DEF ExportTarget, Op
    <3>4. QED
      BY <1>7, <3>1, <3>2, <3>3
  <2>4. QED
    BY <2>1, <2>2, <2>3, WholeKept
<1>8. ASSUME NEW p \in Plugins, BootInstall(p) \/ BootEnable(p)
      PROVE  WholeInv'
  <2>1. dir' = dir /\ registry' = registry /\ harmed' = harmed
    BY <1>8 DEF BootInstall, BootEnable, stores
  <2>2. op.pc = "idle" /\ Busy = {}
    BY <1>8, IdleIsFree DEF BootInstall, BootEnable
  <2>3. op'.pc \in {"clear", "config", "idle"}
    <3>1. BeginInstall(p, "none") => op'.pc = "clear"
      BY DEF BeginInstall, Idle
    <3>2. BeginEnable(p) => op'.pc = "config"
      BY DEF BeginEnable, Idle
    <3>3. UNCHANGED op => op'.pc = "idle"
      BY <2>2
    <3>4. QED
      BY <1>8, <3>1, <3>2, <3>3 DEF BootInstall, BootEnable
  <2>4. QED
    BY <2>1, <2>2, <2>3, WholeKept
<1>9. CASE Environment
  <2>1. CASE Crash
    <3>1. dir' = dir /\ registry' = registry /\ op'.pc = "idle"
      BY <2>1 DEF Crash, stores, Idle
    <3>2. harmed \cup Busy \subseteq harmed' /\ Busy' = {}
      BY <1>0, <2>1, <3>1 DEF Crash, Busy, OpOK
    <3>3. QED
      BY <3>1, <3>2 DEF WholeInv, EntriesLoad
  <2>2. CASE ~ Crash
    <3>1. dir' = dir /\ registry' = registry /\ harmed' = harmed /\ op' = op /\ op = Idle
      BY <1>9, <2>2 DEF Environment, EditSource, InitProject, ConnectTool, AtRest
    <3>2. QED
      BY <3>1, WholeKept DEF Busy, Idle
  <2>3. QED
    BY <2>1, <2>2
<1>10. CASE UNCHANGED vars
  BY <1>10 DEF vars, stores, WholeInv, EntriesLoad, Busy
<1>11. QED
  BY <1>1, <1>2, <1>3, <1>4, <1>5, <1>6, <1>7, <1>8, <1>9, <1>10 DEF Next, Step

\* Between commands, and whatever was killed on the way, a registered plugin loads
\* from its directory in the version the registry has, unless the last install or
\* removal of that very plugin was killed.
THEOREM WhatIsRegisteredLoads == Spec => []RegisteredLoads
<1>1. Init => WholeInv
  BY DEF Init, WholeInv, EntriesLoad, Idle
<1>2. WholeInv => RegisteredLoads
  <2> SUFFICES ASSUME WholeInv, AtRest
               PROVE  \A p \in Registered \ harmed :
                        dir[p] = [manifest |-> registry[p], rules |-> registry[p]]
    BY DEF RegisteredLoads
  <2>1. Busy = {}
    BY DEF AtRest, Idle, Busy
  <2>2. QED
    BY <2>1 DEF WholeInv, EntriesLoad, Registered
<1>3. QED
  BY <1>1, <1>2, TypeInvariance, WholeInvariance, PTL DEF Spec

-----------------------------------------------------------------------------
(* ActiveRulesApply needs, beside WholeInv, that an active plugin is         *)
(* registered; a running command may be about to change either side, and a   *)
(* removal writes last the configuration it has loaded first.                *)

Whole(active) == active \notin {Missing, Torn}

Entered(active, entries) == \A q \in active \ harmed : entries[q] # None

Leaving == IF op.kind = "remove" THEN {op.plugin} ELSE {}

ActiveIsEntered ==
  registry # Torn /\ Whole(config) =>
    Entered(IF op.pc = "config" THEN config \ Leaving ELSE config, registry)

NewEntriesAreEnough ==
  op.pc = "writeEntry" /\ Whole(config) => Entered(config \ Leaving, op.entries)

\* The configuration is what the removal has loaded.
RemovalIsCurrent ==
  op.kind = "remove" /\ op.pc \in {"clear", "dropEntry", "writeEntry", "config"} =>
    IF op.active = Missing THEN config = Missing
    ELSE Whole(config) /\ op.active = config \ {op.plugin}

NewActiveIsEntered ==
  registry # Torn =>
    /\ op.pc = "config" /\ op.kind # "remove" =>
         IF op.active = None THEN registry[op.plugin] # None ELSE Entered(op.active, registry)
    /\ op.pc = "writeConfig" => Entered(op.active, registry)

ActiveInv == ActiveIsEntered /\ NewEntriesAreEnough /\ RemovalIsCurrent /\ NewActiveIsEntered

\* Between two steps that matter: nothing was changed, and nothing is prepared.
LEMMA ActiveKept ==
  ASSUME ActiveInv, config' = config, registry' = registry, harmed \subseteq harmed',
         op.pc # "config" \/ op.kind # "remove" \/ op.plugin \in harmed',
         op'.pc \in {"clear", "manifest", "rules", "entry", "idle", "sync"}, op'.kind # "remove"
  PROVE  ActiveInv'
<1>1. ActiveIsEntered'
  BY DEF ActiveInv, ActiveIsEntered, Entered, Leaving, Whole
<1>2. QED
  BY <1>1 DEF ActiveInv, NewEntriesAreEnough, RemovalIsCurrent, NewActiveIsEntered

\* What installs, enables, disables and removes plugins keeps the active ones
\* registered, or knows which one is leaving.
LEMMA ActiveInvariance == TypeInv /\ WholeInv /\ ActiveInv /\ [Next]_vars => ActiveInv'
<1> SUFFICES ASSUME TypeInv, WholeInv, ActiveInv, [Next]_vars
             PROVE  ActiveInv'
  OBVIOUS
<1>0. op \in Op /\ OpOK(op) /\ harmed \subseteq Plugins
  BY DEF TypeInv, TypeOK
<1>a. ASSUME NEW p \in Plugins, NEW then, op = Idle, BeginInstall(p, then), UNCHANGED <<stores, harmed>>
      PROVE  ActiveInv'
  <2>1. op'.pc = "clear" /\ op'.kind = "install"
    BY <1>a DEF BeginInstall, Idle
  <2>2. QED
    BY <1>a, <2>1, ActiveKept, IdleIsFree DEF stores
<1>b. ASSUME NEW p \in Plugins, op = Idle, Enabled(p), BeginEnable(p), UNCHANGED <<stores, harmed>>
      PROVE  ActiveInv'
  <2> DEFINE active == config \cup {p}
  <2>1. op'.pc = "config" /\ op'.kind = "enable" /\ op'.active = active
    BY <1>b DEF BeginEnable, Idle
  <2>2. registry # Torn => Entered(config, registry) /\ registry[p] # None
    BY <1>b, IdleIsFree DEF Enabled, Registered, ActiveInv, ActiveIsEntered, Whole
  <2>3. registry # Torn => Entered(active, registry)
    BY <2>2 DEF Entered
  <2>4. active # None
    BY <1>b, NoneIsNoSet DEF Enabled, TypeInv, TypeOK
  <2> HIDE DEF active
  <2>5. config' = config /\ registry' = registry /\ harmed' = harmed
    BY <1>b DEF stores
  <2>6. QED
    BY <2>1, <2>2, <2>3, <2>4, <2>5
       DEF ActiveInv, ActiveIsEntered, NewEntriesAreEnough, RemovalIsCurrent, NewActiveIsEntered,
           Entered, Leaving
<1>1. CASE Command
  <2>1. ASSUME NEW p \in Plugins, NEW force, NEW then, Install(p, force, then)
        PROVE  ActiveInv'
    BY <2>1, <1>a DEF Install, AtRest
  <2>2. ASSUME NEW p \in Plugins, Enable(p)
        PROVE  ActiveInv'
    BY <2>2, <1>b DEF Enable, AtRest
  <2>3. ASSUME NEW p \in Plugins, Disable(p)
        PROVE  ActiveInv'
    <3> DEFINE active == config \ {p}
    <3>1. op'.pc = "config" /\ op'.kind = "disable" /\ op'.active = active
      BY <2>3 DEF Disable, Idle
    <3>2. registry # Torn => Entered(config, registry)
      BY <2>3, IdleIsFree DEF Disable, AtRest, ActiveInv, ActiveIsEntered, Whole
    <3>3. registry # Torn => Entered(active, registry)
      BY <3>2 DEF Entered
    <3>4. active # None
      BY <2>3, NoneIsNoSet DEF Disable, TypeInv, TypeOK
    <3> HIDE DEF active
    <3>5. config' = config /\ registry' = registry /\ harmed' = harmed
      BY <2>3 DEF Disable, stores
    <3>6. QED
      BY <3>1, <3>2, <3>3, <3>4, <3>5
         DEF ActiveInv, ActiveIsEntered, NewEntriesAreEnough, RemovalIsCurrent, NewActiveIsEntered,
             Entered, Leaving
  <2>4. ASSUME NEW p \in Plugins, Remove(p)
        PROVE  ActiveInv'
    <3> DEFINE active == IF config = Missing THEN Missing ELSE config \ {p}
    <3>1. op'.pc = "clear" /\ op'.kind = "remove" /\ op'.active = active /\ op'.plugin = p
      BY <2>4 DEF Remove, Idle
    <3>2. config' = config /\ registry' = registry /\ harmed' = harmed /\ config # Torn
      BY <2>4 DEF Remove, stores
    <3>3. RemovalIsCurrent'
      <4>1. config # Missing => config \in SUBSET Plugins
        BY <3>2 DEF TypeInv, TypeOK
      <4>2. active = Missing => config = Missing
        BY <4>1, NoneIsNoSet
      <4>3. QED
        BY <3>1, <3>2, <4>2 DEF RemovalIsCurrent, Whole
    <3> HIDE DEF active
    <3>4. registry # Torn /\ Whole(config) => Entered(config, registry)
      BY <2>4, IdleIsFree DEF Remove, AtRest, ActiveInv, ActiveIsEntered
    <3>5. QED
      BY <3>1, <3>2, <3>3, <3>4
         DEF ActiveInv, ActiveIsEntered, NewEntriesAreEnough, NewActiveIsEntered, Entered, Whole
  <2>5. ASSUME NEW tools, Sync(tools)
        PROVE  ActiveInv'
    <3>1. op'.pc = "sync" /\ op'.kind = "sync"
      BY <2>5 DEF Sync, Idle
    <3>2. QED
      BY <2>5, <3>1, ActiveKept, IdleIsFree DEF Sync, AtRest, stores
  <2>6. CASE BootStart
    <3>1. op'.pc = "idle" /\ op'.kind = "none"
      BY <2>6 DEF BootStart, AtRest, Idle
    <3>2. QED
      BY <2>6, <3>1, ActiveKept, IdleIsFree DEF BootStart, AtRest, stores
  <2>7. QED
    BY <1>1, <2>1, <2>2, <2>3, <2>4, <2>5, <2>6 DEF Command
<1>2. CASE ClearDirectory
  <2>1. op'.pc \in {"manifest", "dropEntry"} /\ op'.kind = op.kind /\ op'.plugin = op.plugin
        /\ op'.active = op.active
    BY <1>0, <1>2 DEF ClearDirectory, Op
  <2>2. op.pc = "clear" /\ config' = config /\ registry' = registry /\ harmed' = harmed
    BY <1>2 DEF ClearDirectory
  <2>3. QED
    BY <2>1, <2>2 DEF ActiveInv, ActiveIsEntered, NewEntriesAreEnough, RemovalIsCurrent,
                      NewActiveIsEntered, Entered, Whole
<1>3. CASE CopyManifest \/ CopyRules
  <2>1. op'.pc \in {"rules", "entry"} /\ op'.kind # "remove"
    BY <1>0, <1>3 DEF CopyManifest, CopyRules, Op, OpOK
  <2>2. op.pc # "config" /\ config' = config /\ registry' = registry /\ harmed' = harmed
    BY <1>3 DEF CopyManifest, CopyRules
  <2>3. QED
    BY <2>1, <2>2, ActiveKept
<1>4. CASE TruncateRegistry
  <2> DEFINE v == IF op.pc = "entry" THEN op.version ELSE None
             entries == [registry EXCEPT ![op.plugin] = v]
  <2>1. op.plugin \in Plugins /\ registry \in Registry /\ (op.pc = "entry" <=> op.kind = "install")
        /\ (op.pc # "entry" => op.kind = "remove" /\ op.pc = "dropEntry") /\ (op.pc = "entry" => v # None)
    BY <1>0, <1>4, PluginAssumption DEF TruncateRegistry, OpOK, TypeInv, TypeOK
  <2>2. op' = [op EXCEPT !.pc = "writeEntry", !.entries = entries]
    BY <1>4 DEF TruncateRegistry
  <2>3. /\ entries[op.plugin] = v
        /\ \A p \in Plugins \ {op.plugin} : entries[p] = registry[p]
    BY <2>1 DEF Registry
  <2> HIDE DEF entries, v
  <2>4. op'.pc = "writeEntry" /\ op'.entries = entries /\ op'.plugin = op.plugin
        /\ op'.kind = op.kind /\ op'.active = op.active
    BY <1>0, <2>2 DEF Op
  <2>5. config' = config /\ registry' = Torn /\ harmed' = harmed /\ registry # Torn /\ op.pc # "config"
    BY <1>4 DEF TruncateRegistry
  <2>6. Whole(config) => Entered(config, registry) /\ config \subseteq Plugins
    BY <2>5 DEF ActiveInv, ActiveIsEntered, Whole, TypeInv, TypeOK
  <2>7. NewEntriesAreEnough'
    BY <2>1, <2>3, <2>4, <2>5, <2>6 DEF NewEntriesAreEnough, Entered, Leaving, Whole
  <2>8. QED
    BY <2>1, <2>4, <2>5, <2>7 DEF ActiveInv, ActiveIsEntered, RemovalIsCurrent, NewActiveIsEntered, Whole
<1>5. CASE WriteRegistry
  <2>1. op.pc = "writeEntry" /\ registry' = op.entries /\ config' = config
        /\ harmed' = harmed \ {op.plugin} /\ op.kind \in {"install", "remove"}
    BY <1>0, <1>5 DEF WriteRegistry, OpOK
  <2>2. op.kind = "install" => op.entries[op.plugin] # None
    BY <1>0, <2>1, PluginAssumption DEF WholeInv, OpOK
  <2>3. Whole(config) => Entered(config \ Leaving, op.entries)
    BY <2>1 DEF ActiveInv, NewEntriesAreEnough
  <2>4. op.kind = "remove" => IF op.active = Missing THEN config = Missing
                              ELSE Whole(config) /\ op.active = config \ {op.plugin}
    BY <2>1 DEF ActiveInv, RemovalIsCurrent
  <2>5. CASE op.kind = "remove" /\ op.active # Missing
    <3>1. op'.pc = "config" /\ op'.kind = "remove" /\ op'.active = op.active /\ op'.plugin = op.plugin
      BY <1>0, <1>5, <2>5 DEF WriteRegistry, Op
    <3>2. ActiveIsEntered'
      BY <2>1, <2>3, <2>5, <3>1 DEF ActiveIsEntered, Entered, Leaving, Whole
    <3>3. QED
      BY <2>1, <2>4, <2>5, <3>1, <3>2
         DEF ActiveInv, NewEntriesAreEnough, RemovalIsCurrent, NewActiveIsEntered, Whole
  <2>6. CASE ~ (op.kind = "remove" /\ op.active # Missing)
    <3>1. Whole(config) => op.kind = "install"
      BY <2>1, <2>4, <2>6 DEF Whole
    <3>2. Whole(config') => Entered(config, registry)'
      BY <2>1, <2>2, <2>3, <3>1 DEF Entered, Leaving, Whole
    <3>3. \/ op'.pc = "idle" /\ op'.kind = "none"
          \/ op.kind = "install" /\ op'.pc = "config" /\ op'.kind = "enable" /\ op'.active = None
             /\ op'.plugin = op.plugin
      <4>1. op.kind = "remove" => op.then # "enable"
        BY <1>0 DEF OpOK
      <4>2. op' = Idle \/ (op.kind = "install" /\ op' = [Idle EXCEPT !.pc = "config", !.kind = "enable", !.plugin = op.plugin])
        BY <1>5, <2>1, <2>6, <4>1 DEF WriteRegistry
      <4>3. op' = Idle => op'.pc = "idle" /\ op'.kind = "none"
        BY DEF Idle
      <4>4. ASSUME op' = [Idle EXCEPT !.pc = "config", !.kind = "enable", !.plugin = op.plugin]
            PROVE  op'.pc = "config" /\ op'.kind = "enable" /\ op'.active = None
                   /\ op'.plugin = op.plugin
        BY <4>4 DEF Idle
      <4>5. QED
        BY <4>2, <4>3, <4>4
    <3>4. ActiveIsEntered'
      BY <3>2, <3>3 DEF ActiveIsEntered, Leaving, Entered
    <3>5. QED
      BY <2>1, <2>2, <3>3, <3>4
         DEF ActiveInv, NewEntriesAreEnough, RemovalIsCurrent, NewActiveIsEntered
  <2>7. QED
    BY <2>5, <2>6
<1>6. CASE TruncateConfig
  <2>1. op.pc = "config" /\ registry' = registry /\ harmed' = harmed /\ op.plugin \in Plugins
        /\ op.kind \in {"enable", "disable", "remove"} /\ op.active # Missing
    BY <1>0, <1>6 DEF TruncateConfig, OpOK
  <2>2. CASE op.active = None /\ config = Torn
    <3>1. op'.pc = "idle" /\ op'.kind = "none" /\ config' = Torn
      BY <1>6, <2>2 DEF TruncateConfig, Idle
    <3>2. QED
      BY <3>1 DEF ActiveInv, ActiveIsEntered, NewEntriesAreEnough, RemovalIsCurrent,
                  NewActiveIsEntered, Whole
  <2>3. CASE ~ (op.active = None /\ config = Torn)
    <3> DEFINE some == IF config = Missing THEN {} ELSE config
               active == IF op.active = None THEN some \cup {op.plugin} ELSE op.active
    <3>1. op'.pc = "writeConfig" /\ op'.active = active /\ config' = Torn
      <4>1. ASSUME NEW a
            PROVE  [op EXCEPT !.pc = "writeConfig", !.active = a].pc = "writeConfig"
                   /\ [op EXCEPT !.pc = "writeConfig", !.active = a].active = a
        BY <1>0 DEF Op
      <4>2. [op EXCEPT !.pc = "writeConfig"].pc = "writeConfig"
            /\ [op EXCEPT !.pc = "writeConfig"].active = op.active
        BY <1>0 DEF Op
      <4>3. QED
        BY <1>6, <2>3, <4>1, <4>2 DEF TruncateConfig
    <3>2. registry # Torn => Entered(active, registry)
      <4>1. CASE op.active = None
        <5>1. op.kind = "enable"
          BY <1>0, <2>1, <4>1 DEF OpOK
        <5>2. registry # Torn => registry[op.plugin] # None
          BY <2>1, <4>1, <5>1 DEF ActiveInv, NewActiveIsEntered
        <5>3. registry # Torn => Entered(some, registry)
          BY <2>1, <2>3, <4>1, <5>1 DEF ActiveInv, ActiveIsEntered, Entered, Whole, Leaving
        <5>4. QED
          BY <4>1, <5>2, <5>3 DEF Entered
      <4>2. CASE op.active # None /\ op.kind # "remove"
        BY <2>1, <4>2 DEF ActiveInv, NewActiveIsEntered
      <4>3. CASE op.active # None /\ op.kind = "remove"
        <5>1. Whole(config) /\ op.active = config \ {op.plugin}
          BY <2>1, <4>3 DEF ActiveInv, RemovalIsCurrent
        <5>2. QED
          BY <2>1, <4>3, <5>1 DEF ActiveInv, ActiveIsEntered, Leaving
      <4>4. QED
        BY <4>1, <4>2, <4>3
    <3> HIDE DEF active
    <3>3. QED
      BY <2>1, <3>1, <3>2 DEF ActiveInv, ActiveIsEntered, NewEntriesAreEnough, RemovalIsCurrent,
                              NewActiveIsEntered, Whole, Entered
  <2>4. QED
    BY <2>2, <2>3
<1>7. CASE WriteConfig
  <2>1. op.pc = "writeConfig" /\ config' = op.active /\ registry' = registry /\ harmed' = harmed
    BY <1>7 DEF WriteConfig
  <2>2. op'.pc \in {"sync", "idle"}
    <3>1. op'.pc = "sync" \/ op' = Idle
      BY <1>7 DEF WriteConfig, Idle
    <3>2. QED
      BY <3>1 DEF Idle
  <2>3. registry # Torn => Entered(op.active, registry)
    BY <2>1 DEF ActiveInv, NewActiveIsEntered
  <2>4. QED
    BY <2>1, <2>2, <2>3 DEF ActiveInv, ActiveIsEntered, NewEntriesAreEnough, RemovalIsCurrent,
                            NewActiveIsEntered, Entered
<1>8. ASSUME NEW t \in Tools, ExportTarget(t)
      PROVE  ActiveInv'
  <2>1. op'.pc = "sync" /\ op.pc = "sync" /\ config' = config /\ registry' = registry /\ harmed' = harmed
    BY <1>0, <1>8 DEF ExportTarget, Op
  <2>2. QED
    BY <2>1 DEF ActiveInv, ActiveIsEntered, NewEntriesAreEnough, RemovalIsCurrent,
                NewActiveIsEntered, Entered, Whole
<1>9. CASE ExportFails \/ SyncDone \/ BootEnd
  <2>1. op' = Idle /\ op.pc # "config" /\ config' = config /\ registry' = registry /\ harmed' = harmed
    BY <1>9, IdleIsFree DEF ExportFails, SyncDone, BootEnd, BootDone, stores
  <2>2. op'.pc = "idle" /\ op'.kind = "none"
    BY <2>1 DEF Idle
  <2>3. QED
    BY <2>1, <2>2, ActiveKept
<1>10. ASSUME NEW p \in Plugins, BootInstall(p) \/ BootEnable(p)
       PROVE  ActiveInv'
  <2>1. op = Idle /\ UNCHANGED <<stores, harmed>>
    BY <1>10 DEF BootInstall, BootEnable
  <2>2. CASE op' = op
    <3>1. op'.pc = "idle" /\ op'.kind = "none" /\ op.pc = "idle"
      BY <2>1, <2>2 DEF Idle
    <3>2. QED
      BY <2>1, <3>1, ActiveKept DEF stores
  <2>3. CASE op' # op
    BY <1>10, <2>1, <2>3, <1>a, <1>b DEF BootInstall, BootEnable
  <2>4. QED
    BY <2>2, <2>3
<1>11. CASE BootConfig \/ InitProject
  <2>1. op' = op /\ op = Idle /\ registry' = registry /\ harmed' = harmed
        /\ (config' = config \/ config' = {})
    BY <1>11 DEF BootConfig, InitProject, AtRest
  <2>2. op.pc = "idle" /\ op.kind = "none"
    BY <2>1 DEF Idle
  <2>3. QED
    BY <2>1, <2>2 DEF ActiveInv, ActiveIsEntered, NewEntriesAreEnough, RemovalIsCurrent,
                      NewActiveIsEntered, Entered
<1>12. CASE Crash
  <2>1. op' = Idle /\ config' = config /\ registry' = registry /\ harmed \subseteq harmed'
        /\ (op.pc = "config" /\ op.kind = "remove" => op.plugin \in harmed')
    BY <1>12 DEF Crash, stores
  <2>2. op'.pc = "idle" /\ op'.kind = "none"
    BY <2>1 DEF Idle
  <2>3. QED
    BY <2>1, <2>2, ActiveKept
<1>13. CASE UNCHANGED <<op, config, registry, harmed>>
  BY <1>13 DEF ActiveInv, ActiveIsEntered, NewEntriesAreEnough, RemovalIsCurrent,
               NewActiveIsEntered, Entered, Leaving
<1>14. ASSUME NEW p \in Plugins, EditSource(p)
       PROVE  UNCHANGED <<op, config, registry, harmed>>
  BY <1>14 DEF EditSource
<1>15. ASSUME NEW t \in Tools, ConnectTool(t)
       PROVE  UNCHANGED <<op, config, registry, harmed>>
  BY <1>15 DEF ConnectTool
<1>16. UNCHANGED vars => UNCHANGED <<op, config, registry, harmed>>
  BY DEF vars, stores
<1>17. QED
  BY <1>1, <1>2, <1>3, <1>4, <1>5, <1>6, <1>7, <1>8, <1>9, <1>10, <1>11, <1>12, <1>13, <1>14, <1>15,
     <1>16 DEF Next, Step, Environment

\* Between commands every model call is given the rules of every active plugin,
\* unless the last install or removal of that very plugin was killed.
THEOREM WhatIsActiveApplies == Spec => []ActiveRulesApply
<1>1. Init => WholeInv
  BY DEF Init, WholeInv, EntriesLoad, Idle
<1>2. Init => ActiveInv
  BY DEF Init, ActiveInv, ActiveIsEntered, NewEntriesAreEnough, RemovalIsCurrent,
         NewActiveIsEntered, Entered, Whole, Idle
<1>3. TypeInv /\ WholeInv /\ ActiveInv => ActiveRulesApply
  <2> SUFFICES ASSUME TypeInv, WholeInv, ActiveInv, AtRest, registry # Torn,
                      config \notin {Missing, Torn}, NEW q \in config \ harmed
               PROVE  q \in ActiveRules
    BY DEF ActiveRulesApply
  <2>1. op.pc = "idle" /\ Busy = {}
    BY IdleIsFree DEF AtRest
  <2>2. q \in Plugins /\ registry[q] # None
    BY <2>1 DEF ActiveInv, ActiveIsEntered, Entered, Whole, TypeInv, TypeOK
  <2>3. dir[q] = [manifest |-> registry[q], rules |-> registry[q]]
    BY <2>1, <2>2 DEF WholeInv, EntriesLoad
  <2>4. QED
    BY <2>2, <2>3 DEF ActiveRules, Registered, Loads
<1>4. QED
  BY <1>1, <1>2, <1>3, TypeInvariance, WholeInvariance, ActiveInvariance, PTL DEF Spec
-----------------------------------------------------------------------------
(* ExportsAreCurrent: a command that changes the registry exports nothing,   *)
(* and a bootstrap that exports has nothing left to install.                 *)

\* A bootstrap enables when all is installed.
InstallsFirst ==
  boot.todo # {} =>
    ~ boot.checked /\ op.pc # "sync" /\ op.kind \in {"none", "install"} /\ op.then = "none"

ExportInv ==
  /\ InstallsFirst
  /\ op.kind \in {"install", "remove"} \/ boot.todo # {} => synced = {}
  /\ registry # Torn =>
       \A t \in synced : \A p \in Plugins \ harmed : registry[p] # None => exported[t][p] = registry[p]

LEMMA Blanks ==
  /\ Idle.pc = "idle" /\ Idle.kind = "none" /\ Idle.then = "none"
  /\ ~ NoBoot.on /\ NoBoot.todo = {} /\ ~ NoBoot.checked /\ NoBoot.enable = {}
BY DEF Idle, NoBoot

\* Steps that change neither registry nor exports.
LEMMA ExportKept ==
  ASSUME ExportInv, registry' = registry, exported' = exported, harmed \subseteq harmed',
         synced' = synced \/ synced' = {}, InstallsFirst',
         op'.kind \in {"install", "remove"} \/ boot'.todo # {} => synced' = {}
  PROVE  ExportInv'
BY DEF ExportInv

\* Steps after which no command runs.
LEMMA IdleExports ==
  ASSUME ExportInv, op' = Idle, boot' = boot \/ boot' = NoBoot,
         UNCHANGED <<registry, exported, synced>>, harmed \subseteq harmed'
  PROVE  ExportInv'
<1>1. InstallsFirst'
  BY Blanks DEF ExportInv, InstallsFirst
<1>2. op'.kind \in {"install", "remove"} \/ boot'.todo # {} => synced' = {}
  BY Blanks DEF ExportInv
<1>3. QED
  BY <1>1, <1>2, ExportKept

\* Steps of a command that go on with it.
LEMMA GoingOn ==
  ASSUME ExportInv, op'.kind = op.kind, op'.then = op.then, op'.pc = "sync" => op.pc = "sync",
         UNCHANGED <<registry, exported, synced, harmed, boot>>
  PROVE  ExportInv'
<1>1. InstallsFirst'
  BY DEF ExportInv, InstallsFirst
<1>2. op'.kind \in {"install", "remove"} \/ boot'.todo # {} => synced' = {}
  BY DEF ExportInv
<1>3. QED
  BY <1>1, <1>2, ExportKept

\* A sync exports all that is registered, in the version that is registered.
LEMMA ExportInvariance == TypeInv /\ WholeInv /\ ExportInv /\ [Next]_vars => ExportInv'
<1> SUFFICES ASSUME TypeInv, WholeInv, ExportInv, [Next]_vars
             PROVE  ExportInv'
  OBVIOUS
<1>0. /\ op \in Op /\ OpOK(op) /\ harmed \subseteq Plugins
      /\ exported \in [Tools -> Registry]
      /\ boot \in [on : BOOLEAN, todo : SUBSET Bundled, checked : BOOLEAN, enable : SUBSET AutoEnabled]
  BY DEF TypeInv, TypeOK
<1>1. CASE Command
  <2>1. /\ UNCHANGED <<registry, exported, harmed>> /\ synced' = {}
        /\ op = Idle /\ boot = NoBoot
    BY <1>1 DEF Command, Install, Enable, Disable, Remove, Sync, BootStart, stores, AtRest
  <2>2. \/ boot' = NoBoot
        \/ ~ boot'.checked /\ op'.pc = "idle" /\ op'.kind = "none" /\ op'.then = "none"
    BY <1>1, <2>1, Blanks
    DEF Command, Install, Enable, Disable, Remove, Sync, BootStart, NoBoot, stores
  <2>3. InstallsFirst'
    BY <2>2, Blanks DEF InstallsFirst
  <2>4. QED
    BY <2>1, <2>3, ExportKept
<1>2. CASE ClearDirectory \/ CopyManifest \/ CopyRules
  <2>1. /\ op'.kind = op.kind /\ op'.then = op.then /\ op'.pc # "sync"
        /\ UNCHANGED <<registry, exported, synced, harmed, boot>>
    BY <1>0, <1>2 DEF ClearDirectory, CopyManifest, CopyRules, Op
  <2>2. QED
    BY <2>1, GoingOn
<1>3. CASE TruncateRegistry
  <2>1. op'.kind = op.kind /\ op'.then = op.then /\ op'.pc # "sync"
    BY <1>0, <1>3 DEF TruncateRegistry, Op
  <2>2. QED
    BY <1>3, <2>1 DEF TruncateRegistry, ExportInv, InstallsFirst
<1>4. CASE WriteRegistry
  <2>1. synced' = {}
    BY <1>0, <1>4 DEF WriteRegistry, OpOK, ExportInv
  <2>2. boot'.todo = boot.todo /\ boot'.checked = boot.checked
    BY <1>0, <1>4 DEF WriteRegistry
  <2>3. ASSUME boot.todo # {}
        PROVE  op' = Idle
    <3>1. op.kind = "install" /\ op.then = "none"
      BY <1>0, <1>4, <2>3 DEF WriteRegistry, OpOK, ExportInv, InstallsFirst
    <3>2. QED
      BY <1>4, <3>1 DEF WriteRegistry
  <2>4. QED
    BY <2>1, <2>2, <2>3, Blanks DEF ExportInv, InstallsFirst
<1>5. CASE TruncateConfig
  <2>1. op' = Idle \/ (op'.kind = op.kind /\ op'.then = op.then /\ op'.pc # "sync")
    BY <1>0, <1>5 DEF TruncateConfig, Op
  <2>2. UNCHANGED <<registry, exported, synced, harmed, boot>>
    BY <1>5 DEF TruncateConfig
  <2>3. QED
    BY <2>1, <2>2, GoingOn, IdleExports
<1>6. CASE WriteConfig
  <2>1. UNCHANGED <<registry, exported, synced, harmed, boot>>
    BY <1>6 DEF WriteConfig
  <2>2. op.kind \in {"enable", "disable", "remove"} /\ boot.todo = {}
    BY <1>0, <1>6 DEF WriteConfig, OpOK, ExportInv, InstallsFirst
  <2>3. op' = Idle \/ op'.kind = op.kind
    BY <1>6 DEF WriteConfig, Idle
  <2>4. InstallsFirst'
    BY <2>1, <2>2 DEF InstallsFirst
  <2>5. op'.kind \in {"install", "remove"} \/ boot'.todo # {} => synced' = {}
    BY <2>1, <2>2, <2>3, Blanks DEF ExportInv
  <2>6. QED
    BY <2>1, <2>4, <2>5, ExportKept
<1>7. ASSUME NEW t \in Tools, ExportTarget(t)
      PROVE  ExportInv'
  <2>1. /\ UNCHANGED <<registry, harmed, boot>> /\ registry \in Registry
        /\ synced' = synced \cup {t}
    BY <1>7 DEF ExportTarget, TypeInv, TypeOK
  <2>2. op'.kind = op.kind /\ op'.then = op.then /\ op.kind \notin {"install", "remove"}
    BY <1>0, <1>7 DEF ExportTarget, OpOK, Op
  <2>3. boot.todo = {}
    BY <1>7 DEF ExportTarget, ExportInv, InstallsFirst
  <2>4. \A u \in Tools \ {t} : exported'[u] = exported[u]
    BY <1>0, <1>7 DEF ExportTarget
  <2>5. ASSUME NEW p \in Plugins \ harmed, registry[p] # None
        PROVE  exported'[t][p] = registry[p]
    <3>1. exported'[t][p] = dir[p].rules
      BY <1>0, <1>7, <2>5 DEF ExportTarget, Registered
    <3>2. Busy = {}
      BY <1>7 DEF ExportTarget, Busy
    <3>3. dir[p] = [manifest |-> registry[p], rules |-> registry[p]]
      BY <1>7, <2>5, <3>2 DEF ExportTarget, WholeInv, EntriesLoad
    <3>4. QED
      BY <3>1, <3>3
  <2>6. synced \subseteq Tools
    BY DEF TypeInv, TypeOK
  <2>7. QED
    BY <2>1, <2>2, <2>3, <2>4, <2>5, <2>6 DEF ExportInv, InstallsFirst
<1>8. CASE ExportFails \/ SyncDone
  BY <1>8, IdleExports DEF ExportFails, SyncDone, stores
<1>9. ASSUME NEW p \in Plugins, BootInstall(p)
      PROVE  ExportInv'
  <2>1. /\ UNCHANGED <<registry, exported, synced, harmed>>
        /\ boot.todo # {} /\ synced = {}
        /\ boot'.checked = boot.checked
    BY <1>0, <1>9 DEF BootInstall, stores, ExportInv
  <2>2. op'.pc # "sync" /\ op'.kind \in {"none", "install"} /\ op'.then = "none"
    BY <1>9, Blanks DEF BootInstall, BeginInstall, Idle
  <2>3. InstallsFirst'
    BY <2>1, <2>2 DEF ExportInv, InstallsFirst
  <2>4. QED
    BY <2>1, <2>3, ExportKept
<1>10. ASSUME NEW p \in Plugins, BootEnable(p)
       PROVE  ExportInv'
  <2>1. UNCHANGED <<registry, exported, synced, harmed>> /\ boot'.todo = {}
    BY <1>0, <1>10 DEF BootEnable, stores, ExportInv, InstallsFirst
  <2>2. op'.kind \notin {"install", "remove"}
    BY <1>10, Blanks DEF BootEnable, BeginEnable, Idle
  <2>3. QED
    BY <2>1, <2>2, ExportKept DEF InstallsFirst
<1>11. CASE BootConfig
  <2>1. UNCHANGED <<registry, exported, synced, harmed, op>> /\ boot'.todo = {}
    BY <1>0, <1>11 DEF BootConfig
  <2>2. QED
    BY <2>1, <1>11, Blanks, ExportKept DEF InstallsFirst, BootConfig
<1>12. CASE BootEnd
  BY <1>12, IdleExports DEF BootEnd, BootDone, stores
<1>13. ASSUME NEW p \in Plugins, EditSource(p)
       PROVE  ExportInv'
  BY <1>13, GoingOn DEF EditSource
<1>14. CASE InitProject
  BY <1>14, GoingOn DEF InitProject
<1>15. ASSUME NEW t \in Tools, ConnectTool(t)
       PROVE  ExportInv'
  BY <1>15, GoingOn DEF ConnectTool
<1>16. CASE Crash
  BY <1>16, IdleExports DEF Crash, stores
<1>17. CASE UNCHANGED vars
  BY <1>17, GoingOn DEF vars, stores
<1>18. QED
  BY <1>1, <1>2, <1>3, <1>4, <1>5, <1>6, <1>7, <1>8, <1>9, <1>10, <1>11, <1>12, <1>13, <1>14,
     <1>15, <1>16, <1>17 DEF Next, Step, Environment

\* What a sync has exported is what is registered, for all plugins at once, and
\* stays so until the next command: none that follows within the same request or
\* bootstrap installs or removes anything.
THEOREM WhatIsExportedIsCurrent == Spec => []ExportsAreCurrent
<1>1. Init => WholeInv
  BY DEF Init, WholeInv, EntriesLoad, Idle
<1>2. Init => ExportInv
  BY Blanks DEF Init, ExportInv, InstallsFirst
<1>3. ExportInv => ExportsAreCurrent
  BY DEF ExportInv, ExportsAreCurrent, Registered
<1>4. QED
  BY <1>1, <1>2, <1>3, TypeInvariance, WholeInvariance, ExportInvariance, PTL DEF Spec

-----------------------------------------------------------------------------
(* BootstrapIsComplete: what a bootstrap has taken from its list is entered, *)
(* or being entered, and what it is to enable waits, is being enabled, or is *)
(* active.                                                                   *)

\* What a bootstrap runs, and that it enables only where there is a configuration.
BootSteps ==
  /\ ~ boot.on => boot = NoBoot
  /\ boot.on =>
       /\ op.kind \in {"none", "install", "enable"}
       /\ op.kind = "install" => op.then = "none"
       /\ op.pc \in {"config", "writeConfig"} => boot.checked /\ op.active \in SUBSET Plugins
  /\ boot.checked =>
       /\ boot.todo = {}
       /\ config # Missing
       /\ config = Torn => op.pc = "writeConfig"

Coming == IF op.kind = "install" THEN {op.plugin} ELSE {}

\* The plugins a bootstrap is done with, but for those that do not load.
Handled(S) == {p \in S \ boot.todo : source[p] # Invalid}

EntriesInv ==
  boot.on =>
    /\ registry # Torn => /\ \A p \in Handled(Bundled) \ Coming : registry[p] # None
                          /\ \A p \in boot.enable : registry[p] # None
    /\ op.pc = "writeEntry" => /\ \A p \in Handled(Bundled) : op.entries[p] # None
                               /\ \A p \in boot.enable : op.entries[p] # None

NewConfig == IF op.pc \in {"config", "writeConfig"} THEN op.active ELSE config

\* A registry or a configuration that was torn before is not written any more.
EnablesInv ==
  boot.on /\ (registry # Torn \/ op.pc = "writeEntry") /\ (config # Torn \/ op.pc = "writeConfig") =>
    \A p \in Handled(AutoEnabled) \ Coming : p \in boot.enable \/ (boot.checked /\ p \in NewConfig)

BootInv == BootSteps /\ EntriesInv /\ EnablesInv

\* No bootstrap runs.
LEMMA NoBootstrap ==
  ASSUME boot' = NoBoot
  PROVE  BootInv'
BY Blanks DEF BootInv, BootSteps, EntriesInv, EnablesInv

\* Steps of a command that go on with it, and of a sync that ends.
LEMMA CommandGoesOn ==
  ASSUME BootInv, UNCHANGED <<source, registry, config, boot>>,
         {op.pc, op'.pc} \cap {"writeEntry", "config", "writeConfig"} = {},
         \/ op'.kind = op.kind /\ op'.then = op.then /\ op'.plugin = op.plugin
         \/ op.kind # "install" /\ op' = Idle
  PROVE  BootInv'
<1>1. Coming' = Coming /\ (boot.on => op'.kind \in {"none", "install", "enable"})
      /\ (boot.on /\ op'.kind = "install" => op'.then = "none")
  BY Blanks DEF BootInv, BootSteps, Coming
<1>2. BootSteps'
  BY <1>1 DEF BootInv, BootSteps
<1>3. EntriesInv'
  BY <1>1 DEF BootInv, EntriesInv, Handled
<1>4. EnablesInv'
  BY <1>1 DEF BootInv, EnablesInv, Handled, NewConfig
<1>5. QED
  BY <1>2, <1>3, <1>4 DEF BootInv

\* A bootstrap installs what it finds in its list, and enables what is installed.
LEMMA BootInvariance == TypeInv /\ WholeInv /\ BootInv /\ [Next]_vars => BootInv'
<1> SUFFICES ASSUME TypeInv, WholeInv, BootInv, [Next]_vars
             PROVE  BootInv'
  OBVIOUS
<1>0. /\ op \in Op /\ OpOK(op) /\ registry \in Registry \cup {Torn}
      /\ source \in [Plugins -> Versions \cup {Invalid}]
      /\ boot \in [on : BOOLEAN, todo : SUBSET Bundled, checked : BOOLEAN, enable : SUBSET AutoEnabled]
      /\ AutoEnabled \subseteq Plugins /\ Bundled \subseteq Plugins
      /\ None \notin Versions /\ Missing # Torn
  BY PluginAssumption DEF TypeInv, TypeOK
<1>1. CASE BootStart
  <2>1. /\ boot'.on /\ boot'.todo = Bundled /\ ~ boot'.checked /\ boot'.enable = {}
        /\ op' = Idle
    BY <1>1 DEF BootStart, NoBoot, stores, AtRest
  <2>2. Handled(Bundled)' = {} /\ Handled(AutoEnabled)' = {}
    BY <2>1, PluginAssumption DEF Handled
  <2>3. QED
    BY <2>1, <2>2, Blanks DEF BootInv, BootSteps, EntriesInv, EnablesInv
<1>2. CASE Crash \/ BootEnd
  BY <1>2, NoBootstrap DEF Crash, BootEnd
<1>3. CASE ~ boot.on /\ ~ BootStart /\ ~ Crash /\ ~ BootEnd
  <2>1. boot = NoBoot
    BY <1>3 DEF BootInv, BootSteps
  <2>2. boot' = boot
    BY <1>3, <2>1, Blanks
    DEF Next, Command, Install, Enable, Disable, Remove, Sync, Step, ClearDirectory, CopyManifest,
        CopyRules, TruncateRegistry, WriteRegistry, TruncateConfig, WriteConfig, ExportTarget,
        ExportFails, SyncDone, BootInstall, BootEnable, BootConfig, Environment, EditSource,
        InitProject, ConnectTool, vars
  <2>3. QED
    BY <2>1, <2>2, NoBootstrap
<1>4. SUFFICES ASSUME boot.on, ~ AtRest, Step \/ UNCHANGED vars, ~ BootEnd
               PROVE  BootInv'
  BY <1>1, <1>2, <1>3, Blanks
  DEF Next, Command, Environment, Install, Enable, Disable, Remove, Sync, EditSource, InitProject,
      ConnectTool, AtRest
<1>5. CASE ClearDirectory \/ CopyManifest \/ CopyRules
  <2>1. op.kind = "install"
    BY <1>0, <1>4, <1>5 DEF ClearDirectory, CopyManifest, CopyRules, OpOK, BootInv, BootSteps
  <2>2. /\ op'.kind = op.kind /\ op'.then = op.then /\ op'.plugin = op.plugin
        /\ op'.pc \in {"manifest", "rules", "entry"}
        /\ UNCHANGED <<source, registry, config, boot>>
    BY <1>0, <1>5, <2>1 DEF ClearDirectory, CopyManifest, CopyRules, Op
  <2>3. QED
    BY <1>5, <2>2, CommandGoesOn DEF ClearDirectory, CopyManifest, CopyRules
<1>6. CASE TruncateRegistry
  <2> DEFINE entries == [registry EXCEPT ![op.plugin] = op.version]
  <2>1. /\ op.kind = "install" /\ op.pc = "entry" /\ op.plugin \in Plugins
        /\ op.version \in Versions /\ registry \in Registry
    BY <1>0, <1>4, <1>6 DEF TruncateRegistry, OpOK, BootInv, BootSteps
  <2>2. /\ op' = [op EXCEPT !.pc = "writeEntry", !.entries = entries]
        /\ registry' = Torn /\ UNCHANGED <<source, config, boot>>
    BY <1>6, <2>1 DEF TruncateRegistry
  <2>3. /\ entries[op.plugin] = op.version
        /\ \A p \in Plugins \ {op.plugin} : entries[p] = registry[p]
    BY <2>1 DEF Registry
  <2> HIDE DEF entries
  <2>4. /\ op'.pc = "writeEntry" /\ op'.entries = entries /\ op'.kind = "install"
        /\ op'.then = op.then /\ op'.plugin = op.plugin
    BY <1>0, <2>1, <2>2 DEF Op
  <2>5. BootSteps'
    BY <2>1, <2>2, <2>4 DEF BootInv, BootSteps
  <2>6. EntriesInv'
    <3>1. registry # Torn /\ op.version # None
      BY <1>0, <1>6, <2>1 DEF TruncateRegistry
    <3>2. \A p \in Plugins : p = op.plugin \/ registry[p] # None => entries[p] # None
      BY <2>3, <3>1
    <3>3. \A p \in Handled(Bundled) : p = op.plugin \/ registry[p] # None
      BY <1>4, <2>1, <3>1 DEF BootInv, EntriesInv, Coming
    <3>4. \A p \in boot.enable : registry[p] # None
      BY <1>4, <3>1 DEF BootInv, EntriesInv
    <3>5. Handled(Bundled)' = Handled(Bundled) /\ Handled(Bundled) \subseteq Plugins
      BY <1>0, <2>2 DEF Handled
    <3>6. boot'.enable = boot.enable /\ boot.enable \subseteq Plugins
      BY <1>0, <2>2
    <3>7. QED
      BY <2>2, <2>4, <3>2, <3>3, <3>4, <3>5, <3>6 DEF EntriesInv
  <2>7. EnablesInv'
    BY <1>6, <2>1, <2>2, <2>4
    DEF TruncateRegistry, BootInv, EnablesInv, Handled, Coming, NewConfig
  <2>8. QED
    BY <2>5, <2>6, <2>7 DEF BootInv
<1>7. CASE WriteRegistry
  <2>1. op.pc = "writeEntry" /\ op.kind = "install" /\ op.then = "none" /\ op.plugin \in Plugins
    BY <1>0, <1>4, <1>7 DEF WriteRegistry, OpOK, BootInv, BootSteps
  <2>2. op' = Idle /\ registry' = op.entries /\ UNCHANGED <<source, config>>
    BY <1>7, <2>1 DEF WriteRegistry
  <2>3. op.entries[op.plugin] # None
    BY <1>0, <2>1 DEF WholeInv, OpOK
  <2>4. /\ boot'.on = boot.on /\ boot'.todo = boot.todo /\ boot'.checked = boot.checked
        /\ boot'.enable = boot.enable \cup ({op.plugin} \cap AutoEnabled)
    BY <1>0, <1>4, <1>7 DEF WriteRegistry
  <2>5. BootSteps'
    BY <1>4, <2>1, <2>2, <2>4, Blanks DEF BootInv, BootSteps
  <2>6. Coming = {op.plugin} /\ Coming' = {}
    BY <2>1, <2>2, Blanks DEF Coming
  <2>7. EntriesInv'
    BY <2>1, <2>2, <2>3, <2>4, Blanks DEF BootInv, EntriesInv, Handled
  <2>8. EnablesInv'
    BY <2>1, <2>2, <2>4, <2>6, Blanks DEF BootInv, EnablesInv, Handled, NewConfig
  <2>9. QED
    BY <2>5, <2>7, <2>8 DEF BootInv
<1>8. CASE TruncateConfig
  <2>1. op.pc = "config" /\ op.kind = "enable" /\ boot.checked /\ op.active \in SUBSET Plugins
    BY <1>0, <1>4, <1>8 DEF TruncateConfig, OpOK, BootInv, BootSteps
  <2>2. /\ op' = [op EXCEPT !.pc = "writeConfig"] /\ config' = Torn
        /\ UNCHANGED <<source, registry, boot>>
    BY <1>8, <2>1, NoneIsNoSet DEF TruncateConfig
  <2>3. /\ op'.pc = "writeConfig" /\ op'.kind = "enable" /\ op'.active = op.active
    BY <1>0, <2>1, <2>2 DEF Op
  <2>4. BootSteps'
    BY <1>0, <1>4, <2>1, <2>2, <2>3 DEF BootInv, BootSteps
  <2>5. EntriesInv'
    BY <2>1, <2>2, <2>3 DEF BootInv, EntriesInv, Handled, Coming
  <2>6. config # Torn
    BY <2>1 DEF BootInv, BootSteps
  <2>7. EnablesInv'
    BY <2>1, <2>2, <2>3, <2>6 DEF BootInv, EnablesInv, Handled, Coming, NewConfig
  <2>8. QED
    BY <2>4, <2>5, <2>7 DEF BootInv
<1>9. CASE WriteConfig
  <2>1. op.pc = "writeConfig" /\ op.kind = "enable" /\ op.active \in SUBSET Plugins
    BY <1>0, <1>4, <1>9 DEF WriteConfig, OpOK, BootInv, BootSteps
  <2>2. /\ op'.pc \in {"sync", "idle"} /\ op'.kind \in {"none", "enable"}
        /\ config' = op.active /\ UNCHANGED <<source, registry, boot>>
    BY <1>9, <2>1 DEF WriteConfig, Idle
  <2>3. op.active \notin {Missing, Torn}
    BY <2>1, NoneIsNoSet
  <2>4. BootSteps'
    BY <1>4, <2>2, <2>3 DEF BootInv, BootSteps
  <2>5. EntriesInv'
    BY <2>1, <2>2 DEF BootInv, EntriesInv, Handled, Coming
  <2>6. EnablesInv'
    BY <2>1, <2>2 DEF BootInv, EnablesInv, Handled, Coming, NewConfig
  <2>7. QED
    BY <2>4, <2>5, <2>6 DEF BootInv
<1>10. ASSUME NEW t \in Tools, ExportTarget(t)
       PROVE  BootInv'
  <2>1. /\ op'.kind = op.kind /\ op'.then = op.then /\ op'.plugin = op.plugin /\ op'.pc = "sync"
        /\ UNCHANGED <<source, registry, config, boot>>
    BY <1>0, <1>10 DEF ExportTarget, Op
  <2>2. QED
    BY <1>10, <2>1, CommandGoesOn DEF ExportTarget
<1>11. CASE ExportFails \/ SyncDone
  <2>1. op.pc = "sync" /\ op.kind # "install" /\ op' = Idle
        /\ UNCHANGED <<source, registry, config, boot>>
    BY <1>0, <1>11 DEF ExportFails, SyncDone, OpOK, stores
  <2>2. QED
    BY <2>1, Blanks, CommandGoesOn
<1>12. ASSUME NEW p \in Plugins, BootInstall(p)
       PROVE  BootInv'
  <2> DEFINE enable == IF source[p] # Invalid /\ p \in Registered
                         THEN boot.enable \cup ({p} \cap AutoEnabled) ELSE boot.enable
  <2>1. /\ op = Idle /\ p \in boot.todo /\ UNCHANGED <<source, registry, config>>
        /\ ~ boot.checked /\ op.pc = "idle" /\ Coming = {}
    BY <1>12, Blanks DEF BootInstall, stores, BootInv, BootSteps, Coming
  <2>2. /\ boot'.on = boot.on /\ boot'.todo = boot.todo \ {p} /\ boot'.checked = boot.checked
        /\ boot'.enable = enable
    BY <1>0, <1>12 DEF BootInstall
  <2>3. IF Installable(p, FALSE)
          THEN op'.pc = "clear" /\ op'.kind = "install" /\ op'.plugin = p /\ op'.then = "none"
          ELSE op' = Idle
    BY <1>12, <2>1 DEF BootInstall, BeginInstall, Idle
  <2>4. BootSteps'
    BY <1>4, <2>1, <2>2, <2>3, Blanks DEF BootInv, BootSteps
  <2>5. registry # Torn => \A q \in Plugins : q \in Registered <=> registry[q] # None
    BY DEF Registered
  <2>6. /\ \A S \in {Bundled, AutoEnabled} : Handled(S)' \ {p} = Handled(S) \ {p}
        /\ \A S \in {Bundled, AutoEnabled} : p \in Handled(S)' => source[p] # Invalid
    BY <2>1, <2>2 DEF Handled
  <2>7. Coming' = IF Installable(p, FALSE) THEN {p} ELSE {}
    BY <2>3, Blanks DEF Coming
  <2>8. EntriesInv'
    <3>1. op'.pc # "writeEntry"
      BY <2>3, Blanks
    <3>2. SUFFICES ASSUME registry # Torn
                   PROVE  /\ \A q \in Handled(Bundled)' \ Coming' : registry[q] # None
                          /\ \A q \in boot'.enable : registry[q] # None
      BY <2>1, <3>1 DEF EntriesInv
    <3>3. \A q \in Handled(Bundled) : registry[q] # None
      BY <1>4, <2>1, <3>2 DEF BootInv, EntriesInv
    <3>4. p \in Handled(Bundled)' \ Coming' => registry[p] # None
      BY <2>6, <2>7, <3>2 DEF Installable
    <3>5. \A q \in boot.enable : registry[q] # None
      BY <1>4, <3>2 DEF BootInv, EntriesInv
    <3>6. QED
      BY <2>2, <2>5, <2>6, <3>2, <3>3, <3>4, <3>5
  <2>9. EnablesInv'
    <3>1. op'.pc \notin {"writeEntry", "config", "writeConfig"}
      BY <2>3, Blanks
    <3>2. SUFFICES ASSUME registry # Torn, config # Torn, NEW q \in Handled(AutoEnabled)' \ Coming'
                   PROVE  q \in boot'.enable
      BY <2>1, <3>1 DEF EnablesInv
    <3>3. CASE q # p
      <4>1. q \in Handled(AutoEnabled) \ Coming
        BY <2>1, <2>6, <3>2, <3>3
      <4>2. q \in boot.enable
        BY <1>4, <2>1, <3>2, <4>1 DEF BootInv, EnablesInv
      <4>3. QED
        BY <2>2, <4>2
    <3>4. CASE q = p
      <4>1. source[p] # Invalid /\ p \in AutoEnabled
        BY <2>6, <3>2, <3>4 DEF Handled
      <4>2. p \in Registered
        BY <2>5, <2>7, <3>2, <3>4, <4>1 DEF Installable
      <4>3. QED
        BY <2>2, <3>4, <4>1, <4>2
    <3>5. QED
      BY <3>3, <3>4
  <2>10. QED
    BY <2>4, <2>8, <2>9 DEF BootInv
<1>13. ASSUME NEW p \in Plugins, BootEnable(p)
       PROVE  BootInv'
  <2>1. /\ op = Idle /\ op.pc = "idle" /\ op.kind = "none" /\ boot.checked /\ p \in boot.enable
        /\ UNCHANGED <<source, registry, config>>
        /\ config \notin {Missing, Torn} /\ Coming = {} /\ boot.todo = {}
    BY <1>13, Blanks DEF BootEnable, stores, BootInv, BootSteps, Coming
  <2>2. /\ boot'.on = boot.on /\ boot'.todo = boot.todo /\ boot'.checked = boot.checked
        /\ boot'.enable = boot.enable \ {p}
    BY <1>0, <1>13 DEF BootEnable
  <2>3. CASE registry = Torn
    <3>1. op' = Idle
      BY <1>13, <2>1, <2>3 DEF BootEnable, Enabled, Registered
    <3>2. QED
      BY <1>4, <2>1, <2>2, <2>3, <3>1, Blanks DEF BootInv, BootSteps, EntriesInv, EnablesInv
  <2>4. CASE registry # Torn
    <3>1. registry[p] # None
      BY <1>4, <2>1, <2>4 DEF BootInv, EntriesInv
    <3>2. Enabled(p)
      BY <2>1, <2>4, <3>1 DEF Enabled, Registered
    <3> DEFINE active == config \cup {p}
    <3>3. active \in SUBSET Plugins
      BY <2>1 DEF TypeInv, TypeOK
    <3>4. op'.pc = "config" /\ op'.kind = "enable" /\ op'.active = active
      BY <1>13, <3>2 DEF BootEnable, BeginEnable, Idle
    <3>5. BootSteps'
      BY <1>4, <2>1, <2>2, <3>3, <3>4 DEF BootInv, BootSteps
    <3>6. EntriesInv'
      BY <1>4, <2>1, <2>2, <3>4 DEF BootInv, EntriesInv, Handled, Coming
    <3>7. \A q \in Handled(AutoEnabled) : q \in boot.enable \/ q \in config
      BY <1>4, <2>1, <2>4 DEF BootInv, EnablesInv, NewConfig
    <3>8. EnablesInv'
      <4>1. Handled(AutoEnabled)' = Handled(AutoEnabled) /\ NewConfig' = active
        BY <2>1, <2>2, <3>4 DEF Handled, NewConfig
      <4>2. QED
        BY <2>1, <2>2, <3>7, <4>1 DEF EnablesInv
    <3>9. QED
      BY <3>5, <3>6, <3>8 DEF BootInv
  <2>5. QED
    BY <2>3, <2>4
<1>14. CASE BootConfig
  <2>1. /\ op = Idle /\ op' = Idle /\ boot.todo = {} /\ ~ boot.checked
        /\ UNCHANGED <<source, registry>>
        /\ config' = IF config = Missing THEN {} ELSE config
    BY <1>14 DEF BootConfig
  <2>2. CASE config = Torn
    <3>1. /\ boot'.on = boot.on /\ boot'.todo = {} /\ ~ boot'.checked /\ boot'.enable = {}
          /\ config' = Torn
      BY <1>0, <1>14, <2>1, <2>2 DEF BootConfig
    <3>2. QED
      BY <1>4, <2>1, <3>1, Blanks DEF BootInv, BootSteps, EntriesInv, EnablesInv, Handled, Coming
  <2>3. CASE config # Torn
    <3>1. /\ boot'.on = boot.on /\ boot'.todo = {} /\ boot'.checked /\ boot'.enable = boot.enable
      BY <1>0, <1>14, <2>1, <2>3 DEF BootConfig
    <3>2. config' \notin {Missing, Torn}
      BY <2>1, <2>3, NoneIsNoSet
    <3>3. BootSteps'
      BY <1>4, <2>1, <3>1, <3>2, Blanks DEF BootInv, BootSteps
    <3>4. EntriesInv'
      BY <1>4, <2>1, <3>1, Blanks DEF BootInv, EntriesInv, Handled, Coming
    <3>5. EnablesInv'
      BY <1>4, <2>1, <2>3, <3>1, Blanks DEF BootInv, EnablesInv, Handled, Coming
    <3>6. QED
      BY <3>3, <3>4, <3>5 DEF BootInv
  <2>4. QED
    BY <2>2, <2>3
<1>15. CASE UNCHANGED vars
  BY <1>15 DEF vars, stores, BootInv, BootSteps, EntriesInv, EnablesInv, Handled, Coming, NewConfig
<1>16. QED
  BY <1>4, <1>5, <1>6, <1>7, <1>8, <1>9, <1>10, <1>11, <1>12, <1>13, <1>14, <1>15 DEF Step

\* A bootstrap that gets to its end has installed every bundled plugin that loads,
\* past those that do not, and enabled those it is to enable.
THEOREM BootstrapGetsThrough == Spec => []BootstrapIsComplete
<1>1. Init => WholeInv
  BY DEF Init, WholeInv, EntriesLoad, Idle
<1>2. Init => BootInv
  BY Blanks DEF Init, BootInv, BootSteps, EntriesInv, EnablesInv
<1>3. TypeInv /\ BootInv => BootstrapIsComplete
  <2> SUFFICES ASSUME TypeInv, BootInv, BootDone, registry # Torn
               PROVE  /\ \A p \in Bundled : source[p] # Invalid => p \in Registered
                      /\ config \notin {Missing, Torn} =>
                           {p \in AutoEnabled : source[p] # Invalid} \subseteq config
    BY DEF BootstrapIsComplete
  <2>1. /\ boot.on /\ boot.todo = {} /\ boot.enable = {} /\ op.pc = "idle" /\ Coming = {}
    BY Blanks DEF BootDone, Coming
  <2>2. \A S : Handled(S) = {p \in S : source[p] # Invalid}
    BY <2>1 DEF Handled
  <2>3. \A p \in Bundled : source[p] # Invalid => p \in Registered
    BY <2>1, <2>2, PluginAssumption DEF BootInv, EntriesInv, Registered
  <2>4. config \notin {Missing, Torn} => {p \in AutoEnabled : source[p] # Invalid} \subseteq config
    BY <2>1, <2>2 DEF BootInv, EnablesInv, NewConfig
  <2>5. QED
    BY <2>3, <2>4
<1>4. QED
  BY <1>1, <1>2, <1>3, TypeInvariance, WholeInvariance, BootInvariance, PTL DEF Spec

-----------------------------------------------------------------------------
\* No pid and no port is the 0 that stands for none.
NoneIsNothing == 0 \notin Cli!Starts /\ 0 \notin Ports

LEMMA NoPort == NoneIsNothing
BY PortsAssumption DEF NoneIsNothing, Cli!Starts

-----------------------------------------------------------------------------
(* The daemon on the command line: types.                                    *)

StartStates == {"unborn", "check", "bind", "bound", "opened", "filled", "serving",
                "closing", "exited"}
StopStates  == {"unborn", "read", "kill", "rm", "done"}

StartCommand == [st : StartStates, port : Ports \cup {0}]
StopCommand  == [st : StopStates, pid : Cli!Starts \cup {0}]
PidFile      == [st : {"missing", "empty", "whole"}, by : Cli!Starts \cup {0}]

\* The type of every variable; a file that is there is somebody's, and so is a
\* pid that is about to be signalled.
CliTyped ==
  /\ start \in [Cli!Starts -> StartCommand]
  /\ stop \in [Cli!Stops -> StopCommand]
  /\ \A q \in Cli!Stops : stop[q].st = "kill" => stop[q].pid \in Cli!Starts
  /\ pidFile \in PidFile
  /\ pidFile.st # "missing" => pidFile.by \in Cli!Starts
  /\ portFile \in Ports \cup {0}
  /\ stranger \in Cli!Starts \cup {0}
  /\ mixed \in BOOLEAN

\* A start command goes to the state st and keeps its port.
LEMMA GoStep ==
  ASSUME start \in [Cli!Starts -> StartCommand], NEW p \in Cli!Starts, NEW st \in StartStates,
         Cli!Go(p, st)
  PROVE  /\ start' \in [Cli!Starts -> StartCommand]
         /\ start'[p].st = st /\ start'[p].port = start[p].port
         /\ \A r \in Cli!Starts \ {p} : start'[r] = start[r]
BY DEF Cli!Go, StartCommand

\* A signal ends the process at once, or has its server close first.
LEMMA SignalStep ==
  ASSUME start \in [Cli!Starts -> StartCommand], NEW p \in Cli!Starts, Cli!Alive(p), start' = Cli!Signalled(p)
  PROVE  /\ start' \in [Cli!Starts -> StartCommand]
         /\ start'[p].st \in {"closing", "exited"}
         /\ \A r \in Cli!Starts \ {p} : start'[r] = start[r]
<1>1. Cli!Go(p, "closing") \/ Cli!Go(p, "exited")
  BY DEF Cli!Signalled, Cli!Go
<1>2. QED
  BY <1>1, GoStep DEF StartStates

\* What a stop finds in the pid file.
LEMMA ReadStep ==
  ASSUME CliTyped, NEW q \in Cli!Stops, Cli!ReadPid(q)
  PROVE  \E e \in StopCommand :
           /\ stop' = [stop EXCEPT ![q] = e]
           /\ e.st \in {"kill", "rm", "done"}
           /\ e.st = "kill" => pidFile.st = "whole" /\ e.pid = pidFile.by
           /\ e.st = "rm" => ~ (pidFile.st = "whole" /\ Cli!isPidAlive(pidFile.by))
<1> DEFINE missing == [st |-> "done", pid |-> 0]
           found   == [st |-> "kill", pid |-> pidFile.by]
           stale   == [st |-> "rm", pid |-> 0]
<1>1. {missing, found, stale} \subseteq StopCommand
  BY DEF CliTyped, PidFile, StopCommand, StopStates
<1>2. CASE pidFile.st = "missing"
  BY <1>1, <1>2 DEF Cli!ReadPid
<1>3. CASE pidFile.st = "whole" /\ Cli!isPidAlive(pidFile.by)
  BY <1>1, <1>3 DEF Cli!ReadPid
<1>4. CASE pidFile.st # "missing" /\ ~ (pidFile.st = "whole" /\ Cli!isPidAlive(pidFile.by))
  BY <1>1, <1>4 DEF Cli!ReadPid
<1>5. QED
  BY <1>2, <1>3, <1>4

\* A stop goes to the state st and keeps its pid.
LEMMA StopStep ==
  ASSUME stop \in [Cli!Stops -> StopCommand], NEW q \in Cli!Stops, NEW st \in StopStates,
         stop' = [stop EXCEPT ![q].st = st]
  PROVE  \E e \in StopCommand : stop' = [stop EXCEPT ![q] = e] /\ e.st = st
<1> DEFINE e == [stop[q] EXCEPT !.st = st]
<1>1. stop[q] \in StopCommand
  OBVIOUS
<1>2. e \in StopCommand /\ e.st = st
  BY <1>1 DEF StopCommand
<1>3. stop' = [stop EXCEPT ![q] = e]
  OBVIOUS
<1>4. QED
  BY <1>2, <1>3

LEMMA CliTypeInvariance ==
  ASSUME CliTyped, [Cli!Next]_(Cli!vars)
  PROVE  CliTyped'
<1>0. start \in [Cli!Starts -> StartCommand] /\ stop \in [Cli!Stops -> StopCommand]
  BY DEF CliTyped
<1>1. ASSUME NEW p \in Cli!Starts, NEW port \in Ports, Cli!startRuntime(p, port)
      PROVE  CliTyped'
  <2>1. [st |-> "check", port |-> port] \in StartCommand
    BY DEF StartCommand, StartStates
  <2>2. start' \in [Cli!Starts -> StartCommand]
    BY <1>0, <1>1, <2>1 DEF Cli!startRuntime
  <2>3. mixed' \in BOOLEAN
    BY <1>1 DEF Cli!startRuntime
  <2>4. QED
    BY <1>1, <2>2, <2>3 DEF Cli!startRuntime, CliTyped
<1>2. ASSUME NEW p \in Cli!Starts, NEW st \in StartStates, Cli!Go(p, st),
             UNCHANGED <<stop, stranger, mixed>>,
             pidFile' \in PidFile, pidFile'.st # "missing" => pidFile'.by \in Cli!Starts,
             portFile' \in Ports \cup {0}
      PROVE  CliTyped'
  BY <1>0, <1>2, GoStep DEF CliTyped
<1>3. ASSUME NEW p \in Cli!Starts, Cli!readPidIfAlive(p)
      PROVE  CliTyped'
  BY <1>2, <1>3 DEF Cli!readPidIfAlive, CliTyped, StartStates
<1>4. ASSUME NEW p \in Cli!Starts, Cli!startServer(p)
      PROVE  CliTyped'
  BY <1>2, <1>4 DEF Cli!startServer, CliTyped, StartStates
<1>5. ASSUME NEW p \in Cli!Starts, Cli!OpenPid(p)
      PROVE  CliTyped'
  BY <1>2, <1>5 DEF Cli!OpenPid, CliTyped, StartStates, PidFile
<1>6. ASSUME NEW p \in Cli!Starts, Cli!FillPid(p)
      PROVE  CliTyped'
  BY <1>2, <1>6 DEF Cli!FillPid, CliTyped, StartStates, PidFile
<1>7. ASSUME NEW p \in Cli!Starts, Cli!WritePort(p)
      PROVE  CliTyped'
  <2>1. start[p].port \in Ports \cup {0}
    BY <1>0 DEF StartCommand
  <2>2. QED
    BY <1>2, <1>7, <2>1 DEF Cli!WritePort, CliTyped, StartStates
<1>8. ASSUME NEW p \in Cli!Starts, Cli!CtrlC(p)
      PROVE  CliTyped'
  BY <1>0, <1>8, SignalStep DEF Cli!CtrlC, CliTyped
<1>9. ASSUME NEW p \in Cli!Starts, Cli!close(p)
      PROVE  CliTyped'
  BY <1>2, <1>9 DEF Cli!close, CliTyped, StartStates
<1>10. ASSUME NEW p \in Cli!Starts, Cli!Crash(p)
       PROVE  CliTyped'
  BY <1>2, <1>10 DEF Cli!Crash, CliTyped, StartStates
<1>11. ASSUME NEW p \in Cli!Starts, Cli!Reuse(p)
       PROVE  CliTyped'
  BY <1>11 DEF Cli!Reuse, CliTyped
<1>12. ASSUME NEW q \in Cli!Stops, Cli!stopRuntime(q)
       PROVE  CliTyped'
  BY <1>12 DEF Cli!stopRuntime, CliTyped, StopCommand, StopStates
<1>13. ASSUME NEW q \in Cli!Stops, Cli!ReadPid(q)
       PROVE  CliTyped'
  <2>1. PICK e \in StopCommand :
          stop' = [stop EXCEPT ![q] = e] /\ (e.st = "kill" => e.pid \in Cli!Starts)
    BY <1>13, ReadStep DEF CliTyped
  <2>2. QED
    BY <1>13, <2>1 DEF Cli!ReadPid, CliTyped
<1>14. ASSUME NEW q \in Cli!Stops, Cli!Kill(q)
       PROVE  CliTyped'
  <2>1. stop[q].pid \in Cli!Starts
    BY <1>14 DEF Cli!Kill, CliTyped
  <2>2. start' \in [Cli!Starts -> StartCommand]
    BY <1>0, <1>14, <2>1, SignalStep DEF Cli!Kill
  <2>3. /\ stop' \in [Cli!Stops -> StopCommand]
        /\ \A r \in Cli!Stops : stop'[r].st = "kill" => stop[r].st = "kill" /\ stop'[r] = stop[r]
    BY <1>0, <1>14 DEF Cli!Kill, StopCommand, StopStates
  <2>4. QED
    BY <1>14, <2>2, <2>3 DEF Cli!Kill, CliTyped
<1>15. ASSUME NEW q \in Cli!Stops, Cli!Remove(q)
       PROVE  CliTyped'
  <2>1. /\ stop' \in [Cli!Stops -> StopCommand]
        /\ \A r \in Cli!Stops : stop'[r].st = "kill" => stop'[r] = stop[r]
    BY <1>0, <1>15 DEF Cli!Remove, StopCommand, StopStates
  <2>2. QED
    BY <1>15, <2>1 DEF Cli!Remove, CliTyped, Cli!NoFile, PidFile
<1>16. CASE UNCHANGED Cli!vars
  BY <1>16 DEF Cli!vars, CliTyped
<1>17. QED
  BY <1>1, <1>3, <1>4, <1>5, <1>6, <1>7, <1>8, <1>9, <1>10, <1>11, <1>12, <1>13, <1>14,
     <1>15, <1>16
  DEF Cli!Next

LEMMA InitTyped == Cli!Init => CliTyped
<1>1. /\ Cli!NoStart \in StartCommand /\ Cli!NoStop \in StopCommand /\ Cli!NoFile \in PidFile
      /\ Cli!NoStop.st = "unborn" /\ Cli!NoFile.st = "missing"
  BY DEF Cli!NoStart, Cli!NoStop, Cli!NoFile, StartCommand, StopCommand, PidFile, StartStates, StopStates
<1>2. QED
  BY <1>1 DEF Cli!Init, CliTyped

-----------------------------------------------------------------------------
(* One command at a time. *)

\* No two commands are under way.
Exclusive ==
  /\ \A p, r \in Cli!Starts : Cli!Starting(p) /\ Cli!Starting(r) => p = r
  /\ \A q, r \in Cli!Stops : Cli!Stopping(q) /\ Cli!Stopping(r) => q = r
  /\ \A p \in Cli!Starts, q \in Cli!Stops : ~ (Cli!Starting(p) /\ Cli!Stopping(q))

\* The files name the daemon that serves.
Recorded ==
  \A p \in Cli!Serving : /\ pidFile = [st |-> "whole", by |-> p]
                         /\ portFile = start[p].port

\* A start that has found no daemon is still right, and what it wrote so far
\* is in the pid file.
StartsAreRight ==
  \A p \in Cli!Starts :
    /\ start[p].st \in {"bind", "bound", "opened", "filled"} => Cli!Serving = {}
    /\ start[p].st = "opened" => pidFile = [st |-> "empty", by |-> p]
    /\ start[p].st = "filled" => pidFile = [st |-> "whole", by |-> p]

\* A stop signals the daemon that serves, and removes the pid file of none.
StopsAreRight ==
  \A q \in Cli!Stops :
    /\ stop[q].st = "kill" => Cli!Serving \subseteq {stop[q].pid}
    /\ stop[q].st = "rm" => Cli!Serving = {}

FilesInv == ~mixed => Exclusive /\ Recorded /\ StartsAreRight /\ StopsAreRight

\* Only a start that has done everything begins to serve.
LEMMA ServingStep ==
  ASSUME CliTyped, NEW p \in Cli!Starts, NEW st \in StartStates, Cli!Go(p, st)
  PROVE  /\ st # "serving" => Cli!Serving' = Cli!Serving \ {p}
         /\ st = "serving" => Cli!Serving' = Cli!Serving \cup {p}
<1>1. /\ start'[p].st = st
      /\ \A r \in Cli!Starts \ {p} : start'[r] = start[r]
  BY GoStep DEF CliTyped
<1>2. QED
  BY <1>1 DEF Cli!Serving

\* A daemon ends, or is told to: the files still name the one that is left.
LEMMA EndingStep ==
  ASSUME CliTyped, FilesInv, NEW p \in Cli!Starts,
         start'[p].st \in {"closing", "exited"},
         \A r \in Cli!Starts \ {p} : start'[r] = start[r],
         UNCHANGED <<stop, pidFile, portFile, mixed>>
  PROVE  FilesInv'
<1> SUFFICES ASSUME ~mixed PROVE (Exclusive /\ Recorded /\ StartsAreRight /\ StopsAreRight)'
  BY DEF FilesInv
<1>1. Exclusive /\ Recorded /\ StartsAreRight /\ StopsAreRight
  BY DEF FilesInv
<1>2. Cli!Serving' = Cli!Serving \ {p}
  BY DEF Cli!Serving
<1>3. \A r \in Cli!Starts : Cli!Starting(r)' => Cli!Starting(r) /\ r # p
  BY DEF Cli!Starting, Cli!Alive
<1>4. Exclusive'
  BY <1>1, <1>3 DEF Exclusive, Cli!Stopping
<1>5. Recorded'
  BY <1>1, <1>2 DEF Recorded, Cli!Serving
<1>6. StartsAreRight'
  BY <1>1, <1>2 DEF StartsAreRight
<1>7. StopsAreRight'
  BY <1>1, <1>2 DEF StopsAreRight
<1>8. QED
  BY <1>4, <1>5, <1>6, <1>7

\* The start p goes on to st, and nobody else takes a step.
LEMMA StartingStep ==
  ASSUME CliTyped, FilesInv, NEW p \in Cli!Starts, Cli!Starting(p), NEW st \in StartStates \ {"unborn"},
         Cli!Go(p, st), UNCHANGED <<stop, mixed>>,
         \* what the next state asks of the files
         ~mixed =>
           /\ st \in {"bind", "bound", "opened", "filled", "serving"} => Cli!Serving = {}
           /\ st = "opened" => pidFile' = [st |-> "empty", by |-> p]
           /\ st \in {"filled", "serving"} => pidFile' = [st |-> "whole", by |-> p]
           /\ st = "serving" => portFile' = start[p].port
           /\ Cli!Serving # {} => UNCHANGED <<pidFile, portFile>>
  PROVE  FilesInv'
<1> SUFFICES ASSUME ~mixed PROVE (Exclusive /\ Recorded /\ StartsAreRight /\ StopsAreRight)'
  BY DEF FilesInv
<1>1. Exclusive /\ Recorded /\ StartsAreRight /\ StopsAreRight
  BY DEF FilesInv
<1>2. /\ start'[p].st = st /\ start'[p].port = start[p].port
      /\ \A r \in Cli!Starts \ {p} : start'[r] = start[r]
  BY GoStep DEF CliTyped
<1>3. \A r \in Cli!Starts : Cli!Starting(r)' => Cli!Starting(r)
  BY <1>2 DEF Cli!Starting, Cli!Alive
<1>4. Exclusive'
  BY <1>1, <1>3 DEF Exclusive, Cli!Stopping
<1>5. \A r \in Cli!Starts \ {p} : ~ Cli!Starting(r)
  BY <1>1 DEF Exclusive
<1>6. \A q \in Cli!Stops : ~ Cli!Stopping(q)
  BY <1>1 DEF Exclusive
<1>7. p \notin Cli!Serving
  BY DEF Cli!Starting, Cli!Serving
<1>8. Cli!Serving' = IF st = "serving" THEN {p} ELSE Cli!Serving
  BY <1>7, ServingStep
<1>9. Recorded'
  BY <1>1, <1>2, <1>8 DEF Recorded, Cli!Serving
<1>10. StartsAreRight'
  BY <1>2, <1>5, <1>8 DEF StartsAreRight, Cli!Starting, Cli!Alive
<1>11. StopsAreRight'
  BY <1>6 DEF StopsAreRight, Cli!Stopping
<1>12. QED
  BY <1>4, <1>9, <1>10, <1>11

\* A command begins.  If it begins alone, the others are over.
LEMMA BeginStep ==
  ASSUME CliTyped, FilesInv, mixed' = (mixed \/ Cli!Busy), UNCHANGED <<pidFile, portFile>>,
         Cli!Serving' = Cli!Serving, \A p \in Cli!Serving : start'[p] = start[p],
         \/ /\ \E p \in Cli!Starts : /\ start'[p].st = "check"
                                     /\ \A r \in Cli!Starts \ {p} : start'[r] = start[r]
            /\ stop' = stop
         \/ /\ \E q \in Cli!Stops : /\ stop'[q].st = "read"
                                    /\ \A r \in Cli!Stops \ {q} : stop'[r] = stop[r]
            /\ start' = start
  PROVE  FilesInv'
<1> SUFFICES ASSUME ~mixed, ~Cli!Busy
             PROVE  (Exclusive /\ Recorded /\ StartsAreRight /\ StopsAreRight)'
  BY DEF FilesInv
<1>1. Exclusive /\ Recorded /\ StartsAreRight /\ StopsAreRight
  BY DEF FilesInv
<1>2. (\A p \in Cli!Starts : ~ Cli!Starting(p)) /\ (\A q \in Cli!Stops : ~ Cli!Stopping(q))
  BY DEF Cli!Busy
<1>3. \A p \in Cli!Starts : Cli!Starting(p)' => start'[p].st = "check"
  BY <1>2 DEF Cli!Starting, Cli!Alive
<1>4. \A q \in Cli!Stops : Cli!Stopping(q)' => stop'[q].st = "read"
  BY <1>2 DEF Cli!Stopping
<1>5. Exclusive'
  BY <1>2 DEF Exclusive, Cli!Starting, Cli!Alive, Cli!Stopping
<1>6. Recorded'
  BY <1>1 DEF Recorded
<1>7. StartsAreRight' /\ StopsAreRight'
  BY <1>3, <1>4 DEF StartsAreRight, StopsAreRight, Cli!Starting, Cli!Alive, Cli!Stopping
<1>8. QED
  BY <1>5, <1>6, <1>7

\* A stop that is under way takes a step.
LEMMA StoppingStep ==
  ASSUME CliTyped, FilesInv, NEW q \in Cli!Stops, Cli!Stopping(q), NEW e,
         stop' = [stop EXCEPT ![q] = e], e.st # "unborn", UNCHANGED <<portFile, mixed>>,
         Cli!Serving' \subseteq Cli!Serving, \A p \in Cli!Starts : start'[p].port = start[p].port,
         \A p \in Cli!Starts : Cli!Starting(p)' => Cli!Starting(p),
         ~mixed => /\ e.st = "kill" => Cli!Serving' \subseteq {e.pid}
                   /\ e.st = "rm" => Cli!Serving' = {}
                   /\ Cli!Serving' # {} => pidFile' = pidFile
  PROVE  FilesInv'
<1> SUFFICES ASSUME ~mixed PROVE (Exclusive /\ Recorded /\ StartsAreRight /\ StopsAreRight)'
  BY DEF FilesInv
<1>1. Exclusive /\ Recorded /\ StartsAreRight /\ StopsAreRight
  BY DEF FilesInv
<1>2. stop'[q] = e /\ \A r \in Cli!Stops \ {q} : stop'[r] = stop[r]
  BY DEF CliTyped
<1>3. Exclusive'
  BY <1>1, <1>2 DEF Exclusive, Cli!Stopping
<1>4. \A r \in Cli!Stops \ {q} : ~ Cli!Stopping(r)
  BY <1>1 DEF Exclusive
<1>5. Recorded'
  BY <1>1 DEF Recorded, Cli!Serving
<1>6. \A p \in Cli!Starts : ~ Cli!Starting(p)'
  BY <1>1 DEF Exclusive
<1>7. StartsAreRight'
  BY <1>6 DEF StartsAreRight, Cli!Starting, Cli!Alive
<1>8. StopsAreRight'
  BY <1>2, <1>4 DEF StopsAreRight, Cli!Stopping
<1>9. QED
  BY <1>3, <1>5, <1>7, <1>8

LEMMA FilesInvariance ==
  ASSUME NoneIsNothing, CliTyped, FilesInv, [Cli!Next]_(Cli!vars)
  PROVE  FilesInv'
<1>0. start \in [Cli!Starts -> StartCommand] /\ stop \in [Cli!Stops -> StopCommand]
  BY DEF CliTyped
<1>1. ASSUME NEW p \in Cli!Starts, NEW port \in Ports, Cli!startRuntime(p, port)
      PROVE  FilesInv'
  <2>1. /\ start[p].st = "unborn" /\ start'[p].st = "check"
        /\ \A r \in Cli!Starts \ {p} : start'[r] = start[r]
    BY <1>0, <1>1 DEF Cli!startRuntime
  <2>2. Cli!Serving' = Cli!Serving /\ \A r \in Cli!Serving : start'[r] = start[r]
    BY <2>1 DEF Cli!Serving
  <2>3. QED
    BY <1>1, <2>1, <2>2, BeginStep DEF Cli!startRuntime
<1>2. ASSUME NEW p \in Cli!Starts, Cli!readPidIfAlive(p)
      PROVE  FilesInv'
  <2>1. start[p].st = "check" /\ Cli!Starting(p)
    BY <1>2 DEF Cli!readPidIfAlive, Cli!Starting, Cli!Alive
  <2>2. ASSUME ~mixed, ~ (pidFile.st = "whole" /\ Cli!isPidAlive(pidFile.by))
        PROVE  Cli!Serving = {}
    BY <2>2 DEF FilesInv, Recorded, Cli!Serving, Cli!isPidAlive, Cli!Alive, NoneIsNothing
  <2>3. PICK st \in {"exited", "bind"} :
          Cli!Go(p, st) /\ (st = "bind" => ~ (pidFile.st = "whole" /\ Cli!isPidAlive(pidFile.by)))
    BY <1>2 DEF Cli!readPidIfAlive
  <2>4. QED
    BY <1>2, <2>1, <2>2, <2>3, StartingStep DEF Cli!readPidIfAlive, StartStates
<1>3. ASSUME NEW p \in Cli!Starts, Cli!startServer(p)
      PROVE  FilesInv'
  <2>1. start[p].st = "bind" /\ Cli!Starting(p)
    BY <1>3 DEF Cli!startServer, Cli!Starting, Cli!Alive
  <2>2. ~mixed => Cli!Serving = {}
    BY <2>1 DEF FilesInv, StartsAreRight
  <2>3. PICK st \in {"exited", "bound"} : Cli!Go(p, st)
    BY <1>3 DEF Cli!startServer
  <2>4. QED
    BY <1>3, <2>1, <2>2, <2>3, StartingStep DEF Cli!startServer, StartStates
<1>4. ASSUME NEW p \in Cli!Starts, Cli!OpenPid(p)
      PROVE  FilesInv'
  <2>1. start[p].st = "bound" /\ Cli!Starting(p)
    BY <1>4 DEF Cli!OpenPid, Cli!Starting, Cli!Alive
  <2>2. ~mixed => Cli!Serving = {}
    BY <2>1 DEF FilesInv, StartsAreRight
  <2>3. QED
    BY <1>4, <2>1, <2>2, StartingStep DEF Cli!OpenPid, StartStates
<1>5. ASSUME NEW p \in Cli!Starts, Cli!FillPid(p)
      PROVE  FilesInv'
  <2>1. start[p].st = "opened" /\ Cli!Starting(p)
    BY <1>5 DEF Cli!FillPid, Cli!Starting, Cli!Alive
  <2>2. ~mixed => Cli!Serving = {} /\ pidFile' = [st |-> "whole", by |-> p]
    BY <1>5, <2>1 DEF FilesInv, StartsAreRight, Cli!FillPid
  <2>3. QED
    BY <1>5, <2>1, <2>2, StartingStep DEF Cli!FillPid, StartStates
<1>6. ASSUME NEW p \in Cli!Starts, Cli!WritePort(p)
      PROVE  FilesInv'
  <2>1. start[p].st = "filled" /\ Cli!Starting(p)
    BY <1>6 DEF Cli!WritePort, Cli!Starting, Cli!Alive
  <2>2. ~mixed => Cli!Serving = {} /\ pidFile = [st |-> "whole", by |-> p]
    BY <2>1 DEF FilesInv, StartsAreRight
  <2>3. QED
    BY <1>6, <2>1, <2>2, StartingStep DEF Cli!WritePort, StartStates
<1>7. ASSUME NEW p \in Cli!Starts, Cli!CtrlC(p)
      PROVE  FilesInv'
  BY <1>0, <1>7, SignalStep, EndingStep DEF Cli!CtrlC
<1>8. ASSUME NEW p \in Cli!Starts, Cli!Go(p, "exited"), UNCHANGED <<stop, pidFile, portFile, mixed>>
      PROVE  FilesInv'
  BY <1>0, <1>8, GoStep, EndingStep DEF StartStates
<1>9. ASSUME NEW p \in Cli!Starts, Cli!close(p) \/ Cli!Crash(p)
      PROVE  FilesInv'
  BY <1>8, <1>9 DEF Cli!close, Cli!Crash
<1>10. ASSUME NEW p \in Cli!Starts, Cli!Reuse(p)
       PROVE  FilesInv'
  BY <1>10 DEF Cli!Reuse, FilesInv, Exclusive, Recorded, StartsAreRight, StopsAreRight,
               Cli!Serving, Cli!Starting, Cli!Alive, Cli!Stopping
<1>11. ASSUME NEW q \in Cli!Stops, Cli!stopRuntime(q)
       PROVE  FilesInv'
  <2>1. stop'[q].st = "read" /\ \A r \in Cli!Stops \ {q} : stop'[r] = stop[r]
    BY <1>0, <1>11 DEF Cli!stopRuntime, StopCommand
  <2>2. Cli!Serving' = Cli!Serving /\ start' = start
    BY <1>11 DEF Cli!stopRuntime, Cli!Serving
  <2>3. QED
    BY <1>11, <2>1, <2>2, BeginStep DEF Cli!stopRuntime
<1>12. ASSUME NEW q \in Cli!Stops, Cli!ReadPid(q)
       PROVE  FilesInv'
  <2>1. Cli!Stopping(q) /\ start' = start /\ pidFile' = pidFile
    BY <1>12 DEF Cli!ReadPid, Cli!Stopping
  <2>2. Cli!Serving' = Cli!Serving /\ \A p \in Cli!Starts : Cli!Starting(p)' => Cli!Starting(p)
    BY <2>1 DEF Cli!Serving, Cli!Starting, Cli!Alive
  <2>3. ~mixed /\ pidFile.st = "whole" => Cli!Serving \subseteq {pidFile.by}
    BY DEF FilesInv, Recorded
  <2>4. ~mixed /\ ~ (pidFile.st = "whole" /\ Cli!isPidAlive(pidFile.by)) => Cli!Serving = {}
    BY DEF FilesInv, Recorded, Cli!Serving, Cli!isPidAlive, Cli!Alive, NoneIsNothing
  <2>5. PICK e \in StopCommand :
          /\ stop' = [stop EXCEPT ![q] = e]
          /\ e.st \in {"kill", "rm", "done"}
          /\ e.st = "kill" => pidFile.st = "whole" /\ e.pid = pidFile.by
          /\ e.st = "rm" => ~ (pidFile.st = "whole" /\ Cli!isPidAlive(pidFile.by))
    BY <1>12, ReadStep
  <2>6. QED
    BY <1>12, <2>1, <2>2, <2>3, <2>4, <2>5, StoppingStep DEF Cli!ReadPid
<1>13. ASSUME NEW q \in Cli!Stops, Cli!Kill(q)
       PROVE  FilesInv'
  <2>1. PICK pid \in Cli!Starts : pid = stop[q].pid
    BY <1>13 DEF Cli!Kill, CliTyped
  <2>2. Cli!Stopping(q) /\ UNCHANGED <<pidFile, portFile, mixed>>
    BY <1>13 DEF Cli!Kill, Cli!Stopping
  <2>3. PICK e \in StopCommand :
          stop' = [stop EXCEPT ![q] = e] /\ e.st \in {"rm", "done"}
    BY <1>0, <1>13, StopStep DEF Cli!Kill, StopStates
  <2>4. \/ Cli!Alive(pid) /\ start' = Cli!Signalled(pid)
        \/ ~Cli!Alive(pid) /\ start' = start
    BY <1>13, <2>1 DEF Cli!Kill
  <2>5. Cli!Serving' = Cli!Serving \ {pid} /\ \A p \in Cli!Starts : Cli!Starting(p)' => Cli!Starting(p)
    <3>1. CASE Cli!Alive(pid) /\ start' = Cli!Signalled(pid)
      <4>1. /\ start'[pid].st \in {"closing", "exited"}
            /\ \A r \in Cli!Starts \ {pid} : start'[r] = start[r]
        BY <1>0, <3>1, SignalStep
      <4>2. QED
        BY <4>1 DEF Cli!Serving, Cli!Starting, Cli!Alive
    <3>2. CASE ~Cli!Alive(pid) /\ start' = start
      BY <3>2 DEF Cli!Serving, Cli!Starting, Cli!Alive
    <3>3. QED
      BY <2>4, <3>1, <3>2
  <2>6. \A p \in Cli!Starts : start'[p].port = start[p].port
    BY <1>0, <2>4 DEF Cli!Signalled, StartCommand
  <2>7. ~mixed => Cli!Serving' = {}
    BY <1>13, <2>1, <2>5 DEF Cli!Kill, FilesInv, StopsAreRight
  <2>8. QED
    BY <2>2, <2>3, <2>5, <2>6, <2>7, StoppingStep
<1>14. ASSUME NEW q \in Cli!Stops, Cli!Remove(q)
       PROVE  FilesInv'
  <2>1. Cli!Stopping(q) /\ start' = start /\ UNCHANGED <<portFile, mixed>>
    BY <1>14 DEF Cli!Remove, Cli!Stopping
  <2>2. Cli!Serving' = Cli!Serving /\ \A p \in Cli!Starts : Cli!Starting(p)' => Cli!Starting(p)
    BY <2>1 DEF Cli!Serving, Cli!Starting, Cli!Alive
  <2>3. ~mixed => Cli!Serving = {}
    BY <1>14 DEF Cli!Remove, FilesInv, StopsAreRight
  <2>4. PICK e \in StopCommand : stop' = [stop EXCEPT ![q] = e] /\ e.st = "done"
    BY <1>0, <1>14, StopStep DEF Cli!Remove, StopStates
  <2>5. QED
    BY <2>1, <2>2, <2>3, <2>4, StoppingStep
<1>15. CASE UNCHANGED Cli!vars
  BY <1>15 DEF Cli!vars, FilesInv, Exclusive, Recorded, StartsAreRight, StopsAreRight,
               Cli!Serving, Cli!Starting, Cli!Alive, Cli!Stopping
<1>16. QED
  BY <1>1, <1>2, <1>3, <1>4, <1>5, <1>6, <1>7, <1>9, <1>10, <1>11, <1>12, <1>13, <1>14,
     <1>15
  DEF Cli!Next

-----------------------------------------------------------------------------
\* tierkit runtime start, stop and status agree on the daemon: as long as no two
\* commands ran at the same time, at most one daemon serves, and between
\* commands daemon.pid and daemon.port name it, whatever crashed, was
\* interrupted or had its pid given out again.
THEOREM OneRecordedDaemon == Cli!Spec => []Cli!DaemonIsRecorded
<1>0. NoneIsNothing
  BY NoPort
<1>1. Cli!Init => FilesInv
  BY DEF Cli!Init, FilesInv, Exclusive, Recorded, StartsAreRight, StopsAreRight, Cli!Serving,
         Cli!Starting, Cli!Alive, Cli!Stopping, Cli!NoStart, Cli!NoStop
<1>2. CliTyped /\ FilesInv /\ [Cli!Next]_(Cli!vars) => CliTyped' /\ FilesInv'
  BY <1>0, CliTypeInvariance, FilesInvariance
<1>3. CliTyped /\ FilesInv => Cli!DaemonIsRecorded
  <2> SUFFICES ASSUME CliTyped, FilesInv, ~mixed PROVE Cli!DaemonIsRecorded
    BY DEF Cli!DaemonIsRecorded
  <2>1. \A p \in Cli!Serving : pidFile = [st |-> "whole", by |-> p] /\ portFile = start[p].port
    BY DEF FilesInv, Recorded
  <2>2. \A p, r \in Cli!Serving : p = r
    <3>1. \A p \in Cli!Serving : pidFile.by = p
      BY <2>1
    <3>2. QED
      BY <3>1
  <2>3. \A p \in Cli!Serving : Cli!running /\ pidFile.by = p /\ portFile = start[p].port
    BY <1>0, <2>1 DEF Cli!running, Cli!isPidAlive, Cli!Alive, Cli!Serving, NoneIsNothing
  <2>4. QED
    BY <2>2, <2>3 DEF Cli!DaemonIsRecorded
<1>4. QED
  BY <1>1, <1>2, <1>3, InitTyped, PTL DEF Cli!Spec

-----------------------------------------------------------------------------
(* DigestCache: requests for digests, beside edits, clears and kills.        *)

Kept  == Contents \cup {Missing}
Digs  == [path : Files, content : Kept, hash : Cache!Hashes \cup {Missing}]
Live  == {"hash", "cache", "digest", "open", "fill"}
AskRec ==
  [st : Live \cup {"unborn", "done", "dead"}, path : Files \cup {Missing}, force : BOOLEAN,
   key : Cache!Hashes \cup {Missing}, digest : Digs \cup {Missing}, linked : BOOLEAN,
   hit : BOOLEAN, had : SUBSET Kept]

CacheTypes ==
  /\ file \in [Files -> Kept]
  /\ entry \in [Cache!Hashes -> Digs \cup {Missing, Torn}]
  /\ asks \in [Cache!Asks -> AskRec]

\* d is the digest of f with a content that f had during the request.
Honest(d, f, had) == f \in Files /\ \E c \in had : d = Cache!Digest(f, c)

\* What a request holds in each of its states.
Keyed(r)    == r.st = "cache" => /\ ~ r.force /\ r.key \in Cache!Hashes
                                 /\ \E c \in r.had : r.key = Cache!hashContent(r.path, c)
Writes(r)   == r.st \in {"open", "fill"} => Honest(r.digest, r.path, r.had) /\ r.digest.hash # Missing
Answered(r) == (r.st = "done" => Honest(r.digest, r.path, r.had)) /\ (r.hit => ~ r.force)
Begun(r)    == r.st \in Live => r.path \in Files /\ file[r.path] \in r.had
AskIsSound(r) == Keyed(r) /\ Writes(r) /\ Answered(r) /\ Begun(r)

\* An entry is of the file and the content under whose hash it is kept.
EntriesAreTrue ==
  \A h \in Cache!Hashes : entry[h] \in {Missing, Torn} \/ entry[h] = Cache!Digest(h.path, h.content)

CacheInv == CacheTypes /\ EntriesAreTrue /\ \A a \in Cache!Asks : AskIsSound(asks[a])

LEMMA HashIs ==
  ASSUME NEW f \in Files, NEW c \in Contents
  PROVE  /\ Cache!hashContent(f, c) \in Cache!Hashes
         /\ Cache!hashContent(f, c).path = f /\ Cache!hashContent(f, c).content = c
BY DEF Cache!Hashes, Cache!hashContent

LEMMA DigestType ==
  ASSUME NEW f \in Files, NEW c \in Kept
  PROVE  /\ Cache!Digest(f, c) \in Digs
         /\ Cache!Digest(f, c).hash # Missing =>
              /\ c \in Contents /\ Cache!Digest(f, c).hash = Cache!hashContent(f, c)
              /\ Cache!Digest(f, c).hash \in Cache!Hashes
              /\ Cache!Digest(f, c)
                   = Cache!Digest(Cache!Digest(f, c).hash.path, Cache!Digest(f, c).hash.content)
<1>1. CASE c = Missing
  BY <1>1 DEF Cache!Digest, Digs
<1>2. CASE c # Missing
  <2>1. c \in Contents
    BY <1>2 DEF Kept
  <2>2. Cache!Digest(f, c) = [path |-> f, content |-> c, hash |-> Cache!hashContent(f, c)]
    BY <1>2 DEF Cache!Digest
  <2>3. QED
    BY <2>1, <2>2, HashIs DEF Digs
<1>3. QED
  BY <1>1, <1>2

\* Two states of a request that differ at most in its descriptor and its witness.
SameAsk(r, s) ==
  /\ r.st = s.st /\ r.path = s.path /\ r.force = s.force /\ r.key = s.key
  /\ r.digest = s.digest /\ r.hit = s.hit

\* One request takes a step, and the files stay.
LEMMA AskStep ==
  ASSUME CacheInv, NEW a \in Cache!Asks, NEW r \in AskRec, Cache!Set(a, r), file' = file,
         AskIsSound(r), entry' \in [Cache!Hashes -> Digs \cup {Missing, Torn}], EntriesAreTrue'
  PROVE  CacheInv'
<1>1. asks' = [asks EXCEPT ![a] = r] /\ asks \in [Cache!Asks -> AskRec]
  BY DEF Cache!Set, CacheInv, CacheTypes
<1>2. CacheTypes'
  BY <1>1 DEF CacheInv, CacheTypes
<1>3. \A b \in Cache!Asks : AskIsSound(asks'[b])
  BY <1>1 DEF CacheInv
<1>4. \A b \in Cache!Asks : AskIsSound(asks[b])'
  BY <1>3 DEF AskIsSound, Keyed, Writes, Answered, Begun
<1>5. QED
  BY <1>2, <1>4 DEF CacheInv

LEMMA CacheInvariance ==
  ASSUME CacheInv, [Cache!Next]_(Cache!vars)
  PROVE  CacheInv'
<1>0. /\ file \in [Files -> Kept] /\ entry \in [Cache!Hashes -> Digs \cup {Missing, Torn}]
      /\ asks \in [Cache!Asks -> AskRec]
  BY DEF CacheInv, CacheTypes
<1>1. ASSUME NEW f \in Files, NEW c \in Contents \cup {Missing}, Cache!Edit(f, c)
      PROVE  CacheInv'
  <2>1. \A a \in Cache!Asks :
          asks'[a] = IF ~ Cache!Idle(a) /\ asks[a].path = f
                       THEN [asks[a] EXCEPT !.had = @ \cup {c}] ELSE asks[a]
    BY <1>1 DEF Cache!Edit
  <2>2. file' = [file EXCEPT ![f] = c] /\ entry' = entry /\ c \in Kept
    BY <1>1 DEF Cache!Edit, Kept
  <2>3. \A a \in Cache!Asks :
          /\ asks'[a] \in AskRec
          /\ asks'[a].had \in {asks[a].had, asks[a].had \cup {c}}
          /\ SameAsk(asks'[a], asks[a])
    <3> SUFFICES ASSUME NEW a \in Cache!Asks
                 PROVE  /\ asks'[a] \in AskRec
                        /\ asks'[a].had \in {asks[a].had, asks[a].had \cup {c}}
                        /\ SameAsk(asks'[a], asks[a])
      OBVIOUS
    <3>1. PICK k \in AskRec : k = asks[a]
      BY <1>0
    <3>2. [k EXCEPT !.had = @ \cup {c}] \in AskRec
      BY <2>2 DEF AskRec
    <3>3. QED
      BY <2>1, <3>1, <3>2 DEF SameAsk, AskRec
  <2>4. asks' \in [Cache!Asks -> AskRec]
    BY <1>1, <2>3 DEF Cache!Edit
  <2>5. ASSUME NEW a \in Cache!Asks PROVE AskIsSound(asks[a])'
    <3>1. AskIsSound(asks[a]) /\ asks[a] \in AskRec
      BY <1>0 DEF CacheInv
    <3>2. Keyed(asks[a])' /\ Writes(asks[a])' /\ Answered(asks[a])'
      BY <3>1, <2>3 DEF AskIsSound, Keyed, Writes, Answered, Honest, SameAsk
    <3>3. Begun(asks[a])'
      <4>1. SUFFICES ASSUME asks[a].st \in Live
                     PROVE  asks[a].path \in Files /\ file'[asks[a].path] \in asks'[a].had
        BY <2>3 DEF Begun, SameAsk
      <4>2. asks[a].path \in Files /\ file[asks[a].path] \in asks[a].had
        BY <3>1, <4>1 DEF AskIsSound, Begun
      <4>3. ~ Cache!Idle(a)
        BY <4>1 DEF Cache!Idle, Live
      <4>4. CASE asks[a].path = f
        <5>1. asks'[a].had = asks[a].had \cup {c}
          BY <1>0, <2>1, <4>3, <4>4 DEF AskRec
        <5>2. QED
          BY <1>0, <2>2, <4>2, <4>4, <5>1
      <4>5. CASE asks[a].path # f
        BY <1>0, <2>1, <2>2, <4>2, <4>5
      <4>6. QED
        BY <4>4, <4>5
    <3>4. QED
      BY <3>2, <3>3 DEF AskIsSound
  <2>6. QED
    BY <1>0, <2>2, <2>4, <2>5 DEF CacheInv, CacheTypes, EntriesAreTrue
<1>2. ASSUME NEW a \in Cache!Asks, NEW f \in Files, NEW force \in BOOLEAN, Cache!Ask(a, f, force)
      PROVE  CacheInv'
  <2>1. PICK r : r = [Cache!NoAsk EXCEPT !.st = "hash", !.path = f, !.force = force, !.had = {file[f]}]
    OBVIOUS
  <2>2. r = [st |-> "hash", path |-> f, force |-> force, key |-> Missing,
             digest |-> Missing, linked |-> FALSE, hit |-> FALSE, had |-> {file[f]}]
    BY <2>1 DEF Cache!NoAsk
  <2>3. r \in AskRec
    BY <1>0, <2>2 DEF AskRec, Live
  <2>4. AskIsSound(r)
    BY <2>2 DEF AskIsSound, Keyed, Writes, Answered, Begun
  <2>5. Cache!Set(a, r) /\ UNCHANGED <<file, entry>>
    BY <1>2, <2>1 DEF Cache!Ask
  <2>6. QED
    BY <1>0, <2>3, <2>4, <2>5, AskStep DEF CacheInv, EntriesAreTrue
<1>3. ASSUME NEW a \in Cache!Asks, NEW r, Cache!Set(a, r), UNCHANGED <<file, entry>>,
             r \in AskRec, AskIsSound(r)
      PROVE  CacheInv'
  BY <1>0, <1>3, AskStep DEF CacheInv, EntriesAreTrue
<1>4. ASSUME NEW a \in Cache!Asks, Cache!HashFile(a)
      PROVE  CacheInv'
  <2>1. PICK k \in AskRec : k = asks[a] /\ AskIsSound(k) /\ k.st = "hash"
    BY <1>0, <1>4 DEF CacheInv, Cache!HashFile
  <2>2. PICK c \in Kept : c = file[k.path] /\ c \in k.had /\ k.path \in Files
    BY <1>0, <2>1 DEF AskIsSound, Begun, Live
  <2>3. CASE c = Missing \/ k.force
    <3>1. PICK r : r = [k EXCEPT !.st = "digest"]
      OBVIOUS
    <3>2. r \in AskRec
      BY <3>1 DEF AskRec, Live
    <3>3. AskIsSound(r)
      BY <2>1, <2>2, <3>1 DEF AskIsSound, Keyed, Writes, Answered, Begun, AskRec, Live
    <3>4. Cache!Set(a, r) /\ UNCHANGED <<file, entry>>
      BY <1>4, <2>1, <2>2, <2>3, <3>1 DEF Cache!HashFile
    <3>5. QED
      BY <1>3, <3>2, <3>3, <3>4
  <2>4. CASE ~ (c = Missing \/ k.force)
    <3>1. PICK r : r = [k EXCEPT !.st = "cache", !.key = Cache!hashContent(k.path, c)]
      OBVIOUS
    <3>2. Cache!hashContent(k.path, c) \in Cache!Hashes
      BY <2>2, <2>4, HashIs DEF Kept
    <3>3. r \in AskRec
      BY <3>1, <3>2 DEF AskRec, Live
    <3>4. r.st = "cache" /\ r.key = Cache!hashContent(k.path, c) /\ r.path = k.path
          /\ r.had = k.had /\ r.force = k.force /\ r.hit = k.hit
      BY <3>1 DEF AskRec
    <3>5. AskIsSound(r)
      BY <2>1, <2>2, <2>4, <3>2, <3>4 DEF AskIsSound, Keyed, Writes, Answered, Begun
    <3>6. Cache!Set(a, r) /\ UNCHANGED <<file, entry>>
      BY <1>4, <2>1, <2>2, <2>4, <3>1 DEF Cache!HashFile
    <3>7. QED
      BY <1>3, <3>3, <3>5, <3>6
  <2>5. QED
    BY <2>3, <2>4
<1>5. ASSUME NEW a \in Cache!Asks, Cache!readCache(a)
      PROVE  CacheInv'
  <2>1. PICK k \in AskRec : k = asks[a] /\ AskIsSound(k) /\ k.st = "cache"
    BY <1>0, <1>5 DEF CacheInv, Cache!readCache
  <2>2. PICK c \in k.had : k.key = Cache!hashContent(k.path, c) /\ ~ k.force /\ k.path \in Files
    BY <2>1 DEF AskIsSound, Keyed, Begun, Live
  <2>3. PICK found : found = entry[k.key]
    OBVIOUS
  <2>4. CASE found \in {Missing, Torn}
    <3>1. PICK r : r = [k EXCEPT !.st = "digest"]
      OBVIOUS
    <3>2. r \in AskRec
      BY <3>1 DEF AskRec, Live
    <3>3. AskIsSound(r)
      BY <2>1, <3>1 DEF AskIsSound, Keyed, Writes, Answered, Begun, AskRec, Live
    <3>4. Cache!Set(a, r) /\ UNCHANGED <<file, entry>>
      BY <1>5, <2>1, <2>3, <2>4, <3>1 DEF Cache!readCache
    <3>5. QED
      BY <1>3, <3>2, <3>3, <3>4
  <2>5. CASE found \notin {Missing, Torn}
    <3>1. PICK r : r = [k EXCEPT !.st = "done", !.digest = found, !.hit = TRUE]
      OBVIOUS
    <3>2. Cache!Set(a, r) /\ UNCHANGED <<file, entry>>
      BY <1>5, <2>1, <2>3, <2>5, <3>1 DEF Cache!readCache
    <3>3. k.key \in Cache!Hashes
      BY <2>1 DEF AskIsSound, Keyed
    <3>4. found \in Digs /\ found = Cache!Digest(k.path, c)
      BY <1>0, <2>2, <2>3, <2>5, <3>3 DEF CacheInv, EntriesAreTrue, Cache!hashContent
    <3>5. r \in AskRec
      BY <3>1, <3>4 DEF AskRec
    <3>6. AskIsSound(r)
      BY <2>2, <3>1, <3>4 DEF AskIsSound, Keyed, Writes, Answered, Begun, AskRec, Live, Honest
    <3>7. QED
      BY <1>3, <3>2, <3>5, <3>6
  <2>6. QED
    BY <2>4, <2>5
<1>6. ASSUME NEW a \in Cache!Asks, Cache!getFileDigest(a)
      PROVE  CacheInv'
  <2>1. PICK k \in AskRec : k = asks[a] /\ AskIsSound(k) /\ k.st = "digest"
    BY <1>0, <1>6 DEF CacheInv, Cache!getFileDigest
  <2>2. PICK c \in Kept : c = file[k.path] /\ c \in k.had /\ k.path \in Files
    BY <1>0, <2>1 DEF AskIsSound, Begun, Live
  <2>3. PICK d \in Digs : d = Cache!Digest(k.path, c)
    BY <2>2, DigestType
  <2>4. PICK r : r = [k EXCEPT !.digest = d, !.st = IF d.hash = Missing THEN "done" ELSE "open"]
    OBVIOUS
  <2>5. Cache!Set(a, r) /\ UNCHANGED <<file, entry>>
    BY <1>6, <2>1, <2>2, <2>3, <2>4 DEF Cache!getFileDigest
  <2>6. r \in AskRec
    BY <2>4 DEF AskRec, Live
  <2>7. /\ r.digest = d /\ r.path = k.path /\ r.had = k.had /\ r.hit = k.hit /\ r.force = k.force
        /\ r.st = (IF d.hash = Missing THEN "done" ELSE "open")
    BY <2>4 DEF AskRec
  <2>8. AskIsSound(r)
    BY <2>1, <2>2, <2>3, <2>7 DEF AskIsSound, Keyed, Writes, Answered, Begun, Live, Honest
  <2>9. QED
    BY <1>3, <2>5, <2>6, <2>8
<1>7. ASSUME NEW a \in Cache!Asks, Cache!OpenEntry(a)
      PROVE  CacheInv'
  <2>1. PICK k \in AskRec : k = asks[a] /\ AskIsSound(k) /\ k.st = "open"
    BY <1>0, <1>7 DEF CacheInv, Cache!OpenEntry
  <2>2. PICK r : r = [k EXCEPT !.st = "fill", !.linked = TRUE]
    OBVIOUS
  <2>3. r \in AskRec
    BY <2>2 DEF AskRec, Live
  <2>4. AskIsSound(r)
    BY <2>1, <2>2 DEF AskIsSound, Keyed, Writes, Answered, Begun, AskRec, Live
  <2>5. Cache!Set(a, r) /\ file' = file /\ entry' = [entry EXCEPT ![k.digest.hash] = Torn]
    BY <1>7, <2>1, <2>2 DEF Cache!OpenEntry
  <2>6. entry' \in [Cache!Hashes -> Digs \cup {Missing, Torn}] /\ EntriesAreTrue'
    BY <1>0, <2>5 DEF CacheInv, EntriesAreTrue
  <2>7. QED
    BY <2>3, <2>4, <2>5, <2>6, AskStep
<1>8. ASSUME NEW a \in Cache!Asks, Cache!FillEntry(a)
      PROVE  CacheInv'
  <2>1. PICK k \in AskRec : k = asks[a] /\ AskIsSound(k) /\ k.st = "fill"
    BY <1>0, <1>8 DEF CacheInv, Cache!FillEntry
  <2>2. PICK c \in k.had : /\ k.digest = Cache!Digest(k.path, c) /\ k.path \in Files /\ c \in Kept
                           /\ k.digest.hash # Missing
    BY <2>1 DEF AskIsSound, Writes, Honest, AskRec
  <2>3. PICK r : r = [k EXCEPT !.st = "done"]
    OBVIOUS
  <2>4. r \in AskRec
    BY <2>3 DEF AskRec
  <2>5. AskIsSound(r)
    BY <2>1, <2>3 DEF AskIsSound, Keyed, Writes, Answered, Begun, AskRec, Live
  <2>6. Cache!Set(a, r) /\ file' = file
        /\ entry' \in {entry, [entry EXCEPT ![k.digest.hash] = k.digest]}
    BY <1>8, <2>1, <2>3 DEF Cache!FillEntry
  <2>7. /\ k.digest \in Digs
        /\ k.digest = Cache!Digest(k.digest.hash.path, k.digest.hash.content)
    BY <2>2, DigestType
  <2>8. entry' \in [Cache!Hashes -> Digs \cup {Missing, Torn}] /\ EntriesAreTrue'
    BY <1>0, <2>6, <2>7 DEF CacheInv, EntriesAreTrue
  <2>9. QED
    BY <2>4, <2>5, <2>6, <2>8, AskStep
<1>9. ASSUME NEW a \in Cache!Asks, Cache!Crash(a)
      PROVE  CacheInv'
  <2>1. PICK k \in AskRec : k = asks[a] /\ AskIsSound(k)
    BY <1>0 DEF CacheInv
  <2>2. PICK r : r = [k EXCEPT !.st = "dead"]
    OBVIOUS
  <2>3. r \in AskRec
    BY <2>2 DEF AskRec
  <2>4. AskIsSound(r)
    BY <2>1, <2>2 DEF AskIsSound, Keyed, Writes, Answered, Begun, AskRec, Live
  <2>5. Cache!Set(a, r) /\ UNCHANGED <<file, entry>>
    BY <1>9, <2>1, <2>2 DEF Cache!Crash
  <2>6. QED
    BY <1>3, <2>3, <2>4, <2>5
<1>10. ASSUME NEW h \in Cache!Hashes, Cache!RemoveEntry(h)
       PROVE  CacheInv'
  <2>1. \A a \in Cache!Asks :
          asks'[a] = IF asks[a].st = "fill" /\ asks[a].digest.hash = h
                       THEN [asks[a] EXCEPT !.linked = FALSE] ELSE asks[a]
    BY <1>10 DEF Cache!RemoveEntry
  <2>2. file' = file /\ entry' = [entry EXCEPT ![h] = Missing]
    BY <1>10 DEF Cache!RemoveEntry
  <2>3. \A a \in Cache!Asks :
          /\ asks'[a] \in AskRec
          /\ asks'[a].had = asks[a].had /\ SameAsk(asks'[a], asks[a])
    BY <1>0, <2>1 DEF SameAsk, AskRec
  <2>4. asks' \in [Cache!Asks -> AskRec]
    BY <1>10, <2>3 DEF Cache!RemoveEntry
  <2>5. ASSUME NEW a \in Cache!Asks PROVE AskIsSound(asks[a])'
    BY <2>2, <2>3 DEF CacheInv, AskIsSound, Keyed, Writes, Answered, Begun, SameAsk
  <2>6. QED
    BY <1>0, <2>2, <2>4, <2>5 DEF CacheInv, CacheTypes, EntriesAreTrue
<1>11. CASE Cache!clearFileDigestCache \/ Cache!Rest \/ UNCHANGED Cache!vars
  <2>1. UNCHANGED <<file, entry, asks>>
    BY <1>11 DEF Cache!clearFileDigestCache, Cache!Rest, Cache!vars
  <2>2. QED
    BY <2>1 DEF CacheInv, CacheTypes, EntriesAreTrue, AskIsSound, Keyed, Writes, Answered, Begun
<1>12. QED
  BY <1>1, <1>2, <1>4, <1>5, <1>6, <1>7, <1>8, <1>9, <1>10, <1>11 DEF Cache!Next

\* A request for the digest of a file is given one of that file, with a content that it
\* had during the request (getFileDigestCached).
LEMMA DigestsAreOfTheirFile == Cache!Spec => []Cache!DigestIsOfTheFile
<1>1. Cache!Init => CacheInv
  <2>1. Cache!NoAsk \in AskRec
    BY DEF Cache!NoAsk, AskRec
  <2>2. Cache!Init => CacheTypes /\ EntriesAreTrue
    BY <2>1 DEF Cache!Init, CacheTypes, EntriesAreTrue, Kept
  <2>3. AskIsSound(Cache!NoAsk)
    BY DEF Cache!NoAsk, AskIsSound, Keyed, Writes, Answered, Begun, Live
  <2>4. QED
    BY <2>2, <2>3 DEF Cache!Init, CacheInv
<1>2. CacheInv /\ [Cache!Next]_(Cache!vars) => CacheInv'
  BY CacheInvariance
<1>3. CacheInv => Cache!DigestIsOfTheFile
  <2> SUFFICES ASSUME CacheInv, NEW a \in Cache!Asks, asks[a].st = "done"
               PROVE  /\ asks[a].digest.path = asks[a].path
                      /\ asks[a].digest.content \in asks[a].had
                      /\ asks[a].hit => ~ asks[a].force
    BY DEF Cache!DigestIsOfTheFile
  <2>1. AskIsSound(asks[a])
    BY DEF CacheInv
  <2>2. asks[a].hit => ~ asks[a].force
    BY <2>1 DEF AskIsSound, Answered
  <2>3. PICK c \in asks[a].had : asks[a].digest = Cache!Digest(asks[a].path, c)
    BY <2>1 DEF AskIsSound, Answered, Honest
  <2>4. QED
    BY <2>2, <2>3 DEF Cache!Digest
<1>4. QED
  BY <1>1, <1>2, <1>3, PTL DEF Cache!Spec

-----------------------------------------------------------------------------
(* ChunkedReads: a chain of calls, beside edits.                             *)

ReadStates == {"none", "stat", "check", "body", "hash", "more", "done", "stale", "not-found",
               "read-error", "thrown"}
Chunk == [from : Int, to : Int, of : Texts, torn : BOOLEAN, truncated : BOOLEAN]
ReadRec ==
  [st : ReadStates, at : Int, max : Int, hash : Texts \cup {Gone}, body : Texts \cup {Gone},
   torn : BOOLEAN, chunks : Seq(Chunk)]

LastOne(c) == c[Len(c)]

\* The chunks join, and where no call was disturbed they are of one content.
Joined(c) ==
  /\ \A k \in DOMAIN c : k > 1 =>
       /\ c[k].from = c[k - 1].to + 1
       /\ c[k].of # c[k - 1].of => c[k].torn \/ c[k - 1].torn
  /\ \A k \in DOMAIN c : c[k].truncated \/ c[k].to = c[k].of.lines
  /\ (\A k \in DOMAIN c : ~ c[k].torn) => \A k \in DOMAIN c : c[k].of = LastOne(c).of

\* The next call goes on where the last one ended, in the content its hash is of.
GoesOn(r) ==
  r.chunks # <<>> => /\ r.at = LastOne(r.chunks).to + 1
                     /\ LastOne(r.chunks).torn \/ r.hash = LastOne(r.chunks).of

\* What an undisturbed call has read so far is of one content.
Steady(r, now) ==
  /\ r.st \in {"stat", "body"} /\ r.chunks # <<>> => r.torn \/ now = r.hash
  /\ r.st = "hash" => /\ r.body \in Texts
                      /\ r.torn \/ now = r.body
                      /\ r.chunks # <<>> => r.torn \/ r.body = r.hash

ReadInv ==
  /\ chunked \in Texts \cup {Gone} /\ read \in ReadRec
  /\ Joined(read.chunks) /\ GoesOn(read) /\ Steady(read, chunked)

LEMMA ChunkStep ==
  ASSUME NEW c \in Seq(Chunk), Joined(c), NEW new \in Chunk,
         c # <<>> => /\ new.from = LastOne(c).to + 1
                     /\ new.of # LastOne(c).of => new.torn \/ LastOne(c).torn,
         new.truncated \/ new.to = new.of.lines
  PROVE  Joined(Append(c, new)) /\ LastOne(Append(c, new)) = new /\ Append(c, new) \in Seq(Chunk)
<1>1. PICK n \in Nat : n = Len(c)
  OBVIOUS
<1>2. PICK d : d = Append(c, new)
  OBVIOUS
<1>10. d \in Seq(Chunk)
  BY <1>2, AppendProperties
<1>3. Len(d) = n + 1 /\ d[n + 1] = new /\ (\A k \in 1 .. n : d[k] = c[k]) /\ DOMAIN d = 1 .. n + 1
  BY <1>1, <1>2, AppendProperties
<1>4. LastOne(d) = new
  BY <1>3 DEF LastOne
<1>5. ASSUME NEW k \in 1 .. n + 1, k > 1
      PROVE  /\ d[k].from = d[k - 1].to + 1
             /\ d[k].of # d[k - 1].of => d[k].torn \/ d[k - 1].torn
  <2>1. CASE k = n + 1
    <3>1. c # <<>> /\ d[k - 1] = LastOne(c) /\ d[k] = new
      BY <1>1, <1>3, <1>5, <2>1 DEF LastOne
    <3>2. QED
      BY <3>1
  <2>2. CASE k # n + 1
    <3>1. k \in 1 .. n /\ k - 1 \in 1 .. n /\ k \in DOMAIN c
      BY <1>1, <1>5, <2>2
    <3>2. QED
      BY <1>3, <1>5, <3>1 DEF Joined
  <2>3. QED
    BY <2>1, <2>2
<1>6. \A k \in 1 .. n + 1 : d[k].truncated \/ d[k].to = d[k].of.lines
  <2> TAKE k \in 1 .. n + 1
  <2>1. CASE k = n + 1
    BY <1>3, <2>1
  <2>2. CASE k # n + 1
    <3>1. k \in 1 .. n /\ k \in DOMAIN c
      BY <1>1, <2>2
    <3>2. QED
      BY <1>3, <3>1 DEF Joined
  <2>3. QED
    BY <2>1, <2>2
<1>7. ASSUME \A k \in 1 .. n + 1 : ~ d[k].torn, NEW k \in 1 .. n + 1
      PROVE  d[k].of = new.of
  <2>1. CASE k = n + 1
    BY <1>3, <2>1
  <2>2. CASE k # n + 1
    <3>1. k \in 1 .. n /\ n \in 1 .. n /\ c # <<>> /\ DOMAIN c = 1 .. n
      BY <1>1, <2>2
    <3>2. \A j \in 1 .. n : ~ c[j].torn
      BY <1>3, <1>7
    <3>3. c[k].of = LastOne(c).of
      BY <3>1, <3>2 DEF Joined
    <3>4. ~ LastOne(c).torn /\ ~ new.torn
      BY <1>1, <1>3, <1>7, <3>1, <3>2 DEF LastOne
    <3>5. QED
      BY <1>3, <3>1, <3>3, <3>4
  <2>3. QED
    BY <2>1, <2>2
<1>8. Joined(d)
  <2>1. \A k \in DOMAIN d : k \in 1 .. n + 1
    BY <1>3
  <2>2. (\A k \in DOMAIN d : ~ d[k].torn) => \A k \in DOMAIN d : d[k].of = LastOne(d).of
    BY <1>3, <1>4, <1>7
  <2>3. QED
    BY <1>5, <1>6, <2>1, <2>2 DEF Joined
<1>9. QED
  BY <1>2, <1>4, <1>8, <1>10

LEMMA ReadInvariance ==
  ASSUME ReadInv, [Chunks!Next]_(Chunks!vars)
  PROVE  ReadInv'
<1>0. /\ chunked \in Texts \cup {Gone} /\ read \in ReadRec
      /\ Joined(read.chunks) /\ GoesOn(read) /\ Steady(read, chunked)
  BY DEF ReadInv
<1>1. ASSUME NEW at \in 1 .. 2, NEW asked \in 1 .. MaxAsked, Chunks!readFile(at, asked)
      PROVE  ReadInv'
  <2>1. PICK m \in Int : m = Chunks!Clamped(asked)
    BY ReadsAssumption DEF Chunks!Clamped
  <2>2. read' = [st |-> "stat", at |-> at, max |-> m, hash |-> Gone, body |-> Gone,
                 torn |-> FALSE, chunks |-> <<>>]
    BY <1>1, <2>1 DEF Chunks!readFile, Chunks!NoRead
  <2>3. read' \in ReadRec
    BY <2>2 DEF ReadRec, ReadStates
  <2>4. chunked' = chunked
    BY <1>1 DEF Chunks!readFile
  <2>6. read'.chunks = <<>> /\ read'.st = "stat"
    BY <2>2
  <2>5. QED
    BY <1>0, <2>3, <2>4, <2>6 DEF ReadInv, Joined, GoesOn, Steady
<1>2. CASE Chunks!ReadOn
  <2>1. read' = [read EXCEPT !.st = "check", !.torn = FALSE, !.body = Gone] /\ chunked' = chunked
    BY <1>2 DEF Chunks!ReadOn
  <2>2. read' \in ReadRec
    BY <1>0, <2>1 DEF ReadRec, ReadStates
  <2>3. read'.st = "check" /\ read'.chunks = read.chunks /\ read'.hash = read.hash /\ read'.at = read.at
    BY <1>0, <2>1 DEF ReadRec
  <2>4. QED
    BY <1>0, <2>1, <2>2, <2>3 DEF ReadInv, GoesOn, Steady
<1>3. CASE Chunks!CheckHash
  <2>1. PICK s \in {"stat", "stale"} :
          read' = [read EXCEPT !.st = s] /\ chunked' = chunked /\ (s = "stat" => chunked = read.hash)
    BY <1>3 DEF Chunks!CheckHash, Chunks!SameHash
  <2>2. read' \in ReadRec
    BY <1>0, <2>1 DEF ReadRec, ReadStates
  <2>3. read'.st = s /\ read'.chunks = read.chunks /\ read'.hash = read.hash /\ read'.at = read.at
    BY <1>0, <2>1 DEF ReadRec
  <2>4. QED
    BY <1>0, <2>1, <2>2, <2>3 DEF ReadInv, GoesOn, Steady
<1>4. CASE Chunks!Stat
  <2>1. PICK s \in {"not-found", "body"} : read' = [read EXCEPT !.st = s] /\ chunked' = chunked
    BY <1>4 DEF Chunks!Stat
  <2>2. read' \in ReadRec
    BY <1>0, <2>1 DEF ReadRec, ReadStates
  <2>3. /\ read'.st = s /\ read'.chunks = read.chunks /\ read'.hash = read.hash /\ read'.at = read.at
        /\ read'.torn = read.torn /\ read.st = "stat"
    BY <1>0, <1>4, <2>1 DEF ReadRec, Chunks!Stat
  <2>4. QED
    BY <1>0, <2>1, <2>2, <2>3 DEF ReadInv, GoesOn, Steady
<1>5. CASE Chunks!ReadBody
  <2>1. PICK s \in {"read-error", "hash"} : /\ read' = [read EXCEPT !.st = s, !.body = chunked]
                                            /\ chunked' = chunked /\ (s = "hash" => chunked # Gone)
    BY <1>5 DEF Chunks!ReadBody
  <2>2. read' \in ReadRec
    BY <1>0, <2>1 DEF ReadRec, ReadStates
  <2>3. /\ read'.st = s /\ read'.chunks = read.chunks /\ read'.hash = read.hash /\ read'.at = read.at
        /\ read'.torn = read.torn /\ read'.body = chunked /\ read.st = "body"
    BY <1>0, <1>5, <2>1 DEF ReadRec, Chunks!ReadBody
  <2>4. QED
    BY <1>0, <2>1, <2>2, <2>3 DEF ReadInv, GoesOn, Steady
<1>6. CASE Chunks!HashNow
  <2>1. read.st = "hash" /\ read.body \in Texts /\ chunked' = chunked
    BY <1>0, <1>6 DEF Chunks!HashNow, Steady
  <2>2. CASE chunked = Gone
    <3>1. read' = [read EXCEPT !.st = "thrown"]
      BY <1>6, <2>2 DEF Chunks!HashNow
    <3>2. read' \in ReadRec
      BY <1>0, <3>1 DEF ReadRec, ReadStates
    <3>3. read'.st = "thrown" /\ read'.chunks = read.chunks /\ read'.hash = read.hash /\ read'.at = read.at
      BY <1>0, <3>1 DEF ReadRec
    <3>4. QED
      BY <1>0, <2>1, <3>2, <3>3 DEF ReadInv, GoesOn, Steady
  <2>3. CASE chunked # Gone
    <3>1. PICK end : end = Chunks!Least(read.at + read.max - 1, read.body.lines)
      OBVIOUS
    <3>2. read.at \in Int /\ read.max \in Int /\ read.body.lines \in Int /\ read.torn \in BOOLEAN
      BY <1>0, <2>1 DEF ReadRec, Texts
    <3>3. end \in Int /\ end <= read.body.lines
      BY <3>1, <3>2 DEF Chunks!Least
    <3>4. PICK new : new = [from |-> read.at, to |-> end, of |-> read.body, torn |-> read.torn,
                            truncated |-> end < read.body.lines]
      OBVIOUS
    <3>5. /\ new \in Chunk /\ new.from = read.at /\ new.to = end /\ new.of = read.body
          /\ new.torn = read.torn
      BY <2>1, <3>2, <3>3, <3>4 DEF Chunk
    <3>6. new.truncated \/ new.to = new.of.lines
      <4>1. CASE end < read.body.lines
        BY <3>4, <4>1
      <4>2. CASE ~ end < read.body.lines
        BY <3>2, <3>3, <3>5, <4>2
      <4>3. QED
        BY <4>1, <4>2
    <3>7. PICK s \in {"more", "done"} :
            read' = [read EXCEPT !.st = s, !.hash = chunked, !.at = end + 1, !.chunks = Append(@, new)]
      BY <1>6, <2>3, <3>1, <3>4 DEF Chunks!HashNow
    <3>8. read.chunks # <<>> => /\ new.from = LastOne(read.chunks).to + 1
                                /\ new.of # LastOne(read.chunks).of => new.torn \/ LastOne(read.chunks).torn
      BY <1>0, <2>1, <3>5 DEF GoesOn, Steady
    <3>9. read.chunks \in Seq(Chunk)
      BY <1>0 DEF ReadRec
    <3>10. PICK c \in Seq(Chunk) : c = Append(read.chunks, new) /\ Joined(c) /\ LastOne(c) = new
      BY <1>0, <3>5, <3>6, <3>8, <3>9, ChunkStep
    <3>11. read' \in ReadRec
      <4>1. end + 1 \in Int /\ s \in ReadStates
        BY <3>3 DEF ReadStates
      <4>2. read' = [read EXCEPT !.st = s, !.hash = chunked, !.at = end + 1, !.chunks = c]
        BY <3>7, <3>10
      <4>3. QED
        BY <1>0, <3>10, <4>1, <4>2 DEF ReadRec
    <3>12. /\ read'.st = s /\ read'.chunks = c /\ read'.hash = chunked /\ read'.at = end + 1
      BY <1>0, <3>7, <3>10 DEF ReadRec
    <3>13. new.torn \/ chunked = new.of
      BY <1>0, <2>1, <3>5 DEF Steady
    <3>14. QED
      BY <1>0, <2>1, <3>5, <3>10, <3>11, <3>12, <3>13 DEF ReadInv, GoesOn, Steady
  <2>4. QED
    BY <2>2, <2>3
<1>7. ASSUME NEW c \in Texts \cup {Gone}, Chunks!EditFile(c)
      PROVE  ReadInv'
  <2>1. read' = [read EXCEPT !.torn = @ \/ Chunks!Reading] /\ chunked' = c
    BY <1>7 DEF Chunks!EditFile
  <2>2. PICK b \in BOOLEAN : b = (read.torn \/ Chunks!Reading)
    OBVIOUS
  <2>3. read' = [read EXCEPT !.torn = b]
    BY <2>1, <2>2
  <2>4. read' \in ReadRec
    BY <1>0, <2>3 DEF ReadRec
  <2>5. /\ read'.st = read.st /\ read'.chunks = read.chunks /\ read'.hash = read.hash /\ read'.at = read.at
        /\ read'.torn = b /\ read'.body = read.body
    BY <1>0, <2>3 DEF ReadRec
  <2>6. read.st \in {"stat", "body", "hash"} => b
    BY <2>2 DEF Chunks!Reading
  <2>7. QED
    BY <1>0, <2>1, <2>4, <2>5, <2>6 DEF ReadInv, GoesOn, Steady
<1>8. CASE UNCHANGED <<chunked, read>>
  BY <1>0, <1>8 DEF ReadInv
<1>9. QED
  BY <1>1, <1>2, <1>3, <1>4, <1>5, <1>6, <1>7, <1>8
  DEF Chunks!Next, Chunks!vars, Chunks!listFiles, Chunks!ListOn, Chunks!StatDir, Chunks!collectEntries,
      Chunks!EditDir, Chunks!Over

\* The directory, and an entry's place in its listing.
Present(d) == IF d = Gone THEN {} ELSE d

ListRec ==
  [st : {"none", "stat", "collect", "more", "done", "not-found"},
   by : {"agent", "mcp"}, at : Int, max : Int,
   given : [Names -> Nat], added : SUBSET Names, removed : SUBSET Names, stayed : SUBSET Names]

\* As long as the chain goes on, an entry that has stayed is listed once its
\* place is behind the cursor, but for changes before it.
InPlace(l, all) ==
  l.st \in {"stat", "collect", "more"} =>
    /\ l.stayed \subseteq all
    /\ \A e \in l.stayed :
         /\ l.given[e] = 0 /\ (\A r \in l.removed : ~ r < e) => Chunks!Place(all, e) >= l.at
         /\ l.given[e] > 0 /\ (\A a \in l.added : ~ a < e) => Chunks!Place(all, e) < l.at
         /\ l.given[e] > 1 => \E a \in l.added : a < e

ListInv ==
  /\ listed \in (SUBSET Names) \cup {Gone} /\ list \in ListRec
  /\ InPlace(list, Present(listed))
  /\ Chunks!PagesListAll

\* The cardinality that the modules know is that of the library's theorems.
LEMMA ListingCounts == \A S : Chunks!Cardinality(S) = Cardinality(S)
BY DEF Chunks!Cardinality, Cardinality

LEMMA PlaceIs ==
  ASSUME NEW all \in SUBSET Names, NEW e \in Names
  PROVE  /\ Chunks!Place(all, e) \in Nat /\ Cardinality(all) \in Nat
         /\ e \in all => Chunks!Place(all, e) < Cardinality(all)
         /\ \A more \in SUBSET Names : (\A x \in all : x < e => x \in more) =>
              Chunks!Place(all, e) <= Chunks!Place(more, e)
<1>1. \A S \in SUBSET Names : IsFiniteSet(S) /\ Cardinality(S) \in Nat
  BY ReadsAssumption, FS_Subset, FS_CardinalityType
<1>2. e \in Int /\ ~ e < e
  BY ReadsAssumption
<1>3. ASSUME e \in all PROVE Chunks!Place(all, e) < Cardinality(all)
  <2>1. {x \in all : x < e} \subseteq all /\ {x \in all : x < e} # all
    BY <1>2, <1>3
  <2>2. QED
    BY <1>1, <2>1, FS_Subset, ListingCounts DEF Chunks!Place
<1>4. ASSUME NEW more \in SUBSET Names, \A x \in all : x < e => x \in more
      PROVE  Chunks!Place(all, e) <= Chunks!Place(more, e)
  <2>1. {x \in all : x < e} \subseteq {x \in more : x < e} /\ {x \in more : x < e} \in SUBSET Names
    BY <1>4
  <2>2. QED
    BY <1>1, <2>1, FS_Subset, ListingCounts DEF Chunks!Place
<1>5. Chunks!Place(all, e) \in Nat
  <2>1. {x \in all : x < e} \in SUBSET Names
    OBVIOUS
  <2>2. QED
    BY <1>1, <2>1, ListingCounts DEF Chunks!Place
<1>6. QED
  BY <1>1, <1>3, <1>4, <1>5

LEMMA ListInvariance ==
  ASSUME ListInv, [Chunks!Next]_(Chunks!vars)
  PROVE  ListInv'
<1>0. /\ listed \in (SUBSET Names) \cup {Gone} /\ list \in ListRec
      /\ InPlace(list, Present(listed)) /\ Chunks!PagesListAll
  BY DEF ListInv
<1>10. \A d \in (SUBSET Names) \cup {Gone} : Present(d) \in SUBSET Names
  BY DEF Present
<1>11. Present(listed) \in SUBSET Names
  BY <1>0, <1>10
<1>1. ASSUME NEW by \in {"agent", "mcp"}, NEW asked \in 1 .. MaxAsked, Chunks!listFiles(by, asked)
      PROVE  ListInv'
  <2>1. PICK m \in Int : m = Chunks!Clamped(asked)
    BY ReadsAssumption DEF Chunks!Clamped
  <2>2. PICK s \in {"stat", "collect"} : s = Chunks!FirstStep(by)
    BY DEF Chunks!FirstStep
  <2>3. list' = [st |-> s, by |-> by, at |-> 0, max |-> m, given |-> [e \in Names |-> 0],
                 added |-> {}, removed |-> {}, stayed |-> Present(listed)]
    BY <1>1, <2>1, <2>2 DEF Chunks!listFiles, Chunks!NoList, Present
  <2>4. list' \in ListRec
    BY <1>0, <1>11, <2>3 DEF ListRec
  <2>5. listed' = listed
    BY <1>1 DEF Chunks!listFiles
  <2>6. \A e \in Present(listed) : Chunks!Place(Present(listed), e) >= 0
    BY <1>11, PlaceIs
  <2>7. /\ list'.st = s /\ list'.stayed = Present(listed) /\ list'.at = 0
        /\ \A e \in Names : list'.given[e] = 0
    BY <2>3
  <2>8. InPlace(list', Present(listed))
    <3>1. \A e \in Present(listed) : e \in Names
      BY <1>11
    <3>2. QED
      BY <2>6, <2>7, <3>1 DEF InPlace
  <2>9. QED
    BY <1>0, <2>4, <2>5, <2>7, <2>8 DEF ListInv, Chunks!PagesListAll, Present
<1>2. ASSUME NEW s \in {"stat", "collect", "not-found"}, list' = [list EXCEPT !.st = s], listed' = listed,
             list.st \in {"stat", "more"}
      PROVE  ListInv'
  <2>1. list' \in ListRec
    BY <1>0, <1>2 DEF ListRec
  <2>2. /\ list'.st = s /\ list'.stayed = list.stayed /\ list'.at = list.at /\ list'.given = list.given
        /\ list'.added = list.added /\ list'.removed = list.removed
    BY <1>0, <1>2 DEF ListRec
  <2>3. InPlace(list', Present(listed))
    BY <1>0, <1>2, <2>2 DEF InPlace
  <2>4. QED
    BY <1>0, <1>2, <2>1, <2>2, <2>3 DEF ListInv, Chunks!PagesListAll, Present
<1>3. CASE Chunks!ListOn
  <2>1. PICK s \in {"stat", "collect"} : s = Chunks!FirstStep(list.by)
    BY DEF Chunks!FirstStep
  <2>2. QED
    BY <1>2, <1>3, <2>1 DEF Chunks!ListOn
<1>4. CASE Chunks!StatDir
  BY <1>2, <1>4 DEF Chunks!StatDir
<1>5. CASE Chunks!collectEntries
  <2>1. PICK all \in SUBSET Names : all = Present(listed)
    BY <1>11
  <2>2. PICK n \in Nat : n = Cardinality(all)
    BY <2>1, ReadsAssumption, FS_Subset, FS_CardinalityType
  <2>3. PICK at \in Int, max \in Int : at = list.at /\ max = list.max
    BY <1>0 DEF ListRec
  <2>4. PICK end \in Int : end = Chunks!Least(at + max, n) /\ end <= n
    BY DEF Chunks!Least
  <2>5. PICK slice : slice = {e \in all : at <= Chunks!Place(all, e) /\ Chunks!Place(all, e) < end}
    OBVIOUS
  <2>6. PICK next \in Int : next = IF at < end THEN end ELSE at
    OBVIOUS
  <2>7. PICK s \in {"more", "done"} : s = IF next < n THEN "more" ELSE "done"
    OBVIOUS
  <2>8. PICK given \in [Names -> Nat] :
          given = [e \in Names |-> IF e \in slice THEN list.given[e] + 1 ELSE list.given[e]]
    <3>1. \A e \in Names : list.given[e] \in Nat /\ list.given[e] + 1 \in Nat
      BY <1>0 DEF ListRec
    <3>2. QED
      BY <3>1
  <2>9. list' = [list EXCEPT !.st = s, !.at = next, !.given = given] /\ listed' = listed
    <3>1. /\ list' = [list EXCEPT !.st = IF next < n THEN "more" ELSE "done", !.at = next,
                                  !.given = [e \in Names |-> IF e \in slice THEN @[e] + 1 ELSE @[e]]]
          /\ listed' = listed
      BY <1>5, <2>1, <2>2, <2>3, <2>4, <2>5, <2>6, ListingCounts DEF Chunks!collectEntries, Present
    <3>2. QED
      BY <1>0, <2>7, <2>8, <3>1 DEF ListRec
  <2>10. list' \in ListRec
    BY <1>0, <2>9 DEF ListRec
  <2>11. /\ list'.st = s /\ list'.stayed = list.stayed /\ list'.at = next /\ list'.given = given
         /\ list'.added = list.added /\ list'.removed = list.removed
    BY <1>0, <2>9 DEF ListRec
  <2>12. list.st = "collect" /\ list.stayed \subseteq all
    BY <1>0, <1>5, <2>1 DEF Chunks!collectEntries, InPlace
  <2>13. ASSUME NEW e \in list.stayed
         PROVE  /\ given[e] = 0 /\ (\A r \in list.removed : ~ r < e) => Chunks!Place(all, e) >= next
                /\ given[e] > 0 /\ (\A a \in list.added : ~ a < e) => Chunks!Place(all, e) < next
                /\ given[e] > 1 => \E a \in list.added : a < e
    <3>1. PICK p \in Nat : p = Chunks!Place(all, e) /\ e \in all /\ e \in Names
      BY <2>12, PlaceIs
    <3>2. PICK g \in Nat : g = list.given[e]
      BY <1>0, <3>1 DEF ListRec
    <3>3. /\ g = 0 /\ (\A r \in list.removed : ~ r < e) => p >= at
          /\ g > 0 /\ (\A a \in list.added : ~ a < e) => p < at
          /\ g > 1 => \E a \in list.added : a < e
      BY <1>0, <2>1, <2>3, <2>12, <3>1, <3>2 DEF InPlace
    <3>4. given[e] = (IF at <= p /\ p < end THEN g + 1 ELSE g)
      BY <2>5, <2>8, <3>1, <3>2
    <3>5. QED
      BY <2>6, <3>1, <3>3, <3>4
  <2>14. InPlace(list', all)
    BY <2>11, <2>12, <2>13 DEF InPlace
  <2>15. Chunks!PagesListAll'
    <3>1. SUFFICES ASSUME s = "done", NEW e \in list.stayed
                   PROVE  /\ given[e] = 0 => \E r \in list.removed : r < e
                          /\ given[e] > 1 => \E a \in list.added : a < e
      BY <2>11 DEF Chunks!PagesListAll
    <3>2. e \in all /\ e \in Names /\ Chunks!Place(all, e) < n /\ Chunks!Place(all, e) \in Nat
      BY <2>2, <2>12, PlaceIs
    <3>3. ~ next < n
      BY <2>7, <3>1
    <3>4. QED
      BY <2>13, <3>2, <3>3
  <2>16. QED
    BY <1>0, <2>1, <2>9, <2>10, <2>14, <2>15 DEF ListInv
<1>6. ASSUME NEW new \in (SUBSET Names) \cup {Gone}, Chunks!EditDir(new)
      PROVE  ListInv'
  <2>1. PICK old \in SUBSET Names : old = Present(listed)
    BY <1>11
  <2>2. PICK now \in SUBSET Names : now = Present(new)
    BY <1>10
  <2>3. listed' = new
    BY <1>6 DEF Chunks!EditDir
  <2>4. CASE ~ Chunks!Listing
    <3>1. list' = list
      BY <1>6, <2>4 DEF Chunks!EditDir
    <3>2. QED
      BY <1>0, <2>3, <2>4, <3>1 DEF ListInv, InPlace, Chunks!Listing, Chunks!PagesListAll
  <2>5. CASE Chunks!Listing
    <3>1. list' = [list EXCEPT !.added = @ \cup (now \ old), !.removed = @ \cup (old \ now),
                               !.stayed = @ \cap now]
      BY <1>6, <2>1, <2>2, <2>5 DEF Chunks!EditDir, Present
    <3>2. list' \in ListRec
      BY <1>0, <3>1 DEF ListRec
    <3>3. /\ list'.st = list.st /\ list'.at = list.at /\ list'.given = list.given
          /\ list'.added = list.added \cup (now \ old) /\ list'.removed = list.removed \cup (old \ now)
          /\ list'.stayed = list.stayed \cap now
      BY <1>0, <3>1 DEF ListRec
    <3>4. list.st \in {"stat", "collect", "more"} /\ list.st # "done"
      BY <2>5 DEF Chunks!Listing
    <3>5. ASSUME NEW e \in list.stayed \cap now
          PROVE  /\ list.given[e] = 0 /\ (\A r \in list'.removed : ~ r < e)
                      => Chunks!Place(now, e) >= list.at
                 /\ list.given[e] > 0 /\ (\A a \in list'.added : ~ a < e) => Chunks!Place(now, e) < list.at
                 /\ list.given[e] > 1 => \E a \in list'.added : a < e
      <4>1. e \in Names
        OBVIOUS
      <4>2. PICK p \in Nat, q \in Nat : p = Chunks!Place(old, e) /\ q = Chunks!Place(now, e)
        BY <4>1, PlaceIs
      <4>3. (\A r \in list'.removed : ~ r < e) => p <= q
        <5>1. (\A r \in list'.removed : ~ r < e) => \A x \in old : x < e => x \in now
          BY <3>3
        <5>2. QED
          BY <4>1, <4>2, <5>1, PlaceIs
      <4>4. (\A a \in list'.added : ~ a < e) => q <= p
        <5>1. (\A a \in list'.added : ~ a < e) => \A x \in now : x < e => x \in old
          BY <3>3
        <5>2. QED
          BY <4>1, <4>2, <5>1, PlaceIs
      <4>5. list.at \in Int
        BY <1>0 DEF ListRec
      <4>6. /\ list.given[e] = 0 /\ (\A r \in list.removed : ~ r < e) => p >= list.at
            /\ list.given[e] > 0 /\ (\A a \in list.added : ~ a < e) => p < list.at
            /\ list.given[e] > 1 => \E a \in list.added : a < e
        BY <1>0, <2>1, <3>4, <4>2 DEF InPlace
      <4>7. list.removed \subseteq list'.removed /\ list.added \subseteq list'.added
        BY <3>3
      <4>8. QED
        BY <4>2, <4>3, <4>4, <4>5, <4>6, <4>7
    <3>6. InPlace(list', now)
      BY <3>3, <3>5 DEF InPlace
    <3>7. QED
      BY <2>2, <2>3, <3>2, <3>3, <3>4, <3>6 DEF ListInv, Chunks!PagesListAll
  <2>6. QED
    BY <2>4, <2>5
<1>7. CASE UNCHANGED <<listed, list>>
  BY <1>0, <1>7 DEF ListInv, Chunks!PagesListAll
<1>8. QED
  BY <1>1, <1>3, <1>4, <1>5, <1>6, <1>7
  DEF Chunks!Next, Chunks!vars, Chunks!readFile, Chunks!ReadOn, Chunks!CheckHash, Chunks!Stat,
      Chunks!ReadBody, Chunks!HashNow, Chunks!EditFile, Chunks!Over

\* Chunks join to the file, and pages to the directory, but for the edits between
\* and within the calls (read_file, list_files).
LEMMA ChainsHold == Chunks!Spec => []Chunks!ChainsAreWhole
<1>1. Chunks!Init => ReadInv
  <2>1. Chunks!NoRead \in ReadRec /\ Chunks!NoRead.chunks = <<>> /\ Chunks!NoRead.st = "none"
    BY DEF Chunks!NoRead, ReadRec, ReadStates
  <2>2. QED
    BY <2>1 DEF Chunks!Init, ReadInv, Joined, GoesOn, Steady
<1>2. Chunks!Init => ListInv
  <2>1. Chunks!NoList \in ListRec /\ Chunks!NoList.st = "none"
    BY DEF Chunks!NoList, ListRec
  <2>2. Chunks!Init => listed \in (SUBSET Names) \cup {Gone} /\ list = Chunks!NoList
    BY DEF Chunks!Init
  <2>3. QED
    BY <2>1, <2>2 DEF ListInv, InPlace, Chunks!PagesListAll
<1>3. ReadInv /\ ListInv /\ [Chunks!Next]_(Chunks!vars) => ReadInv' /\ ListInv'
  BY ReadInvariance, ListInvariance
<1>4. ReadInv /\ ListInv => Chunks!ChainsAreWhole
  BY DEF ReadInv, Joined, LastOne, ListInv, Chunks!ChainsAreWhole, Chunks!ChunksAreOfOneFile
<1>5. QED
  BY <1>1, <1>2, <1>3, <1>4, PTL DEF Chunks!Spec

-----------------------------------------------------------------------------
(* Digests: what every loop over lines has.  The lines so far are s, the next *)
(* is l; nothing here has a state.                                            *)

\* Numbers and finite sets of them.
LEMMA InputCounts == \A S : Summary!Cardinality(S) = Cardinality(S)
BY DEF Summary!Cardinality, Cardinality

LEMMA LineSets ==
  ASSUME NEW n \in Nat, NEW T \in SUBSET (1 .. n)
  PROVE  /\ IsFiniteSet(T) /\ Cardinality(T) \in Nat
         /\ n + 1 \notin T /\ Cardinality(T \cup {n + 1}) = Cardinality(T) + 1
<1>1. IsFiniteSet(T) /\ Cardinality(T) \in Nat
  <2>1. IsFiniteSet(1 .. n)
    BY FS_Interval
  <2>2. IsFiniteSet(T)
    BY <2>1, FS_Subset
  <2>3. QED
    BY <2>2, FS_CardinalityType
<1>2. n + 1 \notin T
  OBVIOUS
<1>3. QED
  BY <1>1, <1>2, FS_AddElement

LEMMA PlacesAreInt ==
  ASSUME NEW n \in Nat, NEW T \in SUBSET (1 .. n)
  PROVE  \A i \in T : i \in Int
OBVIOUS

\* One more line.
LEMMA LineStep ==
  ASSUME NEW S, NEW s \in Seq(S), NEW l \in S
  PROVE  /\ Append(s, l) \in Seq(S) /\ Len(s) \in Nat
         /\ DOMAIN s = 1 .. Len(s) /\ DOMAIN Append(s, l) = 1 .. Len(s) + 1
         /\ Append(s, l)[Len(s) + 1] = l /\ \A i \in 1 .. Len(s) : Append(s, l)[i] = s[i]
BY AppendProperties

\* The first items of a sequence, up to a limit.
CutTo(s, cap) == SubSeq(s, 1, IF Len(s) < cap THEN Len(s) ELSE cap)

LEMMA CutIs ==
  ASSUME NEW S, NEW s \in Seq(S), NEW cap \in Nat
  PROVE  /\ CutTo(s, cap) \in Seq(S)
         /\ Len(CutTo(s, cap)) = (IF Len(s) < cap THEN Len(s) ELSE cap)
         /\ DOMAIN CutTo(s, cap) = 1 .. Len(CutTo(s, cap))
         /\ Len(CutTo(s, cap)) \in Nat /\ Len(CutTo(s, cap)) <= Len(s)
         /\ \A k \in 1 .. Len(CutTo(s, cap)) : CutTo(s, cap)[k] = s[k] /\ s[k] \in S
<1>1. PICK m \in Nat : m = (IF Len(s) < cap THEN Len(s) ELSE cap) /\ m <= Len(s)
  OBVIOUS
<1>2. \A i \in 1 .. m : s[i] \in S
  BY <1>1
<1>3. PICK c : c = SubSeq(s, 1, m) /\ c = CutTo(s, cap)
  BY <1>1 DEF CutTo
<1>4. /\ c \in Seq(S) /\ Len(c) = (IF 1 <= m THEN m - 1 + 1 ELSE 0)
      /\ \A i \in 1 .. m - 1 + 1 : c[i] = s[1 + i - 1]
  BY <1>1, <1>2, <1>3, SubSeqProperties
<1>5. Len(c) = m /\ DOMAIN c = 1 .. m
  BY <1>1, <1>4
<1>6. \A i \in 1 .. m : c[i] = s[i]
  BY <1>1, <1>4
<1>7. QED
  BY <1>1, <1>2, <1>3, <1>4, <1>5, <1>6

\* The stretch that the heading at h begins, of the headings H.
Str(s, H, h) == {j \in DOMAIN s : j > h /\ \A g \in H : ~ (h < g /\ g <= j)}

LEMMA StretchOf ==
  ASSUME NEW S, NEW s \in Seq(S), NEW l \in S, NEW H \in SUBSET (1 .. Len(s)), NEW h \in H
  PROVE  /\ Str(s, H, h) \subseteq 1 .. Len(s)
         /\ Str(Append(s, l), H \cup {Len(s) + 1}, h) = Str(s, H, h)
         /\ Str(Append(s, l), H, h) = IF \E g \in H : h < g THEN Str(s, H, h)
                                      ELSE Str(s, H, h) \cup {Len(s) + 1}
<1>1. PICK n \in Nat : n = Len(s)
  BY LineStep
<1>2. PICK d : d = Append(s, l)
  OBVIOUS
<1>3. DOMAIN s = 1 .. n /\ DOMAIN d = 1 .. n + 1
  BY <1>1, <1>2, LineStep
<1>4. H \subseteq 1 .. n /\ h \in 1 .. n
  BY <1>1
<1>5. PICK U, V, W : U = Str(s, H, h) /\ V = Str(d, H \cup {n + 1}, h) /\ W = Str(d, H, h)
  OBVIOUS
<1>6. U \subseteq 1 .. n /\ V \subseteq 1 .. n + 1 /\ W \subseteq 1 .. n + 1
  BY <1>3, <1>5 DEF Str
<1>7. \A j \in 1 .. n : (j \in V <=> j \in U) /\ (j \in W <=> j \in U)
  BY <1>3, <1>4, <1>5 DEF Str
<1>8. n + 1 \notin V /\ (n + 1 \in W <=> ~ \E g \in H : h < g)
  BY <1>3, <1>4, <1>5 DEF Str
<1>9. \A j \in 1 .. n + 1 : j \in 1 .. n \/ j = n + 1
  OBVIOUS
<1>10. V = U /\ W = IF \E g \in H : h < g THEN U ELSE U \cup {n + 1}
  BY <1>6, <1>7, <1>8, <1>9
<1>11. QED
  BY <1>1, <1>2, <1>5, <1>6, <1>10

LEMMA NewStretch ==
  ASSUME NEW S, NEW s \in Seq(S), NEW l \in S, NEW H
  PROVE  Str(Append(s, l), H \cup {Len(s) + 1}, Len(s) + 1) = {}
BY LineStep DEF Str

\* Two stretches have no line in common.
LEMMA StretchesDiffer ==
  ASSUME NEW S, NEW s \in Seq(S), NEW H \in SUBSET (1 .. Len(s)), NEW g \in H, NEW h \in H, g # h
  PROVE  Str(s, H, g) \cap Str(s, H, h) = {}
<1>1. Len(s) \in Nat /\ DOMAIN s = 1 .. Len(s)
  OBVIOUS
<1>2. \A x \in H : x \in Int
  BY <1>1
<1>3. \A j \in DOMAIN s : j \in Int
  BY <1>1
<1>4. SUFFICES ASSUME NEW j \in DOMAIN s, j > g, j > h, ~ (g < h /\ h <= j), ~ (h < g /\ g <= j)
               PROVE  FALSE
  BY DEF Str
<1>5. QED
  BY <1>2, <1>3, <1>4

\* The places a of the headings H, in order.
Titles(a, m, H) ==
  /\ m \in Nat /\ a \in [1 .. m -> H]
  /\ \A j, k \in 1 .. m : j < k => a[j] < a[k]
  /\ \A h \in H : \E k \in 1 .. m : a[k] = h
  /\ IsFiniteSet(H) /\ Cardinality(H) = m

LEMMA NoTitles == Titles([k \in 1 .. 0 |-> 0], 0, {})
<1>1. 1 .. 0 = {}
  OBVIOUS
<1>2. QED
  BY <1>1, FS_EmptySet DEF Titles

LEMMA TitlesStep ==
  ASSUME NEW n \in Nat, NEW H \in SUBSET (1 .. n), NEW a, NEW m \in Nat, Titles(a, m, H)
  PROVE  Titles([k \in 1 .. m + 1 |-> IF k = m + 1 THEN n + 1 ELSE a[k]], m + 1, H \cup {n + 1})
<1>1. m \in Nat /\ m + 1 \in Nat
  BY DEF Titles
<1>2. PICK b : b = [k \in 1 .. m + 1 |-> IF k = m + 1 THEN n + 1 ELSE a[k]]
  OBVIOUS
<1>3. b[m + 1] = n + 1 /\ \A k \in 1 .. m : b[k] = a[k] /\ a[k] \in H /\ a[k] < n + 1
  <2>1. m + 1 \in 1 .. m + 1 /\ \A k \in 1 .. m : k \in 1 .. m + 1 /\ k # m + 1
    BY <1>1
  <2>2. \A k \in 1 .. m : a[k] \in H
    BY DEF Titles
  <2>3. \A h \in H : h < n + 1
    OBVIOUS
  <2>4. QED
    BY <1>2, <2>1, <2>2, <2>3
<1>4. \A k \in 1 .. m + 1 : k \in 1 .. m \/ k = m + 1
  BY <1>1
<1>5. b \in [1 .. m + 1 -> H \cup {n + 1}]
  BY <1>2, <1>3, <1>4
<1>6. ASSUME NEW j \in 1 .. m + 1, NEW k \in 1 .. m + 1, j < k PROVE b[j] < b[k]
  <2>1. j \in 1 .. m
    BY <1>1, <1>6
  <2>2. QED
    BY <1>3, <1>4, <1>6, <2>1 DEF Titles
<1>7. \A h \in H \cup {n + 1} : \E k \in 1 .. m + 1 : b[k] = h
  <2>1. m + 1 \in 1 .. m + 1 /\ \A k \in 1 .. m : k \in 1 .. m + 1
    BY <1>1
  <2>2. QED
    BY <1>3, <2>1 DEF Titles
<1>8. IsFiniteSet(H \cup {n + 1}) /\ Cardinality(H \cup {n + 1}) = m + 1
  BY LineSets, FS_AddElement DEF Titles
<1>9. QED
  BY <1>1, <1>2, <1>5, <1>6, <1>7, <1>8 DEF Titles

\* The headings that are listed, and that they are the earliest.
Least(m) == IF m < MaxItems THEN m ELSE MaxItems
Earliest(a, m) == {a[k] : k \in 1 .. Least(m)}

LEMMA FirstTitles ==
  ASSUME NEW H \in SUBSET Nat, NEW a, NEW m \in Nat, Titles(a, m, H)
  PROVE  /\ Earliest(a, m) \subseteq H /\ IsFiniteSet(Earliest(a, m))
         /\ Cardinality(Earliest(a, m)) = Least(m)
         /\ \A h \in H \ Earliest(a, m) : Least(m) = MaxItems /\ \A x \in Earliest(a, m) : x < h
         /\ H \ Earliest(a, m) # {} <=> m > MaxItems
<1>0. PICK cases : cases = Earliest(a, m)
  OBVIOUS
<1>1. PICK c \in Nat : c = (IF m < MaxItems THEN m ELSE MaxItems) /\ c <= m /\ MaxItems \in Nat
  BY ReadsAssumption
<1>2. \A x : x \in cases <=> \E k \in 1 .. c : x = a[k]
  BY <1>0, <1>1 DEF Earliest, Least
<1>3. \A k \in 1 .. c : k \in 1 .. m
  BY <1>1
<1>4. cases \subseteq H
  BY <1>2, <1>3 DEF Titles
<1>5. \A j, k \in 1 .. m : a[j] = a[k] => j = k
  <2>0. \A h \in H : h \in Int
    OBVIOUS
  <2>1. \A k \in 1 .. m : a[k] \in Int
    BY <2>0 DEF Titles
  <2>2. SUFFICES ASSUME NEW j \in 1 .. m, NEW k \in 1 .. m, j < k \/ k < j PROVE a[j] # a[k]
    OBVIOUS
  <2>3. a[j] < a[k] \/ a[k] < a[j]
    BY <2>2 DEF Titles
  <2>4. QED
    BY <2>1, <2>3
<1>6. IsFiniteSet(cases) /\ Cardinality(cases) = c
  <2>1. [k \in 1 .. c |-> a[k]] \in Bijection(1 .. c, cases)
    BY <1>2, <1>3, <1>5 DEF Bijection, Injection, Surjection, IsInjective
  <2>2. ExistsBijection(1 .. c, cases)
    BY <2>1 DEF ExistsBijection
  <2>3. Cardinality(cases) = c
    BY <2>2, FS_CountingElements
  <2>4. QED
    BY <2>2, <2>3, FS_NatBijection
<1>7. ASSUME NEW h \in H \ cases PROVE c = MaxItems /\ m > MaxItems /\ \A x \in cases : x < h
  <2>1. PICK k \in 1 .. m : a[k] = h
    BY DEF Titles
  <2>2. k \notin 1 .. c
    BY <1>2, <1>7, <2>1
  <2>3. k > c /\ c = MaxItems /\ m > MaxItems
    BY <1>1, <2>2
  <2>4. \A j \in 1 .. c : a[j] < h
    BY <1>3, <2>1, <2>3 DEF Titles
  <2>5. QED
    BY <1>2, <2>3, <2>4
<1>8. ASSUME m > MaxItems PROVE H \ cases # {}
  <2>1. m \in 1 .. m /\ m \notin 1 .. c
    BY <1>1, <1>8
  <2>2. a[m] \in H /\ a[m] \notin cases
    BY <1>2, <1>3, <1>5, <2>1 DEF Titles
  <2>3. QED
    BY <2>2
<1>9. QED
  BY <1>0, <1>1, <1>4, <1>6, <1>7, <1>8 DEF Least

\* The last heading is the last of the sequence.
LEMMA LastTitle ==
  ASSUME NEW H \in SUBSET Nat, NEW a, NEW m \in Nat, Titles(a, m, H)
  PROVE  /\ m = 0 <=> H = {}
         /\ m # 0 => a[m] \in H /\ \A g \in H : g <= a[m]
<1>1. m = 0 <=> H = {}
  BY FS_EmptySet DEF Titles
<1>2. ASSUME m # 0 PROVE a[m] \in H /\ \A g \in H : g <= a[m]
  <2>1. m \in 1 .. m /\ \A h \in H : h \in Int
    BY <1>2
  <2>2. a[m] \in H
    BY <2>1 DEF Titles
  <2>3. ASSUME NEW g \in H PROVE g <= a[m]
    <3>0. PICK x : x = a[m]
      OBVIOUS
    <3>1. PICK j \in 1 .. m : a[j] = g
      BY DEF Titles
    <3>2. j = m \/ j < m
      OBVIOUS
    <3>3. g = x \/ g < x
      BY <2>1, <3>0, <3>1, <3>2 DEF Titles
    <3>4. g \in Int /\ x \in Int
      BY <2>1, <2>2, <3>0
    <3>5. g <= x
      BY <3>3, <3>4
    <3>6. QED
      BY <3>0, <3>5
  <2>4. QED
    BY <2>2, <2>3
<1>3. QED
  BY <1>1, <1>2

LEMMA TitleAt ==
  ASSUME NEW H \in SUBSET Nat, NEW a, NEW m \in Nat, Titles(a, m, H), NEW k \in 1 .. m
  PROVE  /\ a[k] \in H /\ a[m] \in H
         /\ k # m => a[k] < a[m]
<1>1. m \in 1 .. m
  OBVIOUS
<1>2. a[k] \in H /\ a[m] \in H
  BY <1>1 DEF Titles
<1>3. k # m => a[k] < a[m]
  BY <1>1 DEF Titles
<1>4. QED
  BY <1>2, <1>3

-----------------------------------------------------------------------------
(* compressTestOutput.                                                       *)

FailedCase ==
  [at : Nat, expected : Nat \cup {Absent}, received : Nat \cup {Absent},
   frames : Seq(Nat), files : Seq({"a"})]
TestState == [passed : Nat, failed : Nat, failures : Seq(FailedCase)]

Failing(s) == {i \in DOMAIN s : s[i].kind \in {"fail", "pytest"}}
PassedIn(s) == {i \in DOMAIN s : s[i].kind = "pass"}

\* The lines of a kind, and the frames of the user's, under the heading at h.
Of(s, h, kind) == {j \in Str(s, Failing(s), h) : s[j].kind = kind}
OwnFrames(s, h) == {j \in Of(s, h, "frame") : s[j].file # "vendor"}

LastIs(x, S) == IF S = {} THEN x = Absent ELSE x \in S /\ \A j \in S : j <= x
Rising(s)    == \A j, k \in DOMAIN s : j < k => s[j] < s[k]
Elements(s)  == {s[k] : k \in DOMAIN s}

\* A failure holds what stands under its heading.
CaseOK(s, f) ==
  /\ LastIs(f.expected, Of(s, f.at, "expected"))
  /\ LastIs(f.received, Of(s, f.at, "received"))
  /\ Rising(f.frames) /\ Elements(f.frames) = OwnFrames(s, f.at)

Places(fs) == [k \in 1 .. Len(fs) |-> fs[k].at]

TestOK(s, st) ==
  /\ s \in Seq(Summary!TestLines) /\ st \in TestState
  /\ Titles(Places(st.failures), Len(st.failures), Failing(s))
  /\ \A k \in 1 .. Len(st.failures) : CaseOK(s, st.failures[k])
  /\ st.passed = Cardinality(PassedIn(s)) /\ st.failed = Cardinality(Failing(s))

TestHeading(l) == l.kind \in {"fail", "pytest"}

LEMMA TestLineIs ==
  ASSUME NEW l \in Summary!TestLines
  PROVE  /\ l.kind \in {"pass", "fail", "expected", "received", "other", "pytest", "frame"}
         /\ l.kind = "frame" => l.file \in {"a", "vendor"}
         /\ l.kind = "pytest" => l.file = "a"
BY DEF Summary!TestLines

\* The headings, with one more line.
LEMMA FailingStep ==
  ASSUME NEW s \in Seq(Summary!TestLines), NEW l \in Summary!TestLines
  PROVE  LET n == Len(s)  d == Append(s, l) IN
         /\ Failing(s) \subseteq 1 .. n /\ PassedIn(s) \subseteq 1 .. n
         /\ Failing(d) = IF TestHeading(l) THEN Failing(s) \cup {n + 1} ELSE Failing(s)
         /\ PassedIn(d) = IF l.kind = "pass" THEN PassedIn(s) \cup {n + 1} ELSE PassedIn(s)
<1>1. PICK n \in Nat : n = Len(s)
  BY LineStep
<1>2. PICK d : d = Append(s, l)
  OBVIOUS
<1>3. /\ DOMAIN s = 1 .. n /\ DOMAIN d = 1 .. n + 1 /\ d[n + 1] = l
      /\ \A i \in 1 .. n : d[i] = s[i]
  BY <1>1, <1>2, LineStep
<1>4. \A i \in 1 .. n + 1 : i \in 1 .. n \/ i = n + 1
  OBVIOUS
<1>5. n + 1 \in 1 .. n + 1 /\ n + 1 \notin 1 .. n /\ \A i \in 1 .. n : i \in 1 .. n + 1
  OBVIOUS
<1>6. Failing(d) = IF TestHeading(l) THEN Failing(s) \cup {n + 1} ELSE Failing(s)
  BY <1>3, <1>4, <1>5 DEF Failing, TestHeading
<1>7. PassedIn(d) = IF l.kind = "pass" THEN PassedIn(s) \cup {n + 1} ELSE PassedIn(s)
  BY <1>3, <1>4, <1>5 DEF PassedIn
<1>8. Failing(s) \subseteq 1 .. n /\ PassedIn(s) \subseteq 1 .. n
  BY <1>3 DEF Failing, PassedIn
<1>9. QED
  BY <1>1, <1>2, <1>6, <1>7, <1>8

\* What stands under a heading, with one more line.
LEMMA UnderStep ==
  ASSUME NEW s \in Seq(Summary!TestLines), NEW l \in Summary!TestLines, NEW h \in Failing(s),
         NEW kind
  PROVE  LET n == Len(s)  d == Append(s, l)
             last == ~ TestHeading(l) /\ ~ \E g \in Failing(s) : h < g IN
         /\ Of(s, h, kind) \subseteq 1 .. n
         /\ Of(d, h, kind) = IF last /\ l.kind = kind THEN Of(s, h, kind) \cup {n + 1} ELSE Of(s, h, kind)
         /\ OwnFrames(d, h) = IF last /\ l.kind = "frame" /\ l.file # "vendor"
                              THEN OwnFrames(s, h) \cup {n + 1} ELSE OwnFrames(s, h)
<1>1. PICK n \in Nat : n = Len(s)
  BY LineStep
<1>2. PICK d : d = Append(s, l)
  OBVIOUS
<1>3. d[n + 1] = l /\ n + 1 \notin 1 .. n /\ \A i \in 1 .. n : d[i] = s[i]
  BY <1>1, <1>2, LineStep
<1>4. PICK H \in SUBSET (1 .. n) : H = Failing(s)
  BY <1>1, FailingStep
<1>5. PICK last \in BOOLEAN : last = (~ TestHeading(l) /\ ~ \E g \in H : h < g)
  OBVIOUS
<1>6. Failing(d) = IF TestHeading(l) THEN H \cup {n + 1} ELSE H
  BY <1>1, <1>2, <1>4, FailingStep
<1>7. PICK S, T : S = Str(s, H, h) /\ T = Str(d, Failing(d), h)
  OBVIOUS
<1>8. S \subseteq 1 .. n /\ T = IF last THEN S \cup {n + 1} ELSE S
  <2>1. H \in SUBSET (1 .. Len(s)) /\ h \in H
    BY <1>1, <1>4
  <2>2. /\ Str(s, H, h) \subseteq 1 .. Len(s)
        /\ Str(Append(s, l), H \cup {Len(s) + 1}, h) = Str(s, H, h)
        /\ Str(Append(s, l), H, h) = IF \E g \in H : h < g THEN Str(s, H, h)
                                     ELSE Str(s, H, h) \cup {Len(s) + 1}
    BY <2>1, StretchOf
  <2>3. QED
    BY <1>1, <1>2, <1>5, <1>6, <1>7, <2>2
<1>9. ASSUME NEW x
      PROVE  /\ Of(s, h, x) \subseteq 1 .. n
             /\ Of(d, h, x) = IF last /\ l.kind = x THEN Of(s, h, x) \cup {n + 1} ELSE Of(s, h, x)
  BY <1>3, <1>4, <1>7, <1>8 DEF Of
<1>10. OwnFrames(d, h) = IF last /\ l.kind = "frame" /\ l.file # "vendor"
                         THEN OwnFrames(s, h) \cup {n + 1} ELSE OwnFrames(s, h)
  <2>1. PICK A, B : A = Of(s, h, "frame") /\ B = Of(d, h, "frame")
    OBVIOUS
  <2>2. A \subseteq 1 .. n /\ B = IF last /\ l.kind = "frame" THEN A \cup {n + 1} ELSE A
    BY <1>9, <2>1
  <2>3. QED
    BY <1>3, <2>1, <2>2 DEF OwnFrames
<1>11. QED
  BY <1>1, <1>2, <1>4, <1>5, <1>9, <1>10

\* A heading begins with nothing under it.
LEMMA NothingUnder ==
  ASSUME NEW s \in Seq(Summary!TestLines), NEW l \in Summary!TestLines, TestHeading(l), NEW kind
  PROVE  LET h == Len(s) + 1  d == Append(s, l) IN Of(d, h, kind) = {} /\ OwnFrames(d, h) = {}
<1>1. Failing(s) \in SUBSET (1 .. Len(s))
  BY FailingStep
<1>2. Str(Append(s, l), Failing(s) \cup {Len(s) + 1}, Len(s) + 1) = {}
  BY <1>1, NewStretch
<1>3. Failing(Append(s, l)) = Failing(s) \cup {Len(s) + 1}
  BY FailingStep
<1>4. QED
  BY <1>2, <1>3 DEF Of, OwnFrames

LEMMA CaseStays ==
  ASSUME NEW s \in Seq(Summary!TestLines), NEW l \in Summary!TestLines, NEW f, f.at \in Failing(s),
         CaseOK(s, f),
         TestHeading(l) \/ l.kind \in {"pass", "other"} \/ (l.kind = "frame" /\ l.file = "vendor")
         \/ \E g \in Failing(s) : f.at < g
  PROVE  CaseOK(Append(s, l), f)
BY UnderStep DEF CaseOK, TestHeading

\* A line that is no heading leaves all failures but the last.
LEMMA NoHeading ==
  ASSUME NEW s, NEW st, TestOK(s, st), NEW l \in Summary!TestLines, ~ TestHeading(l),
         NEW nx \in TestState, Len(nx.failures) = Len(st.failures), nx.failed = st.failed,
         nx.passed = (IF l.kind = "pass" THEN st.passed + 1 ELSE st.passed),
         \A k \in 1 .. Len(st.failures) : nx.failures[k].at = st.failures[k].at,
         \A k \in 1 .. Len(st.failures) : k # Len(st.failures) => nx.failures[k] = st.failures[k],
         Len(st.failures) # 0 => CaseOK(Append(s, l), nx.failures[Len(st.failures)])
  PROVE  TestOK(Append(s, l), nx)
<1>1. s \in Seq(Summary!TestLines) /\ st \in TestState
  BY DEF TestOK
<1>2. PICK n \in Nat : n = Len(s)
  BY <1>1, LineStep
<1>3. PICK d : d = Append(s, l)
  OBVIOUS
<1>4. PICK m \in Nat : m = Len(st.failures)
  BY <1>1 DEF TestState
<1>5. PICK H \in SUBSET (1 .. n) : H = Failing(s) /\ Failing(d) = H
  BY <1>1, <1>2, <1>3, FailingStep
<1>6. PICK a : a = Places(st.failures) /\ Titles(a, m, H)
  BY <1>4, <1>5, Zenon DEF TestOK
<1>7. Places(nx.failures) = a
  BY <1>4, <1>6 DEF Places
<1>8. \A k \in 1 .. m : a[k] = st.failures[k].at /\ a[k] \in H /\ (k # m => \E g \in H : a[k] < g)
  <2>1. \A k \in 1 .. m : a[k] = st.failures[k].at
    BY <1>4, <1>6 DEF Places
  <2>0. H \in SUBSET Nat
    BY <1>5
  <2>2. ASSUME NEW k \in 1 .. m PROVE a[k] \in H
    BY <1>4, <1>6, <2>0, TitleAt
  <2>4. ASSUME NEW k \in 1 .. m, k # m PROVE \E g \in H : a[k] < g
    <3>1. a[k] < a[m] /\ a[m] \in H
      BY <1>4, <1>6, <2>0, <2>4, TitleAt
    <3>2. QED
      BY <3>1
  <2>3. QED
    BY <2>1, <2>2, <2>4
<1>9. ASSUME NEW k \in 1 .. m PROVE CaseOK(d, nx.failures[k])
  <2>1. CASE k = m
    BY <1>3, <1>4, <2>1
  <2>2. CASE k # m
    <3>1. nx.failures[k] = st.failures[k] /\ CaseOK(s, st.failures[k])
      BY <1>4, <2>2 DEF TestOK
    <3>2. st.failures[k].at \in H /\ \E g \in H : st.failures[k].at < g
      BY <1>8, <2>2
    <3>3. QED
      BY <1>1, <1>3, <1>5, <3>1, <3>2, CaseStays
  <2>3. QED
    BY <2>1, <2>2
<1>10. nx.passed = Cardinality(PassedIn(d)) /\ nx.failed = Cardinality(Failing(d))
  <2>1. PassedIn(s) \in SUBSET (1 .. n)
    BY <1>1, <1>2, FailingStep
  <2>2. Cardinality(PassedIn(s) \cup {n + 1}) = Cardinality(PassedIn(s)) + 1
    BY <2>1, LineSets
  <2>3. PassedIn(d) = IF l.kind = "pass" THEN PassedIn(s) \cup {n + 1} ELSE PassedIn(s)
    BY <1>1, <1>2, <1>3, FailingStep
  <2>4. QED
    BY <1>5, <2>2, <2>3 DEF TestOK
<1>11. d \in Seq(Summary!TestLines)
  BY <1>1, <1>3, LineStep
<1>12. QED
  BY <1>3, <1>4, <1>5, <1>6, <1>7, <1>9, <1>10, <1>11 DEF TestOK

\* What a line does to the loop's variables.
LEMMA TestLineIn ==
  ASSUME NEW st, NEW l, NEW i
  PROVE  Summary!TestLine(st, l, i) =
           CASE l.kind = "pass" -> [st EXCEPT !.passed = st.passed + 1]
             [] TestHeading(l) /\ l.kind # "pass" ->
                  [st EXCEPT !.failures = Append(st.failures, Summary!Failure(l, i)),
                             !.failed = st.failed + 1]
             [] ~ TestHeading(l) /\ l.kind # "pass" ->
                  IF st.failures = << >> THEN st
                  ELSE [st EXCEPT !.failures =
                          [st.failures EXCEPT ![Len(st.failures)] =
                             Summary!InCase(st.failures[Len(st.failures)], l, i)]]
BY DEF Summary!TestLine, Summary!Under, TestHeading

LEMMA FailureType ==
  ASSUME NEW l \in Summary!TestLines, NEW i \in Nat
  PROVE  Summary!Failure(l, i) \in FailedCase
<1>1. << >> \in Seq({"a"}) /\ << >> \in Seq(Nat)
  OBVIOUS
<1>2. l.kind = "pytest" => <<l.file>> \in Seq({"a"})
  BY TestLineIs
<1>3. QED
  BY <1>1, <1>2 DEF Summary!Failure, FailedCase

LEMMA InCaseType ==
  ASSUME NEW f \in FailedCase, NEW l \in Summary!TestLines, NEW i \in Nat
  PROVE  Summary!InCase(f, l, i) \in FailedCase /\ Summary!InCase(f, l, i).at = f.at
<1>1. PICK x : x = Summary!InCase(f, l, i)
  OBVIOUS
<1>2. CASE l.kind = "frame" /\ l.file # "vendor"
  <2>1. Summary!Pushed(f.files, l.file) \in Seq({"a"})
    BY <1>2, TestLineIs DEF FailedCase, Summary!Pushed
  <2>2. Append(f.frames, i) \in Seq(Nat)
    BY DEF FailedCase
  <2>3. x = [f EXCEPT !.frames = Append(f.frames, i), !.files = Summary!Pushed(f.files, l.file)]
    BY <1>1, <1>2 DEF Summary!InCase
  <2>4. QED
    BY <1>1, <2>1, <2>2, <2>3 DEF FailedCase
<1>3. CASE ~ (l.kind = "frame" /\ l.file # "vendor")
  <2>1. x = f \/ x = [f EXCEPT !.expected = i] \/ x = [f EXCEPT !.received = i]
    BY <1>1, <1>3 DEF Summary!InCase
  <2>2. QED
    BY <1>1, <2>1 DEF FailedCase
<1>4. QED
  BY <1>2, <1>3

\* The last failure, with what a line adds to it.
LEMMA InCaseIs ==
  ASSUME NEW s \in Seq(Summary!TestLines), NEW l \in Summary!TestLines, ~ TestHeading(l),
         NEW f \in FailedCase, f.at \in Failing(s), ~ \E g \in Failing(s) : f.at < g, CaseOK(s, f)
  PROVE  CaseOK(Append(s, l), Summary!InCase(f, l, Len(s) + 1))
<1>1. PICK n \in Nat : n = Len(s)
  BY LineStep
<1>2. PICK d : d = Append(s, l)
  OBVIOUS
<1>3. PICK x : x = Summary!InCase(f, l, n + 1)
  OBVIOUS
<1>4. PICK E, R, F : E = Of(s, f.at, "expected") /\ R = Of(s, f.at, "received") /\ F = OwnFrames(s, f.at)
  OBVIOUS
<1>5. /\ E \subseteq 1 .. n /\ R \subseteq 1 .. n
      /\ Of(d, f.at, "expected") = IF l.kind = "expected" THEN E \cup {n + 1} ELSE E
      /\ Of(d, f.at, "received") = IF l.kind = "received" THEN R \cup {n + 1} ELSE R
      /\ OwnFrames(d, f.at) = IF l.kind = "frame" /\ l.file # "vendor" THEN F \cup {n + 1} ELSE F
  BY <1>1, <1>2, <1>4, UnderStep
<1>6. /\ LastIs(f.expected, E) /\ LastIs(f.received, R)
      /\ Rising(f.frames) /\ Elements(f.frames) = F /\ f.frames \in Seq(Nat)
  BY <1>4 DEF CaseOK, FailedCase
<1>7. ASSUME NEW S, S \subseteq 1 .. n PROVE LastIs(n + 1, S \cup {n + 1})
  BY <1>7 DEF LastIs
<1>8. CASE l.kind = "expected"
  <2>1. x = [f EXCEPT !.expected = n + 1]
    BY <1>3, <1>8 DEF Summary!InCase
  <2>2. x.at = f.at /\ x.expected = n + 1 /\ x.received = f.received /\ x.frames = f.frames
    BY <2>1 DEF FailedCase
  <2>3. QED
    BY <1>1, <1>2, <1>3, <1>5, <1>6, <1>7, <1>8, <2>2 DEF CaseOK
<1>9. CASE l.kind = "received"
  <2>1. x = [f EXCEPT !.received = n + 1]
    BY <1>3, <1>9 DEF Summary!InCase
  <2>2. x.at = f.at /\ x.received = n + 1 /\ x.expected = f.expected /\ x.frames = f.frames
    BY <2>1 DEF FailedCase
  <2>3. QED
    BY <1>1, <1>2, <1>3, <1>5, <1>6, <1>7, <1>9, <2>2 DEF CaseOK
<1>10. CASE l.kind = "frame" /\ l.file # "vendor"
  <2>1. x = [f EXCEPT !.frames = Append(f.frames, n + 1), !.files = Summary!Pushed(f.files, l.file)]
    BY <1>3, <1>10 DEF Summary!InCase
  <2>2. x.at = f.at /\ x.received = f.received /\ x.expected = f.expected
        /\ x.frames = Append(f.frames, n + 1)
    BY <2>1 DEF FailedCase
  <2>3. PICK u \in Seq(Nat) : u = f.frames
    BY <1>6
  <2>4. F \subseteq 1 .. n
    BY <1>1, <1>4, UnderStep DEF OwnFrames
  <2>5. PICK k \in Nat : k = Len(u) /\ DOMAIN u = 1 .. k
    OBVIOUS
  <2>6. PICK v : v = Append(u, n + 1)
    OBVIOUS
  <2>7. /\ DOMAIN v = 1 .. k + 1 /\ v[k + 1] = n + 1 /\ \A j \in 1 .. k : v[j] = u[j]
    BY <2>5, <2>6
  <2>8. \A j \in 1 .. k : u[j] \in F
    BY <1>6, <2>3, <2>5 DEF Elements
  <2>9. \A j \in 1 .. k : u[j] < n + 1
    <3>1. \A y \in F : y < n + 1
      BY <2>4
    <3>2. QED
      BY <2>8, <3>1
  <2>10. Elements(v) = F \cup {n + 1}
    <3>1. \A y \in F : \E j \in 1 .. k : y = u[j]
      BY <1>6, <2>3, <2>5 DEF Elements
    <3>2. \A j \in 1 .. k + 1 : j \in 1 .. k \/ j = k + 1
      OBVIOUS
    <3>3. k + 1 \in 1 .. k + 1 /\ \A j \in 1 .. k : j \in 1 .. k + 1
      OBVIOUS
    <3>4. Elements(v) \subseteq F \cup {n + 1}
      BY <2>7, <2>8, <3>2 DEF Elements
    <3>5. F \cup {n + 1} \subseteq Elements(v)
      BY <2>7, <3>1, <3>3 DEF Elements
    <3>6. QED
      BY <3>4, <3>5
  <2>11. Rising(v)
    <3>1. SUFFICES ASSUME NEW i \in 1 .. k + 1, NEW j \in 1 .. k + 1, i < j PROVE v[i] < v[j]
      BY <2>7 DEF Rising
    <3>2. i \in 1 .. k /\ (j \in 1 .. k \/ j = k + 1)
      BY <3>1
    <3>3. j \in 1 .. k => u[i] < u[j]
      BY <1>6, <2>3, <2>5, <3>1, <3>2 DEF Rising
    <3>4. QED
      BY <2>7, <2>9, <3>2, <3>3
  <2>12. QED
    BY <1>1, <1>2, <1>3, <1>5, <1>6, <1>10, <2>2, <2>3, <2>6, <2>10, <2>11 DEF CaseOK
<1>11. CASE l.kind \notin {"expected", "received"} /\ ~ (l.kind = "frame" /\ l.file # "vendor")
  <2>1. x = f
    BY <1>3, <1>11 DEF Summary!InCase
  <2>2. QED
    BY <1>1, <1>2, <1>3, <1>5, <1>6, <1>11, <2>1 DEF CaseOK
<1>12. QED
  BY <1>8, <1>9, <1>10, <1>11

\* Without any line there is no failure.
LEMMA NoTestsOK == TestOK(<< >>, Summary!NoTests)
<1>1. Failing(<< >>) = {} /\ PassedIn(<< >>) = {} /\ Cardinality({}) = 0
  BY FS_EmptySet DEF Failing, PassedIn
<1>2. Titles(Places(<< >>), 0, {})
  <2>1. Places(<< >>) = [k \in 1 .. 0 |-> 0]
    BY DEF Places
  <2>2. QED
    BY <2>1, NoTitles
<1>3. PICK none : none = << >> /\ none \in Seq(FailedCase)
                       /\ none \in Seq(Summary!TestLines) /\ Len(none) = 0
  <2>1. << >> \in Seq(FailedCase) /\ << >> \in Seq(Summary!TestLines) /\ Len(<< >>) = 0
    OBVIOUS
  <2>2. QED
    BY <2>1, Zenon
<1>4. PICK st : st = [passed |-> 0, failed |-> 0, failures |-> none]
  OBVIOUS
<1>5. st \in TestState
  BY <1>3, <1>4 DEF TestState
<1>6. st.passed = 0 /\ st.failed = 0 /\ st.failures = none
  BY <1>4
<1>7. \A k \in 1 .. Len(st.failures) : CaseOK(none, st.failures[k])
  BY <1>3, <1>6
<1>8. TestOK(none, st)
  BY <1>1, <1>2, <1>3, <1>5, <1>6, <1>7 DEF TestOK
<1>9. QED
  BY <1>3, <1>4, <1>8 DEF Summary!NoTests

LEMMA TestStep ==
  ASSUME NEW s, NEW st, TestOK(s, st), NEW l \in Summary!TestLines
  PROVE  TestOK(Append(s, l), Summary!TestLine(st, l, Len(s) + 1))
<1>1. s \in Seq(Summary!TestLines) /\ st \in TestState
  BY DEF TestOK
<1>2. PICK n \in Nat : n = Len(s)
  BY <1>1, LineStep
<1>3. PICK d : d = Append(s, l)
  OBVIOUS
<1>4. PICK fs \in Seq(FailedCase) : fs = st.failures
  BY <1>1 DEF TestState
<1>5. PICK m \in Nat : m = Len(fs) /\ DOMAIN fs = 1 .. m
  OBVIOUS
<1>6. m = 0 <=> fs = << >>
  BY <1>5
<1>7. PICK nx : nx = Summary!TestLine(st, l, n + 1)
  OBVIOUS
<1>8. \A k \in 1 .. m : CaseOK(s, fs[k])
  BY <1>4, <1>5 DEF TestOK
<1>9. PICK H \in SUBSET (1 .. n) : H = Failing(s)
  BY <1>1, <1>2, FailingStep
<1>10. PICK a : a = Places(fs) /\ Titles(a, m, H)
  BY <1>4, <1>5, <1>9, Zenon DEF TestOK
<1>11. \A k \in 1 .. m : a[k] = fs[k].at
  BY <1>5, <1>10 DEF Places
<1>12. ASSUME NEW k \in 1 .. m PROVE fs[k].at \in H
  <2>1. H \in SUBSET Nat
    BY <1>9
  <2>2. a[k] \in H
    BY <1>5, <1>10, <2>1, TitleAt
  <2>3. QED
    BY <1>11, <2>2
<1>13. CASE TestHeading(l)
  <2>1. PICK g \in FailedCase : g = Summary!Failure(l, n + 1)
    BY FailureType
  <2>2. nx = [passed |-> st.passed, failed |-> st.failed + 1, failures |-> Append(fs, g)]
    <3>1. l.kind # "pass"
      BY <1>13 DEF TestHeading
    <3>2. nx = [st EXCEPT !.failures = Append(fs, g), !.failed = st.failed + 1]
      BY <1>4, <1>7, <1>13, <2>1, <3>1, TestLineIn
    <3>3. QED
      BY <1>1, <3>2 DEF TestState
  <2>3. PICK v \in Seq(FailedCase) : v = Append(fs, g)
    BY AppendProperties
  <2>4. /\ Len(v) = m + 1 /\ v[m + 1] = g /\ \A k \in 1 .. m : v[k] = fs[k]
    BY <1>5, <2>3
  <2>5. nx \in TestState
    BY <1>1, <2>2, <2>3 DEF TestState
  <2>6. g.at = n + 1 /\ g.expected = Absent /\ g.received = Absent /\ g.frames = << >>
    BY <2>1 DEF Summary!Failure
  <2>7. \A k \in 1 .. m + 1 : k \in 1 .. m \/ k = m + 1
    OBVIOUS
  <2>8. Places(v) = [k \in 1 .. m + 1 |-> IF k = m + 1 THEN n + 1 ELSE a[k]]
    <3>1. \A k \in 1 .. m + 1 : v[k].at = IF k = m + 1 THEN n + 1 ELSE a[k]
      BY <1>11, <2>4, <2>6, <2>7
    <3>2. QED
      BY <2>4, <3>1 DEF Places
  <2>9. Failing(d) = H \cup {n + 1} /\ PassedIn(d) = PassedIn(s)
    BY <1>1, <1>2, <1>3, <1>9, <1>13, FailingStep DEF TestHeading
  <2>10. Titles(Places(v), Len(v), Failing(d))
    <3>1. Titles([k \in 1 .. m + 1 |-> IF k = m + 1 THEN n + 1 ELSE a[k]], m + 1, H \cup {n + 1})
      BY <1>9, <1>10, TitlesStep
    <3>2. QED
      BY <2>4, <2>8, <2>9, <3>1
  <2>11. ASSUME NEW k \in 1 .. m + 1 PROVE CaseOK(d, v[k])
    <3>1. CASE k \in 1 .. m
      <4>1. PICK f : f = fs[k] /\ f = v[k] /\ f.at \in Failing(s) /\ CaseOK(s, f)
        BY <1>8, <1>9, <1>12, <2>4, <3>1
      <4>2. CaseOK(d, f)
        BY <1>1, <1>3, <1>13, <4>1, CaseStays
      <4>3. QED
        BY <4>1, <4>2
    <3>2. CASE k = m + 1
      <4>1. \A kind : Of(d, n + 1, kind) = {} /\ OwnFrames(d, n + 1) = {}
        BY <1>1, <1>2, <1>3, <1>13, NothingUnder
      <4>2. Rising(<< >>) /\ Elements(<< >>) = {}
        BY DEF Rising, Elements
      <4>3. LastIs(Absent, {})
        BY DEF LastIs
      <4>4. QED
        BY <2>4, <2>6, <3>2, <4>1, <4>2, <4>3 DEF CaseOK
    <3>3. QED
      BY <2>7, <3>1, <3>2
  <2>12. Cardinality(H \cup {n + 1}) = Cardinality(H) + 1
    BY <1>9, LineSets
  <2>13. nx.passed = Cardinality(PassedIn(d)) /\ nx.failed = Cardinality(Failing(d))
    BY <1>9, <2>2, <2>9, <2>12 DEF TestOK
  <2>14. d \in Seq(Summary!TestLines)
    BY <1>1, <1>3, LineStep
  <2>15. nx.failures = v
    BY <2>2, <2>3
  <2>16. TestOK(d, nx)
    BY <2>4, <2>5, <2>10, <2>11, <2>13, <2>14, <2>15 DEF TestOK
  <2>17. QED
    BY <1>2, <1>3, <1>7, <2>16
<1>14. CASE ~ TestHeading(l) /\ (l.kind = "pass" \/ m = 0)
  <2>1. nx = [passed |-> IF l.kind = "pass" THEN st.passed + 1 ELSE st.passed,
              failed |-> st.failed, failures |-> fs]
    <3>1. CASE l.kind = "pass"
      <4>1. nx = [st EXCEPT !.passed = st.passed + 1]
        BY <1>7, <3>1, TestLineIn
      <4>2. QED
        BY <1>1, <1>4, <3>1, <4>1 DEF TestState
    <3>2. CASE l.kind # "pass"
      <4>1. nx = st
        BY <1>4, <1>6, <1>7, <1>14, <3>2, TestLineIn
      <4>2. QED
        BY <1>1, <1>4, <3>2, <4>1 DEF TestState
    <3>3. QED
      BY <3>1, <3>2
  <2>2. nx \in TestState
    BY <1>1, <2>1 DEF TestState
  <2>3. m # 0 => CaseOK(d, fs[m])
    <3>1. SUFFICES ASSUME m # 0 PROVE CaseOK(d, fs[m])
      OBVIOUS
    <3>2. PICK f : f = fs[m] /\ f.at \in Failing(s) /\ CaseOK(s, f)
      BY <1>8, <1>9, <1>12, <3>1
    <3>3. CaseOK(d, f)
      BY <1>1, <1>3, <1>14, <3>1, <3>2, CaseStays
    <3>4. QED
      BY <3>2, <3>3
  <2>4. nx.failures = fs /\ nx.failed = st.failed
        /\ nx.passed = IF l.kind = "pass" THEN st.passed + 1 ELSE st.passed
    BY <2>1
  <2>5. TestOK(d, nx)
    BY <1>3, <1>4, <1>5, <1>14, <2>2, <2>3, <2>4, NoHeading
  <2>6. QED
    BY <1>2, <1>3, <1>7, <2>5
<1>15. CASE ~ TestHeading(l) /\ l.kind # "pass" /\ m # 0
  <2>1. PICK f \in FailedCase : f = fs[m] /\ f.at = a[m] /\ f.at \in Failing(s) /\ CaseOK(s, f)
    BY <1>5, <1>8, <1>9, <1>11, <1>12, <1>15
  <2>2. ~ \E g \in Failing(s) : f.at < g
    <3>1. PICK y : y = a[m]
      OBVIOUS
    <3>2. \A g \in H : g <= y
      BY <1>9, <1>10, <1>15, <3>1, LastTitle
    <3>3. y \in Int /\ \A g \in H : g \in Int
      BY <1>9, <2>1, <3>1
    <3>4. \A g \in H : ~ y < g
      BY <3>2, <3>3
    <3>5. QED
      BY <1>9, <2>1, <3>1, <3>4
  <2>3. PICK x \in FailedCase : x = Summary!InCase(f, l, n + 1) /\ x.at = f.at
    BY <2>1, InCaseType
  <2>4. CaseOK(d, x)
    BY <1>1, <1>2, <1>3, <1>15, <2>1, <2>2, <2>3, InCaseIs
  <2>5. PICK v \in Seq(FailedCase) : v = [fs EXCEPT ![m] = x] /\ Len(v) = m
                                     /\ \A k \in 1 .. m : v[k] = IF k = m THEN x ELSE fs[k]
    <3>1. PICK v : v = [fs EXCEPT ![m] = x]
      OBVIOUS
    <3>2. m \in 1 .. Len(fs)
      BY <1>5, <1>15
    <3>3. v \in Seq(FailedCase) /\ Len(v) = Len(fs)
      BY <3>1, <3>2, ExceptSeq
    <3>4. \A k \in 1 .. m : v[k] = IF k = m THEN x ELSE fs[k]
      BY <1>5, <3>1
    <3>5. QED
      BY <1>5, <3>1, <3>3, <3>4
  <2>6. nx = [passed |-> st.passed, failed |-> st.failed, failures |-> v]
    <3>1. nx = [st EXCEPT !.failures = v]
      BY <1>4, <1>5, <1>6, <1>7, <1>15, <2>1, <2>3, <2>5, TestLineIn
    <3>2. QED
      BY <1>1, <3>1 DEF TestState
  <2>7. nx \in TestState /\ nx.failures = v /\ nx.failed = st.failed /\ nx.passed = st.passed
    BY <1>1, <2>6 DEF TestState
  <2>8. TestOK(d, nx)
    BY <1>3, <1>4, <1>5, <1>15, <2>1, <2>3, <2>4, <2>5, <2>7, NoHeading
  <2>9. QED
    BY <1>2, <1>3, <1>7, <2>8
<1>16. QED
  BY <1>13, <1>14, <1>15

\* The first of what is in order.
LEMMA FirstRising ==
  ASSUME NEW u \in Seq(Nat), Rising(u), NEW cap \in Nat
  PROVE  LET v == CutTo(u, cap) IN
         /\ v \in Seq(Nat) /\ Rising(v) /\ Elements(v) \subseteq Elements(u)
         /\ \A j \in Elements(u) \ Elements(v) : Len(v) = cap /\ \A f \in Elements(v) : f < j
<1>1. PICK v : v = CutTo(u, cap)
  OBVIOUS
<1>2. PICK m \in Nat : m = Len(u) /\ DOMAIN u = 1 .. m
  OBVIOUS
<1>3. PICK c \in Nat : c = IF m < cap THEN m ELSE cap
  OBVIOUS
<1>4. /\ v \in Seq(Nat) /\ Len(v) = c /\ DOMAIN v = 1 .. c
      /\ \A k \in 1 .. c : v[k] = u[k]
  <2>1. PICK w : w = CutTo(u, cap) /\ w \in Seq(Nat) /\ Len(w) = (IF m < cap THEN m ELSE cap)
                 /\ DOMAIN w = 1 .. Len(w)
    BY <1>2, CutIs
  <2>2. \A k \in 1 .. Len(w) : w[k] = u[k]
    BY <2>1, CutIs
  <2>3. QED
    BY <1>1, <1>3, <2>1, <2>2
<1>5. \A k \in 1 .. c : k \in 1 .. m
  BY <1>3
<1>6. Rising(v)
  BY <1>2, <1>4, <1>5 DEF Rising
<1>7. Elements(v) \subseteq Elements(u)
  BY <1>2, <1>4, <1>5 DEF Elements
<1>8. ASSUME NEW j \in Elements(u) \ Elements(v)
      PROVE  Len(v) = cap /\ \A f \in Elements(v) : f < j
  <2>1. PICK i \in 1 .. m : u[i] = j
    BY <1>2 DEF Elements
  <2>2. i \notin 1 .. c
    BY <1>4, <1>8, <2>1 DEF Elements
  <2>3. c = cap /\ \A k \in 1 .. c : k < i
    BY <1>3, <2>2
  <2>4. ASSUME NEW k \in 1 .. c PROVE v[k] < j
    BY <1>2, <1>4, <1>5, <2>1, <2>3 DEF Rising
  <2>5. QED
    BY <1>4, <2>3, <2>4 DEF Elements
<1>9. QED
  BY <1>1, <1>4, <1>6, <1>7, <1>8

LEMMA LastOfIs ==
  ASSUME NEW S \in SUBSET Nat, NEW x, LastIs(x, S)
  PROVE  /\ x = Summary!LastOf(S)
         /\ x = Absent <=> S = {}
<1>1. CASE S = {}
  BY <1>1 DEF LastIs, Summary!LastOf
<1>2. CASE S # {}
  <2>1. x \in S /\ \A j \in S : j <= x
    BY <1>2 DEF LastIs
  <2>2. PICK y : y = CHOOSE i \in S : \A j \in S : j <= i
    OBVIOUS
  <2>3. y \in S /\ \A j \in S : j <= y
    BY <2>1, <2>2
  <2>4. x <= y /\ y <= x /\ x \in Nat /\ y \in Nat
    BY <2>1, <2>3
  <2>5. x = y
    BY <2>4
  <2>6. x # Absent
    BY <2>4, ReadsAssumption
  <2>7. Summary!LastOf(S) = y
    BY <1>2, <2>2 DEF Summary!LastOf
  <2>8. QED
    BY <1>2, <2>5, <2>6, <2>7
<1>3. QED
  BY <1>1, <1>2

\* The definitions of Digests, in those of this module.
LEMMA InputIs ==
  /\ \A s : Summary!ToSet(s) = Elements(s)
  /\ \A s : Summary!InOrder(s) <=> Rising(s)
  /\ \A s : Summary!FirstItems(s) = CutTo(s, MaxItems)
  /\ \A H, h : Summary!Stretch(H, h) = Str(input, H, h)
BY DEF Summary!ToSet, Elements, Summary!InOrder, Rising, Summary!FirstItems, CutTo, Summary!Stretch, Str

LEMMA TestInputIs ==
  /\ Summary!TestHeads = Failing(input) /\ Summary!Passing = PassedIn(input)
  /\ \A h, kind : Summary!Below(h, kind) = Of(input, h, kind)
<1>1. Summary!TestHeads = Failing(input) /\ Summary!Passing = PassedIn(input)
  BY DEF Summary!TestHeads, Failing, Summary!Passing, PassedIn
<1>2. \A h, kind : Summary!Below(h, kind) = Of(input, h, kind)
  BY <1>1, InputIs DEF Summary!Below, Of
<1>3. QED
  BY <1>1, <1>2

\* What the digest lists, of what the loop has found.
LEMMA DigestOfTests ==
  ASSUME NEW st \in TestState
  PROVE  LET d == Summary!compressTestOutput(st)
             fs == st.failures
             c == IF Len(fs) < MaxItems THEN Len(fs) ELSE MaxItems IN
         /\ DOMAIN d.cases = 1 .. c
         /\ \A k \in 1 .. c : /\ d.cases[k].at = fs[k].at
                              /\ d.cases[k].expected = fs[k].expected
                              /\ d.cases[k].received = fs[k].received
                              /\ d.cases[k].frames = CutTo(fs[k].frames, FrameCap)
         /\ "vendor" \notin d.files
         /\ d.passed = st.passed /\ d.failed = st.failed
         /\ "nothing" \in d.uncertainty <=> st.failed = 0 /\ st.passed = 0
         /\ "truncated" \in d.uncertainty <=> Len(fs) > MaxItems
         /\ "inferred" \in d.uncertainty <=>
              \E k \in 1 .. c : fs[k].expected = Absent \/ fs[k].received = Absent
<1>1. PICK fs \in Seq(FailedCase) : fs = st.failures
  BY DEF TestState
<1>2. PICK shown : shown = CutTo(fs, MaxItems)
  OBVIOUS
<1>3. PICK c \in Nat : /\ c = (IF Len(fs) < MaxItems THEN Len(fs) ELSE MaxItems)
                       /\ DOMAIN shown = 1 .. c
                       /\ \A k \in 1 .. c : shown[k] = fs[k] /\ fs[k] \in FailedCase
  BY <1>2, CutIs, ReadsAssumption
<1>4. PICK d : d = Summary!compressTestOutput(st)
  OBVIOUS
<1>5. d = [cases |-> [k \in 1 .. c |->
                        [shown[k] EXCEPT !.frames = CutTo(shown[k].frames, FrameCap)]],
           files |-> UNION {Elements(shown[k].files) : k \in 1 .. c},
           passed |-> st.passed, failed |-> st.failed,
           uncertainty |->
             {u \in {"nothing", "truncated", "inferred"} :
                \/ u = "nothing" /\ st.failed = 0 /\ st.passed = 0
                \/ u = "truncated" /\ Len(fs) > MaxItems
                \/ u = "inferred" /\ \E k \in 1 .. c : shown[k].expected = Absent
                                                           \/ shown[k].received = Absent}]
  <2>1. Summary!FirstItems(st.failures) = shown
    BY <1>1, <1>2, InputIs
  <2>2. \A u : Summary!ToSet(u) = Elements(u)
    BY InputIs
  <2>3. QED
    BY <1>1, <1>3, <1>4, <2>1, <2>2 DEF Summary!compressTestOutput, CutTo
<1>6. ASSUME NEW k \in 1 .. c
      PROVE  /\ d.cases[k].at = fs[k].at /\ d.cases[k].expected = fs[k].expected
             /\ d.cases[k].received = fs[k].received
             /\ d.cases[k].frames = CutTo(fs[k].frames, FrameCap)
  <2>1. PICK f \in FailedCase : f = fs[k] /\ f = shown[k]
    BY <1>3
  <2>2. d.cases[k] = [f EXCEPT !.frames = CutTo(f.frames, FrameCap)]
    BY <1>5, <2>1
  <2>3. QED
    BY <2>1, <2>2 DEF FailedCase
<1>7. "vendor" \notin d.files
  <2>1. \A k \in 1 .. c : shown[k].files \in Seq({"a"})
    BY <1>3 DEF FailedCase
  <2>2. ASSUME NEW u \in Seq({"a"}) PROVE "vendor" \notin Elements(u)
    BY DEF Elements
  <2>3. QED
    BY <1>5, <2>1, <2>2
<1>8. /\ "nothing" \in d.uncertainty <=> st.failed = 0 /\ st.passed = 0
      /\ "truncated" \in d.uncertainty <=> Len(fs) > MaxItems
      /\ "inferred" \in d.uncertainty <=>
           \E k \in 1 .. c : shown[k].expected = Absent \/ shown[k].received = Absent
  BY <1>5
<1>9. DOMAIN d.cases = 1 .. c /\ d.passed = st.passed /\ d.failed = st.failed
  BY <1>5
<1>10. QED
  BY <1>1, <1>3, <1>4, <1>6, <1>7, <1>8, <1>9

LEMMA TestDigestIs == TestOK(input, loop) => Summary!TestDigestKeepsFailures
<1> SUFFICES ASSUME TestOK(input, loop) PROVE Summary!TestDigestKeepsFailures
  OBVIOUS
<1>1. PICK s, st : s = input /\ st = loop
  OBVIOUS
<1>2. TestOK(s, st)
  BY <1>1
<1>3. s \in Seq(Summary!TestLines) /\ st \in TestState
  BY <1>2 DEF TestOK
<1>4. PICK fs \in Seq(FailedCase) : fs = st.failures
  BY <1>3 DEF TestState
<1>5. PICK m \in Nat : m = Len(fs)
  OBVIOUS
<1>6. PICK n \in Nat : n = Len(s)
  BY <1>3, LineStep
<1>7. PICK H \in SUBSET (1 .. n) : H = Failing(s)
  <2>1. Failing(s) \subseteq 1 .. n
    BY <1>3, <1>6 DEF Failing
  <2>2. QED
    BY <2>1
<1>8. PICK a : a = Places(fs) /\ Titles(a, m, H)
  BY <1>2, <1>4, <1>5, <1>7, Zenon DEF TestOK
<1>9. PICK c \in Nat : c = (IF m < MaxItems THEN m ELSE MaxItems) /\ c <= m
  BY ReadsAssumption
<1>10. \A k \in 1 .. m : a[k] = fs[k].at
  BY <1>5, <1>8 DEF Places
<1>11. \A k \in 1 .. c : k \in 1 .. m
  BY <1>9
<1>12. PICK d : d = Summary!compressTestOutput(loop)
  OBVIOUS
<1>13. /\ DOMAIN d.cases = 1 .. c
       /\ \A k \in 1 .. c : /\ d.cases[k].at = a[k]
                            /\ d.cases[k].expected = fs[k].expected
                            /\ d.cases[k].received = fs[k].received
                            /\ d.cases[k].frames = CutTo(fs[k].frames, FrameCap)
       /\ "vendor" \notin d.files
       /\ d.passed = st.passed /\ d.failed = st.failed
       /\ "nothing" \in d.uncertainty <=> st.failed = 0 /\ st.passed = 0
       /\ "truncated" \in d.uncertainty <=> m > MaxItems
       /\ "inferred" \in d.uncertainty <=>
            \E k \in 1 .. c : fs[k].expected = Absent \/ fs[k].received = Absent
  BY <1>1, <1>3, <1>4, <1>5, <1>9, <1>10, <1>11, <1>12, DigestOfTests
<1>14. PICK cases : cases = Earliest(a, m)
  OBVIOUS
<1>15. c = Least(m) /\ cases = {a[k] : k \in 1 .. c}
  BY <1>9, <1>14 DEF Earliest, Least
<1>16. /\ cases \subseteq H /\ Cardinality(cases) = c
       /\ \A h \in H \ cases : c = MaxItems /\ \A x \in cases : x < h
       /\ H \ cases # {} <=> m > MaxItems
       /\ cases = {d.cases[k].at : k \in DOMAIN d.cases}
  <2>1. H \in SUBSET Nat
    BY <1>6, <1>7
  <2>2. /\ Earliest(a, m) \subseteq H /\ Cardinality(Earliest(a, m)) = Least(m)
        /\ \A h \in H \ Earliest(a, m) : Least(m) = MaxItems /\ \A x \in Earliest(a, m) : x < h
        /\ H \ Earliest(a, m) # {} <=> m > MaxItems
    BY <1>5, <1>8, <2>1, FirstTitles
  <2>3. cases = {d.cases[k].at : k \in DOMAIN d.cases}
    BY <1>13, <1>15
  <2>4. QED
    BY <1>14, <1>15, <2>2, <2>3
<1>17. Summary!InOrder([k \in DOMAIN d.cases |-> d.cases[k].at])
  <2>1. \A j, k \in 1 .. c : j < k => a[j] < a[k]
    BY <1>8, <1>11 DEF Titles
  <2>2. PICK b : b = [k \in DOMAIN d.cases |-> d.cases[k].at]
    OBVIOUS
  <2>3. DOMAIN b = 1 .. c /\ \A k \in 1 .. c : b[k] = a[k]
    BY <1>13, <2>2
  <2>4. Rising(b)
    BY <2>1, <2>3 DEF Rising
  <2>5. QED
    BY <2>2, <2>4, InputIs
<1>18. ASSUME NEW k \in 1 .. c
       PROVE  /\ Summary!Below(a[k], "expected") \subseteq Nat
              /\ Summary!Below(a[k], "received") \subseteq Nat
              /\ LastIs(fs[k].expected, Summary!Below(a[k], "expected"))
              /\ LastIs(fs[k].received, Summary!Below(a[k], "received"))
              /\ fs[k].frames \in Seq(Nat) /\ Rising(fs[k].frames)
              /\ Elements(fs[k].frames) = {j \in Summary!Below(a[k], "frame") : input[j].file # "vendor"}
  <2>1. PICK h : h = a[k] /\ h = fs[k].at
    BY <1>10, <1>11
  <2>2. CaseOK(s, fs[k])
    BY <1>2, <1>4, <1>5, <1>11 DEF TestOK
  <2>3. \A x : Of(s, h, x) \subseteq Nat
    BY <1>3 DEF Of, Str
  <2>4. \A x : Summary!Below(h, x) = Of(s, h, x)
    BY <1>1, TestInputIs
  <2>5. fs[k].frames \in Seq(Nat)
    <3>1. fs[k] \in FailedCase
      BY <1>4, <1>5, <1>11
    <3>2. QED
      BY <3>1 DEF FailedCase
  <2>6. QED
    BY <1>1, <2>1, <2>2, <2>3, <2>4, <2>5 DEF CaseOK, OwnFrames
<1>19. ASSUME NEW k \in DOMAIN d.cases
       PROVE  LET e == d.cases[k] IN
              /\ e.expected = Summary!LastOf(Summary!Below(e.at, "expected"))
              /\ e.received = Summary!LastOf(Summary!Below(e.at, "received"))
              /\ Summary!InOrder(e.frames)
              /\ \A j \in Summary!ToSet(e.frames) :
                   j \in Summary!Below(e.at, "frame") /\ input[j].file # "vendor"
              /\ \A j \in Summary!Below(e.at, "frame") \ Summary!ToSet(e.frames) :
                   input[j].file # "vendor" =>
                     Len(e.frames) = FrameCap /\ \A f \in Summary!ToSet(e.frames) : f < j
  <2>1. k \in 1 .. c
    BY <1>13
  <2>2. PICK e : e = d.cases[k]
    OBVIOUS
  <2>3. PICK u \in Seq(Nat) : u = fs[k].frames /\ Rising(u)
    BY <1>18, <2>1
  <2>4. PICK v : v = CutTo(u, FrameCap)
    OBVIOUS
  <2>5. /\ Rising(v) /\ Elements(v) \subseteq Elements(u)
        /\ \A j \in Elements(u) \ Elements(v) : Len(v) = FrameCap /\ \A f \in Elements(v) : f < j
    BY <2>3, <2>4, FirstRising, ReadsAssumption
  <2>6. e.frames = v /\ e.at = a[k] /\ e.expected = fs[k].expected /\ e.received = fs[k].received
    BY <1>13, <2>1, <2>2, <2>3, <2>4
  <2>7. /\ e.expected = Summary!LastOf(Summary!Below(e.at, "expected"))
        /\ e.received = Summary!LastOf(Summary!Below(e.at, "received"))
    BY <1>18, <2>1, <2>6, LastOfIs
  <2>8. Elements(u) = {j \in Summary!Below(e.at, "frame") : input[j].file # "vendor"}
    BY <1>18, <2>1, <2>3, <2>6
  <2>9. Summary!InOrder(v) /\ Summary!ToSet(v) = Elements(v)
    BY <2>5, InputIs
  <2>10. QED
    BY <2>2, <2>5, <2>6, <2>7, <2>8, <2>9
<1>20. d.failed = Summary!Cardinality(Summary!TestHeads) /\ d.passed = Summary!Cardinality(Summary!Passing)
  BY <1>1, <1>2, <1>13, TestInputIs, InputCounts DEF TestOK
<1>21. "nothing" \in d.uncertainty <=> d.failed + d.passed = 0
  <2>1. st.failed \in Nat /\ st.passed \in Nat
    BY <1>3 DEF TestState
  <2>2. QED
    BY <1>13, <2>1
<1>22. "inferred" \in d.uncertainty <=>
         \E x \in cases : Summary!Below(x, "expected") = {} \/ Summary!Below(x, "received") = {}
  <2>1. \A k \in 1 .. c : /\ fs[k].expected = Absent <=> Summary!Below(a[k], "expected") = {}
                          /\ fs[k].received = Absent <=> Summary!Below(a[k], "received") = {}
    BY <1>18, LastOfIs
  <2>2. QED
    BY <1>13, <1>15, <2>1
<1>23. H = Summary!TestHeads
  BY <1>1, <1>7, TestInputIs
<1>24. Summary!Cardinality(cases) = c
  BY <1>16, InputCounts
<1>25. /\ cases \subseteq Summary!TestHeads
       /\ Summary!InOrder([k \in DOMAIN d.cases |-> d.cases[k].at])
       /\ \A h \in Summary!TestHeads \ cases :
            Summary!Cardinality(cases) = MaxItems /\ \A x \in cases : x < h
       /\ "truncated" \in d.uncertainty <=> Summary!TestHeads \ cases # {}
  BY <1>13, <1>16, <1>17, <1>23, <1>24
<1>26. Summary!KeepsFailures(d)
  BY <1>13, <1>16, <1>19, <1>20, <1>21, <1>22, <1>25 DEF Summary!KeepsFailures
<1>27. QED
  BY <1>12, <1>26 DEF Summary!TestDigestKeepsFailures

-----------------------------------------------------------------------------
(* compressErrorLog.                                                         *)

ErrorState == [error : Seq(Summary!ErrorLines), frame : Seq(Summary!ErrorLines),
               counts : [Summary!ErrorLines -> Nat]]

OwnIn(s) == {i \in DOMAIN s : s[i].kind # "other" /\ s[i].file # "vendor"}
Owns(s, l) == {i \in OwnIn(s) : s[i] = l}

\* The lines of a kind that are the user's.
OwnOf(s, kind) == {l \in Summary!ErrorLines : l.kind = kind /\ Owns(s, l) # {}}

Apart(u) == \A j, k \in DOMAIN u : u[j] = u[k] => j = k

ErrOK(s, st) ==
  /\ s \in Seq(Summary!ErrorLines) /\ st \in ErrorState
  /\ Apart(st.error) /\ Elements(st.error) = OwnOf(s, "error")
  /\ Apart(st.frame) /\ Elements(st.frame) = OwnOf(s, "frame")
  /\ \A l \in Summary!ErrorLines : st.counts[l] = Cardinality(Owns(s, l))

IsOwn(l) == l.kind # "other" /\ l.file # "vendor"

LEMMA ErrorLineKind == \A l \in Summary!ErrorLines : l.kind \in {"error", "frame", "other"}
BY DEF Summary!ErrorLines

LEMMA OwnsStep ==
  ASSUME NEW s \in Seq(Summary!ErrorLines), NEW l \in Summary!ErrorLines,
         NEW x \in Summary!ErrorLines
  PROVE  /\ Owns(s, x) \in SUBSET (1 .. Len(s))
         /\ Owns(Append(s, l), x) = IF IsOwn(l) /\ x = l THEN Owns(s, x) \cup {Len(s) + 1} ELSE Owns(s, x)
<1>1. PICK n \in Nat : n = Len(s)
  BY LineStep
<1>2. PICK d : d = Append(s, l)
  OBVIOUS
<1>3. /\ DOMAIN s = 1 .. n /\ DOMAIN d = 1 .. n + 1 /\ d[n + 1] = l
      /\ \A i \in 1 .. n : d[i] = s[i]
  BY <1>1, <1>2, LineStep
<1>4. \A i \in 1 .. n + 1 : i \in 1 .. n \/ i = n + 1
  OBVIOUS
<1>5. n + 1 \in 1 .. n + 1 /\ n + 1 \notin 1 .. n /\ \A i \in 1 .. n : i \in 1 .. n + 1
  OBVIOUS
<1>6. Owns(d, x) = IF IsOwn(l) /\ x = l THEN Owns(s, x) \cup {n + 1} ELSE Owns(s, x)
  BY <1>3, <1>4, <1>5 DEF Owns, OwnIn, IsOwn
<1>7. Owns(s, x) \subseteq 1 .. n
  BY <1>3 DEF Owns, OwnIn
<1>8. QED
  BY <1>1, <1>2, <1>6, <1>7

LEMMA OwnOfStep ==
  ASSUME NEW s \in Seq(Summary!ErrorLines), NEW l \in Summary!ErrorLines, NEW kind
  PROVE  OwnOf(Append(s, l), kind) =
           IF IsOwn(l) /\ l.kind = kind THEN OwnOf(s, kind) \cup {l} ELSE OwnOf(s, kind)
BY OwnsStep DEF OwnOf

\* What is kept once.
LEMMA PushedIs ==
  ASSUME NEW S, NEW u \in Seq(S), NEW x \in S, Apart(u)
  PROVE  LET v == Summary!Pushed(u, x) IN
         v \in Seq(S) /\ Apart(v) /\ Elements(v) = Elements(u) \cup {x}
<1>1. Summary!ToSet(u) = Elements(u)
  BY DEF Summary!ToSet, Elements
<1>2. CASE x \in Elements(u)
  <2>1. Summary!Pushed(u, x) = u
    BY <1>1, <1>2 DEF Summary!Pushed
  <2>2. QED
    BY <1>2, <2>1
<1>3. CASE x \notin Elements(u)
  <2>1. PICK v : v = Append(u, x) /\ v = Summary!Pushed(u, x)
    BY <1>1, <1>3 DEF Summary!Pushed
  <2>2. PICK m \in Nat : m = Len(u) /\ DOMAIN u = 1 .. m
    OBVIOUS
  <2>3. /\ v \in Seq(S) /\ DOMAIN v = 1 .. m + 1 /\ v[m + 1] = x
        /\ \A k \in 1 .. m : v[k] = u[k]
    <3>1. /\ Append(u, x) \in Seq(S) /\ DOMAIN Append(u, x) = 1 .. Len(u) + 1
          /\ Append(u, x)[Len(u) + 1] = x /\ \A k \in 1 .. Len(u) : Append(u, x)[k] = u[k]
      BY LineStep
    <3>2. QED
      BY <2>1, <2>2, <3>1
  <2>4. \A k \in 1 .. m + 1 : k \in 1 .. m \/ k = m + 1
    OBVIOUS
  <2>5. m + 1 \in 1 .. m + 1 /\ \A k \in 1 .. m : k \in 1 .. m + 1
    OBVIOUS
  <2>6. \A k \in 1 .. m : u[k] # x
    BY <1>3, <2>2 DEF Elements
  <2>7. Apart(v)
    BY <2>2, <2>3, <2>4, <2>6 DEF Apart
  <2>8. Elements(v) = Elements(u) \cup {x}
    BY <2>2, <2>3, <2>4, <2>5 DEF Elements
  <2>9. QED
    BY <2>1, <2>3, <2>7, <2>8
<1>4. QED
  BY <1>2, <1>3

\* Without any line nothing is kept.
LEMMA NoErrorsOK == ErrOK(<< >>, Summary!NoErrors)
<1>1. PICK none : none = << >> /\ none \in Seq(Summary!ErrorLines) /\ DOMAIN none = {}
  <2>1. << >> \in Seq(Summary!ErrorLines) /\ DOMAIN << >> = {}
    OBVIOUS
  <2>2. QED
    BY <2>1, Zenon
<1>2. PICK st : st = [error |-> none, frame |-> none, counts |-> [l \in Summary!ErrorLines |-> 0]]
  OBVIOUS
<1>3. st \in ErrorState /\ st.error = none /\ st.frame = none
      /\ \A l \in Summary!ErrorLines : st.counts[l] = 0
  BY <1>1, <1>2 DEF ErrorState
<1>4. \A l : Owns(none, l) = {}
  BY <1>1 DEF Owns, OwnIn
<1>5. Apart(none) /\ Elements(none) = {} /\ \A kind : OwnOf(none, kind) = {}
  BY <1>1, <1>4 DEF Apart, Elements, OwnOf
<1>6. ErrOK(none, st)
  BY <1>1, <1>3, <1>4, <1>5, FS_EmptySet DEF ErrOK
<1>7. QED
  BY <1>1, <1>2, <1>6 DEF Summary!NoErrors

LEMMA ErrorStep ==
  ASSUME NEW s, NEW st, ErrOK(s, st), NEW l \in Summary!ErrorLines
  PROVE  ErrOK(Append(s, l), Summary!ErrorLine(st, l, Len(s) + 1))
<1>1. s \in Seq(Summary!ErrorLines) /\ st \in ErrorState
  BY DEF ErrOK
<1>2. PICK d : d = Append(s, l) /\ d \in Seq(Summary!ErrorLines)
  BY <1>1, LineStep
<1>3. PICK nx : nx = Summary!ErrorLine(st, l, Len(s) + 1)
  OBVIOUS
<1>4. PICK E, F \in Seq(Summary!ErrorLines), g \in [Summary!ErrorLines -> Nat] :
        st.error = E /\ st.frame = F /\ st.counts = g
  BY <1>1 DEF ErrorState
<1>5. st = [error |-> E, frame |-> F, counts |-> g]
  BY <1>1, <1>4 DEF ErrorState
<1>6. CASE ~ IsOwn(l)
  <2>1. nx = st
    BY <1>3, <1>6 DEF IsOwn, Summary!ErrorLine
  <2>2. \A x \in Summary!ErrorLines : Owns(d, x) = Owns(s, x)
    BY <1>1, <1>2, <1>6, OwnsStep
  <2>3. \A kind : OwnOf(d, kind) = OwnOf(s, kind)
    BY <1>1, <1>2, <1>6, OwnOfStep
  <2>4. ErrOK(d, nx)
    BY <1>2, <2>1, <2>2, <2>3 DEF ErrOK
  <2>5. QED
    BY <1>2, <1>3, <2>4
<1>7. CASE IsOwn(l)
  <2>1. PICK h : h = [g EXCEPT ![l] = g[l] + 1]
    OBVIOUS
  <2>2. h \in [Summary!ErrorLines -> Nat]
        /\ \A x \in Summary!ErrorLines : h[x] = IF x = l THEN g[l] + 1 ELSE g[x]
    BY <2>1
  <2>3. ASSUME NEW x \in Summary!ErrorLines PROVE h[x] = Cardinality(Owns(d, x))
    <3>1. g[x] = Cardinality(Owns(s, x))
      BY <1>4 DEF ErrOK
    <3>2. Owns(s, x) \in SUBSET (1 .. Len(s)) /\ Len(s) \in Nat
      BY <1>1, OwnsStep
    <3>3. Cardinality(Owns(s, x) \cup {Len(s) + 1}) = Cardinality(Owns(s, x)) + 1
      BY <3>2, LineSets
    <3>4. Owns(d, x) = IF x = l THEN Owns(s, x) \cup {Len(s) + 1} ELSE Owns(s, x)
      BY <1>1, <1>2, <1>7, OwnsStep
    <3>5. QED
      BY <2>2, <3>1, <3>3, <3>4
  <2>4. /\ Apart(E) /\ Elements(E) = OwnOf(s, "error")
        /\ Apart(F) /\ Elements(F) = OwnOf(s, "frame")
    BY <1>4 DEF ErrOK
  <2>5. \A kind : OwnOf(d, kind) = IF l.kind = kind THEN OwnOf(s, kind) \cup {l} ELSE OwnOf(s, kind)
    BY <1>1, <1>2, <1>7, OwnOfStep
  <2>6. CASE l.kind = "error"
    <3>1. PICK v : v = Summary!Pushed(E, l)
      OBVIOUS
    <3>2. v \in Seq(Summary!ErrorLines) /\ Apart(v) /\ Elements(v) = OwnOf(s, "error") \cup {l}
      BY <2>4, <3>1, PushedIs
    <3>3. nx = [st EXCEPT !["error"] = v, !["counts"] = h]
      BY <1>3, <1>4, <1>7, <2>1, <2>6, <3>1 DEF IsOwn, Summary!ErrorLine
    <3>4. nx = [error |-> v, frame |-> F, counts |-> h]
      BY <1>5, <3>3
    <3>5. nx \in ErrorState /\ nx.error = v /\ nx.frame = F /\ nx.counts = h
      BY <2>2, <3>2, <3>4 DEF ErrorState
    <3>6. ErrOK(d, nx)
      BY <1>2, <2>3, <2>4, <2>5, <2>6, <3>2, <3>5 DEF ErrOK
    <3>7. QED
      BY <1>2, <1>3, <3>6
  <2>7. CASE l.kind = "frame"
    <3>1. PICK v : v = Summary!Pushed(F, l)
      OBVIOUS
    <3>2. v \in Seq(Summary!ErrorLines) /\ Apart(v) /\ Elements(v) = OwnOf(s, "frame") \cup {l}
      BY <2>4, <3>1, PushedIs
    <3>3. nx = [st EXCEPT !["frame"] = v, !["counts"] = h]
      BY <1>3, <1>4, <1>7, <2>1, <2>7, <3>1 DEF IsOwn, Summary!ErrorLine
    <3>4. nx = [error |-> E, frame |-> v, counts |-> h]
      BY <1>5, <3>3
    <3>5. nx \in ErrorState /\ nx.error = E /\ nx.frame = v /\ nx.counts = h
      BY <2>2, <3>2, <3>4 DEF ErrorState
    <3>6. ErrOK(d, nx)
      BY <1>2, <2>3, <2>4, <2>5, <2>7, <3>2, <3>5 DEF ErrOK
    <3>7. QED
      BY <1>2, <1>3, <3>6
  <2>8. QED
    BY <1>7, <2>6, <2>7, ErrorLineKind DEF IsOwn
<1>8. QED
  BY <1>6, <1>7

LEMMA ConcatIs ==
  ASSUME NEW S, NEW E \in Seq(S), NEW F \in Seq(S)
  PROVE  LET e == Len(E)  f == Len(F)  w == E \o F IN
         /\ w \in Seq(S) /\ DOMAIN w = 1 .. e + f
         /\ \A k \in 1 .. e : w[k] = E[k]
         /\ \A k \in 1 .. e + f : k > e => w[k] = F[k - e] /\ k - e \in 1 .. f
         /\ \A k \in 1 .. f : e + k \in 1 .. e + f /\ w[e + k] = F[k]
BY ConcatProperties

FramesLast(u) == \A j, k \in DOMAIN u : j < k /\ u[j].kind = "frame" => u[k].kind = "frame"

\* Errors and then frames: none twice, all of them, and no error after a frame.
LEMMA RankedIs ==
  ASSUME NEW s, NEW st, ErrOK(s, st), NEW u, u = st.error \o st.frame
  PROVE  /\ u \in Seq(Summary!ErrorLines) /\ Apart(u)
         /\ Elements(u) = {s[i] : i \in OwnIn(s)}
         /\ FramesLast(u)
<1>1. s \in Seq(Summary!ErrorLines) /\ st \in ErrorState
  BY DEF ErrOK
<1>2. PICK E, F \in Seq(Summary!ErrorLines) : st.error = E /\ st.frame = F
  BY <1>1 DEF ErrorState
<1>3. PICK e \in Nat : e = Len(E) /\ DOMAIN E = 1 .. e
  OBVIOUS
<1>4. PICK f \in Nat : f = Len(F) /\ DOMAIN F = 1 .. f
  OBVIOUS
<1>5. PICK w : w = u
  OBVIOUS
<1>6. /\ w \in Seq(Summary!ErrorLines) /\ DOMAIN w = 1 .. e + f
      /\ \A k \in 1 .. e : w[k] = E[k]
      /\ \A k \in 1 .. e + f : k > e => w[k] = F[k - e] /\ k - e \in 1 .. f
      /\ \A k \in 1 .. f : e + k \in 1 .. e + f /\ w[e + k] = F[k]
  <2>1. PICK x : x = E \o F /\ x \in Seq(Summary!ErrorLines) /\ DOMAIN x = 1 .. e + f
    BY <1>3, <1>4, ConcatIs
  <2>2. /\ \A k \in 1 .. e : x[k] = E[k]
        /\ \A k \in 1 .. e + f : k > e => x[k] = F[k - e] /\ k - e \in 1 .. f
    BY <1>3, <1>4, <2>1, ConcatIs
  <2>3. \A k \in 1 .. f : e + k \in 1 .. e + f /\ x[e + k] = F[k]
    BY <1>3, <1>4, <2>1, ConcatIs
  <2>4. x = w
    BY <1>2, <1>5, <2>1
  <2>5. QED
    BY <2>1, <2>2, <2>3, <2>4
<1>8. \A k \in 1 .. e : E[k] \in Elements(E) /\ E[k].kind = "error"
  BY <1>2, <1>3 DEF ErrOK, Elements, OwnOf
<1>9. \A k \in 1 .. f : F[k] \in Elements(F) /\ F[k].kind = "frame"
  BY <1>2, <1>4 DEF ErrOK, Elements, OwnOf
<1>10. \A k \in 1 .. e + f : (k \in 1 .. e /\ w[k].kind = "error") \/ (k > e /\ w[k].kind = "frame")
  <2>1. SUFFICES ASSUME NEW k \in 1 .. e + f
                 PROVE (k \in 1 .. e /\ w[k].kind = "error") \/ (k > e /\ w[k].kind = "frame")
    OBVIOUS
  <2>2. k \in Int /\ (k \in 1 .. e \/ k > e)
    BY <1>3, <1>4, <2>1
  <2>3. CASE k \in 1 .. e
    <3>1. w[k] = E[k] /\ E[k].kind = "error"
      BY <1>6, <1>8, <2>3
    <3>2. QED
      BY <2>3, <3>1
  <2>4. CASE k > e
    <3>1. w[k] = F[k - e] /\ k - e \in 1 .. f
      BY <1>6, <2>1, <2>4
    <3>2. F[k - e].kind = "frame"
      BY <1>9, <3>1
    <3>3. QED
      BY <2>4, <3>1, <3>2
  <2>5. QED
    BY <2>2, <2>3, <2>4
<1>11. ASSUME NEW j \in 1 .. e + f, NEW k \in 1 .. e + f, w[j] = w[k] PROVE j = k
  <2>1. CASE j \in 1 .. e /\ k \in 1 .. e
    <3>1. E[j] = E[k]
      BY <1>6, <1>11, <2>1
    <3>2. QED
      BY <1>2, <1>3, <2>1, <3>1 DEF ErrOK, Apart
  <2>2. CASE j > e /\ k > e
    <3>1. j - e \in 1 .. f /\ k - e \in 1 .. f /\ F[j - e] = F[k - e]
      BY <1>6, <1>11, <2>2
    <3>2. j - e = k - e
      BY <1>2, <1>4, <3>1 DEF ErrOK, Apart
    <3>3. QED
      BY <1>3, <1>4, <3>2
  <2>3. QED
    BY <1>10, <1>11, <2>1, <2>2
<1>12. Elements(w) = Elements(E) \cup Elements(F)
  <2>1. \A k \in 1 .. e : k \in 1 .. e + f
    BY <1>3, <1>4
  <2>2. Elements(E) \cup Elements(F) \subseteq Elements(w)
    <3>1. ASSUME NEW k \in DOMAIN E PROVE E[k] \in Elements(w)
      BY <1>3, <1>6, <2>1, <3>1 DEF Elements
    <3>2. ASSUME NEW k \in DOMAIN F PROVE F[k] \in Elements(w)
      BY <1>4, <1>6, <3>2 DEF Elements
    <3>3. QED
      BY <3>1, <3>2 DEF Elements
  <2>3. ASSUME NEW k \in 1 .. e + f PROVE w[k] \in Elements(E) \cup Elements(F)
    BY <1>6, <1>8, <1>9, <1>10
  <2>4. QED
    BY <1>6, <2>2, <2>3 DEF Elements
<1>13. OwnOf(s, "error") \cup OwnOf(s, "frame") = {s[i] : i \in OwnIn(s)}
  <2>1. \A i \in OwnIn(s) : s[i] \in Summary!ErrorLines /\ s[i].kind \in {"error", "frame"}
    BY <1>1, ErrorLineKind DEF OwnIn
  <2>2. QED
    BY <2>1 DEF OwnOf, Owns
<1>14. Elements(w) = {s[i] : i \in OwnIn(s)}
  BY <1>2, <1>12, <1>13 DEF ErrOK
<1>15. ASSUME NEW j \in 1 .. e + f, NEW k \in 1 .. e + f, j < k, w[j].kind = "frame"
       PROVE  w[k].kind = "frame"
  <2>1. j > e
    BY <1>10, <1>15
  <2>2. k > e
    BY <1>3, <1>15, <2>1
  <2>3. k \notin 1 .. e
    BY <1>3, <2>2
  <2>4. QED
    BY <1>10, <2>3
<1>16. /\ w \in Seq(Summary!ErrorLines) /\ Apart(w)
       /\ Elements(w) = {s[i] : i \in OwnIn(s)}
       /\ FramesLast(w)
  BY <1>6, <1>11, <1>14, <1>15 DEF Apart, FramesLast
<1>17. QED
  BY <1>5, <1>16, Zenon

LEMMA ErrorDigestIs == ErrOK(input, loop) => Summary!ErrorDigestCounts
<1> SUFFICES ASSUME ErrOK(input, loop) PROVE Summary!ErrorDigestCounts
  OBVIOUS
<1>1. PICK s, st : s = input /\ st = loop
  OBVIOUS
<1>2. ErrOK(s, st)
  BY <1>1
<1>3. s \in Seq(Summary!ErrorLines) /\ st \in ErrorState
  BY <1>2 DEF ErrOK
<1>4. PICK u : u = st.error \o st.frame
  OBVIOUS
<1>5. /\ u \in Seq(Summary!ErrorLines) /\ Apart(u)
      /\ Elements(u) = {s[i] : i \in OwnIn(s)}
      /\ FramesLast(u)
  <2>1. u \in Seq(Summary!ErrorLines) /\ Apart(u)
    BY <1>2, <1>4, RankedIs
  <2>2. Elements(u) = {s[i] : i \in OwnIn(s)}
    BY <1>2, <1>4, RankedIs, Zenon
  <2>3. FramesLast(u)
    BY <1>2, <1>4, RankedIs
  <2>4. QED
    BY <2>1, <2>2, <2>3
<1>6. PICK m \in Nat : m = Len(u) /\ DOMAIN u = 1 .. m
  BY <1>5
<1>7. PICK v : v = CutTo(u, MaxItems)
  OBVIOUS
<1>8. PICK c \in Nat : /\ c = (IF m < MaxItems THEN m ELSE MaxItems) /\ c = Len(v)
                       /\ DOMAIN v = 1 .. c
                       /\ \A k \in 1 .. c : v[k] = u[k]
  <2>1. PICK w : w = CutTo(u, MaxItems) /\ w \in Seq(Summary!ErrorLines)
                 /\ Len(w) = (IF m < MaxItems THEN m ELSE MaxItems) /\ DOMAIN w = 1 .. Len(w)
    BY <1>5, <1>6, CutIs, ReadsAssumption
  <2>2. \A k \in 1 .. Len(w) : w[k] = u[k]
    BY <1>5, <2>1, CutIs, ReadsAssumption
  <2>3. Len(w) \in Nat
    BY <1>6, <2>1, ReadsAssumption
  <2>4. QED
    BY <1>7, <2>1, <2>2, <2>3
<1>9. \A k \in 1 .. c : k \in 1 .. m
  BY <1>8, ReadsAssumption
<1>10. PICK d : d = Summary!compressErrorLog(loop)
  OBVIOUS
<1>11. d = [errors |-> [k \in 1 .. c |-> [line |-> v[k], repeated |-> st.counts[v[k]]]],
            uncertainty |->
              {x \in {"nothing", "inferred", "truncated"} :
                 \/ x = "nothing" /\ u = << >>
                 \/ x = "inferred" /\ st.error = << >> /\ st.frame # << >>
                 \/ x = "truncated" /\ c = MaxItems}]
  <2>1. Summary!FirstItems(u) = v
    BY <1>7, InputIs
  <2>2. QED
    BY <1>1, <1>4, <1>8, <1>10, <2>1 DEF Summary!compressErrorLog
<1>12. /\ DOMAIN d.errors = 1 .. c
       /\ \A k \in 1 .. c : d.errors[k].line = u[k] /\ d.errors[k].repeated = st.counts[u[k]]
       /\ "nothing" \in d.uncertainty <=> u = << >>
       /\ "truncated" \in d.uncertainty <=> c = MaxItems
  BY <1>8, <1>11
<1>13. PICK items : items = {d.errors[k].line : k \in DOMAIN d.errors}
  OBVIOUS
<1>14. items = {u[k] : k \in 1 .. c}
  BY <1>12, <1>13
<1>15. Summary!OwnErrors = OwnIn(s) /\ \A x : Owns(s, x) = {i \in Summary!OwnErrors : input[i] = x}
  BY <1>1 DEF Summary!OwnErrors, OwnIn, Owns
<1>16. \A j, k \in DOMAIN d.errors : d.errors[j].line = d.errors[k].line => j = k
  <2>1. SUFFICES ASSUME NEW j \in 1 .. c, NEW k \in 1 .. c, u[j] = u[k] PROVE j = k
    BY <1>12
  <2>2. QED
    BY <1>5, <1>6, <1>9, <2>1 DEF Apart
<1>17. items \subseteq {input[i] : i \in Summary!OwnErrors}
  <2>1. ASSUME NEW k \in 1 .. c PROVE u[k] \in {s[i] : i \in OwnIn(s)}
    <3>1. u[k] \in Elements(u)
      BY <1>6, <1>9 DEF Elements
    <3>2. QED
      BY <1>5, <3>1
  <2>2. QED
    BY <1>1, <1>14, <1>15, <2>1
<1>18. ASSUME NEW k \in DOMAIN d.errors
       PROVE  d.errors[k].repeated =
                Summary!Cardinality({i \in Summary!OwnErrors : input[i] = d.errors[k].line})
  <2>1. PICK x \in Summary!ErrorLines : x = u[k]
    BY <1>5, <1>6, <1>9, <1>12
  <2>2. st.counts[x] = Cardinality(Owns(s, x))
    BY <1>2 DEF ErrOK
  <2>3. QED
    BY <1>12, <1>15, <2>1, <2>2, InputCounts
<1>19. ASSUME NEW i \in Summary!OwnErrors, input[i] \notin items
       PROVE  \E k \in 1 .. m : k > c /\ u[k] = input[i] /\ c = MaxItems
  <2>1. PICK k \in 1 .. m : u[k] = input[i]
    BY <1>1, <1>5, <1>6, <1>15 DEF Elements
  <2>2. k \notin 1 .. c
    BY <1>14, <1>19, <2>1
  <2>3. k > c /\ c = MaxItems
    BY <1>8, <2>2, ReadsAssumption
  <2>4. QED
    BY <2>1, <2>3
<1>20. ASSUME NEW l \in items, l.kind = "frame", NEW i \in Summary!OwnErrors, input[i] \notin items
       PROVE  input[i].kind = "frame"
  <2>1. PICK k \in 1 .. m : k > c /\ u[k] = input[i]
    BY <1>19, <1>20
  <2>2. PICK j \in 1 .. c : u[j] = l
    BY <1>14
  <2>3. j < k /\ j \in 1 .. m
    BY <1>9, <2>1, <2>2
  <2>4. QED
    BY <1>5, <1>6, <1>20, <2>1, <2>2, <2>3 DEF FramesLast
<1>21. "nothing" \in d.uncertainty <=> Summary!OwnErrors = {}
  <2>1. u = << >> <=> m = 0
    BY <1>6
  <2>2. m = 0 <=> Elements(u) = {}
    <3>1. m # 0 => 1 \in 1 .. m
      OBVIOUS
    <3>2. m = 0 => 1 .. m = {}
      OBVIOUS
    <3>3. QED
      BY <1>6, <3>1, <3>2 DEF Elements
  <2>3. Elements(u) = {} <=> OwnIn(s) = {}
    BY <1>5
  <2>4. QED
    BY <1>12, <1>15, <2>1, <2>2, <2>3
<1>22. PICK left : left = {i \in Summary!OwnErrors : input[i] \notin items}
  OBVIOUS
<1>23. /\ \A l \in items, i \in left : l.kind = "frame" => input[i].kind = "frame"
       /\ left # {} => "truncated" \in d.uncertainty
  BY <1>12, <1>19, <1>20, <1>22
<1>24. Summary!CountsErrors(d)
  BY <1>13, <1>16, <1>17, <1>18, <1>21, <1>22, <1>23 DEF Summary!CountsErrors
<1>25. QED
  BY <1>10, <1>24 DEF Summary!ErrorDigestCounts

-----------------------------------------------------------------------------
(* cleanContext.                                                             *)

KeptLine == [line : Summary!CleanLines, marked : BOOLEAN]
CleanState == [kept : Seq(KeptLine), noise : Nat, repeated : Nat, warnings : Seq(Nat),
               seen : [Summary!CleanLines -> Nat]]

LinesLike(s, x) == {i \in DOMAIN s : s[i] = x}
KeptIn(K, x) == {k \in DOMAIN K : K[k].line = x}

\* The lines that warn and are kept unmarked.
EarlierIn(s, i) == {j \in DOMAIN s : j < i /\ s[j] = s[i]}
WarnedIn(s) == {i \in DOMAIN s : s[i].text # "noise" /\ s[i].warns /\ Cardinality(EarlierIn(s, i)) < 2}

\* How often a line was met and kept, and which of its copies is marked.
LineOK(s, K, g, x) ==
  /\ LinesLike(s, x) # {} /\ x.text # "noise" => KeptIn(K, x) # {}
  /\ x.text \notin {"noise", "blank"} =>
       /\ g[x] = Cardinality(LinesLike(s, x))
       /\ Cardinality(KeptIn(K, x)) <= g[x] /\ Cardinality(KeptIn(K, x)) <= 3
       /\ \A k \in KeptIn(K, x) : K[k].marked => g[x] > 2
  /\ x.text = "blank" => \A k \in KeptIn(K, x) : ~ K[k].marked
  /\ \A k \in KeptIn(K, x) : K[k].marked => \A j \in KeptIn(K, x) : j <= k

\* The first of a set of places, up to the limit.
FirstOf(w, S) ==
  /\ w \in Seq(Nat) /\ Len(w) <= MaxItems /\ Rising(w) /\ Elements(w) \subseteq S
  /\ \A i \in S \ Elements(w) : Len(w) = MaxItems /\ \A e \in Elements(w) : e < i

CleanOK(s, st) ==
  /\ s \in Seq(Summary!CleanLines) /\ st \in CleanState
  /\ Len(st.kept) + st.noise + st.repeated = Len(s)
  /\ \A x \in Summary!CleanLines : LineOK(s, st.kept, st.seen, x)
  /\ FirstOf(st.warnings, WarnedIn(s))

LEMMA CleanLineIs ==
  ASSUME NEW l \in Summary!CleanLines
  PROVE  /\ l.text \in {"noise", "x", "y", "blank"} /\ l.warns \in BOOLEAN
         /\ l.text = "blank" => ~ l.warns
BY DEF Summary!CleanLines

\* What a line does to the loop's variables.
Drops(st, l) == l.text \notin {"noise", "blank"} /\ st.seen[l] > 2
Marks(st, l) == l.text \notin {"noise", "blank"} /\ st.seen[l] = 2
Shows(st, l) ==
  l.text # "noise" /\ ~ Drops(st, l) /\ ~ Marks(st, l) /\ l.warns /\ Len(st.warnings) < MaxItems

LEMMA CleanTurn ==
  ASSUME NEW st \in CleanState, NEW l \in Summary!CleanLines, NEW i \in Nat
  PROVE  Summary!CleanLine(st, l, i) =
           [kept |-> IF l.text # "noise" /\ ~ Drops(st, l)
                     THEN Append(st.kept, [line |-> l, marked |-> Marks(st, l)]) ELSE st.kept,
            noise |-> IF l.text = "noise" THEN st.noise + 1 ELSE st.noise,
            repeated |-> IF Drops(st, l) THEN st.repeated + 1 ELSE st.repeated,
            warnings |-> IF Shows(st, l) THEN Append(st.warnings, i) ELSE st.warnings,
            seen |-> IF l.text \in {"noise", "blank"} THEN st.seen
                     ELSE [st.seen EXCEPT ![l] = st.seen[l] + 1]]
<1>1. PICK K, w, g, a, r : /\ K = st.kept /\ w = st.warnings /\ g = st.seen
                           /\ a = st.noise /\ r = st.repeated
  OBVIOUS
<1>2. st = [kept |-> K, noise |-> a, repeated |-> r, warnings |-> w, seen |-> g]
  BY <1>1 DEF CleanState
<1>3. g[l] \in Nat
  BY <1>1 DEF CleanState
<1>4. PICK nx : nx = Summary!CleanLine(st, l, i)
  OBVIOUS
<1>5. PICK h : h = [g EXCEPT ![l] = g[l] + 1]
  OBVIOUS
<1>6. CASE l.text = "noise"
  <2>1. nx = [st EXCEPT !.noise = st.noise + 1]
    BY <1>4, <1>6 DEF Summary!CleanLine
  <2>2. nx = [kept |-> K, noise |-> a + 1, repeated |-> r, warnings |-> w, seen |-> g]
    BY <1>1, <1>2, <2>1
  <2>3. QED
    BY <1>1, <1>4, <1>6, <2>2 DEF Drops, Shows
<1>7. CASE Drops(st, l)
  <2>1. nx = [st EXCEPT !.seen = h, !.repeated = st.repeated + 1]
    BY <1>1, <1>4, <1>5, <1>7 DEF Drops, Summary!CleanLine
  <2>2. nx = [kept |-> K, noise |-> a, repeated |-> r + 1, warnings |-> w, seen |-> h]
    BY <1>1, <1>2, <2>1
  <2>3. QED
    BY <1>1, <1>4, <1>5, <1>7, <2>2 DEF Drops, Shows
<1>8. CASE Marks(st, l)
  <2>1. nx = [st EXCEPT !.seen = h, !.kept = Append(K, [line |-> l, marked |-> TRUE])]
    BY <1>1, <1>3, <1>4, <1>5, <1>8 DEF Marks, Summary!CleanLine
  <2>2. nx = [kept |-> Append(K, [line |-> l, marked |-> TRUE]), noise |-> a, repeated |-> r,
              warnings |-> w, seen |-> h]
    BY <1>1, <1>2, <2>1
  <2>3. ~ Drops(st, l) /\ ~ Shows(st, l) /\ l.text \notin {"noise", "blank"}
    BY <1>8 DEF Drops, Marks, Shows
  <2>4. [line |-> l, marked |-> Marks(st, l)] = [line |-> l, marked |-> TRUE]
    BY <1>8, Zenon
  <2>5. QED
    BY <1>1, <1>4, <1>5, <2>2, <2>3, <2>4
<1>9. CASE l.text # "noise" /\ ~ Drops(st, l) /\ ~ Marks(st, l)
  <2>1. PICK v : v = IF Shows(st, l) THEN Append(w, i) ELSE w
    OBVIOUS
  <2>2. v = IF l.warns /\ Len(w) < MaxItems THEN Append(w, i) ELSE w
    BY <1>1, <1>9, <2>1 DEF Shows
  <2>3. PICK q : q = IF l.text = "blank" THEN g ELSE h
    OBVIOUS
  <2>5. nx = [kept |-> Append(K, [line |-> l, marked |-> FALSE]), noise |-> a, repeated |-> r,
              warnings |-> v, seen |-> q]
    <3>1. CASE l.text = "blank"
      <4>1. nx = [st EXCEPT !.kept = Append(st.kept, [line |-> l, marked |-> FALSE]),
                            !.warnings = IF l.warns /\ Len(st.warnings) < MaxItems
                                         THEN Append(st.warnings, i) ELSE st.warnings]
        BY <1>4, <3>1 DEF Summary!CleanLine
      <4>2. nx = [st EXCEPT !.kept = Append(K, [line |-> l, marked |-> FALSE]), !.warnings = v]
        BY <1>1, <2>2, <4>1
      <4>3. QED
        BY <1>2, <2>3, <3>1, <4>2
    <3>2. CASE l.text # "blank"
      <4>1. ~ g[l] > 2 /\ g[l] # 2
        BY <1>1, <1>9, <3>2 DEF Drops, Marks
      <4>2. PICK sh : sh = [st EXCEPT !.seen = h]
        OBVIOUS
      <4>3. nx = [sh EXCEPT !.kept = Append(K, [line |-> l, marked |-> FALSE]), !.warnings = v]
        BY <1>1, <1>2, <1>4, <1>5, <1>9, <2>2, <3>2, <4>1, <4>2 DEF Summary!CleanLine
      <4>4. sh = [kept |-> K, noise |-> a, repeated |-> r, warnings |-> w, seen |-> h]
        BY <1>2, <4>2
      <4>5. QED
        BY <2>3, <3>2, <4>3, <4>4
    <3>3. QED
      BY <3>1, <3>2
  <2>6. [line |-> l, marked |-> Marks(st, l)] = [line |-> l, marked |-> FALSE]
    <3>1. Marks(st, l) = FALSE
      BY <1>9 DEF Marks
    <3>2. QED
      BY <3>1
  <2>7. q = IF l.text \in {"noise", "blank"} THEN g ELSE h
    BY <1>9, <2>3
  <2>8. QED
    BY <1>1, <1>4, <1>5, <1>9, <2>1, <2>5, <2>6, <2>7
<1>10. QED
  BY <1>6, <1>7, <1>8, <1>9

\* The copies of a line, with one more line.
LEMMA LikeStep ==
  ASSUME NEW s \in Seq(Summary!CleanLines), NEW l \in Summary!CleanLines, NEW x
  PROVE  /\ LinesLike(s, x) \in SUBSET (1 .. Len(s))
         /\ LinesLike(Append(s, l), x) =
              IF x = l THEN LinesLike(s, x) \cup {Len(s) + 1} ELSE LinesLike(s, x)
<1>1. PICK n \in Nat : n = Len(s)
  BY LineStep
<1>2. PICK d : d = Append(s, l)
  OBVIOUS
<1>3. /\ DOMAIN s = 1 .. n /\ DOMAIN d = 1 .. n + 1 /\ d[n + 1] = l
      /\ \A i \in 1 .. n : d[i] = s[i]
  BY <1>1, <1>2, LineStep
<1>4. \A i \in 1 .. n + 1 : i \in 1 .. n \/ i = n + 1
  OBVIOUS
<1>5. n + 1 \in 1 .. n + 1 /\ n + 1 \notin 1 .. n /\ \A i \in 1 .. n : i \in 1 .. n + 1
  OBVIOUS
<1>6. LinesLike(d, x) = IF x = l THEN LinesLike(s, x) \cup {n + 1} ELSE LinesLike(s, x)
  BY <1>3, <1>4, <1>5 DEF LinesLike
<1>7. LinesLike(s, x) \subseteq 1 .. n
  BY <1>3 DEF LinesLike
<1>8. QED
  BY <1>1, <1>2, <1>6, <1>7

LEMMA KeptStep ==
  ASSUME NEW K \in Seq(KeptLine), NEW e \in KeptLine, NEW x
  PROVE  LET m == Len(K)  J == Append(K, e) IN
         /\ m \in Nat /\ KeptIn(K, x) \in SUBSET (1 .. m)
         /\ KeptIn(J, x) = IF x = e.line THEN KeptIn(K, x) \cup {m + 1} ELSE KeptIn(K, x)
         /\ J[m + 1] = e /\ \A k \in 1 .. m : J[k] = K[k]
<1>1. PICK m \in Nat : m = Len(K)
  BY LineStep
<1>2. PICK J : J = Append(K, e)
  OBVIOUS
<1>3. /\ DOMAIN K = 1 .. m /\ DOMAIN J = 1 .. m + 1 /\ J[m + 1] = e
      /\ \A i \in 1 .. m : J[i] = K[i]
  BY <1>1, <1>2, LineStep
<1>4. \A i \in 1 .. m + 1 : i \in 1 .. m \/ i = m + 1
  OBVIOUS
<1>5. m + 1 \in 1 .. m + 1 /\ m + 1 \notin 1 .. m /\ \A i \in 1 .. m : i \in 1 .. m + 1
  OBVIOUS
<1>6. KeptIn(J, x) = IF x = e.line THEN KeptIn(K, x) \cup {m + 1} ELSE KeptIn(K, x)
  BY <1>3, <1>4, <1>5 DEF KeptIn
<1>7. KeptIn(K, x) \subseteq 1 .. m
  BY <1>3 DEF KeptIn
<1>8. QED
  BY <1>1, <1>2, <1>3, <1>6, <1>7

\* Another line changes nothing for x.
LEMMA OtherLine ==
  ASSUME NEW s \in Seq(Summary!CleanLines), NEW l \in Summary!CleanLines,
         NEW x \in Summary!CleanLines, NEW K \in Seq(KeptLine), NEW e \in KeptLine,
         NEW g, NEW h, NEW J, LineOK(s, K, g, x), x # l, h[x] = g[x],
         J = K \/ (J = Append(K, e) /\ e.line = l)
  PROVE  LineOK(Append(s, l), J, h, x)
<1>1. LinesLike(Append(s, l), x) = LinesLike(s, x)
  BY LikeStep
<1>2. KeptIn(J, x) = KeptIn(K, x) /\ \A k \in KeptIn(K, x) : J[k] = K[k]
  <2>1. CASE J = K
    BY <2>1
  <2>2. CASE J = Append(K, e) /\ e.line = l
    <3>1. /\ KeptIn(K, x) \in SUBSET (1 .. Len(K))
          /\ KeptIn(J, x) = IF x = e.line THEN KeptIn(K, x) \cup {Len(K) + 1} ELSE KeptIn(K, x)
          /\ \A k \in 1 .. Len(K) : J[k] = K[k]
      BY <2>2, KeptStep
    <3>2. QED
      BY <2>2, <3>1
  <2>3. QED
    BY <2>1, <2>2
<1>3. PICK V : V = KeptIn(K, x)
  OBVIOUS
<1>4. QED
  BY <1>1, <1>2, <1>3 DEF LineOK

\* A line that is kept once more.
LEMMA KeptOnce ==
  ASSUME NEW s \in Seq(Summary!CleanLines), NEW l \in Summary!CleanLines,
         NEW K \in Seq(KeptLine), NEW g \in [Summary!CleanLines -> Nat], NEW h, NEW b \in BOOLEAN,
         LineOK(s, K, g, l), l.text # "noise",
         l.text # "blank" => h[l] = g[l] + 1 /\ g[l] < 3 /\ (b => g[l] = 2),
         l.text = "blank" => ~ b
  PROVE  LineOK(Append(s, l), Append(K, [line |-> l, marked |-> b]), h, l)
<1>1. PICK n \in Nat : n = Len(s)
  BY LineStep
<1>2. PICK d : d = Append(s, l)
  OBVIOUS
<1>3. PICK e \in KeptLine : e = [line |-> l, marked |-> b] /\ e.line = l /\ e.marked = b
  <2>1. [line |-> l, marked |-> b] \in KeptLine
    BY DEF KeptLine
  <2>2. [line |-> l, marked |-> b].line = l /\ [line |-> l, marked |-> b].marked = b
    OBVIOUS
  <2>3. QED
    BY <2>1, <2>2, Zenon
<1>4. PICK J : J = Append(K, e)
  OBVIOUS
<1>5. PICK m \in Nat : m = Len(K) /\ J[m + 1] = e /\ \A k \in 1 .. m : J[k] = K[k]
  BY <1>4, KeptStep
<1>6. PICK V \in SUBSET (1 .. m) : V = KeptIn(K, l) /\ KeptIn(J, l) = V \cup {m + 1}
  <2>1. /\ KeptIn(K, l) \in SUBSET (1 .. Len(K))
        /\ KeptIn(J, l) = IF l = e.line THEN KeptIn(K, l) \cup {Len(K) + 1} ELSE KeptIn(K, l)
    BY <1>4, KeptStep
  <2>2. QED
    BY <1>3, <1>5, <2>1
<1>7. PICK T \in SUBSET (1 .. n) : T = LinesLike(s, l) /\ LinesLike(d, l) = T \cup {n + 1}
  BY <1>1, <1>2, LikeStep
<1>8. Cardinality(V \cup {m + 1}) = Cardinality(V) + 1 /\ Cardinality(V) \in Nat
  BY <1>5, <1>6, LineSets
<1>9. Cardinality(T \cup {n + 1}) = Cardinality(T) + 1 /\ Cardinality(T) \in Nat
  BY <1>1, <1>7, LineSets
<1>10. \A k \in V : J[k] = K[k] /\ k < m + 1
  BY <1>5, <1>6
<1>11. g[l] \in Nat
  OBVIOUS
<1>12. l.text # "blank" =>
         /\ h[l] = Cardinality(T \cup {n + 1})
         /\ Cardinality(V \cup {m + 1}) <= h[l] /\ Cardinality(V \cup {m + 1}) <= 3
         /\ \A k \in V : ~ K[k].marked
         /\ b => h[l] > 2
  <2>1. SUFFICES ASSUME l.text # "blank"
                 PROVE  /\ h[l] = Cardinality(T \cup {n + 1})
                        /\ Cardinality(V \cup {m + 1}) <= h[l] /\ Cardinality(V \cup {m + 1}) <= 3
                        /\ \A k \in V : ~ K[k].marked
                        /\ b => h[l] > 2
    OBVIOUS
  <2>2. /\ g[l] = Cardinality(T) /\ Cardinality(V) <= g[l]
        /\ \A k \in V : K[k].marked => g[l] > 2
    BY <1>6, <1>7, <2>1 DEF LineOK
  <2>3. h[l] = g[l] + 1 /\ g[l] < 3 /\ (b => g[l] = 2)
    BY <2>1
  <2>4. h[l] = Cardinality(T \cup {n + 1})
    BY <1>9, <2>2, <2>3
  <2>5. Cardinality(V \cup {m + 1}) <= h[l] /\ Cardinality(V \cup {m + 1}) <= 3
    BY <1>8, <1>11, <2>2, <2>3
  <2>6. \A k \in V : ~ K[k].marked
    BY <1>11, <2>2, <2>3
  <2>7. b => h[l] > 2
    BY <2>3
  <2>8. QED
    BY <2>4, <2>5, <2>6, <2>7
<1>13. \A k \in V : ~ K[k].marked
  BY <1>6, <1>12 DEF LineOK
<1>14. \A k \in V \cup {m + 1} : J[k].marked => k = m + 1 /\ b
  BY <1>3, <1>5, <1>10, <1>13
<1>15. \A k \in V \cup {m + 1} : J[k].marked => \A j \in V \cup {m + 1} : j <= k
  <2>1. \A j \in V \cup {m + 1} : j <= m + 1
    BY <1>5, <1>6
  <2>2. QED
    BY <1>14, <2>1
<1>16. LineOK(d, J, h, l)
  BY <1>6, <1>7, <1>12, <1>14, <1>15 DEF LineOK
<1>17. QED
  BY <1>2, <1>3, <1>4, <1>16

\* A line that is dropped, as noise or as met too often.
LEMMA DroppedOnce ==
  ASSUME NEW s \in Seq(Summary!CleanLines), NEW l \in Summary!CleanLines,
         NEW K \in Seq(KeptLine), NEW g \in [Summary!CleanLines -> Nat], NEW h,
         LineOK(s, K, g, l), l.text # "blank",
         l.text # "noise" => h[l] = g[l] + 1 /\ g[l] > 2
  PROVE  LineOK(Append(s, l), K, h, l)
<1>1. PICK n \in Nat : n = Len(s)
  BY LineStep
<1>2. PICK d : d = Append(s, l)
  OBVIOUS
<1>3. PICK V : V = KeptIn(K, l)
  OBVIOUS
<1>4. PICK T \in SUBSET (1 .. n) : T = LinesLike(s, l) /\ LinesLike(d, l) = T \cup {n + 1}
  BY <1>1, <1>2, LikeStep
<1>5. Cardinality(T \cup {n + 1}) = Cardinality(T) + 1 /\ Cardinality(T) \in Nat
  BY <1>1, <1>4, LineSets
<1>6. CASE l.text = "noise"
  BY <1>2, <1>3, <1>6 DEF LineOK
<1>7. CASE l.text # "noise"
  <2>1. /\ g[l] = Cardinality(T) /\ Cardinality(V) <= g[l] /\ Cardinality(V) <= 3
        /\ \A k \in V : K[k].marked => \A j \in V : j <= k
    BY <1>3, <1>4, <1>7 DEF LineOK
  <2>2. Cardinality(T) # 0
    BY <1>7, <2>1
  <2>3. T # {}
    BY <2>2, FS_EmptySet
  <2>4. V # {}
    BY <1>3, <1>4, <1>7, <2>3 DEF LineOK
  <2>5. Cardinality(V) \in Nat
    <3>1. V \in SUBSET (1 .. Len(K)) /\ Len(K) \in Nat
      BY <1>3 DEF KeptIn
    <3>2. QED
      BY <3>1, LineSets
  <2>6. h[l] = Cardinality(T \cup {n + 1}) /\ Cardinality(V) <= h[l] /\ h[l] > 2
    BY <1>5, <1>7, <2>1, <2>5
  <2>7. LineOK(d, K, h, l)
    BY <1>3, <1>4, <1>7, <2>1, <2>4, <2>6 DEF LineOK
  <2>8. QED
    BY <1>2, <2>7
<1>8. QED
  BY <1>6, <1>7

\* The warnings, with one more line.
LEMMA WarnedStep ==
  ASSUME NEW s \in Seq(Summary!CleanLines), NEW l \in Summary!CleanLines
  PROVE  /\ WarnedIn(s) \in SUBSET (1 .. Len(s))
         /\ WarnedIn(Append(s, l)) =
              IF l.text # "noise" /\ l.warns /\ Cardinality(LinesLike(s, l)) < 2
              THEN WarnedIn(s) \cup {Len(s) + 1} ELSE WarnedIn(s)
<1>1. PICK n \in Nat : n = Len(s)
  BY LineStep
<1>2. PICK d : d = Append(s, l)
  OBVIOUS
<1>3. /\ DOMAIN s = 1 .. n /\ DOMAIN d = 1 .. n + 1 /\ d[n + 1] = l
      /\ \A i \in 1 .. n : d[i] = s[i]
  BY <1>1, <1>2, LineStep
<1>4. \A i \in 1 .. n + 1 : i \in 1 .. n \/ i = n + 1
  OBVIOUS
<1>5. n + 1 \in 1 .. n + 1 /\ n + 1 \notin 1 .. n /\ \A i \in 1 .. n : i \in 1 .. n + 1
  OBVIOUS
<1>6. \A i \in 1 .. n : EarlierIn(d, i) = EarlierIn(s, i)
  <2>1. SUFFICES ASSUME NEW i \in 1 .. n PROVE EarlierIn(d, i) = EarlierIn(s, i)
    OBVIOUS
  <2>2. ~ n + 1 < i
    OBVIOUS
  <2>3. QED
    BY <1>3, <1>4, <1>5, <2>2 DEF EarlierIn
<1>7. EarlierIn(d, n + 1) = LinesLike(s, l)
  <2>1. \A j \in 1 .. n : j < n + 1
    OBVIOUS
  <2>2. ~ n + 1 < n + 1
    OBVIOUS
  <2>3. QED
    BY <1>3, <1>4, <1>5, <2>1, <2>2 DEF EarlierIn, LinesLike
<1>8. WarnedIn(d) = IF l.text # "noise" /\ l.warns /\ Cardinality(LinesLike(s, l)) < 2
                    THEN WarnedIn(s) \cup {n + 1} ELSE WarnedIn(s)
  <2>1. \A i \in 1 .. n : i \in WarnedIn(d) <=> i \in WarnedIn(s)
    BY <1>3, <1>5, <1>6 DEF WarnedIn
  <2>2. n + 1 \in WarnedIn(d) <=> l.text # "noise" /\ l.warns /\ Cardinality(LinesLike(s, l)) < 2
    BY <1>3, <1>5, <1>7 DEF WarnedIn
  <2>3. WarnedIn(d) \subseteq 1 .. n + 1 /\ WarnedIn(s) \subseteq 1 .. n
    BY <1>3 DEF WarnedIn
  <2>4. PICK A, B : A = WarnedIn(s) /\ B = WarnedIn(d)
    OBVIOUS
  <2>5. PICK q \in BOOLEAN : q = (l.text # "noise" /\ l.warns /\ Cardinality(LinesLike(s, l)) < 2)
    BY CleanLineIs
  <2>6. B = IF q THEN A \cup {n + 1} ELSE A
    <3>1. \A i \in 1 .. n : i \in B <=> i \in A
      BY <2>1, <2>4
    <3>2. n + 1 \in B <=> q
      BY <2>2, <2>4, <2>5
    <3>3. B \subseteq 1 .. n + 1 /\ A \subseteq 1 .. n
      BY <2>3, <2>4
    <3>4. QED
      BY <1>4, <1>5, <3>1, <3>2, <3>3
  <2>7. QED
    BY <2>4, <2>5, <2>6
<1>9. WarnedIn(s) \subseteq 1 .. n
  BY <1>3 DEF WarnedIn
<1>10. QED
  BY <1>1, <1>2, <1>8, <1>9

\* The first of a set of places that one more is added to.
LEMMA FirstStep ==
  ASSUME NEW n \in Nat, NEW S \in SUBSET (1 .. n), NEW w, FirstOf(w, S)
  PROVE  FirstOf(IF Len(w) < MaxItems THEN Append(w, n + 1) ELSE w, S \cup {n + 1})
<1>1. w \in Seq(Nat) /\ MaxItems \in Nat
  BY ReadsAssumption DEF FirstOf
<1>2. PICK m \in Nat : m = Len(w) /\ DOMAIN w = 1 .. m /\ m <= MaxItems
  BY <1>1 DEF FirstOf
<1>3. \A e \in Elements(w) : e \in S /\ e < n + 1
  <2>1. \A e \in S : e < n + 1
    OBVIOUS
  <2>2. QED
    BY <2>1 DEF FirstOf
<1>4. CASE m < MaxItems
  <2>1. Elements(w) = S
    <3>1. m # MaxItems
      BY <1>1, <1>4
    <3>2. S \ Elements(w) = {}
      BY <1>2, <3>1 DEF FirstOf
    <3>3. QED
      BY <3>2 DEF FirstOf
  <2>2. PICK v : v = Append(w, n + 1)
    OBVIOUS
  <2>3. /\ v \in Seq(Nat) /\ Len(v) = m + 1 /\ DOMAIN v = 1 .. m + 1
        /\ v[m + 1] = n + 1 /\ \A k \in 1 .. m : v[k] = w[k]
    BY <1>1, <1>2, <2>2
  <2>4. \A k \in 1 .. m + 1 : k \in 1 .. m \/ k = m + 1
    OBVIOUS
  <2>5. m + 1 \in 1 .. m + 1 /\ \A k \in 1 .. m : k \in 1 .. m + 1
    OBVIOUS
  <2>6. Elements(v) = S \cup {n + 1}
    BY <1>2, <2>1, <2>3, <2>4, <2>5 DEF Elements
  <2>7. \A k \in 1 .. m : w[k] < n + 1
    BY <1>2, <1>3 DEF Elements
  <2>8. ASSUME NEW j \in 1 .. m + 1, NEW k \in 1 .. m + 1, j < k PROVE v[j] < v[k]
    <3>1. j \in 1 .. m /\ (k \in 1 .. m \/ k = m + 1)
      BY <2>8
    <3>2. k \in 1 .. m => w[j] < w[k]
      BY <1>2, <2>8, <3>1 DEF FirstOf, Rising
    <3>3. QED
      BY <2>3, <2>7, <3>1, <3>2
  <2>9. Rising(v)
    BY <2>3, <2>8 DEF Rising
  <2>10. FirstOf(v, S \cup {n + 1})
    <3>1. m + 1 <= MaxItems
      BY <1>1, <1>4
    <3>2. Elements(v) \subseteq S \cup {n + 1} /\ (S \cup {n + 1}) \ Elements(v) = {}
      BY <2>6
    <3>3. QED
      BY <2>3, <2>9, <3>1, <3>2 DEF FirstOf
  <2>11. QED
    BY <1>2, <1>4, <2>2, <2>10
<1>5. CASE ~ m < MaxItems
  <2>1. m = MaxItems
    BY <1>1, <1>2, <1>5
  <2>2. FirstOf(w, S \cup {n + 1})
    BY <1>2, <1>3, <2>1 DEF FirstOf
  <2>3. QED
    BY <1>2, <1>5, <2>2
<1>6. QED
  BY <1>4, <1>5

\* Without any line nothing is kept.
LEMMA NothingKeptOK == CleanOK(<< >>, Summary!NothingKept)
<1>1. PICK none : /\ none = << >> /\ none \in Seq(Summary!CleanLines) /\ none \in Seq(KeptLine)
                  /\ none \in Seq(Nat) /\ DOMAIN none = {} /\ Len(none) = 0
  <2>1. /\ << >> \in Seq(Summary!CleanLines) /\ << >> \in Seq(KeptLine)
        /\ << >> \in Seq(Nat) /\ DOMAIN << >> = {} /\ Len(<< >>) = 0
    OBVIOUS
  <2>2. QED
    BY <2>1, Zenon
<1>2. PICK g : g = [l \in Summary!CleanLines |-> 0]
  OBVIOUS
<1>3. PICK st : st = [kept |-> none, noise |-> 0, repeated |-> 0, warnings |-> none, seen |-> g]
  OBVIOUS
<1>4. /\ st \in CleanState /\ st.kept = none /\ st.warnings = none /\ st.seen = g
      /\ st.noise = 0 /\ st.repeated = 0
  BY <1>1, <1>2, <1>3 DEF CleanState
<1>5. \A x : LinesLike(none, x) = {} /\ KeptIn(none, x) = {}
  BY <1>1 DEF LinesLike, KeptIn
<1>6. ASSUME NEW x \in Summary!CleanLines PROVE LineOK(none, none, g, x)
  <2>1. Cardinality({}) = 0 /\ g[x] = 0
    BY <1>2, FS_EmptySet
  <2>2. QED
    BY <1>5, <2>1 DEF LineOK
<1>7. FirstOf(none, WarnedIn(none))
  <2>1. Elements(none) = {} /\ Rising(none) /\ WarnedIn(none) = {}
    BY <1>1 DEF Elements, Rising, WarnedIn
  <2>2. QED
    BY <1>1, <2>1, ReadsAssumption DEF FirstOf
<1>8. CleanOK(none, st)
  BY <1>1, <1>4, <1>6, <1>7 DEF CleanOK
<1>9. QED
  BY <1>1, <1>2, <1>3, <1>8 DEF Summary!NothingKept

LEMMA CleanStep ==
  ASSUME NEW s, NEW st, CleanOK(s, st), NEW l \in Summary!CleanLines
  PROVE  CleanOK(Append(s, l), Summary!CleanLine(st, l, Len(s) + 1))
<1>1. s \in Seq(Summary!CleanLines) /\ st \in CleanState
  BY DEF CleanOK
<1>2. PICK n \in Nat : n = Len(s)
  BY <1>1, LineStep
<1>3. PICK d : d = Append(s, l) /\ d \in Seq(Summary!CleanLines) /\ Len(d) = n + 1
  BY <1>1, <1>2, AppendProperties
<1>4. PICK K \in Seq(KeptLine) : K = st.kept
  BY <1>1 DEF CleanState
<1>5. PICK w \in Seq(Nat) : w = st.warnings
  BY <1>1 DEF CleanState
<1>6. PICK g \in [Summary!CleanLines -> Nat] : g = st.seen
  BY <1>1 DEF CleanState
<1>7. PICK drop, mark, show \in BOOLEAN : drop = Drops(st, l) /\ mark = Marks(st, l) /\ show = Shows(st, l)
  BY DEF Drops, Marks, Shows
<1>8. PICK e \in KeptLine : e = [line |-> l, marked |-> Marks(st, l)] /\ e.line = l
  <2>1. Marks(st, l) \in BOOLEAN
    BY DEF Marks
  <2>2. [line |-> l, marked |-> Marks(st, l)] \in KeptLine
    BY <2>1 DEF KeptLine
  <2>3. [line |-> l, marked |-> Marks(st, l)].line = l
    OBVIOUS
  <2>4. QED
    BY <2>2, <2>3, Zenon
<1>9. PICK J : J = IF l.text # "noise" /\ ~ Drops(st, l) THEN Append(K, e) ELSE K
  OBVIOUS
<1>10. PICK v : v = IF Shows(st, l) THEN Append(w, n + 1) ELSE w
  OBVIOUS
<1>11. PICK h : h = IF l.text \in {"noise", "blank"} THEN g ELSE [g EXCEPT ![l] = g[l] + 1]
  OBVIOUS
<1>12. PICK a : a = IF l.text = "noise" THEN st.noise + 1 ELSE st.noise
  OBVIOUS
<1>13. PICK r : r = IF Drops(st, l) THEN st.repeated + 1 ELSE st.repeated
  OBVIOUS
<1>14. PICK nx : nx = Summary!CleanLine(st, l, n + 1)
  OBVIOUS
<1>15. nx = [kept |-> J, noise |-> a, repeated |-> r, warnings |-> v, seen |-> h]
  <2>1. n + 1 \in Nat
    OBVIOUS
  <2>2. nx = [kept |-> IF l.text # "noise" /\ ~ Drops(st, l)
                       THEN Append(st.kept, [line |-> l, marked |-> Marks(st, l)]) ELSE st.kept,
              noise |-> IF l.text = "noise" THEN st.noise + 1 ELSE st.noise,
              repeated |-> IF Drops(st, l) THEN st.repeated + 1 ELSE st.repeated,
              warnings |-> IF Shows(st, l) THEN Append(st.warnings, n + 1) ELSE st.warnings,
              seen |-> IF l.text \in {"noise", "blank"} THEN st.seen
                       ELSE [st.seen EXCEPT ![l] = st.seen[l] + 1]]
    BY <1>1, <1>14, <2>1, CleanTurn, Zenon
  <2>3. J = IF l.text # "noise" /\ ~ Drops(st, l)
            THEN Append(st.kept, [line |-> l, marked |-> Marks(st, l)]) ELSE st.kept
    BY <1>4, <1>8, <1>9
  <2>4. v = IF Shows(st, l) THEN Append(st.warnings, n + 1) ELSE st.warnings
    BY <1>5, <1>10
  <2>5. h = IF l.text \in {"noise", "blank"} THEN st.seen ELSE [st.seen EXCEPT ![l] = st.seen[l] + 1]
    BY <1>6, <1>11
  <2>6. QED
    BY <1>12, <1>13, <2>2, <2>3, <2>4, <2>5, Zenon
<1>16. Drops(st, l) => l.text # "noise"
  BY DEF Drops
<1>17. J \in Seq(KeptLine) /\ Len(J) = IF l.text # "noise" /\ ~ Drops(st, l) THEN Len(K) + 1 ELSE Len(K)
  BY <1>9, AppendProperties
<1>18. st.noise \in Nat /\ st.repeated \in Nat /\ Len(K) \in Nat
  BY <1>1 DEF CleanState
<1>19. a \in Nat /\ r \in Nat
  BY <1>12, <1>13, <1>18
<1>20. Len(J) + a + r = n + 1
  <2>1. Len(K) + st.noise + st.repeated = n
    BY <1>2, <1>4 DEF CleanOK
  <2>2. PICK c, x, y, z \in Nat : c = Len(K) /\ x = Len(J) /\ y = st.noise /\ z = st.repeated
    BY <1>17, <1>18
  <2>3. c + y + z = n
    BY <2>1, <2>2
  <2>4. \/ x = c /\ a = y + 1 /\ r = z
        \/ x = c /\ a = y /\ r = z + 1
        \/ x = c + 1 /\ a = y /\ r = z
    BY <1>12, <1>13, <1>16, <1>17, <2>2
  <2>5. c \in Nat /\ x \in Nat /\ y \in Nat /\ z \in Nat /\ n \in Nat
    BY <1>2, <2>2
  <2>6. x + a + r = n + 1
    <3>1. CASE x = c /\ a = y + 1 /\ r = z
      BY <2>3, <2>5, <3>1
    <3>2. CASE x = c /\ a = y /\ r = z + 1
      BY <2>3, <2>5, <3>2
    <3>3. CASE x = c + 1 /\ a = y /\ r = z
      BY <2>3, <2>5, <3>3
    <3>4. QED
      BY <2>4, <3>1, <3>2, <3>3
  <2>7. QED
    BY <2>2, <2>6
<1>21. h \in [Summary!CleanLines -> Nat]
  BY <1>11
<1>22. \A x \in Summary!CleanLines : x # l => h[x] = g[x]
  BY <1>11
<1>23. l.text \notin {"noise", "blank"} => h[l] = g[l] + 1
  BY <1>11
<1>24. v \in Seq(Nat)
  BY <1>10, AppendProperties
<1>25. ASSUME NEW x \in Summary!CleanLines PROVE LineOK(d, J, h, x)
  <2>1. LineOK(s, K, g, x)
    BY <1>4, <1>6 DEF CleanOK
  <2>2. CASE x # l
    <3>1. J = K \/ (J = Append(K, e) /\ e.line = l)
      BY <1>8, <1>9
    <3>2. QED
      BY <1>1, <1>3, <1>22, <2>1, <2>2, <3>1, OtherLine
  <2>3. CASE x = l /\ l.text # "noise" /\ ~ Drops(st, l)
    <3>1. J = Append(K, [line |-> l, marked |-> Marks(st, l)])
      BY <1>8, <1>9, <2>3
    <3>2. g[l] \in Nat
      OBVIOUS
    <3>3. l.text # "blank" => h[l] = g[l] + 1 /\ g[l] < 3 /\ (Marks(st, l) => g[l] = 2)
      BY <1>6, <1>23, <2>3, <3>2 DEF Drops, Marks
    <3>4. l.text = "blank" => ~ Marks(st, l)
      BY DEF Marks
    <3>5. Marks(st, l) \in BOOLEAN
      BY DEF Marks
    <3>6. LineOK(s, K, g, l)
      BY <2>1, <2>3
    <3>7. LineOK(Append(s, l), Append(K, [line |-> l, marked |-> Marks(st, l)]), h, l)
      BY <1>1, <2>3, <3>3, <3>4, <3>5, <3>6, KeptOnce
    <3>8. QED
      BY <1>3, <2>3, <3>1, <3>7
  <2>4. CASE x = l /\ ~ (l.text # "noise" /\ ~ Drops(st, l))
    <3>1. J = K
      BY <1>9, <2>4
    <3>2. l.text # "blank"
      BY <2>4 DEF Drops
    <3>3. l.text # "noise" => h[l] = g[l] + 1 /\ g[l] > 2
      BY <1>6, <1>23, <2>4 DEF Drops
    <3>4. LineOK(s, K, g, l)
      BY <2>1, <2>4
    <3>5. LineOK(Append(s, l), K, h, l)
      BY <1>1, <3>2, <3>3, <3>4, DroppedOnce
    <3>6. QED
      BY <1>3, <2>4, <3>1, <3>5
  <2>5. QED
    BY <2>2, <2>3, <2>4
<1>26. FirstOf(v, WarnedIn(d))
  <2>1. PICK S \in SUBSET (1 .. n) : S = WarnedIn(s)
    BY <1>1, <1>2, WarnedStep
  <2>2. FirstOf(w, S)
    BY <1>5, <2>1 DEF CleanOK
  <2>3. PICK q : q = (l.text # "noise" /\ l.warns /\ Cardinality(LinesLike(s, l)) < 2)
    OBVIOUS
  <2>4. WarnedIn(d) = IF q THEN S \cup {n + 1} ELSE S
    BY <1>1, <1>2, <1>3, <2>1, <2>3, WarnedStep
  <2>5. l.text # "noise" /\ l.warns => l.text \notin {"noise", "blank"}
    BY CleanLineIs
  <2>6. l.text \notin {"noise", "blank"} => g[l] = Cardinality(LinesLike(s, l)) /\ g[l] \in Nat
    BY <1>6 DEF CleanOK, LineOK
  <2>7. CASE q
    <3>1. l.text # "noise" /\ l.warns /\ g[l] < 2 /\ g[l] \in Nat
      BY <2>3, <2>5, <2>6, <2>7
    <3>2. Shows(st, l) <=> Len(w) < MaxItems
      BY <1>5, <1>6, <3>1 DEF Shows, Drops, Marks
    <3>3. v = IF Len(w) < MaxItems THEN Append(w, n + 1) ELSE w
      BY <1>10, <3>2
    <3>4. FirstOf(IF Len(w) < MaxItems THEN Append(w, n + 1) ELSE w, S \cup {n + 1})
      BY <2>2, FirstStep
    <3>5. QED
      BY <2>4, <2>7, <3>3, <3>4
  <2>8. CASE ~ q
    <3>1. ~ Shows(st, l)
      <4>1. SUFFICES ASSUME Shows(st, l) PROVE FALSE
        OBVIOUS
      <4>2. l.text # "noise" /\ l.warns /\ ~ Drops(st, l) /\ ~ Marks(st, l)
        BY <4>1 DEF Shows
      <4>3. l.text \notin {"noise", "blank"} /\ g[l] = Cardinality(LinesLike(s, l)) /\ g[l] \in Nat
        BY <2>5, <2>6, <4>2
      <4>4. ~ g[l] > 2 /\ g[l] # 2
        BY <1>6, <4>2, <4>3 DEF Drops, Marks
      <4>5. g[l] < 2
        BY <4>3, <4>4
      <4>6. QED
        BY <2>3, <2>8, <4>2, <4>3, <4>5
    <3>2. v = w
      BY <1>10, <3>1
    <3>3. QED
      BY <2>2, <2>4, <2>8, <3>2
  <2>9. QED
    BY <2>7, <2>8
<1>27. /\ nx.kept = J /\ nx.noise = a /\ nx.repeated = r /\ nx.warnings = v /\ nx.seen = h
       /\ nx \in CleanState
  BY <1>15, <1>17, <1>19, <1>21, <1>24 DEF CleanState
<1>28. CleanOK(d, nx)
  BY <1>3, <1>20, <1>25, <1>26, <1>27 DEF CleanOK
<1>29. QED
  BY <1>2, <1>3, <1>14, <1>28

LEMMA CleanIs == CleanOK(input, loop) => Summary!CleanContextAccounts
<1> SUFFICES ASSUME CleanOK(input, loop) PROVE Summary!CleanContextAccounts
  OBVIOUS
<1>1. PICK s, st : s = input /\ st = loop
  OBVIOUS
<1>2. s \in Seq(Summary!CleanLines) /\ st \in CleanState /\ CleanOK(s, st)
  BY <1>1 DEF CleanOK
<1>3. PICK K \in Seq(KeptLine) : K = st.kept
  BY <1>2 DEF CleanState
<1>4. \A i \in DOMAIN s : i \in Int
  BY <1>2
<1>5. PICK own : own = Summary!OwnLines
  OBVIOUS
<1>6. own = {i \in DOMAIN s : s[i].text # "noise"}
  BY <1>1, <1>5 DEF Summary!OwnLines
<1>7. Len(st.kept) + st.noise + st.repeated = Len(s)
  BY <1>2 DEF CleanOK
<1>8. ASSUME NEW i \in own
      PROVE  /\ KeptIn(K, s[i]) # {}
             /\ s[i].text # "blank" => Summary!Cardinality(KeptIn(K, s[i])) <= 3
             /\ \A k \in KeptIn(K, s[i]) : K[k].marked => \A j \in KeptIn(K, s[i]) : j <= k
  <2>1. PICK x \in Summary!CleanLines : x = s[i] /\ x.text # "noise"
    BY <1>2, <1>6
  <2>2. LineOK(s, K, st.seen, x)
    BY <1>2, <1>3 DEF CleanOK
  <2>3. LinesLike(s, x) # {}
    BY <1>6, <2>1 DEF LinesLike
  <2>4. QED
    BY <2>1, <2>2, <2>3, InputCounts DEF LineOK
<1>9. ASSUME NEW i \in own PROVE {j \in own : j < i /\ input[j] = input[i]} = EarlierIn(s, i)
  BY <1>1, <1>6 DEF EarlierIn
<1>10. PICK warned : warned = {i \in own :
                                 input[i].warns /\ Summary!Cardinality({j \in own : j < i /\ input[j] = input[i]}) < 2}
  OBVIOUS
<1>11. warned = WarnedIn(s)
  <2>1. \A i \in own :
          Summary!Cardinality({j \in own : j < i /\ input[j] = input[i]}) = Cardinality(EarlierIn(s, i))
    BY <1>9, InputCounts
  <2>2. QED
    BY <1>1, <1>6, <1>10, <2>1 DEF WarnedIn
<1>12. /\ Summary!InOrder(st.warnings) /\ Summary!ToSet(st.warnings) \subseteq warned
       /\ \A i \in warned \ Summary!ToSet(st.warnings) :
            Len(st.warnings) = MaxItems /\ \A e \in Summary!ToSet(st.warnings) : e < i
  BY <1>2, <1>11, InputIs DEF CleanOK, FirstOf
<1>13. \A x : {k \in DOMAIN loop.kept : loop.kept[k].line = x} = KeptIn(K, x)
  BY <1>1, <1>3 DEF KeptIn
<1>14. ASSUME NEW i \in Summary!OwnLines
       PROVE  LET kept == {k \in DOMAIN loop.kept : loop.kept[k].line = input[i]} IN
              /\ kept # {}
              /\ input[i].text # "blank" => Summary!Cardinality(kept) <= 3
              /\ \A k \in kept : loop.kept[k].marked => \A j \in kept : j <= k
  BY <1>1, <1>3, <1>5, <1>8, <1>13
<1>15. Summary!Accounts(loop)
  BY <1>1, <1>5, <1>7, <1>10, <1>12, <1>14 DEF Summary!Accounts
<1>16. QED
  BY <1>15 DEF Summary!CleanContextAccounts

-----------------------------------------------------------------------------
(* summarizeGitDiff.                                                         *)

DiffFiles == [at : Nat, status : {"modified", "added", "deleted", "renamed"},
              plus : Nat, minus : Nat, symbols : SUBSET Nat]

HeadsIn(s) == {i \in DOMAIN s : s[i] \in Summary!Headers}

\* The lines of the file whose header is at h, and those of a kind.
LinesOfFile(s, h) == Str(s, HeadsIn(s), h)
Under(s, h, kind) == {j \in LinesOfFile(s, h) : s[j] = kind}

\* What is said of a file stands under its header.
FileOK(s, f) ==
  /\ f.plus = Cardinality(Under(s, f.at, "plus")) /\ f.minus = Cardinality(Under(s, f.at, "minus"))
  /\ f.symbols \subseteq LinesOfFile(s, f.at)
  /\ f.status = "added" <=> Under(s, f.at, "new") # {}
  /\ f.status = "deleted" <=> Under(s, f.at, "deleted") # {}
  /\ f.status = "renamed" <=> s[f.at] = "moved"

DiffOK(s, fs) ==
  /\ s \in Seq(Summary!DiffLines) /\ fs \in Seq(DiffFiles)
  /\ Titles(Places(fs), Len(fs), HeadsIn(s))
  /\ \A k \in 1 .. Len(fs) : FileOK(s, fs[k])
  /\ s # << >> /\ s[Len(s)] = "from" => Len(fs) # 0 /\ s[fs[Len(fs)].at] = "moved"

LEMMA HeadsStep ==
  ASSUME NEW s \in Seq(Summary!DiffLines), NEW l \in Summary!DiffLines
  PROVE  /\ HeadsIn(s) \in SUBSET (1 .. Len(s))
         /\ HeadsIn(Append(s, l)) =
              IF l \in Summary!Headers THEN HeadsIn(s) \cup {Len(s) + 1} ELSE HeadsIn(s)
<1>1. PICK n \in Nat : n = Len(s)
  BY LineStep
<1>2. PICK d : d = Append(s, l)
  OBVIOUS
<1>3. /\ DOMAIN s = 1 .. n /\ DOMAIN d = 1 .. n + 1 /\ d[n + 1] = l
      /\ \A i \in 1 .. n : d[i] = s[i]
  BY <1>1, <1>2, LineStep
<1>4. \A i \in 1 .. n + 1 : i \in 1 .. n \/ i = n + 1
  OBVIOUS
<1>5. n + 1 \in 1 .. n + 1 /\ n + 1 \notin 1 .. n /\ \A i \in 1 .. n : i \in 1 .. n + 1
  OBVIOUS
<1>6. HeadsIn(d) = IF l \in Summary!Headers THEN HeadsIn(s) \cup {n + 1} ELSE HeadsIn(s)
  BY <1>3, <1>4, <1>5 DEF HeadsIn
<1>7. HeadsIn(s) \subseteq 1 .. n
  BY <1>3 DEF HeadsIn
<1>8. QED
  BY <1>1, <1>2, <1>6, <1>7

\* What stands under a header, with one more line.
IsLast(s, l, h) == l \notin Summary!Headers /\ ~ \E g \in HeadsIn(s) : h < g

LEMMA UnderHeader ==
  ASSUME NEW s \in Seq(Summary!DiffLines), NEW l \in Summary!DiffLines, NEW h \in HeadsIn(s)
  PROVE  LET n == Len(s)  d == Append(s, l) IN
         /\ LinesOfFile(s, h) \in SUBSET (1 .. n)
         /\ LinesOfFile(d, h) =
              IF IsLast(s, l, h) THEN LinesOfFile(s, h) \cup {n + 1} ELSE LinesOfFile(s, h)
         /\ \A kind : /\ Under(s, h, kind) \in SUBSET (1 .. n)
                      /\ Under(d, h, kind) = IF IsLast(s, l, h) /\ l = kind THEN Under(s, h, kind) \cup {n + 1}
                                             ELSE Under(s, h, kind)
<1>1. PICK n \in Nat : n = Len(s)
  BY LineStep
<1>2. PICK d : d = Append(s, l)
  OBVIOUS
<1>3. d[n + 1] = l /\ n + 1 \notin 1 .. n /\ \A i \in 1 .. n : d[i] = s[i]
  BY <1>1, <1>2, LineStep
<1>4. PICK H \in SUBSET (1 .. n) : H = HeadsIn(s)
  BY <1>1, HeadsStep
<1>5. PICK last \in BOOLEAN : last = IsLast(s, l, h)
  BY DEF IsLast
<1>6. HeadsIn(d) = IF l \in Summary!Headers THEN H \cup {n + 1} ELSE H
  BY <1>1, <1>2, <1>4, HeadsStep
<1>7. PICK S, T : S = LinesOfFile(s, h) /\ T = LinesOfFile(d, h)
  OBVIOUS
<1>8. S \subseteq 1 .. n /\ T = IF last THEN S \cup {n + 1} ELSE S
  <2>1. H \in SUBSET (1 .. Len(s)) /\ h \in H
    BY <1>1, <1>4
  <2>2. /\ Str(s, H, h) \subseteq 1 .. Len(s)
        /\ Str(Append(s, l), H \cup {Len(s) + 1}, h) = Str(s, H, h)
        /\ Str(Append(s, l), H, h) = IF \E g \in H : h < g THEN Str(s, H, h)
                                     ELSE Str(s, H, h) \cup {Len(s) + 1}
    BY <2>1, StretchOf
  <2>3. QED
    BY <1>1, <1>2, <1>4, <1>5, <1>6, <1>7, <2>2 DEF IsLast, LinesOfFile
<1>9. ASSUME NEW x
      PROVE  /\ Under(s, h, x) \subseteq 1 .. n
             /\ Under(d, h, x) = IF last /\ l = x THEN Under(s, h, x) \cup {n + 1} ELSE Under(s, h, x)
  BY <1>3, <1>7, <1>8 DEF Under
<1>10. QED
  BY <1>1, <1>2, <1>5, <1>7, <1>8, <1>9

LEMMA NothingYet ==
  ASSUME NEW s \in Seq(Summary!DiffLines), NEW l \in Summary!Headers
  PROVE  LET h == Len(s) + 1  d == Append(s, l) IN
         LinesOfFile(d, h) = {} /\ \A kind : Under(d, h, kind) = {}
<1>1. l \in Summary!DiffLines
  BY DEF Summary!Headers, Summary!DiffLines
<1>2. HeadsIn(Append(s, l)) = HeadsIn(s) \cup {Len(s) + 1}
  BY <1>1, HeadsStep
<1>3. Str(Append(s, l), HeadsIn(s) \cup {Len(s) + 1}, Len(s) + 1) = {}
  BY <1>1, NewStretch
<1>4. QED
  BY <1>2, <1>3 DEF LinesOfFile, Under

\* Where the last line is a header, it is the last header, with nothing under it.
LEMMA AtHeader ==
  ASSUME NEW s \in Seq(Summary!DiffLines), NEW h \in HeadsIn(s), \A g \in HeadsIn(s) : g <= h,
         s # << >>, s[Len(s)] \in Summary!Headers
  PROVE  h = Len(s) /\ LinesOfFile(s, h) = {} /\ \A kind : Under(s, h, kind) = {}
<1>1. PICK n \in Nat : n = Len(s) /\ DOMAIN s = 1 .. n
  BY LineStep
<1>2. n \in 1 .. n
  BY <1>1
<1>3. n \in HeadsIn(s)
  BY <1>1, <1>2 DEF HeadsIn
<1>4. h \in 1 .. n /\ n <= h
  BY <1>1, <1>3 DEF HeadsIn
<1>5. h = n
  BY <1>1, <1>4
<1>6. LinesOfFile(s, h) = {}
  BY <1>1, <1>5 DEF LinesOfFile, Str
<1>7. QED
  BY <1>1, <1>5, <1>6 DEF Under

LEMMA FileStays ==
  ASSUME NEW s \in Seq(Summary!DiffLines), NEW l \in Summary!DiffLines, NEW f, f.at \in HeadsIn(s),
         FileOK(s, f), ~ IsLast(s, l, f.at) \/ l = "twice"
  PROVE  FileOK(Append(s, l), f)
<1>1. PICK h : h = f.at
  OBVIOUS
<1>2. PICK d : d = Append(s, l)
  OBVIOUS
<1>3. d[h] = s[h]
  BY <1>1, <1>2, LineStep DEF HeadsIn
<1>4. LinesOfFile(s, h) \subseteq LinesOfFile(d, h)
  BY <1>1, <1>2, UnderHeader
<1>5. \A kind \in {"plus", "minus", "new", "deleted"} : Under(d, h, kind) = Under(s, h, kind)
  BY <1>1, <1>2, UnderHeader
<1>6. QED
  BY <1>1, <1>2, <1>3, <1>4, <1>5 DEF FileOK

LEMMA InFileType ==
  ASSUME NEW f \in DiffFiles, NEW l \in Summary!DiffLines, NEW i \in Nat
  PROVE  Summary!InFile(f, l, i) \in DiffFiles /\ Summary!InFile(f, l, i).at = f.at
<1>1. PICK x : x = Summary!InFile(f, l, i)
  OBVIOUS
<1>2. CASE l \in {"new", "deleted", "from", "to"}
  <2>1. \E v \in {"added", "deleted", "renamed"} : x = [f EXCEPT !.status = v]
    BY <1>1, <1>2 DEF Summary!InFile
  <2>2. QED
    BY <1>1, <2>1 DEF DiffFiles
<1>3. CASE l \in {"hunk", "plus", "minus"}
  <2>1. PICK v \in SUBSET Nat : v = f.symbols \cup {i}
    BY DEF DiffFiles
  <2>2. PICK a, t, p, m, y : a = f.at /\ t = f.status /\ p = f.plus /\ m = f.minus /\ y = f.symbols
    OBVIOUS
  <2>3. f = [at |-> a, status |-> t, plus |-> p, minus |-> m, symbols |-> y]
    BY <2>2 DEF DiffFiles
  <2>4. \/ x = [f EXCEPT !.symbols = v]
        \/ x = [f EXCEPT !.symbols = v, !.plus = p + 1]
        \/ x = [f EXCEPT !.symbols = v, !.minus = m + 1]
    BY <1>1, <1>3, <2>1, <2>2 DEF Summary!InFile
  <2>5. \/ x = [at |-> a, status |-> t, plus |-> p, minus |-> m, symbols |-> v]
        \/ x = [at |-> a, status |-> t, plus |-> p + 1, minus |-> m, symbols |-> v]
        \/ x = [at |-> a, status |-> t, plus |-> p, minus |-> m + 1, symbols |-> v]
    <3>1. CASE x = [f EXCEPT !.symbols = v]
      BY <2>3, <3>1
    <3>2. CASE x = [f EXCEPT !.symbols = v, !.plus = p + 1]
      BY <2>3, <3>2
    <3>3. CASE x = [f EXCEPT !.symbols = v, !.minus = m + 1]
      BY <2>3, <3>3
    <3>4. QED
      BY <2>4, <3>1, <3>2, <3>3
  <2>6. a \in Nat /\ t \in {"modified", "added", "deleted", "renamed"} /\ p \in Nat /\ m \in Nat
    BY <2>2 DEF DiffFiles
  <2>7. p + 1 \in Nat /\ m + 1 \in Nat
    BY <2>6
  <2>8. QED
    BY <1>1, <2>1, <2>2, <2>5, <2>6, <2>7 DEF DiffFiles
<1>4. CASE l \notin {"new", "deleted", "from", "to", "hunk", "plus", "minus"}
  <2>1. x = f
    BY <1>1, <1>4 DEF Summary!InFile
  <2>2. QED
    BY <1>1, <2>1
<1>5. QED
  BY <1>2, <1>3, <1>4

\* The last file, with what a line adds to it.
LEMMA InFileIs ==
  ASSUME NEW s \in Seq(Summary!DiffLines), NEW l \in Summary!DiffLines, l \notin Summary!Headers,
         NEW f \in DiffFiles, f.at \in HeadsIn(s), \A g \in HeadsIn(s) : g <= f.at, FileOK(s, f),
         Summary!Follows(l, s),
         s # << >> /\ s[Len(s)] = "from" => s[f.at] = "moved"
  PROVE  FileOK(Append(s, l), Summary!InFile(f, l, Len(s) + 1))
<1>1. PICK n \in Nat : n = Len(s)
  BY LineStep
<1>2. PICK d : d = Append(s, l)
  OBVIOUS
<1>3. PICK x : x = Summary!InFile(f, l, n + 1)
  OBVIOUS
<1>4. PICK h : h = f.at
  OBVIOUS
<1>5. d[h] = s[h]
  BY <1>2, <1>4, LineStep DEF HeadsIn
<1>6. IsLast(s, l, h)
  <2>1. HeadsIn(s) \subseteq Nat
    BY DEF HeadsIn
  <2>2. \A g \in HeadsIn(s) : ~ h < g
    BY <1>4, <2>1
  <2>3. QED
    BY <2>2 DEF IsLast
<1>7. LinesOfFile(d, h) = LinesOfFile(s, h) \cup {n + 1} /\ LinesOfFile(s, h) \in SUBSET (1 .. n)
  BY <1>1, <1>2, <1>4, <1>6, UnderHeader
<1>8. \A kind : /\ Under(s, h, kind) \in SUBSET (1 .. n)
                /\ Under(d, h, kind) =
                    IF l = kind THEN Under(s, h, kind) \cup {n + 1} ELSE Under(s, h, kind)
  BY <1>1, <1>2, <1>4, <1>6, UnderHeader
<1>9. s # << >>
  BY DEF Summary!Follows
<1>10. PICK last : last = s[Len(s)] /\ last = Summary!Last(s)
  BY DEF Summary!Last
<1>11. CASE l \in {"new", "deleted"}
  <2>1. last = "header"
    BY <1>9, <1>10, <1>11 DEF Summary!Follows, Summary!Headers
  <2>2. h = n /\ LinesOfFile(s, h) = {} /\ \A kind : Under(s, h, kind) = {}
    BY <1>1, <1>4, <1>9, <1>10, <2>1, AtHeader DEF Summary!Headers
  <2>3. PICK v : v = (IF l = "new" THEN "added" ELSE "deleted") /\ x = [f EXCEPT !.status = v]
    BY <1>3, <1>11 DEF Summary!InFile
  <2>4. x.at = h /\ x.status = v /\ x.plus = f.plus /\ x.minus = f.minus /\ x.symbols = f.symbols
    BY <1>4, <2>3 DEF DiffFiles
  <2>5. s[h] = "header"
    BY <1>1, <1>10, <2>1, <2>2
  <2>6. /\ Under(d, h, "plus") = Under(s, h, "plus") /\ Under(d, h, "minus") = Under(s, h, "minus")
        /\ Under(d, h, "new") # {} <=> l = "new"
        /\ Under(d, h, "deleted") # {} <=> l = "deleted"
    BY <1>8, <1>11, <2>2
  <2>7. f.plus = Cardinality(Under(s, h, "plus")) /\ f.minus = Cardinality(Under(s, h, "minus"))
        /\ f.symbols \subseteq LinesOfFile(s, h)
    BY <1>4 DEF FileOK
  <2>8. FileOK(d, x)
    BY <1>5, <1>7, <1>11, <2>3, <2>4, <2>5, <2>6, <2>7 DEF FileOK
  <2>9. QED
    BY <1>1, <1>2, <1>3, <2>8
<1>12. CASE l \in {"from", "to"}
  <2>1. s[h] = "moved"
    <3>1. CASE l = "from"
      <4>1. last = "moved"
        BY <1>9, <1>10, <3>1 DEF Summary!Follows, Summary!Headers
      <4>2. h = n
        BY <1>1, <1>4, <1>9, <1>10, <4>1, AtHeader DEF Summary!Headers
      <4>3. QED
        BY <1>1, <1>10, <4>1, <4>2
    <3>2. CASE l = "to"
      <4>1. last = "from"
        BY <1>9, <1>10, <3>2 DEF Summary!Follows, Summary!Headers
      <4>2. QED
        BY <1>4, <1>9, <1>10, <4>1
    <3>3. QED
      BY <1>12, <3>1, <3>2
  <2>2. x = [f EXCEPT !.status = "renamed"]
    BY <1>3, <1>12 DEF Summary!InFile
  <2>3. f.status = "renamed"
    BY <1>4, <2>1 DEF FileOK
  <2>4. x.at = h /\ x.status = "renamed" /\ x.plus = f.plus /\ x.minus = f.minus /\ x.symbols = f.symbols
    BY <1>4, <2>2 DEF DiffFiles
  <2>5. \A kind \in {"plus", "minus", "new", "deleted"} : Under(d, h, kind) = Under(s, h, kind)
    BY <1>8, <1>12
  <2>6. FileOK(d, x)
    BY <1>4, <1>5, <1>7, <2>1, <2>3, <2>4, <2>5 DEF FileOK
  <2>7. QED
    BY <1>1, <1>2, <1>3, <2>6
<1>13. CASE l \in {"hunk", "plus", "minus"}
  <2>1. PICK p, m \in Nat : p = f.plus /\ m = f.minus
    BY DEF DiffFiles
  <2>2. PICK v : v = f.symbols \cup {n + 1}
    OBVIOUS
  <2>3. PICK q : q = IF l = "plus" THEN p + 1 ELSE p
    OBVIOUS
  <2>4. PICK r : r = IF l = "minus" THEN m + 1 ELSE m
    OBVIOUS
  <2>5. PICK t, y : t = f.status /\ y = f.symbols
    OBVIOUS
  <2>6. f = [at |-> h, status |-> t, plus |-> p, minus |-> m, symbols |-> y]
    BY <1>4, <2>1, <2>5 DEF DiffFiles
  <2>7. v = y \cup {n + 1}
    BY <2>2, <2>5
  <2>8. x = [at |-> h, status |-> t, plus |-> q, minus |-> r, symbols |-> v]
    <3>1. CASE l = "hunk"
      <4>1. x = [f EXCEPT !.symbols = v]
        BY <1>3, <2>2, <3>1 DEF Summary!InFile
      <4>2. QED
        BY <2>3, <2>4, <2>6, <3>1, <4>1
    <3>2. CASE l = "plus"
      <4>1. x = [f EXCEPT !.symbols = v, !.plus = p + 1]
        BY <1>3, <2>1, <2>2, <3>2 DEF Summary!InFile
      <4>2. QED
        BY <2>3, <2>4, <2>6, <3>2, <4>1
    <3>3. CASE l = "minus"
      <4>1. x = [f EXCEPT !.symbols = v, !.minus = m + 1]
        BY <1>3, <2>1, <2>2, <3>3 DEF Summary!InFile
      <4>2. QED
        BY <2>3, <2>4, <2>6, <3>3, <4>1
    <3>4. QED
      BY <1>13, <3>1, <3>2, <3>3
  <2>9. x.at = h /\ x.status = f.status /\ x.plus = q /\ x.minus = r /\ x.symbols = v
    BY <2>5, <2>8
  <2>10. \A kind \in {"new", "deleted"} : Under(d, h, kind) = Under(s, h, kind)
    BY <1>8, <1>13
  <2>11. \A kind : Cardinality(Under(s, h, kind) \cup {n + 1}) = Cardinality(Under(s, h, kind)) + 1
    BY <1>1, <1>8, LineSets
  <2>12. q = Cardinality(Under(d, h, "plus")) /\ r = Cardinality(Under(d, h, "minus"))
    <3>1. p = Cardinality(Under(s, h, "plus")) /\ m = Cardinality(Under(s, h, "minus"))
      BY <1>4, <2>1 DEF FileOK
    <3>2. QED
      BY <1>8, <2>3, <2>4, <2>11, <3>1
  <2>13. v \subseteq LinesOfFile(d, h)
    BY <1>4, <1>7, <2>2 DEF FileOK
  <2>14. FileOK(d, x)
    BY <1>4, <1>5, <2>9, <2>10, <2>12, <2>13 DEF FileOK
  <2>15. QED
    BY <1>1, <1>2, <1>3, <2>14
<1>14. CASE l = "twice"
  <2>1. x = f
    BY <1>3, <1>14 DEF Summary!InFile
  <2>2. FileOK(d, f)
    BY <1>2, <1>14, FileStays
  <2>3. QED
    BY <1>1, <1>2, <1>3, <2>1, <2>2
<1>15. QED
  BY <1>11, <1>12, <1>13, <1>14 DEF Summary!DiffLines, Summary!Headers

\* Without any line there is no file.
LEMMA NoFilesOK == DiffOK(<< >>, << >>)
<1>1. PICK none : /\ none = << >> /\ none \in Seq(DiffFiles) /\ none \in Seq(Summary!DiffLines)
                  /\ Len(none) = 0 /\ DOMAIN none = {}
  <2>1. /\ << >> \in Seq(DiffFiles) /\ << >> \in Seq(Summary!DiffLines)
        /\ Len(<< >>) = 0 /\ DOMAIN << >> = {}
    OBVIOUS
  <2>2. QED
    BY <2>1, Zenon
<1>2. HeadsIn(none) = {}
  BY <1>1 DEF HeadsIn
<1>3. Places(none) = [k \in 1 .. 0 |-> 0]
  BY <1>1 DEF Places
<1>4. Titles(Places(none), Len(none), HeadsIn(none))
  BY <1>1, <1>2, <1>3, NoTitles
<1>5. DiffOK(none, none)
  BY <1>1, <1>4 DEF DiffOK
<1>6. QED
  BY <1>1, <1>5

\* A line that is no header leaves all files but the last.
LEMMA NoHeader ==
  ASSUME NEW s, NEW fs, DiffOK(s, fs), NEW l \in Summary!DiffLines, l \notin Summary!Headers,
         NEW nx \in Seq(DiffFiles), Len(nx) = Len(fs),
         \A k \in 1 .. Len(fs) : nx[k].at = fs[k].at,
         \A k \in 1 .. Len(fs) : k # Len(fs) => nx[k] = fs[k],
         Len(fs) # 0 => FileOK(Append(s, l), nx[Len(fs)]),
         l = "from" => Len(fs) # 0 /\ s[fs[Len(fs)].at] = "moved"
  PROVE  DiffOK(Append(s, l), nx)
<1>1. s \in Seq(Summary!DiffLines) /\ fs \in Seq(DiffFiles)
  BY DEF DiffOK
<1>2. PICK n \in Nat : n = Len(s)
  BY <1>1, LineStep
<1>3. PICK d : d = Append(s, l) /\ d \in Seq(Summary!DiffLines) /\ Len(d) = n + 1 /\ d[n + 1] = l
               /\ \A i \in 1 .. n : d[i] = s[i]
  <2>1. /\ Append(s, l) \in Seq(Summary!DiffLines) /\ Append(s, l)[Len(s) + 1] = l
        /\ \A i \in 1 .. Len(s) : Append(s, l)[i] = s[i]
    BY <1>1, LineStep
  <2>2. Len(Append(s, l)) = Len(s) + 1
    BY <1>1, AppendProperties
  <2>3. QED
    BY <1>2, <2>1, <2>2
<1>4. PICK m \in Nat : m = Len(fs)
  BY <1>1
<1>5. PICK H \in SUBSET (1 .. n) : H = HeadsIn(s) /\ HeadsIn(d) = H
  BY <1>1, <1>2, <1>3, HeadsStep
<1>6. PICK a : a = Places(fs) /\ Titles(a, m, H)
  BY <1>4, <1>5, Zenon DEF DiffOK
<1>7. Places(nx) = a
  BY <1>4, <1>6 DEF Places
<1>8. \A k \in 1 .. m : a[k] = fs[k].at /\ a[k] \in H /\ (k # m => \E g \in H : a[k] < g)
  <2>1. \A k \in 1 .. m : a[k] = fs[k].at
    BY <1>4, <1>6 DEF Places
  <2>2. H \in SUBSET Nat
    BY <1>5
  <2>3. ASSUME NEW k \in 1 .. m PROVE a[k] \in H
    BY <1>4, <1>6, <2>2, TitleAt
  <2>4. ASSUME NEW k \in 1 .. m, k # m PROVE \E g \in H : a[k] < g
    <3>1. a[k] < a[m] /\ a[m] \in H
      BY <1>4, <1>6, <2>2, <2>4, TitleAt
    <3>2. QED
      BY <3>1
  <2>5. QED
    BY <2>1, <2>3, <2>4
<1>9. ASSUME NEW k \in 1 .. m PROVE FileOK(d, nx[k])
  <2>1. CASE k = m
    BY <1>3, <1>4, <2>1
  <2>2. CASE k # m
    <3>1. nx[k] = fs[k] /\ FileOK(s, fs[k])
      BY <1>4, <2>2 DEF DiffOK
    <3>2. fs[k].at \in H /\ \E g \in H : fs[k].at < g
      BY <1>8, <2>2
    <3>3. ~ IsLast(s, l, fs[k].at)
      BY <1>5, <3>2 DEF IsLast
    <3>4. QED
      BY <1>1, <1>3, <1>5, <3>1, <3>2, <3>3, FileStays
  <2>3. QED
    BY <2>1, <2>2
<1>10. d # << >> /\ d[Len(d)] = "from" => Len(nx) # 0 /\ d[nx[Len(nx)].at] = "moved"
  <2>1. SUFFICES ASSUME l = "from" PROVE Len(nx) # 0 /\ d[nx[Len(nx)].at] = "moved"
    BY <1>3
  <2>2. m # 0 /\ s[fs[m].at] = "moved"
    BY <1>4, <2>1
  <2>3. m \in 1 .. m
    BY <2>2
  <2>4. fs[m].at \in 1 .. n /\ nx[m].at = fs[m].at
    BY <1>4, <1>5, <1>8, <2>3
  <2>5. QED
    BY <1>3, <1>4, <2>2, <2>4
<1>11. QED
  BY <1>3, <1>4, <1>5, <1>6, <1>7, <1>9, <1>10 DEF DiffOK

LEMMA DiffStep ==
  ASSUME NEW s, NEW fs, DiffOK(s, fs), NEW l \in Summary!DiffLines, Summary!Follows(l, s)
  PROVE  DiffOK(Append(s, l), Summary!DiffLine(fs, l, Len(s) + 1))
<1>1. s \in Seq(Summary!DiffLines) /\ fs \in Seq(DiffFiles)
  BY DEF DiffOK
<1>2. PICK n \in Nat : n = Len(s)
  BY <1>1, LineStep
<1>3. PICK d : d = Append(s, l) /\ d \in Seq(Summary!DiffLines) /\ Len(d) = n + 1 /\ d[n + 1] = l
               /\ \A i \in 1 .. n : d[i] = s[i]
  <2>1. /\ Append(s, l) \in Seq(Summary!DiffLines) /\ Append(s, l)[Len(s) + 1] = l
        /\ \A i \in 1 .. Len(s) : Append(s, l)[i] = s[i]
    BY <1>1, LineStep
  <2>2. Len(Append(s, l)) = Len(s) + 1
    BY <1>1, AppendProperties
  <2>3. QED
    BY <1>2, <2>1, <2>2
<1>4. PICK m \in Nat : m = Len(fs) /\ DOMAIN fs = 1 .. m
  BY <1>1
<1>5. m = 0 <=> fs = << >>
  BY <1>1, <1>4
<1>6. PICK nx : nx = Summary!DiffLine(fs, l, n + 1)
  OBVIOUS
<1>7. PICK H \in SUBSET (1 .. n) : H = HeadsIn(s)
  BY <1>1, <1>2, HeadsStep
<1>8. PICK a : a = Places(fs) /\ Titles(a, m, H)
  BY <1>4, <1>7, Zenon DEF DiffOK
<1>9. \A k \in 1 .. m : a[k] = fs[k].at
  BY <1>4, <1>8 DEF Places
<1>10. H \in SUBSET Nat
  BY <1>7
<1>11. ASSUME NEW k \in 1 .. m PROVE fs[k].at \in H /\ fs[k] \in DiffFiles /\ FileOK(s, fs[k])
  <2>1. a[k] \in H
    BY <1>4, <1>8, <1>10, TitleAt
  <2>2. QED
    BY <1>1, <1>4, <1>9, <2>1 DEF DiffOK
<1>12. s # << >> /\ s[n] = "from" => m # 0 /\ s[fs[m].at] = "moved"
  BY <1>2, <1>4 DEF DiffOK
<1>13. l = "from" => s # << >> /\ s[n] = "moved"
  BY <1>2 DEF Summary!Follows, Summary!Headers, Summary!Last
<1>14. CASE l \in Summary!Headers
  <2>1. PICK g \in DiffFiles : g = Summary!DiffFile(l, n + 1)
    <3>1. Summary!DiffFile(l, n + 1) \in DiffFiles
      BY DEF Summary!DiffFile, DiffFiles
    <3>2. QED
      BY <3>1
  <2>2. nx = Append(fs, g)
    BY <1>6, <1>14, <2>1 DEF Summary!DiffLine
  <2>3. nx \in Seq(DiffFiles) /\ Len(nx) = m + 1 /\ nx[m + 1] = g /\ \A k \in 1 .. m : nx[k] = fs[k]
    BY <1>1, <1>4, <2>2, AppendProperties
  <2>4. g.at = n + 1 /\ g.status = (IF l = "moved" THEN "renamed" ELSE "modified")
        /\ g.plus = 0 /\ g.minus = 0 /\ g.symbols = {}
    BY <2>1 DEF Summary!DiffFile
  <2>5. \A k \in 1 .. m + 1 : k \in 1 .. m \/ k = m + 1
    OBVIOUS
  <2>6. Places(nx) = [k \in 1 .. m + 1 |-> IF k = m + 1 THEN n + 1 ELSE a[k]]
    <3>1. \A k \in 1 .. m + 1 : nx[k].at = IF k = m + 1 THEN n + 1 ELSE a[k]
      BY <1>9, <2>3, <2>4, <2>5
    <3>2. QED
      BY <2>3, <3>1 DEF Places
  <2>7. HeadsIn(d) = H \cup {n + 1}
    BY <1>1, <1>2, <1>3, <1>7, <1>14, HeadsStep
  <2>8. Titles(Places(nx), Len(nx), HeadsIn(d))
    <3>1. Titles([k \in 1 .. m + 1 |-> IF k = m + 1 THEN n + 1 ELSE a[k]], m + 1, H \cup {n + 1})
      BY <1>7, <1>8, TitlesStep
    <3>2. QED
      BY <2>3, <2>6, <2>7, <3>1
  <2>9. ASSUME NEW k \in 1 .. m + 1 PROVE FileOK(d, nx[k])
    <3>1. CASE k \in 1 .. m
      <4>1. PICK f : f = fs[k] /\ f = nx[k] /\ f.at \in HeadsIn(s) /\ FileOK(s, f)
        BY <1>7, <1>11, <2>3, <3>1
      <4>2. ~ IsLast(s, l, f.at)
        BY <1>14 DEF IsLast
      <4>3. FileOK(d, f)
        BY <1>1, <1>3, <4>1, <4>2, FileStays
      <4>4. QED
        BY <4>1, <4>3
    <3>2. CASE k = m + 1
      <4>1. LinesOfFile(d, n + 1) = {} /\ \A kind : Under(d, n + 1, kind) = {}
        BY <1>1, <1>2, <1>3, <1>14, NothingYet
      <4>2. Cardinality({}) = 0
        BY FS_EmptySet
      <4>3. l \in {"header", "moved"}
        BY <1>14 DEF Summary!Headers
      <4>4. FileOK(d, g)
        BY <1>3, <2>4, <4>1, <4>2, <4>3 DEF FileOK
      <4>5. QED
        BY <2>3, <3>2, <4>4
    <3>3. QED
      BY <2>5, <3>1, <3>2
  <2>10. d[Len(d)] # "from"
    BY <1>3, <1>14 DEF Summary!Headers
  <2>11. DiffOK(d, nx)
    BY <1>3, <2>3, <2>8, <2>9, <2>10 DEF DiffOK
  <2>12. QED
    BY <1>2, <1>3, <1>6, <2>11
<1>15. CASE l \notin Summary!Headers /\ m = 0
  <2>1. nx = fs
    BY <1>5, <1>6, <1>15 DEF Summary!DiffLine
  <2>2. l # "from"
    <3>1. SUFFICES ASSUME l = "from" PROVE FALSE
      OBVIOUS
    <3>2. s # << >> /\ s[n] = "moved"
      BY <1>13, <3>1
    <3>3. n \in 1 .. n /\ DOMAIN s = 1 .. n
      BY <1>1, <1>2, <3>2
    <3>4. n \in H
      BY <1>7, <3>2, <3>3 DEF HeadsIn, Summary!Headers
    <3>5. QED
      BY <1>8, <1>10, <1>15, <3>4, LastTitle
  <2>3. DiffOK(d, nx)
    BY <1>1, <1>3, <1>4, <1>15, <2>1, <2>2, NoHeader
  <2>4. QED
    BY <1>2, <1>3, <1>6, <2>3
<1>16. CASE l \notin Summary!Headers /\ m # 0
  <2>1. PICK f \in DiffFiles : f = fs[m] /\ f.at = a[m] /\ f.at \in HeadsIn(s) /\ FileOK(s, f)
    BY <1>7, <1>9, <1>11, <1>16
  <2>2. \A g \in HeadsIn(s) : g <= f.at
    <3>1. PICK y : y = a[m]
      OBVIOUS
    <3>2. \A g \in H : g <= y
      BY <1>8, <1>10, <1>16, <3>1, LastTitle
    <3>3. QED
      BY <1>7, <2>1, <3>1, <3>2
  <2>3. PICK x \in DiffFiles : x = Summary!InFile(f, l, n + 1) /\ x.at = f.at
    BY <2>1, InFileType
  <2>4. FileOK(d, x)
    <3>1. s # << >> /\ s[Len(s)] = "from" => s[f.at] = "moved"
      BY <1>2, <1>12, <2>1
    <3>2. QED
      BY <1>1, <1>2, <1>3, <1>16, <2>1, <2>2, <2>3, <3>1, InFileIs
  <2>5. PICK v \in Seq(DiffFiles) : v = [fs EXCEPT ![m] = x] /\ Len(v) = m
                                    /\ \A k \in 1 .. m : v[k] = IF k = m THEN x ELSE fs[k]
    <3>1. PICK v : v = [fs EXCEPT ![m] = x]
      OBVIOUS
    <3>2. m \in 1 .. Len(fs)
      BY <1>4, <1>16
    <3>3. v \in Seq(DiffFiles) /\ Len(v) = Len(fs)
      BY <1>1, <3>1, <3>2, ExceptSeq
    <3>4. \A k \in 1 .. m : v[k] = IF k = m THEN x ELSE fs[k]
      BY <1>4, <3>1
    <3>5. QED
      BY <1>4, <3>1, <3>3, <3>4
  <2>6. nx = v
    <3>1. Len(fs) = m /\ fs # << >>
      BY <1>4, <1>5, <1>16
    <3>2. nx = [fs EXCEPT ![Len(fs)] = Summary!InFile(fs[Len(fs)], l, n + 1)]
      BY <1>6, <1>16, <3>1 DEF Summary!DiffLine
    <3>3. QED
      BY <2>1, <2>3, <2>5, <3>1, <3>2
  <2>7. l = "from" => s[f.at] = "moved"
    <3>1. SUFFICES ASSUME l = "from" PROVE s[f.at] = "moved"
      OBVIOUS
    <3>2. s # << >> /\ s[n] = "moved"
      BY <1>13, <3>1
    <3>3. f.at = n
      BY <1>1, <1>2, <2>1, <2>2, <3>2, AtHeader DEF Summary!Headers
    <3>4. QED
      BY <3>2, <3>3
  <2>8. /\ \A k \in 1 .. Len(fs) : nx[k].at = fs[k].at
        /\ \A k \in 1 .. Len(fs) : k # Len(fs) => nx[k] = fs[k]
        /\ nx[Len(fs)] = x /\ Len(nx) = Len(fs) /\ nx \in Seq(DiffFiles)
    <3>1. m \in 1 .. m
      BY <1>16
    <3>2. QED
      BY <1>4, <2>1, <2>3, <2>5, <2>6, <3>1
  <2>9. DiffOK(d, nx)
    <3>1. l = "from" => Len(fs) # 0 /\ s[fs[Len(fs)].at] = "moved"
      BY <1>4, <1>16, <2>1, <2>7
    <3>2. Len(fs) # 0 => FileOK(Append(s, l), nx[Len(fs)])
      BY <1>3, <2>4, <2>8
    <3>3. QED
      BY <1>3, <1>16, <2>8, <3>1, <3>2, NoHeader
  <2>10. QED
    BY <1>2, <1>3, <1>6, <2>9
<1>17. QED
  BY <1>14, <1>15, <1>16

LEMMA Induct ==
  ASSUME NEW T, 0 \in T, \A n \in Nat : n \in T => n + 1 \in T
  PROVE  Nat \subseteq T
<1> DEFINE R == {pair \in Nat \X Nat : pair[1] < pair[2]}
           U == Nat \ T
<1>1. IsWellFoundedOn(R, Nat)
  <2>1. R = OpToRel(<, Nat)
    BY DEF OpToRel
  <2>2. QED
    BY <2>1, NatLessThanWellFounded
<1>2. \A x, y \in Nat : y < x => <<y, x>> \in R
  OBVIOUS
<1>3. SUFFICES ASSUME U # {} PROVE FALSE
  OBVIOUS
<1> HIDE DEF R
<1>4. PICK x \in U : \A y \in U : ~ (<<y, x>> \in R)
  BY <1>1, <1>3, WFMin
<1>5. x # 0 /\ x - 1 \in Nat /\ x - 1 < x
  BY <1>4
<1>6. x - 1 \in T
  BY <1>2, <1>4, <1>5
<1>7. QED
  BY <1>4, <1>5, <1>6, x = (x - 1) + 1

Steps(n, A) == [1 .. n -> [A -> A]]

\* f starts with base, and step leads from one value to the next.
Leads(f, n, A, base, step) ==
  f \in [0 .. n -> A] /\ f[0] = base /\ \A i \in 1 .. n : f[i] = step[i][f[i - 1]]

\* A function of the natural numbers up to n is given by its first value and
\* by what leads from each value to the next.
LEMMA FunctionUpTo ==
  ASSUME NEW n \in Nat, NEW A, NEW base \in A, NEW step \in Steps(n, A)
  PROVE  \E f : Leads(f, n, A, base, step)
<1> DEFINE Good(m, f) == f[0] = base /\ \A i \in 1 .. m : f[i] = step[i][f[i - 1]]
           T == {m \in Nat : m <= n => \E f \in [0 .. m -> A] : Good(m, f)}
<1>1. 0 \in T
  <2>1. [i \in 0 .. 0 |-> base] \in [0 .. 0 -> A] /\ Good(0, [i \in 0 .. 0 |-> base])
    OBVIOUS
  <2>2. QED
    BY <2>1
<1>2. ASSUME NEW m \in Nat, m \in T PROVE m + 1 \in T
  <2>1. SUFFICES ASSUME m + 1 <= n PROVE \E f \in [0 .. m + 1 -> A] : Good(m + 1, f)
    OBVIOUS
  <2>2. PICK g \in [0 .. m -> A] : Good(m, g)
    BY <1>2, <2>1
  <2> DEFINE f == [i \in 0 .. m + 1 |-> IF i = m + 1 THEN step[m + 1][g[m]] ELSE g[i]]
  <2>3. g[m] \in A /\ m + 1 \in 1 .. n
    BY <2>1
  <2>4. step[m + 1][g[m]] \in A
    BY <2>3 DEF Steps
  <2>5. f \in [0 .. m + 1 -> A]
    BY <2>4
  <2>6. f[0] = base
    BY <2>2
  <2>7. ASSUME NEW i \in 1 .. m + 1 PROVE f[i] = step[i][f[i - 1]]
    <3>1. CASE i = m + 1
      BY <3>1, i - 1 = m, m \in 0 .. m + 1, m # m + 1
    <3>2. CASE i # m + 1
      BY <3>2, <2>2, i \in 1 .. m, i - 1 \in 0 .. m
    <3>3. QED
      BY <3>1, <3>2
  <2>8. QED
    BY <2>5, <2>6, <2>7
<1> HIDE DEF T
<1>3. n \in T
  BY <1>1, <1>2, Induct
<1>4. QED
  BY <1>3 DEF T, Leads

\* Totals: what leads from each sum to the next.
LEMMA TotalIs ==
  ASSUME NEW n \in Nat, NEW p \in [1 .. n -> Nat]
  PROVE  \E f : f[0] = 0 /\ (\A i \in 1 .. n : f[i] = f[i - 1] + p[i]) /\ Summary!Total(p) = f[n]
<1> DEFINE F(f) == f = [i \in 0 .. n |-> IF i = 0 THEN 0 ELSE f[i - 1] + p[i]]
           step == [i \in 1 .. n |-> [x \in Nat |-> x + p[i]]]
<1>1. n \in Nat /\ (\A i \in 1 .. n : p[i] \in Nat) /\ Len(p) = n /\ 0 \in Nat
  OBVIOUS
<1>2. step \in Steps(n, Nat)
  <2>1. \A i \in 1 .. n, x \in Nat : x + p[i] \in Nat
    BY <1>1
  <2>2. QED
    BY <2>1 DEF Steps
<1>3. PICK g : Leads(g, n, Nat, 0, step)
  <2> HIDE DEF step, F
  <2>1. QED
    BY <1>1, <1>2, FunctionUpTo
<1>4. \A i \in 1 .. n : g[i] = g[i - 1] + p[i]
  <2>1. \A i \in 1 .. n : g[i - 1] \in Nat
    BY <1>1, <1>3 DEF Leads
  <2>2. \A i \in 1 .. n : step[i][g[i - 1]] = g[i - 1] + p[i]
    BY <2>1
  <2>3. QED
    BY <1>3, <2>2 DEF Leads
<1>5. F(g)
  <2>1. \A i \in 0 .. n : g[i] = IF i = 0 THEN 0 ELSE g[i - 1] + p[i]
    <3>1. g[0] = 0
      BY <1>3 DEF Leads
    <3>2. \A i \in 0 .. n : i # 0 => i \in 1 .. n
      BY <1>1
    <3>3. QED
      BY <1>4, <3>1, <3>2
  <2>2. QED
    BY <2>1, <1>3 DEF Leads
<1> DEFINE f == CHOOSE h : F(h)
<1>6. F(f)
  BY <1>5
<1>7. Summary!Total(p) = f[n]
  BY <1>1 DEF Summary!Total
<1> HIDE DEF f
<1>8. f[0] = 0 /\ \A i \in 1 .. n : f[i] = f[i - 1] + p[i]
  <2>1. 0 \in 0 .. n /\ \A i \in 1 .. n : i \in 0 .. n /\ i # 0
    BY <1>1
  <2>2. QED
    BY <1>6, <2>1
<1>9. QED
  BY <1>7, <1>8

\* The sizes of sets with nothing in common add up to the size of their union.
AllOf(U, c) == UNION {U[k] : k \in 1 .. c}
Sizes(p, U, c) ==
  /\ p \in [1 .. c -> Nat] /\ \A k \in 1 .. c : p[k] = Cardinality(U[k])
  /\ \A j, k \in 1 .. c : j # k => U[j] \cap U[k] = {}

LEMMA SumOfParts ==
  ASSUME NEW N \in Nat, NEW c \in Nat, NEW U \in [1 .. c -> SUBSET (1 .. N)], NEW p, Sizes(p, U, c)
  PROVE  Summary!Total(p) = Cardinality(AllOf(U, c))
<1>0. /\ p \in [1 .. c -> Nat] /\ \A k \in 1 .. c : p[k] = Cardinality(U[k])
      /\ \A j, k \in 1 .. c : j # k => U[j] \cap U[k] = {}
  BY DEF Sizes
<1>1. PICK f : f[0] = 0 /\ (\A i \in 1 .. c : f[i] = f[i - 1] + p[i]) /\ Summary!Total(p) = f[c]
  BY <1>0, TotalIs
<1> DEFINE Un(k) == UNION {U[j] : j \in 1 .. k}
           T == {k \in Nat : k <= c => f[k] = Cardinality(Un(k))}
<1>2. 0 \in T
  <2>1. Un(0) = {}
    OBVIOUS
  <2>2. QED
    BY <1>1, <2>1, FS_EmptySet
<1>3. ASSUME NEW k \in Nat, k \in T PROVE k + 1 \in T
  <2>1. SUFFICES ASSUME k + 1 <= c PROVE f[k + 1] = Cardinality(Un(k + 1))
    OBVIOUS
  <2>2. k + 1 \in 1 .. c /\ (k + 1) - 1 = k /\ k <= c
    BY <2>1
  <2>3. \A j \in 1 .. k : j \in 1 .. c /\ j # k + 1
    BY <2>1
  <2>4. \A j \in 1 .. k + 1 : j \in 1 .. k \/ j = k + 1
    OBVIOUS
  <2>5. \A j \in 1 .. k : j \in 1 .. k + 1
    OBVIOUS
  <2>6. PICK A \in SUBSET (1 .. N) : A = Un(k)
    BY <2>3
  <2>7. PICK B \in SUBSET (1 .. N) : B = U[k + 1]
    BY <2>2
  <2>8. A \cap B = {}
    BY <1>0, <2>2, <2>3, <2>6, <2>7
  <2>9. Un(k + 1) = A \cup B
    <3>1. k + 1 \in 1 .. k + 1
      OBVIOUS
    <3>2. \A x : x \in Un(k + 1) <=> \E j \in 1 .. k + 1 : x \in U[j]
      OBVIOUS
    <3>3. \A x : x \in A <=> \E j \in 1 .. k : x \in U[j]
      BY <2>6
    <3>4. \A x : x \in Un(k + 1) <=> x \in A \/ x \in B
      BY <2>4, <2>5, <2>7, <3>1, <3>2, <3>3
    <3>5. QED
      BY <3>4
  <2>10. IsFiniteSet(A) /\ IsFiniteSet(B) /\ Cardinality(A) \in Nat /\ Cardinality(B) \in Nat
    BY LineSets
  <2>11. Cardinality(A \cup B) = Cardinality(A) + Cardinality(B) - Cardinality(A \cap B)
    BY <2>10, FS_Union
  <2>12. Cardinality(A \cap B) = 0
    BY <2>8, FS_EmptySet
  <2>13. f[k] = Cardinality(A)
    BY <1>3, <2>2, <2>6
  <2>14. f[k + 1] = f[k] + p[k + 1]
    BY <1>1, <2>2
  <2>15. p[k + 1] = Cardinality(B)
    BY <1>0, <2>2, <2>7
  <2> HIDE DEF Un
  <2>16. Cardinality(Un(k + 1)) = Cardinality(A) + Cardinality(B)
    <3>1. PICK a, b \in Nat : a = Cardinality(A) /\ b = Cardinality(B)
      BY <2>10
    <3>2. Cardinality(A \cup B) = a + b - 0
      BY <2>11, <2>12, <3>1
    <3>3. Cardinality(A \cup B) = a + b
      BY <3>1, <3>2
    <3>4. QED
      BY <2>9, <3>1, <3>3
  <2>17. QED
    BY <2>13, <2>14, <2>15, <2>16
<1> HIDE DEF T
<1>4. c \in T
  BY <1>2, <1>3, Induct
<1>5. QED
  BY <1>1, <1>4 DEF T, AllOf

\* What the summary lists, of the files that the loop has found.
Status(fs, c, status) == {fs[k].at : k \in {i \in 1 .. c : fs[i].status = status}}

LEMMA SummaryOfDiff ==
  ASSUME NEW fs \in Seq(DiffFiles), NEW c \in Nat,
         c = (IF Len(fs) < MaxItems THEN Len(fs) ELSE MaxItems)
  PROVE  LET d == Summary!summarizeGitDiff(fs) IN
         /\ d.changed = [k \in 1 .. c |-> fs[k].at]
         /\ d.added = Status(fs, c, "added") /\ d.deleted = Status(fs, c, "deleted")
         /\ d.renamed = Status(fs, c, "renamed") /\ d.modified = Status(fs, c, "modified")
         /\ d.symbols = UNION {fs[k].symbols : k \in 1 .. c}
         /\ d.insertions = Summary!Total([k \in 1 .. c |-> fs[k].plus])
         /\ d.deletions = Summary!Total([k \in 1 .. c |-> fs[k].minus])
         /\ d.breakages # {} <=> d.deleted # {} \/ d.renamed # {}
         /\ "truncated" \in d.uncertainty <=> Len(fs) > MaxItems
<1>1. PICK shown : shown = CutTo(fs, MaxItems)
  OBVIOUS
<1>2. DOMAIN shown = 1 .. c /\ \A k \in 1 .. c : shown[k] = fs[k]
  <2>1. PICK w : w = CutTo(fs, MaxItems) /\ Len(w) = c /\ DOMAIN w = 1 .. Len(w)
    BY CutIs, ReadsAssumption
  <2>2. \A k \in 1 .. Len(CutTo(fs, MaxItems)) : CutTo(fs, MaxItems)[k] = fs[k]
    BY CutIs, ReadsAssumption
  <2>3. QED
    BY <1>1, <2>1, <2>2
<1>3. Summary!FirstItems(fs) = shown
  BY <1>1, InputIs
<1>4. PICK d : d = Summary!summarizeGitDiff(fs)
  OBVIOUS
<1>5. /\ d.changed = [k \in DOMAIN shown |-> shown[k].at]
      /\ d.added = {shown[k].at : k \in {n \in DOMAIN shown : shown[n].status = "added"}}
      /\ d.deleted = {shown[k].at : k \in {n \in DOMAIN shown : shown[n].status = "deleted"}}
      /\ d.renamed = {shown[k].at : k \in {n \in DOMAIN shown : shown[n].status = "renamed"}}
      /\ d.modified = {shown[k].at : k \in {n \in DOMAIN shown : shown[n].status = "modified"}}
  BY <1>3, <1>4 DEF Summary!summarizeGitDiff
<1>6. /\ d.symbols = UNION {shown[k].symbols : k \in DOMAIN shown}
      /\ d.insertions = Summary!Total([k \in DOMAIN shown |-> shown[k].plus])
      /\ d.deletions = Summary!Total([k \in DOMAIN shown |-> shown[k].minus])
      /\ "truncated" \in d.uncertainty <=> Len(fs) > MaxItems
  BY <1>3, <1>4 DEF Summary!summarizeGitDiff
<1>7. d.breakages # {} <=> d.deleted # {} \/ d.renamed # {}
  BY <1>3, <1>4 DEF Summary!summarizeGitDiff
<1>8. /\ [k \in DOMAIN shown |-> shown[k].at] = [k \in 1 .. c |-> fs[k].at]
      /\ [k \in DOMAIN shown |-> shown[k].plus] = [k \in 1 .. c |-> fs[k].plus]
      /\ [k \in DOMAIN shown |-> shown[k].minus] = [k \in 1 .. c |-> fs[k].minus]
      /\ UNION {shown[k].symbols : k \in DOMAIN shown} = UNION {fs[k].symbols : k \in 1 .. c}
  BY <1>2
<1>9. ASSUME NEW status
      PROVE  {shown[k].at : k \in {n \in DOMAIN shown : shown[n].status = status}} = Status(fs, c, status)
  BY <1>2 DEF Status
<1>10. /\ d.changed = [k \in 1 .. c |-> fs[k].at]
       /\ d.insertions = Summary!Total([k \in 1 .. c |-> fs[k].plus])
       /\ d.deletions = Summary!Total([k \in 1 .. c |-> fs[k].minus])
       /\ d.symbols = UNION {fs[k].symbols : k \in 1 .. c}
  BY <1>5, <1>6, <1>8
<1>11. /\ d.added = Status(fs, c, "added") /\ d.deleted = Status(fs, c, "deleted")
       /\ d.renamed = Status(fs, c, "renamed") /\ d.modified = Status(fs, c, "modified")
  BY <1>5, <1>9
<1>12. QED
  BY <1>4, <1>6, <1>7, <1>10, <1>11

\* The counts of the listed files, kind by kind.
BodyOf(s, a, c, kind) == {j \in UNION {LinesOfFile(s, a[k]) : k \in 1 .. c} : s[j] = kind}

LEMMA BodyCounts ==
  ASSUME NEW s \in Seq(Summary!DiffLines), NEW a, NEW m \in Nat, Titles(a, m, HeadsIn(s)),
         NEW c \in Nat, c <= m, NEW kind, NEW p \in [1 .. c -> Nat],
         \A k \in 1 .. c : p[k] = Cardinality(Under(s, a[k], kind))
  PROVE  Summary!Total(p) = Cardinality(BodyOf(s, a, c, kind))
<1>1. PICK N \in Nat : N = Len(s) /\ DOMAIN s = 1 .. N
  BY LineStep
<1>2. PICK H \in SUBSET (1 .. N) : H = HeadsIn(s)
  BY <1>1 DEF HeadsIn
<1>3. \A k \in 1 .. c : k \in 1 .. m
  OBVIOUS
<1>4. \A k \in 1 .. m : a[k] \in H
  BY <1>2 DEF Titles
<1>5. PICK U : U = [k \in 1 .. c |-> Under(s, a[k], kind)]
  OBVIOUS
<1>6. \A h : Under(s, h, kind) \in SUBSET (1 .. N)
  BY <1>1 DEF Under, LinesOfFile, Str
<1>7. U \in [1 .. c -> SUBSET (1 .. N)]
  BY <1>5, <1>6
<1>8. ASSUME NEW j \in 1 .. c, NEW k \in 1 .. c, j # k PROVE U[j] \cap U[k] = {}
  <2>1. a[j] \in H /\ a[k] \in H /\ H \subseteq Int
    BY <1>3, <1>4, <1>2
  <2>2. a[j] < a[k] \/ a[k] < a[j]
    <3>1. j < k \/ k < j
      BY <1>8
    <3>2. QED
      BY <1>3, <3>1 DEF Titles
  <2>3. a[j] # a[k]
    <3>1. PICK x, y : x = a[j] /\ y = a[k]
      OBVIOUS
    <3>2. x \in Int /\ y \in Int /\ (x < y \/ y < x)
      BY <2>1, <2>2, <3>1
    <3>3. QED
      BY <3>1, <3>2
  <2>4. LinesOfFile(s, a[j]) \cap LinesOfFile(s, a[k]) = {}
    BY <1>1, <1>2, <2>1, <2>3, StretchesDiffer DEF LinesOfFile
  <2>5. QED
    BY <1>5, <2>4 DEF Under
<1>9. \A k \in 1 .. c : p[k] = Cardinality(U[k])
  BY <1>5
<1>10. Sizes(p, U, c)
  BY <1>8, <1>9 DEF Sizes
<1>11. Summary!Total(p) = Cardinality(AllOf(U, c))
  BY <1>7, <1>10, SumOfParts
<1>12. AllOf(U, c) = BodyOf(s, a, c, kind)
  BY <1>5 DEF AllOf, BodyOf, Under
<1>13. QED
  BY <1>11, <1>12

LEMMA DiffIs == DiffOK(input, loop) => Summary!DiffSummaryPlaces
<1> SUFFICES ASSUME DiffOK(input, loop) PROVE Summary!DiffSummaryPlaces
  OBVIOUS
<1>1. PICK s, fs : s = input /\ fs = loop
  OBVIOUS
<1>2. DiffOK(s, fs) /\ s \in Seq(Summary!DiffLines) /\ fs \in Seq(DiffFiles)
  BY <1>1 DEF DiffOK
<1>3. PICK n \in Nat : n = Len(s) /\ DOMAIN s = 1 .. n
  BY <1>2, LineStep
<1>4. PICK m \in Nat : m = Len(fs)
  BY <1>2
<1>5. PICK H \in SUBSET (1 .. n) : H = HeadsIn(s)
  BY <1>3 DEF HeadsIn
<1>6. PICK a : a = Places(fs) /\ Titles(a, m, H)
  BY <1>2, <1>4, <1>5, Zenon DEF DiffOK
<1>7. PICK c \in Nat : c = (IF m < MaxItems THEN m ELSE MaxItems) /\ c <= m
  BY ReadsAssumption
<1>8. \A k \in 1 .. c : k \in 1 .. m
  BY <1>7
<1>9. \A k \in 1 .. m : a[k] = fs[k].at
  BY <1>4, <1>6 DEF Places
<1>10. H \in SUBSET Nat
  BY <1>5
<1>11. \A k \in 1 .. m : a[k] \in H
  BY <1>6 DEF Titles
<1>12. ASSUME NEW j \in 1 .. m, NEW k \in 1 .. m, a[j] = a[k] PROVE j = k
  <2>1. SUFFICES ASSUME j < k \/ k < j PROVE FALSE
    OBVIOUS
  <2>2. PICK x : x = a[j] /\ x = a[k]
    BY <1>12
  <2>3. x < x
    BY <1>6, <2>1, <2>2 DEF Titles
  <2>4. x \in Nat
    BY <1>10, <1>11, <2>2
  <2>5. QED
    BY <2>3, <2>4
<1>13. PICK d : d = Summary!summarizeGitDiff(loop)
  OBVIOUS
<1>14. /\ d.changed = [k \in 1 .. c |-> fs[k].at]
       /\ d.added = Status(fs, c, "added") /\ d.deleted = Status(fs, c, "deleted")
       /\ d.renamed = Status(fs, c, "renamed") /\ d.modified = Status(fs, c, "modified")
       /\ d.symbols = UNION {fs[k].symbols : k \in 1 .. c}
       /\ d.insertions = Summary!Total([k \in 1 .. c |-> fs[k].plus])
       /\ d.deletions = Summary!Total([k \in 1 .. c |-> fs[k].minus])
       /\ d.breakages # {} <=> d.deleted # {} \/ d.renamed # {}
       /\ "truncated" \in d.uncertainty <=> m > MaxItems
  BY <1>1, <1>2, <1>4, <1>7, <1>13, SummaryOfDiff
<1>15. PICK files : files = Earliest(a, m)
  OBVIOUS
<1>16. c = Least(m) /\ files = {a[k] : k \in 1 .. c}
  BY <1>7, <1>15 DEF Earliest, Least
<1>17. files \subseteq H /\ (H \ files # {} <=> m > MaxItems)
  <2>1. Earliest(a, m) \subseteq H /\ (H \ Earliest(a, m) # {} <=> m > MaxItems)
    BY <1>4, <1>6, <1>10, FirstTitles
  <2>2. QED
    BY <1>15, <2>1
<1>18. DOMAIN d.changed = 1 .. c /\ \A k \in 1 .. c : d.changed[k] = a[k]
  BY <1>8, <1>9, <1>14
<1>19. Summary!ToSet(d.changed) = files
  BY <1>16, <1>18, InputIs DEF Elements
<1>20. Summary!InOrder(d.changed)
  <2>1. \A j, k \in 1 .. c : j < k => a[j] < a[k]
    BY <1>6, <1>8 DEF Titles
  <2>2. Rising(d.changed)
    BY <1>18, <2>1 DEF Rising
  <2>3. QED
    BY <2>2, InputIs
<1>21. \A h : Summary!Stretch(Summary!DiffHeads, h) = LinesOfFile(s, h)
  BY <1>1, InputIs DEF Summary!DiffHeads, HeadsIn, LinesOfFile
<1>22. Summary!DiffHeads = H
  BY <1>1, <1>5 DEF Summary!DiffHeads, HeadsIn
<1>23. ASSUME NEW k \in 1 .. c, NEW status PROVE a[k] \in Status(fs, c, status) <=> fs[k].status = status
  <2>1. ASSUME NEW i \in 1 .. c, fs[i].at = a[k] PROVE i = k
    BY <1>8, <1>9, <1>12, <2>1
  <2>2. QED
    BY <1>8, <1>9, <2>1 DEF Status
<1>24. ASSUME NEW h \in files
       PROVE  /\ h \in d.added <=> \E j \in LinesOfFile(s, h) : s[j] = "new"
              /\ h \in d.deleted <=> \E j \in LinesOfFile(s, h) : s[j] = "deleted"
              /\ h \in d.renamed <=> s[h] = "moved"
              /\ h \in d.modified <=> h \notin d.added \cup d.deleted \cup d.renamed
  <2>1. PICK k \in 1 .. c : a[k] = h /\ fs[k].at = h
    BY <1>8, <1>9, <1>16
  <2>2. PICK f \in DiffFiles : f = fs[k] /\ f.at = h /\ FileOK(s, f)
    BY <1>2, <1>4, <1>8, <2>1 DEF DiffOK
  <2>3. f.status \in {"modified", "added", "deleted", "renamed"}
    BY DEF DiffFiles
  <2>4. /\ h \in d.added <=> f.status = "added"
        /\ h \in d.deleted <=> f.status = "deleted"
        /\ h \in d.renamed <=> f.status = "renamed"
        /\ h \in d.modified <=> f.status = "modified"
    BY <1>14, <1>23, <2>1, <2>2
  <2>5. /\ f.status = "added" <=> \E j \in LinesOfFile(s, h) : s[j] = "new"
        /\ f.status = "deleted" <=> \E j \in LinesOfFile(s, h) : s[j] = "deleted"
        /\ f.status = "renamed" <=> s[h] = "moved"
    BY <2>2 DEF FileOK, Under
  <2>6. QED
    BY <2>3, <2>4, <2>5
<1>25. UNION {Summary!Stretch(Summary!DiffHeads, h) : h \in files}
         = UNION {LinesOfFile(s, a[k]) : k \in 1 .. c}
  BY <1>16, <1>21
<1>26. ASSUME NEW k \in 1 .. c
       PROVE  /\ fs[k].plus \in Nat /\ fs[k].plus = Cardinality(Under(s, a[k], "plus"))
              /\ fs[k].minus \in Nat /\ fs[k].minus = Cardinality(Under(s, a[k], "minus"))
              /\ fs[k].symbols \subseteq LinesOfFile(s, a[k])
  <2>0. k \in 1 .. m /\ fs[k].at = a[k]
    BY <1>8, <1>9
  <2>1. PICK f \in DiffFiles : f = fs[k] /\ f.at = a[k] /\ FileOK(s, f)
    BY <1>2, <1>4, <2>0 DEF DiffOK
  <2>2. QED
    BY <2>1 DEF FileOK, DiffFiles
<1>27. PICK body : body = UNION {LinesOfFile(s, a[k]) : k \in 1 .. c}
  OBVIOUS
<1>28. d.insertions = Cardinality({j \in body : s[j] = "plus"})
  <2>1. PICK p : p = [k \in 1 .. c |-> fs[k].plus]
    OBVIOUS
  <2>2. p \in [1 .. c -> Nat] /\ \A k \in 1 .. c : p[k] = Cardinality(Under(s, a[k], "plus"))
    BY <1>26, <2>1
  <2>3. Titles(a, m, HeadsIn(s))
    BY <1>5, <1>6
  <2>4. Summary!Total(p) = Cardinality(BodyOf(s, a, c, "plus"))
    BY <1>2, <1>4, <1>7, <2>2, <2>3, BodyCounts
  <2>5. QED
    BY <1>14, <1>27, <2>1, <2>4 DEF BodyOf
<1>29. d.deletions = Cardinality({j \in body : s[j] = "minus"})
  <2>1. PICK p : p = [k \in 1 .. c |-> fs[k].minus]
    OBVIOUS
  <2>2. p \in [1 .. c -> Nat] /\ \A k \in 1 .. c : p[k] = Cardinality(Under(s, a[k], "minus"))
    BY <1>26, <2>1
  <2>3. Titles(a, m, HeadsIn(s))
    BY <1>5, <1>6
  <2>4. Summary!Total(p) = Cardinality(BodyOf(s, a, c, "minus"))
    BY <1>2, <1>4, <1>7, <2>2, <2>3, BodyCounts
  <2>5. QED
    BY <1>14, <1>27, <2>1, <2>4 DEF BodyOf
<1>30. d.symbols \subseteq body
  BY <1>14, <1>26, <1>27
<1>31. "truncated" \in d.uncertainty <=> Summary!DiffHeads # files
  BY <1>14, <1>17, <1>22
<1>32. d.breakages # {} <=> d.deleted \cup d.renamed # {}
  BY <1>14
<1>33. /\ d.insertions = Summary!Cardinality({j \in body : input[j] = "plus"})
       /\ d.deletions = Summary!Cardinality({j \in body : input[j] = "minus"})
  BY <1>1, <1>28, <1>29, InputCounts
<1>34. ASSUME NEW h \in files
       PROVE  /\ h \in d.added <=> \E j \in Summary!Stretch(Summary!DiffHeads, h) : input[j] = "new"
              /\ h \in d.deleted <=> \E j \in Summary!Stretch(Summary!DiffHeads, h) : input[j] = "deleted"
              /\ h \in d.renamed <=> input[h] = "moved"
              /\ h \in d.modified <=> h \notin d.added \cup d.deleted \cup d.renamed
  BY <1>1, <1>21, <1>24
<1>35. body = UNION {Summary!Stretch(Summary!DiffHeads, h) : h \in files}
  BY <1>25, <1>27
<1>36. files \subseteq Summary!DiffHeads
  BY <1>17, <1>22
<1>37. Summary!Places(d)
  BY <1>19, <1>20, <1>30, <1>31, <1>32, <1>33, <1>34, <1>35, <1>36 DEF Summary!Places
<1>38. QED
  BY <1>13, <1>37 DEF Summary!DiffSummaryPlaces

-----------------------------------------------------------------------------
(* Digests: the loops, line by line.                                         *)

DigestInv ==
  /\ tool \in Summary!DigestTools
  /\ tool = "test"  => TestOK(input, loop)
  /\ tool = "error" => ErrOK(input, loop)
  /\ tool = "diff"  => DiffOK(input, loop)
  /\ tool = "clean" => CleanOK(input, loop)

LEMMA DigestInit == Summary!Init => DigestInv
<1> SUFFICES ASSUME Summary!Init PROVE DigestInv
  OBVIOUS
<1>1. tool \in Summary!DigestTools /\ input = << >> /\ loop = Summary!Begun(tool)
  BY DEF Summary!Init
<1>2. ASSUME tool = "test" PROVE TestOK(input, loop)
  BY <1>1, <1>2, NoTestsOK DEF Summary!Begun
<1>3. ASSUME tool = "error" PROVE ErrOK(input, loop)
  BY <1>1, <1>3, NoErrorsOK DEF Summary!Begun
<1>4. ASSUME tool = "diff" PROVE DiffOK(input, loop)
  BY <1>1, <1>4, NoFilesOK DEF Summary!Begun
<1>5. ASSUME tool = "clean" PROVE CleanOK(input, loop)
  BY <1>1, <1>5, NothingKeptOK DEF Summary!Begun
<1>6. QED
  BY <1>1, <1>2, <1>3, <1>4, <1>5 DEF DigestInv

LEMMA DigestInvariance == DigestInv /\ [Summary!Next]_(Summary!vars) => DigestInv'
<1> SUFFICES ASSUME DigestInv, [Summary!Next]_(Summary!vars) PROVE DigestInv'
  OBVIOUS
<1>1. ASSUME NEW l \in Summary!LinesOf(tool), Summary!Read(l) PROVE DigestInv'
  <2>1. PICK s, st : s = input /\ st = loop
    OBVIOUS
  <2>2. /\ tool' = tool /\ tool \in Summary!DigestTools
        /\ input' = Append(s, l) /\ loop' = Summary!Turn(tool, l, Len(s) + 1)
    BY <1>1, <2>1 DEF Summary!Read, DigestInv
  <2>3. ASSUME tool = "test" PROVE TestOK(input', loop')
    <3>1. l \in Summary!TestLines /\ TestOK(s, st)
      BY <1>1, <2>1, <2>3 DEF Summary!LinesOf, DigestInv
    <3>2. loop' = Summary!TestLine(st, l, Len(s) + 1)
      BY <2>1, <2>2, <2>3 DEF Summary!Turn
    <3>3. TestOK(Append(s, l), Summary!TestLine(st, l, Len(s) + 1))
      BY <3>1, TestStep
    <3>4. QED
      BY <2>2, <3>2, <3>3
  <2>4. ASSUME tool = "error" PROVE ErrOK(input', loop')
    <3>1. l \in Summary!ErrorLines /\ ErrOK(s, st)
      BY <1>1, <2>1, <2>4 DEF Summary!LinesOf, DigestInv
    <3>2. loop' = Summary!ErrorLine(st, l, Len(s) + 1)
      BY <2>1, <2>2, <2>4 DEF Summary!Turn
    <3>3. ErrOK(Append(s, l), Summary!ErrorLine(st, l, Len(s) + 1))
      BY <3>1, ErrorStep
    <3>4. QED
      BY <2>2, <3>2, <3>3
  <2>5. ASSUME tool = "diff" PROVE DiffOK(input', loop')
    <3>1. l \in Summary!DiffLines /\ Summary!Follows(l, s) /\ DiffOK(s, st)
      BY <1>1, <2>1, <2>5 DEF Summary!LinesOf, DigestInv
    <3>2. loop' = Summary!DiffLine(st, l, Len(s) + 1)
      BY <2>1, <2>2, <2>5 DEF Summary!Turn
    <3>3. DiffOK(Append(s, l), Summary!DiffLine(st, l, Len(s) + 1))
      BY <3>1, DiffStep
    <3>4. QED
      BY <2>2, <3>2, <3>3
  <2>6. ASSUME tool = "clean" PROVE CleanOK(input', loop')
    <3>1. l \in Summary!CleanLines /\ CleanOK(s, st)
      BY <1>1, <2>1, <2>6 DEF Summary!LinesOf, DigestInv
    <3>2. loop' = Summary!CleanLine(st, l, Len(s) + 1)
      BY <2>1, <2>2, <2>6 DEF Summary!Turn
    <3>3. CleanOK(Append(s, l), Summary!CleanLine(st, l, Len(s) + 1))
      BY <3>1, CleanStep
    <3>4. QED
      BY <2>2, <3>2, <3>3
  <2>7. PICK t, w, v : t = tool' /\ w = input' /\ v = loop'
    OBVIOUS
  <2>8. /\ t \in Summary!DigestTools
        /\ t = "test"  => TestOK(w, v)
        /\ t = "error" => ErrOK(w, v)
        /\ t = "diff"  => DiffOK(w, v)
        /\ t = "clean" => CleanOK(w, v)
    BY <2>2, <2>3, <2>4, <2>5, <2>6, <2>7
  <2>9. QED
    BY <2>7, <2>8 DEF DigestInv, Summary!DigestTools
<1>2. ASSUME UNCHANGED (Summary!vars) PROVE DigestInv'
  <2>1. tool' = tool /\ input' = input /\ loop' = loop
    BY <1>2 DEF Summary!vars
  <2>2. QED
    BY <2>1 DEF DigestInv, Summary!DigestTools
<1>3. QED
  BY <1>1, <1>2 DEF Summary!Next, Summary!Whole

\* Every digest of a log or a diff is true to its input, and says what it leaves out.
LEMMA DigestsOfLinesAreTrue == Summary!Spec => []Summary!DigestsAreTrue
<1>1. DigestInv => Summary!DigestsAreTrue
  <2> SUFFICES ASSUME DigestInv PROVE Summary!DigestsAreTrue
    OBVIOUS
  <2>1. Summary!TestDigestKeepsFailures
    BY TestDigestIs DEF DigestInv, Summary!TestDigestKeepsFailures
  <2>2. Summary!ErrorDigestCounts
    BY ErrorDigestIs DEF DigestInv, Summary!ErrorDigestCounts
  <2>3. Summary!DiffSummaryPlaces
    BY DiffIs DEF DigestInv, Summary!DiffSummaryPlaces
  <2>4. Summary!CleanContextAccounts
    BY CleanIs DEF DigestInv, Summary!CleanContextAccounts
  <2>5. QED
    BY <2>1, <2>2, <2>3, <2>4 DEF Summary!DigestsAreTrue
<1>2. QED
  BY <1>1, DigestInit, DigestInvariance, PTL DEF Summary!Spec

-----------------------------------------------------------------------------
(* And beside the plugins, in the specification that is checked.             *)

WorkspaceNext == PluginsStep \/ CliStep \/ CacheStep \/ DigestsStep \/ ChunksStep
workspaceVars == <<part, vars, cliVars, cacheVars, digestVars, chunkVars>>

\* As long as no two commands of the daemon met, at most one daemon serves, and
\* the two files name it (startRuntime, readPidIfAlive, stopRuntime).
THEOREM DaemonsAreRecorded == WorkspaceSpec => []DaemonIsRecorded
<1> DEFINE Mine == part = "daemon"
<1>1. WorkspaceSpec => WorkspaceInit /\ [][WorkspaceNext]_workspaceVars
  BY DEF WorkspaceSpec, WorkspaceNext, workspaceVars
<1>2. WorkspaceInit /\ Mine => Cli!Init
  BY DEF WorkspaceInit
<1>3. Mine /\ [WorkspaceNext]_workspaceVars => Mine' /\ [Cli!Next]_(Cli!vars)
  BY DEF WorkspaceNext, PluginsStep, CliStep, CacheStep, DigestsStep, ChunksStep,
         workspaceVars, cliVars, Cli!vars
<1>4. ~ Mine /\ [WorkspaceNext]_workspaceVars => ~ Mine'
  BY DEF WorkspaceNext, PluginsStep, CliStep, CacheStep, DigestsStep, ChunksStep, workspaceVars
<1>5. Cli!Spec => []Cli!DaemonIsRecorded
  BY OneRecordedDaemon
<1>6. (Mine => Cli!DaemonIsRecorded) => DaemonIsRecorded
  BY DEF DaemonIsRecorded
<1> HIDE DEF Mine
<1>7. QED
  BY <1>1, <1>2, <1>3, <1>4, <1>5, <1>6, PTL DEF Cli!Spec

\* What the model is given in place of a file is true of the file: a cached
\* digest, a digest of a log or a diff, and what the chunks and pages of a chain
\* of calls add up to (getFileDigestCached, compressTestOutput, compressErrorLog,
\* summarizeGitDiff, cleanContext, read_file, list_files).
THEOREM DigestsFaithful == WorkspaceSpec => []DigestsAreFaithful
<1>1. WorkspaceSpec => WorkspaceInit /\ [][WorkspaceNext]_workspaceVars
  BY DEF WorkspaceSpec, WorkspaceNext, workspaceVars
<1>2. WorkspaceSpec => [](part = "cache" => Cache!DigestIsOfTheFile)
  <2> DEFINE Mine == part = "cache"
  <2>1. WorkspaceInit /\ Mine => Cache!Init
    BY DEF WorkspaceInit
  <2>2. Mine /\ [WorkspaceNext]_workspaceVars => Mine' /\ [Cache!Next]_(Cache!vars)
    BY DEF WorkspaceNext, PluginsStep, CliStep, CacheStep, DigestsStep, ChunksStep,
           workspaceVars, cacheVars, Cache!vars
  <2>3. ~ Mine /\ [WorkspaceNext]_workspaceVars => ~ Mine'
    BY DEF WorkspaceNext, PluginsStep, CliStep, CacheStep, DigestsStep, ChunksStep, workspaceVars
  <2> HIDE DEF Mine
  <2>4. WorkspaceSpec => [](Mine => Cache!DigestIsOfTheFile)
    BY <1>1, <2>1, <2>2, <2>3, DigestsAreOfTheirFile, PTL DEF Cache!Spec
  <2>5. QED
    BY <2>4 DEF Mine
<1>3. WorkspaceSpec => [](part = "digests" => Summary!DigestsAreTrue)
  <2> DEFINE Mine == part = "digests"
  <2>1. WorkspaceInit /\ Mine => Summary!Init
    BY DEF WorkspaceInit
  <2>2. Mine /\ [WorkspaceNext]_workspaceVars => Mine' /\ [Summary!Next]_(Summary!vars)
    BY DEF WorkspaceNext, PluginsStep, CliStep, CacheStep, DigestsStep, ChunksStep,
           workspaceVars, digestVars, Summary!vars
  <2>3. ~ Mine /\ [WorkspaceNext]_workspaceVars => ~ Mine'
    BY DEF WorkspaceNext, PluginsStep, CliStep, CacheStep, DigestsStep, ChunksStep, workspaceVars
  <2> HIDE DEF Mine
  <2>4. WorkspaceSpec => [](Mine => Summary!DigestsAreTrue)
    BY <1>1, <2>1, <2>2, <2>3, DigestsOfLinesAreTrue, PTL DEF Summary!Spec
  <2>5. QED
    BY <2>4 DEF Mine
<1>4. WorkspaceSpec => [](part = "chunks" => Chunks!ChainsAreWhole)
  <2> DEFINE Mine == part = "chunks"
  <2>1. WorkspaceInit /\ Mine => Chunks!Init
    BY DEF WorkspaceInit
  <2>2. Mine /\ [WorkspaceNext]_workspaceVars => Mine' /\ [Chunks!Next]_(Chunks!vars)
    BY DEF WorkspaceNext, PluginsStep, CliStep, CacheStep, DigestsStep, ChunksStep,
           workspaceVars, chunkVars, Chunks!vars
  <2>3. ~ Mine /\ [WorkspaceNext]_workspaceVars => ~ Mine'
    BY DEF WorkspaceNext, PluginsStep, CliStep, CacheStep, DigestsStep, ChunksStep, workspaceVars
  <2> HIDE DEF Mine
  <2>4. WorkspaceSpec => [](Mine => Chunks!ChainsAreWhole)
    BY <1>1, <2>1, <2>2, <2>3, ChainsHold, PTL DEF Chunks!Spec
  <2>5. QED
    BY <2>4 DEF Mine
<1>5. DigestsAreFaithful <=> /\ part = "cache" => Cache!DigestIsOfTheFile
                             /\ part = "digests" => Summary!DigestsAreTrue
                             /\ part = "chunks" => Chunks!ChainsAreWhole
  BY DEF DigestsAreFaithful
<1>6. QED
  BY <1>2, <1>3, <1>4, <1>5, PTL
=============================================================================
