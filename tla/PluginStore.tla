----------------------------- MODULE PluginStore -----------------------------
(***************************************************************************)
(* Rule plugins: the registry .tierkit/plugins.json, the directories of    *)
(* the installed plugins, activePlugins in the workspace configuration and *)
(* the rules exported to the coding tools; install, enable, disable,       *)
(* remove, sync, and the bootstrap a daemon runs when it starts.           *)
(*                                                                         *)
(* One command changes several of these stores in turn, each in place, and *)
(* may be killed between any two steps.  Commands do not overlap, and a    *)
(* source directory is not edited while it is being installed.  The user's *)
(* own configuration file activates no plugin.                             *)
(***************************************************************************)
EXTENDS FiniteSets

CONSTANTS
  Plugins,
  Versions,
  Tools,        \* the coding tools with an adapter
  Bundled,      \* the plugins a daemon installs when it starts
  AutoEnabled,  \* those of them it enables, too
  None,         \* no entry, no file
  Missing,      \* there is no configuration file
  Torn,         \* a file that was truncated and not yet written
  Invalid       \* a plugin that does not load

ASSUME PluginAssumption ==
  /\ AutoEnabled \subseteq Bundled /\ Bundled \subseteq Plugins
  /\ {None, Invalid} \cap Versions = {} /\ None # Invalid
  /\ Missing \notin {Torn, None}
  /\ \A S \in SUBSET Plugins : S \notin {Missing, Torn, None}
  /\ \A entries \in [Plugins -> Versions \cup {None}] : entries # Torn

VARIABLES
  source,     \* source[p]: the plugin in its source directory
  registry,   \* registry[p]: the version entered for p
  dir,        \* dir[p]: manifest and rules in p's installed directory
  config,     \* activePlugins
  connected,  \* the tools whose directory is in the workspace
  exported,   \* exported[t][p]: the version of p's rules in the directory of t
  op,         \* the running command and its locals
  boot,       \* the running bootstrap
  harmed,     \* the plugins a killed command was about; completed ones repair
  synced      \* the tools exported to since the last command began

stores == <<source, registry, dir, config, connected, exported>>
vars   == <<stores, op, boot, harmed, synced>>

-----------------------------------------------------------------------------
Registry  == [Plugins -> Versions \cup {None}]
Directory == [manifest : Versions \cup {None}, rules : Versions \cup {None}]
Empty     == [manifest |-> None, rules |-> None]

Loads(p) == dir[p].manifest # None /\ dir[p].rules # None

Registered == IF registry = Torn THEN {} ELSE {p \in Plugins : registry[p] # None}

\* assembleActiveRules: the plugins whose rules a model call is given.
ActiveRules ==
  IF config \in {Missing, Torn} THEN {} ELSE {p \in config \cap Registered : Loads(p)}

\* then: what the request goes on with.
Op == [pc : {"idle", "clear", "manifest", "rules", "entry", "writeEntry", "dropEntry",
             "config", "writeConfig", "sync"},
       kind : {"none", "install", "enable", "disable", "remove", "sync"},
       plugin : Plugins \cup {None},
       version : Versions \cup {None},
       entries : Registry \cup {None},
       active : {Missing, None} \cup SUBSET Plugins,
       then : {"none", "enable", "sync"},
       tools : SUBSET Tools]

Idle == [pc |-> "idle", kind |-> "none", plugin |-> None, version |-> None,
         entries |-> None, active |-> None, then |-> "none", tools |-> {}]

NoBoot == [on |-> FALSE, todo |-> {}, checked |-> FALSE, enable |-> {}]

AtRest == op = Idle /\ boot = NoBoot

Init ==
  /\ source \in [Plugins -> Versions \cup {Invalid}]
  /\ registry = [p \in Plugins |-> None]
  /\ dir = [p \in Plugins |-> Empty]
  /\ config \in {Missing, {}}
  /\ connected = {}
  /\ exported = [t \in Tools |-> [p \in Plugins |-> None]]
  /\ op = Idle /\ boot = NoBoot /\ harmed = {} /\ synced = {}

-----------------------------------------------------------------------------
(* installPlugin                                                            *)

\* An install without force goes on only if the plugin is not registered.
Installable(p, force) ==
  /\ source[p] # Invalid
  /\ registry # Torn
  /\ force \/ registry[p] = None

BeginInstall(p, then) ==
  op' = [Idle EXCEPT !.pc = "clear", !.kind = "install", !.plugin = p,
                     !.version = source[p], !.then = then]

\* Mutant: the old directory goes before the new plugin has been loaded.
Install_ClearFirst(p, force, then) ==
  /\ AtRest
  /\ synced' = {}
  /\ dir' = [dir EXCEPT ![p] = Empty]
  /\ IF Installable(p, force) THEN BeginInstall(p, then) ELSE UNCHANGED op
  /\ UNCHANGED <<source, registry, config, connected, exported, boot, harmed>>

\* The command, and the request that installs a generated draft and enables it.
Install(p, force, then) ==
  /\ AtRest
  /\ then = "enable" => force
  /\ Installable(p, force)
  /\ BeginInstall(p, then)
  /\ synced' = {}
  /\ UNCHANGED <<stores, boot, harmed>>

ClearDirectory ==
  /\ op.pc = "clear"
  /\ dir' = [dir EXCEPT ![op.plugin] = Empty]
  /\ op' = [op EXCEPT !.pc = IF op.kind = "install" THEN "manifest" ELSE "dropEntry"]
  /\ UNCHANGED <<source, registry, config, connected, exported, boot, harmed, synced>>

CopyManifest ==
  /\ op.pc = "manifest"
  /\ dir' = [dir EXCEPT ![op.plugin].manifest = op.version]
  /\ op' = [op EXCEPT !.pc = "rules"]
  /\ UNCHANGED <<source, registry, config, connected, exported, boot, harmed, synced>>

CopyRules ==
  /\ op.pc = "rules"
  /\ dir' = [dir EXCEPT ![op.plugin].rules = op.version]
  /\ op' = [op EXCEPT !.pc = "entry"]
  /\ UNCHANGED <<source, registry, config, connected, exported, boot, harmed, synced>>

\* upsertEntry, removeEntry: read, truncate ...
TruncateRegistry ==
  /\ op.pc \in {"entry", "dropEntry"}
  /\ registry # Torn
  /\ registry' = Torn
  /\ op' = [op EXCEPT !.pc = "writeEntry",
                      !.entries = [registry EXCEPT ![op.plugin] =
                                     IF op.pc = "entry" THEN op.version ELSE None]]
  /\ UNCHANGED <<source, dir, config, connected, exported, boot, harmed, synced>>

\* ... and write.  A removal goes on with the configuration it has loaded, if
\* there was one; an installed draft is enabled.
WriteRegistry ==
  /\ op.pc = "writeEntry"
  /\ registry' = op.entries
  /\ op' = IF op.kind = "remove" /\ op.active # Missing
             THEN [op EXCEPT !.pc = "config", !.entries = None]
           ELSE IF op.then = "enable"
             THEN [Idle EXCEPT !.pc = "config", !.kind = "enable", !.plugin = op.plugin]
           ELSE Idle
  /\ harmed' = harmed \ {op.plugin}
  /\ boot' = IF boot.on /\ op.plugin \in AutoEnabled
               THEN [boot EXCEPT !.enable = @ \cup {op.plugin}] ELSE boot
  /\ UNCHANGED <<source, dir, config, connected, exported, synced>>

-----------------------------------------------------------------------------
(* enablePlugin, disablePlugin, removePlugin                                *)

Enabled(p)  == config \notin {Missing, Torn} /\ p \in Registered

BeginEnable(p) ==
  op' = [Idle EXCEPT !.pc = "config", !.kind = "enable", !.plugin = p,
                     !.active = config \cup {p}, !.then = "sync"]

Enable(p) ==
  /\ AtRest
  /\ Enabled(p)
  /\ BeginEnable(p)
  /\ synced' = {}
  /\ UNCHANGED <<stores, boot, harmed>>

Disable(p) ==
  /\ AtRest
  /\ config \notin {Missing, Torn}
  /\ op' = [Idle EXCEPT !.pc = "config", !.kind = "disable", !.plugin = p,
                        !.active = config \ {p}, !.then = "sync"]
  /\ synced' = {}
  /\ UNCHANGED <<stores, boot, harmed>>

\* Mutant: the removed plugin stays active.
Remove_KeepActive(p) ==
  /\ AtRest
  /\ config # Torn
  /\ p \in Registered
  /\ op' = [Idle EXCEPT !.pc = "clear", !.kind = "remove", !.plugin = p, !.active = config]
  /\ synced' = {}
  /\ UNCHANGED <<stores, boot, harmed>>

\* The configuration is loaded first and written last.  The adapters are not
\* used: what was exported stays.
Remove(p) ==
  /\ AtRest
  /\ config # Torn
  /\ p \in Registered
  /\ op' = [Idle EXCEPT !.pc = "clear", !.kind = "remove", !.plugin = p,
                        !.active = IF config = Missing THEN Missing ELSE config \ {p}]
  /\ synced' = {}
  /\ UNCHANGED <<stores, boot, harmed>>

\* The enabling of an installed draft loads the configuration only now, and
\* creates it when there is none.
TruncateConfig ==
  /\ op.pc = "config"
  /\ IF op.active = None
       THEN IF config = Torn
              THEN op' = Idle /\ UNCHANGED config
              ELSE LET active == IF config = Missing THEN {} ELSE config IN
                   /\ op' = [op EXCEPT !.pc = "writeConfig", !.active = active \cup {op.plugin}]
                   /\ config' = Torn
       ELSE /\ op' = [op EXCEPT !.pc = "writeConfig"]
            /\ config' = Torn
  /\ UNCHANGED <<source, registry, dir, connected, exported, boot, harmed, synced>>

WriteConfig ==
  /\ op.pc = "writeConfig"
  /\ config' = op.active
  /\ op' = IF op.then = "sync"
             THEN [Idle EXCEPT !.pc = "sync", !.kind = op.kind, !.plugin = op.plugin,
                               !.tools = connected]
             ELSE Idle
  /\ UNCHANGED <<source, registry, dir, connected, exported, boot, harmed, synced>>

-----------------------------------------------------------------------------
(* syncPlugins                                                              *)

\* Of the tools whose directory is there, or of those asked for.
Sync(tools) ==
  /\ AtRest
  /\ op' = [Idle EXCEPT !.pc = "sync", !.kind = "sync", !.tools = tools]
  /\ synced' = {}
  /\ UNCHANGED <<stores, boot, harmed>>

\* Mutant: what a tool already has is not written again.
ExportTarget_OnlyNew(t) ==
  /\ op.pc = "sync" /\ t \in op.tools
  /\ registry # Torn /\ config # Torn
  /\ \A p \in Registered : Loads(p)
  /\ exported' = [exported EXCEPT ![t] =
                    [p \in Plugins |-> IF p \in Registered /\ @[p] = None THEN dir[p].rules ELSE @[p]]]
  /\ connected' = IF Registered = {} THEN connected ELSE connected \cup {t}
  /\ op' = [op EXCEPT !.tools = @ \ {t}]
  /\ synced' = synced \cup {t}
  /\ UNCHANGED <<source, registry, dir, config, boot, harmed>>

\* All registered plugins, active or not; nothing is ever deleted.
ExportTarget(t) ==
  /\ op.pc = "sync" /\ t \in op.tools
  /\ registry # Torn /\ config # Torn
  /\ \A p \in Registered : Loads(p)
  /\ exported' = [exported EXCEPT ![t] =
                    [p \in Plugins |-> IF p \in Registered THEN dir[p].rules ELSE @[p]]]
  /\ connected' = IF Registered = {} THEN connected ELSE connected \cup {t}
  /\ op' = [op EXCEPT !.tools = @ \ {t}]
  /\ synced' = synced \cup {t}
  /\ UNCHANGED <<source, registry, dir, config, boot, harmed>>

\* One plugin that does not load ends the export of all.
ExportFails ==
  /\ op.pc = "sync" /\ op.tools # {}
  /\ \/ registry = Torn
     \/ \E p \in Registered : ~ Loads(p)
     \/ config = Torn /\ Registered # {}
  /\ op' = Idle
  /\ UNCHANGED <<stores, boot, harmed, synced>>

SyncDone ==
  /\ op.pc = "sync" /\ op.tools = {}
  /\ op' = Idle
  /\ UNCHANGED <<stores, boot, harmed, synced>>

-----------------------------------------------------------------------------
(* The bootstrap of a daemon that starts                                    *)

BootStart ==
  /\ AtRest
  /\ boot' = [NoBoot EXCEPT !.on = TRUE, !.todo = Bundled]
  /\ synced' = {}
  /\ UNCHANGED <<stores, op, harmed>>

\* Mutant: a plugin that cannot be installed ends the bootstrap.
BootInstall_Abort(p) ==
  /\ op = Idle /\ p \in boot.todo
  /\ IF Installable(p, FALSE)
       THEN BeginInstall(p, "none") /\ boot' = [boot EXCEPT !.todo = @ \ {p}]
       ELSE boot' = [boot EXCEPT !.todo = {}] /\ UNCHANGED op
  /\ UNCHANGED <<stores, harmed, synced>>

\* Mutant: every bundled plugin that is installed already is enabled.
BootInstall_EnableAll(p) ==
  LET already == source[p] # Invalid /\ p \in Registered IN
  /\ op = Idle /\ p \in boot.todo
  /\ boot' = [boot EXCEPT !.todo = @ \ {p}, !.enable = IF already THEN @ \cup {p} ELSE @]
  /\ IF Installable(p, FALSE) THEN BeginInstall(p, "none") ELSE UNCHANGED op
  /\ UNCHANGED <<stores, harmed, synced>>

\* What is installed already counts as installed; any other failure is passed
\* over.
BootInstall(p) ==
  LET already == source[p] # Invalid /\ p \in Registered IN
  /\ op = Idle /\ p \in boot.todo
  /\ boot' = [boot EXCEPT !.todo = @ \ {p},
                          !.enable = IF already THEN @ \cup ({p} \cap AutoEnabled) ELSE @]
  /\ IF Installable(p, FALSE) THEN BeginInstall(p, "none") ELSE UNCHANGED op
  /\ UNCHANGED <<stores, harmed, synced>>

BootConfig ==
  /\ op = Idle /\ boot.todo = {} /\ boot.enable # {} /\ ~ boot.checked
  /\ config' = IF config = Missing THEN {} ELSE config
  /\ boot' = IF config = Torn THEN [boot EXCEPT !.enable = {}] ELSE [boot EXCEPT !.checked = TRUE]
  /\ UNCHANGED <<source, registry, dir, connected, exported, op, harmed, synced>>

BootEnable(p) ==
  /\ op = Idle /\ boot.checked /\ p \in boot.enable
  /\ boot' = [boot EXCEPT !.enable = @ \ {p}]
  /\ IF Enabled(p) THEN BeginEnable(p) ELSE UNCHANGED op
  /\ UNCHANGED <<stores, harmed, synced>>

BootDone == boot.on /\ op = Idle /\ boot.todo = {} /\ boot.enable = {}

BootEnd ==
  /\ BootDone
  /\ boot' = NoBoot
  /\ UNCHANGED <<stores, op, harmed, synced>>

-----------------------------------------------------------------------------
(* The user and the machine                                                 *)

EditSource(p) ==
  /\ AtRest
  /\ source' \in {[source EXCEPT ![p] = v] : v \in (Versions \cup {Invalid}) \ {source[p]}}
  /\ UNCHANGED <<registry, dir, config, connected, exported, op, boot, harmed, synced>>

InitProject ==
  /\ AtRest /\ config = Missing
  /\ config' = {}
  /\ UNCHANGED <<source, registry, dir, connected, exported, op, boot, harmed, synced>>

ConnectTool(t) ==
  /\ AtRest /\ t \notin connected
  /\ connected' = connected \cup {t}
  /\ UNCHANGED <<source, registry, dir, config, exported, op, boot, harmed, synced>>

\* The process is killed.
Crash ==
  /\ ~ AtRest
  /\ op' = Idle /\ boot' = NoBoot
  /\ harmed' = IF op.kind \in {"install", "remove"} /\ op.pc # "clear"
                 THEN harmed \cup {op.plugin} ELSE harmed
  /\ UNCHANGED <<stores, synced>>

Command ==
  \/ \E p \in Plugins :
       \/ \E force \in BOOLEAN, then \in {"none", "enable"} : Install(p, force, then)
       \/ Enable(p) \/ Disable(p) \/ Remove(p)
  \/ \E tools \in {connected} \cup SUBSET Tools : Sync(tools)
  \/ BootStart

Step ==
  \/ ClearDirectory \/ CopyManifest \/ CopyRules \/ TruncateRegistry \/ WriteRegistry
  \/ TruncateConfig \/ WriteConfig
  \/ \E t \in Tools : ExportTarget(t)
  \/ ExportFails \/ SyncDone
  \/ \E p \in Plugins : BootInstall(p) \/ BootEnable(p)
  \/ BootConfig \/ BootEnd

Environment ==
  \/ \E p \in Plugins : EditSource(p)
  \/ InitProject
  \/ \E t \in Tools : ConnectTool(t)
  \/ Crash

Next == Command \/ Step \/ Environment

Spec == Init /\ [][Next]_vars

-----------------------------------------------------------------------------
(* Properties *)

\* The type of every variable; a command's new entries and active plugins are
\* those of whole files.
TypeOK ==
  /\ source \in [Plugins -> Versions \cup {Invalid}]
  /\ registry \in Registry \cup {Torn}
  /\ dir \in [Plugins -> Directory]
  /\ config \in {Missing, Torn} \cup SUBSET Plugins
  /\ connected \subseteq Tools
  /\ exported \in [Tools -> Registry]
  /\ op \in Op
  /\ boot \in [on : BOOLEAN, todo : SUBSET Bundled, checked : BOOLEAN, enable : SUBSET AutoEnabled]
  /\ harmed \subseteq Plugins
  /\ synced \subseteq Tools

\* Between commands, and whatever was killed on the way, a registered plugin
\* loads from its directory in the version the registry has, unless the last
\* install or removal of that very plugin was killed: nothing else harms it, and
\* another install repairs it.
RegisteredLoads ==
  AtRest => \A p \in Registered \ harmed : dir[p] = [manifest |-> registry[p], rules |-> registry[p]]

\* Between commands every model call is given the rules of every active plugin,
\* with the same exception and as long as the registry can be read.
ActiveRulesApply ==
  AtRest /\ registry # Torn /\ config \notin {Missing, Torn} => config \ harmed \subseteq ActiveRules

\* What a sync has exported is what is registered, for all plugins at once, and
\* stays so until the next command.
ExportsAreCurrent ==
  AtRest => \A t \in synced : \A p \in Registered \ harmed : exported[t][p] = registry[p]

\* A bootstrap that gets to its end has installed every bundled plugin that loads,
\* past those that do not, and enabled those it is to enable.
BootstrapIsComplete ==
  BootDone /\ registry # Torn =>
    /\ \A p \in Bundled : source[p] # Invalid => p \in Registered
    /\ config \notin {Missing, Torn} => {p \in AutoEnabled : source[p] # Invalid} \subseteq config
=============================================================================
