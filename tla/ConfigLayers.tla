---------------------------- MODULE ConfigLayers ----------------------------
(***************************************************************************)
(* The configuration: bundled defaults, ~/.tierkit/config.json and the     *)
(* workspace's tierkit.config.json, merged by loadConfig, which also       *)
(* migrates the two files on the way; the profile commands, which edit one *)
(* raw file; and the plugin toggles, which write the merged result back    *)
(* into the workspace file.                                                *)
(*                                                                         *)
(* One operation at a time, each file write an action, so that a process   *)
(* may die between two of them.  A profile is the model it stands for (its *)
(* canonical identity) and whether it carries the old "enabled": false;    *)
(* routing hints (roles, goodAt, notGoodAt) and scalar settings are left   *)
(* out, and with them the migration that only fills hints in and the       *)
(* rewrite that only strips an old "enabled": true.                        *)
(***************************************************************************)
EXTENDS Naturals

CONSTANTS
  Ids,          \* profile ids
  Models,       \* canonical identities: provider, base URL and model
  Plugins,      \* installed plugin ids
  Bundled,      \* Bundled[id]: the model of the bundled profile id, or Absent
  DefaultOff,   \* the bundled ids marked defaultDisabled
  Discovered,   \* Discovered[id]: the model Ollama offers under id, or Absent
  Absent,       \* no entry
  Null,         \* the entry null, the suppression marker
  Partial,      \* an entry without the required fields
  Missing,      \* no file, no result
  MaxEdits      \* bound: profile commands in one behaviour

ASSUME ConfigAssumption ==
  /\ Bundled \in [Ids -> Models \cup {Absent}]
  /\ Discovered \in [Ids -> Models \cup {Absent}]
  /\ MaxEdits \in Nat
  /\ DefaultOff \subseteq {id \in Ids : Bundled[id] # Absent}

VARIABLES
  file,        \* file[s]: the configuration file of scope s
  op,          \* the running operation
  shown,       \* what the last load returned, if nothing was written since
  edits,       \* profile commands so far
  off,         \* history: the <<scope, id>> a user disabled and did not enable
  on           \* history: the plugins a user enabled and did not disable

vars == <<file, op, shown, edits, off, on>>

-----------------------------------------------------------------------------
Scopes  == {"user", "workspace"}
Profile == [model : Models, legacyOff : BOOLEAN]
Entry   == Profile \cup {Absent, Null, Partial}
File    == [profiles : [Ids -> Entry], disabled : SUBSET Ids,
            seeded : SUBSET Ids, plugins : SUBSET Plugins]

\* The marks stand for no profile and no file.
ASSUME MarksAssumption ==
  /\ {Absent, Null, Partial} \cap Profile = {} /\ Missing \notin File
  /\ Absent # Null /\ Absent # Partial /\ Null # Partial

Blank == [profiles |-> [id \in Ids |-> Absent], disabled |-> {},
          seeded |-> {}, plugins |-> {}]

Read(s) == IF file[s] = Missing THEN Blank ELSE file[s]

\* What zod rejects: a profile without its required fields.
Rejected(f) == f # Missing /\ \E id \in Ids : f.profiles[id] = Partial

NoFiles == [s \in Scopes |-> Missing]
NoToggle == [kind |-> "none", plugin |-> Missing]
Idle == [pc |-> "idle", toggle |-> NoToggle, snap |-> NoFiles, restarts |-> 0,
         writes |-> NoFiles]

Init ==
  /\ \E ps \in SUBSET Plugins :
       file \in [Scopes -> {Missing, Blank}] \cup
                {[user |-> [Blank EXCEPT !.plugins = ps], workspace |-> Blank]}
  /\ op = Idle
  /\ shown = Missing
  /\ edits = 0
  /\ off = {} /\ on = {}

-----------------------------------------------------------------------------
(* The profile commands: read one raw file, change it, rename over it.      *)

Edit(s, f) ==
  /\ op.pc = "idle"
  /\ edits < MaxEdits
  /\ edits' = edits + 1
  /\ file' = [file EXCEPT ![s] = f]
  /\ shown' = Missing
  /\ UNCHANGED op

AddProfile(s, id, p) ==
  /\ Edit(s, [Read(s) EXCEPT !.profiles[id] = p])
  /\ off' = IF p.legacyOff THEN off \cup {<<s, id>>} ELSE off \ {<<s, id>>}
  /\ UNCHANGED on

RemoveProfile(s, id) ==
  /\ Edit(s, [Read(s) EXCEPT !.profiles[id] = Null])
  /\ off' = off \ {<<s, id>>}
  /\ UNCHANGED on

UpdateProfileEnabled(s, id, enabled) ==
  /\ Edit(s, [Read(s) EXCEPT
       !.disabled = IF enabled THEN Read(s).disabled \ {id} ELSE Read(s).disabled \cup {id}])
  /\ off' = IF enabled THEN off \ {<<s, id>>} ELSE off \cup {<<s, id>>}
  /\ UNCHANGED on

\* Hints on a profile of this file; on anything else, an entry of hints only.
UpdateProfileFields(s, id) ==
  /\ Edit(s, [Read(s) EXCEPT
       !.profiles[id] = IF Read(s).profiles[id] \in Profile THEN Read(s).profiles[id] ELSE Partial])
  /\ UNCHANGED <<off, on>>

\* init, or applying a preset, gives a workspace without a file an empty one;
\* init --force empties the file it finds.
CreateConfig(force) ==
  /\ file["workspace"] = Missing \/ force
  /\ Edit("workspace", Blank)
  /\ off' = {x \in off : x[1] # "workspace"}
  /\ on' = {}

-----------------------------------------------------------------------------
(* loadConfig: read both files, migrate, start over after a migration that   *)
(* wrote, then merge what was read.                                          *)

StartLoad(toggle) ==
  /\ op.pc = "idle"
  /\ op' = [Idle EXCEPT !.pc = "read", !.toggle = toggle]
  /\ UNCHANGED <<file, shown, edits, off, on>>

LegacyOff(f) ==
  IF f = Missing THEN {}
  ELSE {id \in Ids : f.profiles[id] \in Profile /\ f.profiles[id].legacyOff}

Stripped(f) == [id \in Ids |-> IF id \in LegacyOff(f)
                                 THEN [f.profiles[id] EXCEPT !.legacyOff = FALSE]
                                 ELSE f.profiles[id]]

\* Mutant: the ids are listed, the old field stays.
MigrateOne_FieldStays(f) ==
  IF LegacyOff(f) = {} THEN Missing ELSE [f EXCEPT !.disabled = f.disabled \cup LegacyOff(f)]

\* Mutant: the old field is stripped and forgotten.
MigrateOne_Forget(f) ==
  IF LegacyOff(f) = {} THEN Missing ELSE [f EXCEPT !.profiles = Stripped(f)]

\* migrateLegacyEnabledField on one file: strip the old field and list the id
\* as disabled instead; nothing to write if there is none.
MigrateOne(f) ==
  IF LegacyOff(f) = {} THEN Missing
  ELSE [f EXCEPT !.profiles = Stripped(f), !.disabled = f.disabled \cup LegacyOff(f)]

\* The profiles written out in two files, and the model of one.
Explicit(fs) == {x \in Scopes \X Ids : fs[x[1]] # Missing /\ fs[x[1]].profiles[x[2]] \in Profile}
ModelOf(fs, x) == fs[x[1]].profiles[x[2]].model

\* Mutant: only the duplicates inside one file are seen.
Keeps_PerFile(fs, K) ==
  \A x \in Explicit(fs) :
    \E k \in K : {y \in K : y[1] = x[1] /\ ModelOf(fs, y) = ModelOf(fs, x)} = {k}

\* Of the profiles of one model migrateCanonicalDuplicates keeps one, in the
\* workspace if there is one there; which of several in the same file depends
\* on roles and order and is left open.
Keeps(fs, K) ==
  \A x \in Explicit(fs) :
    \E k \in K : /\ {y \in K : ModelOf(fs, y) = ModelOf(fs, x)} = {k}
                 /\ x[1] = "workspace" => k[1] = "workspace"

Nulled(f, ids) ==
  IF ids = {} THEN Missing
  ELSE [f EXCEPT !.profiles = [id \in Ids |-> IF id \in ids THEN Null ELSE f.profiles[id]]]

DropLosers(fs, K) == [s \in Scopes |-> Nulled(fs[s], {id \in Ids : <<s, id>> \in Explicit(fs) \ K})]

\* What the first migration with something to do wants written.
Pending(fs, K) ==
  IF \E s \in Scopes : LegacyOff(fs[s]) # {} THEN [s \in Scopes |-> MigrateOne(fs[s])]
  ELSE DropLosers(fs, K)

\* A file the schema rejects makes the load throw.
ReadFiles ==
  /\ op.pc = "read"
  /\ IF \E s \in Scopes : Rejected(file[s])
       THEN op' = Idle
       ELSE \E K \in SUBSET Explicit(file) :
              /\ Keeps(file, K)
              /\ op' = [op EXCEPT !.pc = IF Pending(file, K) = NoFiles THEN "seed" ELSE "migrate",
                                  !.snap = file, !.writes = Pending(file, K)]
  /\ UNCHANGED <<file, shown, edits, off, on>>

\* The workspace file is rewritten before the user's, from what was read;
\* then the load starts over.
Migrate(s) ==
  /\ op.pc = "migrate"
  /\ op.writes[s] # Missing
  /\ s = "user" => op.writes["workspace"] = Missing
  /\ file' = [file EXCEPT ![s] = op.writes[s]]
  /\ shown' = Missing
  /\ LET left == [op.writes EXCEPT ![s] = Missing] IN
     op' = IF left = NoFiles
             THEN [op EXCEPT !.pc = "read", !.writes = left, !.restarts = op.restarts + 1]
             ELSE [op EXCEPT !.writes = left]
  /\ UNCHANGED <<edits, off, on>>

\* Reads the workspace file again and lists its default-off profiles as
\* disabled, each once; what the load returns was read before.
MigrateSeedDefaultDisabled ==
  LET ws  == file["workspace"]
      new == IF ws = Missing THEN {} ELSE DefaultOff \ ws.seeded
  IN
  /\ op.pc = "seed"
  /\ file' = IF new = {} THEN file
             ELSE [file EXCEPT !["workspace"] =
                     [ws EXCEPT !.disabled = ws.disabled \cup new,
                                !.seeded = ws.seeded \cup new]]
  /\ op' = [op EXCEPT !.pc = "merge"]
  /\ UNCHANGED <<shown, edits, off, on>>

-----------------------------------------------------------------------------
(* mergeConfigs, the disabled lists and the discovered profiles.             *)

Enabled(m) == [model |-> m, legacyOff |-> FALSE]

BundledProfiles == [id \in Ids |-> IF Bundled[id] = Absent THEN Absent ELSE Enabled(Bundled[id])]

Overlay(base, f) ==
  [id \in Ids |-> CASE f.profiles[id] = Absent -> base[id]
                    [] f.profiles[id] = Null   -> Absent
                    [] OTHER                   -> f.profiles[id]]

AllDisabled(u, w) == u.disabled \cup w.disabled

\* Mutant: the merged list is the one of the lower layer.
ActivePlugins_Base(u, w) == IF u.plugins # {} THEN u.plugins ELSE w.plugins

\* An empty list inherits.
ActivePlugins(u, w) == IF w.plugins # {} THEN w.plugins ELSE u.plugins

Merged(u, w, offered) ==
  LET explicit   == Overlay(Overlay(BundledProfiles, u), w)
      disabled   == AllDisabled(u, w)
      suppressed == {id \in Ids : u.profiles[id] = Null \/ w.profiles[id] = Null}
      covered    == {explicit[id].model : id \in {i \in Ids : explicit[i] # Absent}}
      found(id)  == /\ id \in offered
                    /\ explicit[id] = Absent
                    /\ id \notin suppressed
                    /\ Discovered[id] \notin covered
      all        == [id \in Ids |-> IF found(id) THEN Enabled(Discovered[id]) ELSE explicit[id]]
  IN [profiles |-> [id \in Ids |-> IF all[id] # Absent /\ id \in disabled
                                     THEN [all[id] EXCEPT !.legacyOff = TRUE] ELSE all[id]],
      disabled |-> disabled,
      seeded   |-> u.seeded \cup w.seeded,
      plugins  |-> ActivePlugins(u, w)]

OrBlank(f) == IF f = Missing THEN Blank ELSE f

\* The load returns; a toggle goes on if the workspace has a file.
FinishLoad(offered) ==
  /\ op.pc = "merge"
  /\ shown' = Merged(OrBlank(op.snap["user"]), OrBlank(op.snap["workspace"]), offered)
  /\ op' = IF op.toggle.kind # "none" /\ op.snap["workspace"] # Missing
             THEN [op EXCEPT !.pc = "write"] ELSE Idle
  /\ UNCHANGED <<file, edits, off, on>>

\* enablePlugin, disablePlugin: the merged configuration becomes the
\* workspace file, with the list changed.
WriteToggle ==
  LET p   == op.toggle.plugin
      add == op.toggle.kind = "enable"
  IN
  /\ op.pc = "write"
  /\ file' = [file EXCEPT !["workspace"] =
                [shown EXCEPT !.plugins = IF add THEN shown.plugins \cup {p}
                                                 ELSE shown.plugins \ {p}]]
  /\ on' = IF add THEN on \cup {p} ELSE on \ {p}
  /\ shown' = Missing
  /\ op' = Idle
  /\ UNCHANGED <<edits, off>>

\* The process dies, or a file-system call throws, between two steps.
Crash ==
  /\ op.pc # "idle"
  /\ op' = Idle
  /\ UNCHANGED <<file, shown, edits, off, on>>

-----------------------------------------------------------------------------
Offers == SUBSET {id \in Ids : Discovered[id] # Absent}

Commands ==
  \/ \E s \in Scopes, id \in Ids, p \in Profile : AddProfile(s, id, p)
  \/ \E s \in Scopes, id \in Ids : RemoveProfile(s, id)
  \/ \E s \in Scopes, id \in Ids, enabled \in BOOLEAN : UpdateProfileEnabled(s, id, enabled)
  \/ \E s \in Scopes, id \in Ids : UpdateProfileFields(s, id)
  \/ \E force \in BOOLEAN : CreateConfig(force)

Toggles == {NoToggle} \cup [kind : {"enable", "disable"}, plugin : Plugins]

Load ==
  \/ \E toggle \in Toggles : StartLoad(toggle)
  \/ ReadFiles
  \/ \E s \in Scopes : Migrate(s)
  \/ MigrateSeedDefaultDisabled
  \/ \E offered \in Offers : FinishLoad(offered)
  \/ WriteToggle

Next == Commands \/ Load \/ Crash

Spec == Init /\ [][Next]_vars

-----------------------------------------------------------------------------
(* Properties *)

Stages == {"idle", "read", "migrate", "seed", "merge", "write"}

\* The type of every variable.
TypeOK ==
  /\ edits \in 0 .. MaxEdits
  /\ file \in [Scopes -> File \cup {Missing}]
  /\ op \in [pc : Stages, toggle : Toggles, snap : [Scopes -> File \cup {Missing}],
             restarts : 0 .. 2, writes : [Scopes -> File \cup {Missing}]]
  /\ shown \in File \cup {Missing}
  /\ off \subseteq Scopes \X Ids
  /\ on \subseteq Plugins

\* What a user switched stays switched in every configuration that is loaded. A
\* profile switched off, by the list or by the old field, at either level, is
\* never returned as usable: not after the migrations, a crash between their
\* writes, a plugin toggle that rewrites the file, or a switch at the other
\* level. A plugin that was enabled is active until it is disabled.
SwitchesStick ==
  shown # Missing =>
    /\ \A x \in off : shown.profiles[x[2]] = Absent \/ shown.profiles[x[2]].legacyOff
    /\ on \subseteq shown.plugins

\* A load that reaches the merge leaves nothing for the next one to migrate:
\* no old field, no two explicit profiles of one model, nothing to seed; and it
\* starts over at most twice (TypeOK bounds its restarts).
LoadSettles ==
  /\ TypeOK
  /\ op.pc = "merge" =>
       /\ \A s \in Scopes : LegacyOff(file[s]) = {}
       /\ \A x, y \in Explicit(file) : ModelOf(file, x) = ModelOf(file, y) => x = y
       /\ file["workspace"] # Missing => DefaultOff \subseteq file["workspace"].seeded
=============================================================================
