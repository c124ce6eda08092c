-------------------------- MODULE ConfigLayersProofs --------------------------
(***************************************************************************)
(* Theorems about ConfigLayers, for any profiles, models and plugins and   *)
(* any number of commands, with the process dying between any two writes:  *)
(* what a user switched stays switched in every configuration that is      *)
(* loaded; and a load starts over at most twice and leaves nothing for the *)
(* next one to migrate.  And about ConfigEdits beside it, for any number   *)
(* of edits and crashes: an acknowledged edit that ran beside no other     *)
(* stays in the configuration file, and the file is torn only by an edit   *)
(* in place or by two edits in the shared temporary file.                  *)
(***************************************************************************)
EXTENDS MCConfigLayers, FiniteSetTheorems, SequenceTheorems, TLAPS

-----------------------------------------------------------------------------
(* What the files of a workspace say, fs standing for the files on the disk  *)
(* or for what a load has read of them.                                      *)

\* The id is switched off in the file f, by the list or by the old field.
Offed(f, id) == f # Missing /\ (id \in f.disabled \/ id \in LegacyOff(f))

\* The files have what was switched.
FilesHold(fs) ==
  /\ \A x \in off : Offed(fs[x[1]], x[2])
  /\ on \subseteq OrBlank(fs["workspace"]).plugins

\* Nothing is left for the first migration, or for the second one.
Clean(fs)  == \A s \in Scopes : LegacyOff(fs[s]) = {}
Unique(fs) == \A x, y \in Explicit(fs) : ModelOf(fs, x) = ModelOf(fs, y) => x = y

\* Nothing is left to seed.
Seeded(f) == f # Missing => DefaultOff \subseteq f.seeded

\* What the files are to become.
Target(fs, K) == [s \in Scopes |-> IF Pending(fs, K)[s] = Missing THEN fs[s] ELSE Pending(fs, K)[s]]

\* Where a load stands after the restarts there were.
ReadInv ==
  op.pc = "read" => /\ op.restarts > 0 => Clean(file)
                    /\ op.restarts > 1 => Unique(file)

\* Of the files to be written, each one is still what was read, or as it is to be.
MigrateInv ==
  op.pc = "migrate" =>
    /\ op.writes # NoFiles
    /\ IF Clean(op.snap) THEN op.restarts < 2 ELSE op.restarts = 0
    /\ \E K \in SUBSET Explicit(op.snap) :
         /\ Keeps(op.snap, K)
         /\ \A s \in Scopes :
              IF op.writes[s] = Missing THEN file[s] = Target(op.snap, K)[s]
              ELSE op.writes[s] = Pending(op.snap, K)[s] /\ file[s] = op.snap[s]

SeedInv ==
  op.pc = "seed" => Clean(file) /\ Unique(file) /\ op.snap = file

\* What was read has what was switched, too.
MergeInv ==
  op.pc \in {"seed", "merge"} =>
    Clean(op.snap) /\ FilesHold(op.snap) /\ \A s \in Scopes : ~ Rejected(op.snap[s])

SettledInv ==
  op.pc = "merge" => Clean(file) /\ Unique(file) /\ Seeded(file["workspace"])

\* What was returned has what was switched, and lists it, should it be written.
ShownInv ==
  /\ shown # Missing => SwitchesStick /\ \A x \in off : x[2] \in shown.disabled
  /\ op.pc = "write" => shown # Missing /\ op.toggle # NoToggle

LayersInv ==
  /\ FilesHold(file)
  /\ ReadInv /\ MigrateInv /\ SeedInv /\ MergeInv /\ SettledInv
  /\ ShownInv

-----------------------------------------------------------------------------
(* The files *)

Layers == [Scopes -> File \cup {Missing}]

LEMMA BlankFile ==
  /\ Blank \in File /\ Blank # Missing /\ LegacyOff(Blank) = {}
  /\ Blank.plugins = {}
<1>1. Blank \in File /\ Blank.plugins = {}
  BY DEF Blank, File, Entry
<1>2. \A id \in Ids : Blank.profiles[id] \notin Profile
  BY MarksAssumption DEF Blank
<1>3. QED
  BY <1>1, <1>2, MarksAssumption DEF LegacyOff

LEMMA FileFields ==
  ASSUME NEW f \in File
  PROVE  /\ f # Missing
         /\ f.profiles \in [Ids -> Entry] /\ f.disabled \in SUBSET Ids
         /\ f.seeded \in SUBSET Ids /\ f.plugins \in SUBSET Plugins
         /\ LegacyOff(f) = {id \in Ids : f.profiles[id] \in Profile /\ f.profiles[id].legacyOff}
         /\ OrBlank(f) = f
BY MarksAssumption DEF File, LegacyOff, OrBlank

LEMMA PairFields ==
  /\ \A x \in Scopes \X Ids : x[1] \in Scopes /\ x[2] \in Ids /\ x = <<x[1], x[2]>>
  /\ \A s \in Scopes, id \in Ids : <<s, id>> \in Scopes \X Ids
OBVIOUS

LEMMA ExplicitFields ==
  ASSUME NEW fs \in Layers, NEW s \in Scopes, NEW id \in Ids
  PROVE  <<s, id>> \in Explicit(fs) <=> fs[s] # Missing /\ fs[s].profiles[id] \in Profile
BY DEF Explicit

\* The first migration loses nothing that was switched off.
LEMMA MigrateOneKeeps ==
  ASSUME NEW f \in File, LegacyOff(f) # {}
  PROVE  /\ MigrateOne(f) \in File
         /\ LegacyOff(MigrateOne(f)) = {}
         /\ \A id \in Ids : Offed(f, id) => Offed(MigrateOne(f), id)
         /\ MigrateOne(f).plugins = f.plugins
<1> DEFINE m == [f EXCEPT !.profiles = Stripped(f), !.disabled = f.disabled \cup LegacyOff(f)]
<1>1. MigrateOne(f) = m
  BY DEF MigrateOne
<1>2. \A id \in LegacyOff(f) : f.profiles[id] \in Profile /\ id \in Ids
  BY FileFields
<1>3. \A id \in Ids :
        /\ id \in LegacyOff(f) => Stripped(f)[id] \in Profile /\ ~ Stripped(f)[id].legacyOff
        /\ id \notin LegacyOff(f) => Stripped(f)[id] = f.profiles[id]
  BY <1>2 DEF Stripped, Profile
<1>4. Stripped(f) \in [Ids -> Entry]
  <2>1. ASSUME NEW id \in Ids
        PROVE  Stripped(f)[id] \in Entry
    <3>1. CASE id \in LegacyOff(f)
      BY <1>3, <3>1 DEF Entry
    <3>2. CASE id \notin LegacyOff(f)
      <4>1. f.profiles[id] \in Entry
        BY FileFields
      <4>2. QED
        BY <1>3, <3>2, <4>1
    <3>3. QED
      BY <3>1, <3>2
  <2>2. QED
    BY <2>1 DEF Stripped
<1>5. f.disabled \cup LegacyOff(f) \in SUBSET Ids
  BY FileFields
<1>6. /\ m \in File /\ m.profiles = Stripped(f) /\ m.disabled = f.disabled \cup LegacyOff(f)
      /\ m.plugins = f.plugins
  BY <1>4, <1>5 DEF File
<1> HIDE DEF m
<1>7. LegacyOff(m) = {}
  <2>1. ASSUME NEW id \in Ids, m.profiles[id] \in Profile, m.profiles[id].legacyOff
        PROVE  FALSE
    BY <1>3, <1>6, <2>1, FileFields
  <2>2. QED
    BY <1>6, <2>1, FileFields
<1>8. QED
  BY <1>1, <1>6, <1>7, FileFields DEF Offed

\* The second migration makes profiles null, and changes nothing else.
LEMMA NulledKeeps ==
  ASSUME NEW f \in File, NEW ids \in SUBSET Ids, ids # {}
  PROVE  /\ Nulled(f, ids) \in File
         /\ Nulled(f, ids).disabled = f.disabled /\ Nulled(f, ids).plugins = f.plugins
         /\ \A id \in Ids : Nulled(f, ids).profiles[id] = IF id \in ids THEN Null ELSE f.profiles[id]
<1> DEFINE ps == [id \in Ids |-> IF id \in ids THEN Null ELSE f.profiles[id]]
<1>1. ps \in [Ids -> Entry]
  BY FileFields DEF Entry
<1>2. Nulled(f, ids) = [f EXCEPT !.profiles = ps]
  BY DEF Nulled
<1>3. \A id \in Ids : ps[id] = IF id \in ids THEN Null ELSE f.profiles[id]
  OBVIOUS
<1> HIDE DEF ps
<1>4. QED
  BY <1>1, <1>2, <1>3 DEF File

LEMMA NulledIsClean ==
  ASSUME NEW f \in File, NEW ids \in SUBSET Ids, ids # {}, LegacyOff(f) = {}
  PROVE  LegacyOff(Nulled(f, ids)) = {}
<1>1. ASSUME NEW id \in Ids, Nulled(f, ids).profiles[id] \in Profile,
             Nulled(f, ids).profiles[id].legacyOff
      PROVE  FALSE
  <2>1. Nulled(f, ids).profiles[id] = f.profiles[id]
    BY <1>1, NulledKeeps, MarksAssumption
  <2>2. QED
    BY <1>1, <2>1, FileFields
<1>2. QED
  BY <1>1, NulledKeeps, FileFields

-----------------------------------------------------------------------------
(* What a load is about to write *)

Losers(fs, K, s) == {id \in Ids : <<s, id>> \in Explicit(fs) \ K}

LEMMA LosersType == \A fs, K, s : Losers(fs, K, s) \in SUBSET Ids
BY DEF Losers

LEMMA PendingFields ==
  ASSUME NEW fs, NEW K, NEW s \in Scopes
  PROVE  Pending(fs, K)[s] = IF Clean(fs) THEN Nulled(fs[s], Losers(fs, K, s))
                             ELSE MigrateOne(fs[s])
BY DEF Pending, Clean, DropLosers, Losers

LEMMA NullingWrites ==
  ASSUME NEW fs \in Layers, NEW K, NEW s \in Scopes
  PROVE  /\ Losers(fs, K, s) = {} => Nulled(fs[s], Losers(fs, K, s)) = Missing
         /\ Losers(fs, K, s) # {} => /\ fs[s] \in File
                                     /\ Nulled(fs[s], Losers(fs, K, s)) # Missing
<1>1. Losers(fs, K, s) # {} => fs[s] \in File
  BY ExplicitFields DEF Losers, Layers
<1>2. Losers(fs, K, s) \in SUBSET Ids
  BY DEF Losers
<1>3. Losers(fs, K, s) # {} => Nulled(fs[s], Losers(fs, K, s)) # Missing
  BY <1>1, <1>2, NulledKeeps, FileFields
<1>4. QED
  BY <1>1, <1>3 DEF Nulled

LEMMA MigratingWrites ==
  ASSUME NEW fs \in Layers, NEW s \in Scopes
  PROVE  /\ LegacyOff(fs[s]) = {} => MigrateOne(fs[s]) = Missing
         /\ LegacyOff(fs[s]) # {} => fs[s] \in File /\ MigrateOne(fs[s]) # Missing
<1>1. LegacyOff(fs[s]) # {} => fs[s] \in File
  BY DEF LegacyOff, Layers
<1>2. QED
  BY <1>1, MigrateOneKeeps, FileFields DEF MigrateOne

\* What is written in place of a file has what was switched.
LEMMA PendingKeeps ==
  ASSUME NEW fs \in Layers, NEW K, NEW s \in Scopes, Pending(fs, K)[s] # Missing
  PROVE  /\ fs[s] \in File /\ Pending(fs, K)[s] \in File
         /\ \A id \in Ids : Offed(fs[s], id) => Offed(Pending(fs, K)[s], id)
         /\ Pending(fs, K)[s].plugins = fs[s].plugins
<1> DEFINE n == Nulled(fs[s], Losers(fs, K, s))
<1>1. CASE Clean(fs)
  <2>1. Losers(fs, K, s) # {} /\ Losers(fs, K, s) \in SUBSET Ids
    BY <1>1, PendingFields, NullingWrites, LosersType
  <2>2. fs[s] \in File /\ n \in File /\ n.disabled = fs[s].disabled /\ n.plugins = fs[s].plugins
    BY <2>1, NullingWrites, NulledKeeps
  <2>3. \A id \in Ids : Offed(fs[s], id) => Offed(n, id)
    BY <1>1, <2>2, FileFields DEF Offed, Clean
  <2>4. QED
    BY <1>1, <2>2, <2>3, PendingFields
<1>2. CASE ~ Clean(fs)
  <2>1. LegacyOff(fs[s]) # {}
    BY <1>2, PendingFields, MigratingWrites
  <2>2. QED
    BY <1>2, <2>1, PendingFields, MigratingWrites, MigrateOneKeeps
<1>3. QED
  BY <1>1, <1>2

LEMMA TargetFields ==
  ASSUME NEW fs \in Layers, NEW K
  PROVE  /\ Target(fs, K) \in Layers
         /\ \A s \in Scopes : Target(fs, K)[s] = IF Pending(fs, K)[s] = Missing THEN fs[s]
                                                 ELSE Pending(fs, K)[s]
<1>1. \A s \in Scopes : Target(fs, K)[s] = IF Pending(fs, K)[s] = Missing THEN fs[s]
                                           ELSE Pending(fs, K)[s]
  BY DEF Target
<1>2. \A s \in Scopes : Target(fs, K)[s] \in File \cup {Missing}
  BY <1>1, PendingKeeps DEF Layers
<1>3. QED
  BY <1>1, <1>2 DEF Target, Layers

\* Once the files are written no profile carries the old field.
LEMMA TargetIsClean ==
  ASSUME NEW fs \in Layers, NEW K
  PROVE  Clean(Target(fs, K))
<1> SUFFICES ASSUME NEW s \in Scopes
             PROVE  LegacyOff(Target(fs, K)[s]) = {}
  BY DEF Clean
<1>1. CASE Clean(fs)
  <2>1. CASE Losers(fs, K, s) = {}
    BY <1>1, <2>1, PendingFields, NullingWrites, TargetFields DEF Clean
  <2>2. CASE Losers(fs, K, s) # {}
    <3>1. fs[s] \in File /\ Nulled(fs[s], Losers(fs, K, s)) # Missing
      BY <2>2, NullingWrites
    <3>2. Target(fs, K)[s] = Nulled(fs[s], Losers(fs, K, s))
      BY <1>1, <3>1, PendingFields, TargetFields
    <3>3. LegacyOff(fs[s]) = {} /\ Losers(fs, K, s) \in SUBSET Ids
      BY <1>1, LosersType DEF Clean
    <3>4. QED
      BY <2>2, <3>1, <3>2, <3>3, NulledIsClean
  <2>3. QED
    BY <2>1, <2>2
<1>2. CASE ~ Clean(fs)
  <2>1. Target(fs, K)[s] = IF MigrateOne(fs[s]) = Missing THEN fs[s] ELSE MigrateOne(fs[s])
    BY <1>2, PendingFields, TargetFields
  <2>2. CASE LegacyOff(fs[s]) = {}
    BY <2>1, <2>2, MigratingWrites
  <2>3. CASE LegacyOff(fs[s]) # {}
    <3>1. fs[s] \in File /\ MigrateOne(fs[s]) # Missing
      BY <2>3, MigratingWrites
    <3>2. QED
      BY <2>1, <2>3, <3>1, MigrateOneKeeps
  <2>4. QED
    BY <2>2, <2>3
<1>3. QED
  BY <1>1, <1>2

\* Once the second migration has written there are no two profiles of one model.
LEMMA KeptAreUnique ==
  ASSUME NEW fs, NEW K \in SUBSET Explicit(fs), Keeps(fs, K), NEW x \in K, NEW y \in K,
         ModelOf(fs, x) = ModelOf(fs, y)
  PROVE  x = y
<1>1. PICK k \in K : {z \in K : ModelOf(fs, z) = ModelOf(fs, x)} = {k}
  BY DEF Keeps
<1>2. QED
  BY <1>1

LEMMA TargetIsUnique ==
  ASSUME NEW fs \in Layers, Clean(fs), NEW K \in SUBSET Explicit(fs), Keeps(fs, K)
  PROVE  Unique(Target(fs, K))
<1> DEFINE T == Target(fs, K)
<1>1. ASSUME NEW x \in Explicit(T)
      PROVE  x \in K /\ ModelOf(T, x) = ModelOf(fs, x)
  <2>1. PICK s \in Scopes, id \in Ids : x = <<s, id>>
    BY DEF Explicit
  <2>2. T[s] # Missing /\ T[s].profiles[id] \in Profile
    BY <1>1, <2>1, TargetFields, ExplicitFields
  <2>3. fs[s] # Missing /\ T[s].profiles[id] = fs[s].profiles[id] /\ id \notin Losers(fs, K, s)
    <3>1. CASE Losers(fs, K, s) = {}
      BY <2>2, <3>1, PendingFields, NullingWrites, TargetFields
    <3>2. CASE Losers(fs, K, s) # {}
      <4>1. /\ fs[s] \in File /\ Losers(fs, K, s) \in SUBSET Ids
            /\ T[s] = Nulled(fs[s], Losers(fs, K, s))
        BY <3>2, PendingFields, NullingWrites, TargetFields, LosersType
      <4>2. T[s].profiles[id] = IF id \in Losers(fs, K, s) THEN Null ELSE fs[s].profiles[id]
        BY <3>2, <4>1, NulledKeeps
      <4>3. QED
        BY <2>2, <4>1, <4>2, FileFields, MarksAssumption
    <3>3. QED
      BY <3>1, <3>2
  <2>4. x \in Explicit(fs)
    BY <2>1, <2>2, <2>3, ExplicitFields
  <2>5. x \in K
    BY <2>1, <2>3, <2>4 DEF Losers
  <2>6. QED
    BY <2>1, <2>3, <2>5 DEF ModelOf
<1>2. QED
  BY <1>1, KeptAreUnique DEF Unique

\* Nothing is to be written exactly when neither migration has anything to do.
LEMMA NothingPending ==
  ASSUME NEW fs \in Layers, NEW K \in SUBSET Explicit(fs), Keeps(fs, K)
  PROVE  Pending(fs, K) = NoFiles <=> Clean(fs) /\ Unique(fs)
<1>1. ASSUME Pending(fs, K) = NoFiles
      PROVE  Clean(fs) /\ Unique(fs)
  <2>1. \A s \in Scopes : Pending(fs, K)[s] = Missing
    BY <1>1 DEF NoFiles
  <2>2. Clean(fs)
    BY <2>1, PendingFields, MigratingWrites DEF Clean
  <2>3. Target(fs, K) = fs
    BY <2>1, TargetFields DEF Layers
  <2>4. QED
    BY <2>2, <2>3, TargetIsUnique
<1>2. ASSUME Clean(fs), Unique(fs)
      PROVE  Pending(fs, K) = NoFiles
  <2>1. \A x \in Explicit(fs) : x \in K
    <3>1. SUFFICES ASSUME NEW x \in Explicit(fs)
                   PROVE  x \in K
      OBVIOUS
    <3>2. PICK k \in K : {z \in K : ModelOf(fs, z) = ModelOf(fs, x)} = {k}
      BY DEF Keeps
    <3>3. k \in Explicit(fs) /\ ModelOf(fs, k) = ModelOf(fs, x)
      BY <3>2
    <3>4. QED
      BY <1>2, <3>2, <3>3 DEF Unique
  <2>2. \A s \in Scopes : Losers(fs, K, s) = {}
    BY <2>1 DEF Losers
  <2>3. \A s \in Scopes : Pending(fs, K)[s] = Missing
    BY <1>2, <2>2, PendingFields, NullingWrites
  <2>4. QED
    BY <1>2, <2>3 DEF Pending, DropLosers, Clean, NoFiles
<1>3. QED
  BY <1>1, <1>2

-----------------------------------------------------------------------------
(* What a load returns *)

Usable == [Ids -> Profile \cup {Absent}]

LEMMA OverlayType ==
  ASSUME NEW base \in Usable, NEW f \in File, ~ Rejected(f)
  PROVE  Overlay(base, f) \in Usable
<1>1. ASSUME NEW id \in Ids
      PROVE  Overlay(base, f)[id] \in Profile \cup {Absent}
  <2>1. f.profiles[id] \in Entry /\ f.profiles[id] # Partial
    BY FileFields DEF Rejected
  <2>2. Overlay(base, f)[id] = IF f.profiles[id] = Absent THEN base[id]
                               ELSE IF f.profiles[id] = Null THEN Absent ELSE f.profiles[id]
    BY MarksAssumption DEF Overlay
  <2>3. QED
    BY <2>1, <2>2 DEF Entry, Usable
<1>2. QED
  BY <1>1 DEF Overlay, Usable

\* A profile that either file lists as disabled is returned switched off, if at all.
LEMMA MergedFields ==
  ASSUME NEW u \in File, NEW w \in File, ~ Rejected(u), ~ Rejected(w), NEW offered \in Offers
  PROVE  /\ Merged(u, w, offered) \in File
         /\ Merged(u, w, offered).disabled = u.disabled \cup w.disabled
         /\ \A id \in u.disabled \cup w.disabled :
              \/ Merged(u, w, offered).profiles[id] = Absent
              \/ Merged(u, w, offered).profiles[id].legacyOff
         /\ Merged(u, w, offered).plugins = ActivePlugins(u, w)
<1> DEFINE explicit   == Overlay(Overlay(BundledProfiles, u), w)
           disabled   == AllDisabled(u, w)
           suppressed == {id \in Ids : u.profiles[id] = Null \/ w.profiles[id] = Null}
           covered    == {explicit[id].model : id \in {i \in Ids : explicit[i] # Absent}}
           found(id)  == /\ id \in offered
                         /\ explicit[id] = Absent
                         /\ id \notin suppressed
                         /\ Discovered[id] \notin covered
           all        == [id \in Ids |-> IF found(id) THEN Enabled(Discovered[id]) ELSE explicit[id]]
           ps         == [id \in Ids |-> IF all[id] # Absent /\ id \in disabled
                                           THEN [all[id] EXCEPT !.legacyOff = TRUE] ELSE all[id]]
<1>1. Merged(u, w, offered) =
        [profiles |-> ps, disabled |-> disabled, seeded |-> u.seeded \cup w.seeded,
         plugins |-> ActivePlugins(u, w)]
  BY DEF Merged
<1>2. BundledProfiles \in Usable
  <2>1. \A id \in Ids : Bundled[id] \in Models \cup {Absent}
    BY ConfigAssumption
  <2>2. QED
    BY <2>1 DEF BundledProfiles, Enabled, Usable, Profile
<1>3. explicit \in Usable
  BY <1>2, OverlayType
<1>4. ASSUME NEW id \in Ids
      PROVE  all[id] \in Profile \cup {Absent}
  <2>1. found(id) => Discovered[id] \in Models
    BY ConfigAssumption DEF Offers
  <2>2. explicit[id] \in Profile \cup {Absent}
    BY <1>3 DEF Usable
  <2> HIDE DEF found, explicit
  <2>3. QED
    BY <2>1, <2>2 DEF Enabled, Profile
<1> HIDE DEF all
<1>5. ASSUME NEW id \in Ids
      PROVE  /\ ps[id] \in Profile \cup {Absent}
             /\ id \in disabled => ps[id] = Absent \/ ps[id].legacyOff
  BY <1>4 DEF Profile
<1>6. ps \in [Ids -> Entry]
  BY <1>5 DEF Entry
<1> HIDE DEF ps
<1>7. disabled = u.disabled \cup w.disabled /\ disabled \in SUBSET Ids
      /\ u.seeded \cup w.seeded \in SUBSET Ids /\ ActivePlugins(u, w) \in SUBSET Plugins
  BY FileFields DEF AllDisabled, ActivePlugins
<1> HIDE DEF disabled
<1>8. QED
  BY <1>1, <1>5, <1>6, <1>7 DEF File

-----------------------------------------------------------------------------
(* The commands: between loads, one file and what was switched in it change. *)

LEMMA IdleFields ==
  /\ Idle.pc = "idle" /\ Idle.restarts = 0
  /\ Idle \in [pc : Stages, toggle : Toggles, snap : Layers, restarts : 0 .. 2, writes : Layers]
<1>1. NoFiles \in Layers
  BY DEF NoFiles, Layers
<1>2. QED
  BY <1>1 DEF Idle, Stages, Toggles

LEMMA EditKeeps ==
  ASSUME TypeOK, LayersInv, NEW s \in Scopes, NEW f \in File, Edit(s, f),
         off' \subseteq Scopes \X Ids, on' \subseteq Plugins,
         \A x \in off' : IF x[1] = s THEN Offed(f, x[2]) ELSE x \in off,
         on' \subseteq IF s = "workspace" THEN f.plugins ELSE on
  PROVE  TypeOK' /\ LayersInv'
<1>1. /\ op.pc = "idle" /\ op' = op /\ shown' = Missing
      /\ edits' \in 0 .. MaxEdits
      /\ file' = [file EXCEPT ![s] = f]
  BY ConfigAssumption DEF Edit, TypeOK
<1>2. /\ file' \in Layers /\ file'[s] = f
      /\ \A t \in Scopes \ {s} : file'[t] = file[t]
  BY <1>1 DEF TypeOK, Layers
<1>3. TypeOK'
  BY <1>1, <1>2 DEF TypeOK, Layers
<1>4. FilesHold(file)'
  <2>1. ASSUME NEW x \in off'
        PROVE  Offed(file'[x[1]], x[2])
    BY <1>2, <2>1, PairFields DEF LayersInv, FilesHold
  <2>2. on' \subseteq OrBlank(file'["workspace"]).plugins
    <3>1. CASE s = "workspace"
      BY <1>2, <3>1, FileFields
    <3>2. CASE s # "workspace"
      <4>1. file'["workspace"] = file["workspace"]
        BY <1>2, <3>2 DEF Scopes
      <4>2. QED
        BY <3>2, <4>1 DEF LayersInv, FilesHold
    <3>3. QED
      BY <3>1, <3>2
  <2>3. QED
    BY <2>1, <2>2 DEF FilesHold
<1>5. QED
  BY <1>1, <1>3, <1>4
  DEF LayersInv, ReadInv, MigrateInv, SeedInv, MergeInv, SettledInv, ShownInv

LEMMA ReadFields ==
  ASSUME TypeOK, LayersInv, NEW s \in Scopes
  PROVE  /\ Read(s) \in File
         /\ \A id \in Ids : <<s, id>> \in off => Offed(Read(s), id)
         /\ s = "workspace" => on \subseteq Read(s).plugins
<1>1. Read(s) \in File
  BY BlankFile DEF Read, TypeOK, File
<1>2. ASSUME NEW id \in Ids, <<s, id>> \in off
      PROVE  Offed(Read(s), id)
  <2>1. Offed(file[s], id)
    BY <1>2 DEF LayersInv, FilesHold
  <2>2. QED
    BY <2>1 DEF Offed, Read
<1>3. s = "workspace" => on \subseteq Read(s).plugins
  BY DEF LayersInv, FilesHold, Read, OrBlank
<1>4. QED
  BY <1>1, <1>2, <1>3

\* Another entry for one id.
LEMMA EntryFields ==
  ASSUME NEW g \in File, NEW id \in Ids, NEW e \in Entry
  PROVE  LET f == [g EXCEPT !.profiles[id] = e] IN
         /\ f \in File /\ f.plugins = g.plugins /\ f.disabled = g.disabled
         /\ f.profiles[id] = e
         /\ \A j \in Ids \ {id} : Offed(g, j) => Offed(f, j)
<1> DEFINE ps == [g.profiles EXCEPT ![id] = e]
           f  == [g EXCEPT !.profiles = ps]
<1>1. ps \in [Ids -> Entry] /\ ps[id] = e /\ \A j \in Ids \ {id} : ps[j] = g.profiles[j]
  BY FileFields
<1> HIDE DEF ps
<1>2. f \in File /\ f.plugins = g.plugins /\ f.disabled = g.disabled /\ f.profiles = ps
  BY <1>1 DEF File
<1> HIDE DEF f
<1>3. \A j \in Ids \ {id} : Offed(g, j) => Offed(f, j)
  BY <1>1, <1>2, FileFields DEF Offed
<1>4. f = [g EXCEPT !.profiles[id] = e]
  BY DEF f, ps
<1>5. QED
  BY <1>1, <1>2, <1>3, <1>4

LEMMA CommandKeeps ==
  ASSUME TypeOK, LayersInv, Commands
  PROVE  TypeOK' /\ LayersInv'
<1>0. off \subseteq Scopes \X Ids /\ on \subseteq Plugins
  BY DEF TypeOK
<1>1. ASSUME NEW s \in Scopes, NEW id \in Ids, NEW p \in Profile, AddProfile(s, id, p)
      PROVE  TypeOK' /\ LayersInv'
  <2> DEFINE f == [Read(s) EXCEPT !.profiles[id] = p]
  <2>1. p \in Entry
    BY DEF Entry
  <2>2. /\ f \in File /\ f.plugins = Read(s).plugins /\ f.profiles[id] = p
        /\ \A j \in Ids \ {id} : Offed(Read(s), j) => Offed(f, j)
    BY <2>1, ReadFields, EntryFields
  <2>3. Edit(s, f) /\ on' = on
        /\ off' = IF p.legacyOff THEN off \cup {<<s, id>>} ELSE off \ {<<s, id>>}
    BY <1>1 DEF AddProfile
  <2> HIDE DEF f
  <2>4. p.legacyOff => Offed(f, id)
    BY <2>2, FileFields DEF Offed
  <2>5. off' \subseteq Scopes \X Ids
    BY <1>0, <2>3
  <2>6. ASSUME NEW x \in off'
        PROVE  IF x[1] = s THEN Offed(f, x[2]) ELSE x \in off
    <3>1. x = <<x[1], x[2]>> /\ x[2] \in Ids
      BY <2>5, PairFields
    <3>2. CASE x = <<s, id>>
      BY <2>3, <2>4, <3>2
    <3>3. CASE x # <<s, id>>
      BY <2>2, <2>3, <3>1, <3>3, ReadFields
    <3>4. QED
      BY <3>2, <3>3
  <2>7. QED
    BY <1>0, <2>2, <2>3, <2>5, <2>6, ReadFields, EditKeeps
<1>2. ASSUME NEW s \in Scopes, NEW id \in Ids, RemoveProfile(s, id)
      PROVE  TypeOK' /\ LayersInv'
  <2> DEFINE f == [Read(s) EXCEPT !.profiles[id] = Null]
  <2>1. Null \in Entry
    BY DEF Entry
  <2>2. /\ f \in File /\ f.plugins = Read(s).plugins
        /\ \A j \in Ids \ {id} : Offed(Read(s), j) => Offed(f, j)
    BY <2>1, ReadFields, EntryFields
  <2>3. Edit(s, f) /\ on' = on /\ off' = off \ {<<s, id>>}
    BY <1>2 DEF RemoveProfile
  <2> HIDE DEF f
  <2>4. ASSUME NEW x \in off'
        PROVE  IF x[1] = s THEN Offed(f, x[2]) ELSE x \in off
    <3>1. x = <<x[1], x[2]>> /\ x[2] \in Ids /\ x \in off /\ x # <<s, id>>
      BY <1>0, <2>3, PairFields
    <3>2. QED
      BY <2>2, <3>1, ReadFields
  <2>5. QED
    BY <1>0, <2>2, <2>3, <2>4, ReadFields, EditKeeps
<1>3. ASSUME NEW s \in Scopes, NEW id \in Ids, NEW enabled \in BOOLEAN,
             UpdateProfileEnabled(s, id, enabled)
      PROVE  TypeOK' /\ LayersInv'
  <2> DEFINE d == IF enabled THEN Read(s).disabled \ {id} ELSE Read(s).disabled \cup {id}
             f == [Read(s) EXCEPT !.disabled = d]
  <2>1. d \in SUBSET Ids
    BY ReadFields, FileFields
  <2>2. /\ f \in File /\ f.plugins = Read(s).plugins /\ f.profiles = Read(s).profiles
        /\ f.disabled = d
    BY <2>1, ReadFields DEF File
  <2>3. Edit(s, f) /\ on' = on
        /\ off' = IF enabled THEN off \ {<<s, id>>} ELSE off \cup {<<s, id>>}
    BY <1>3 DEF UpdateProfileEnabled
  <2> HIDE DEF f
  <2>4. \A j \in Ids \ {id} : Offed(Read(s), j) => Offed(f, j)
    BY <2>2, ReadFields, FileFields DEF Offed
  <2>5. ~ enabled => Offed(f, id)
    BY <2>2, FileFields DEF Offed
  <2> HIDE DEF d
  <2>6. off' \subseteq Scopes \X Ids
    BY <1>0, <2>3
  <2>7. ASSUME NEW x \in off'
        PROVE  IF x[1] = s THEN Offed(f, x[2]) ELSE x \in off
    <3>1. x = <<x[1], x[2]>> /\ x[2] \in Ids
      BY <2>6, PairFields
    <3>2. CASE x = <<s, id>>
      BY <2>3, <2>5, <3>2
    <3>3. CASE x # <<s, id>>
      BY <2>3, <2>4, <3>1, <3>3, ReadFields
    <3>4. QED
      BY <3>2, <3>3
  <2>8. QED
    BY <1>0, <2>2, <2>3, <2>6, <2>7, ReadFields, EditKeeps
<1>4. ASSUME NEW s \in Scopes, NEW id \in Ids, UpdateProfileFields(s, id)
      PROVE  TypeOK' /\ LayersInv'
  <2> DEFINE e == IF Read(s).profiles[id] \in Profile THEN Read(s).profiles[id] ELSE Partial
             f == [Read(s) EXCEPT !.profiles[id] = e]
  <2>1. e \in Entry
    BY DEF Entry
  <2>2. /\ f \in File /\ f.plugins = Read(s).plugins /\ f.profiles[id] = e
        /\ f.disabled = Read(s).disabled
        /\ \A j \in Ids \ {id} : Offed(Read(s), j) => Offed(f, j)
    BY <2>1, ReadFields, EntryFields
  <2>3. Edit(s, f) /\ UNCHANGED <<off, on>>
    BY <1>4 DEF UpdateProfileFields
  <2> HIDE DEF f
  <2>4. Offed(Read(s), id) => Offed(f, id)
    BY <2>2, ReadFields, FileFields DEF Offed
  <2>5. ASSUME NEW x \in off'
        PROVE  IF x[1] = s THEN Offed(f, x[2]) ELSE x \in off
    <3>1. x = <<x[1], x[2]>> /\ x[2] \in Ids /\ x \in off
      BY <1>0, <2>3, PairFields
    <3>2. x[1] = s => Offed(Read(s), x[2])
      BY <3>1, ReadFields
    <3>3. QED
      BY <2>2, <2>4, <3>1, <3>2
  <2>6. QED
    BY <1>0, <2>2, <2>3, <2>5, ReadFields, EditKeeps
<1>5. ASSUME NEW force, CreateConfig(force)
      PROVE  TypeOK' /\ LayersInv'
  BY <1>0, <1>5, BlankFile, EditKeeps DEF CreateConfig, Scopes
<1>6. QED
  BY <1>1, <1>2, <1>3, <1>4, <1>5 DEF Commands

-----------------------------------------------------------------------------
(* The steps of a load *)

LEMMA OpFields ==
  ASSUME TypeOK
  PROVE  /\ op.pc \in Stages /\ op.toggle \in Toggles /\ op.snap \in Layers
         /\ op.restarts \in 0 .. 2 /\ op.writes \in Layers
         /\ file \in Layers
BY DEF TypeOK, Layers

\* Of what was returned, and what was switched, nothing changes.
LEMMA ShownStays ==
  ASSUME ShownInv, UNCHANGED <<shown, off, on>>, op'.pc # "write"
  PROVE  ShownInv'
BY DEF ShownInv, SwitchesStick

LEMMA FilesStay ==
  ASSUME FilesHold(file), UNCHANGED <<file, off, on>>
  PROVE  FilesHold(file)'
BY DEF FilesHold

\* A load begins, or ends without a result.
LEMMA OpBegins ==
  ASSUME TypeOK, LayersInv, op'.pc \in {"idle", "read"}, op'.restarts = 0,
         op' \in [pc : Stages, toggle : Toggles, snap : Layers, restarts : 0 .. 2, writes : Layers],
         UNCHANGED <<file, shown, edits, off, on>>
  PROVE  TypeOK' /\ LayersInv'
<1>1. TypeOK'
  BY DEF TypeOK, Layers
<1>2. QED
  BY <1>1, ShownStays, FilesStay
  DEF LayersInv, ReadInv, MigrateInv, SeedInv, MergeInv, SettledInv

LEMMA StartKeeps ==
  ASSUME TypeOK, LayersInv, NEW toggle \in Toggles, StartLoad(toggle)
  PROVE  TypeOK' /\ LayersInv'
<1>1. op' = [Idle EXCEPT !.pc = "read", !.toggle = toggle]
  BY DEF StartLoad
<1>2. /\ op'.pc = "read" /\ op'.restarts = 0
      /\ op' \in [pc : Stages, toggle : Toggles, snap : Layers, restarts : 0 .. 2, writes : Layers]
  BY <1>1, IdleFields DEF Stages
<1>3. QED
  BY <1>2, OpBegins DEF StartLoad

LEMMA LoadEnds ==
  ASSUME TypeOK, LayersInv, op' = Idle, UNCHANGED <<file, shown, edits, off, on>>
  PROVE  TypeOK' /\ LayersInv'
BY IdleFields, OpBegins

\* Both files are read; a load that has restarted for both migrations finds
\* nothing to write.
LEMMA ReadKeeps ==
  ASSUME TypeOK, LayersInv, ReadFiles
  PROVE  TypeOK' /\ LayersInv'
<1>1. CASE \E s \in Scopes : Rejected(file[s])
  BY <1>1, LoadEnds DEF ReadFiles
<1>2. CASE ~ \E s \in Scopes : Rejected(file[s])
  <2>1. PICK K \in SUBSET Explicit(file) :
          /\ Keeps(file, K)
          /\ op' = [op EXCEPT !.pc = IF Pending(file, K) = NoFiles THEN "seed" ELSE "migrate",
                              !.snap = file, !.writes = Pending(file, K)]
    BY <1>2 DEF ReadFiles
  <2> DEFINE pc == IF Pending(file, K) = NoFiles THEN "seed" ELSE "migrate"
  <2>2. file \in Layers /\ op.pc = "read" /\ UNCHANGED <<file, shown, edits, off, on>>
    BY OpFields DEF ReadFiles
  <2>3. Pending(file, K) \in Layers
    <3>1. \A s \in Scopes : Pending(file, K)[s] \in File \cup {Missing}
      BY <2>2, PendingKeeps
    <3>2. Pending(file, K) = [s \in Scopes |-> Pending(file, K)[s]]
      BY DEF Pending, DropLosers
    <3>3. QED
      BY <3>1, <3>2 DEF Layers
  <2>4. /\ op' \in [pc : Stages, toggle : Toggles, snap : Layers, restarts : 0 .. 2, writes : Layers]
        /\ op'.pc = pc /\ op'.snap = file /\ op'.writes = Pending(file, K)
        /\ op'.restarts = op.restarts
    BY <2>1, <2>2, <2>3 DEF TypeOK, Layers, Stages
  <2>5. TypeOK'
    BY <2>2, <2>4 DEF TypeOK, Layers
  <2>6. /\ op.restarts > 0 => Clean(file)
        /\ op.restarts > 1 => Unique(file)
        /\ op.restarts \in 0 .. 2
    BY <2>2, OpFields DEF LayersInv, ReadInv
  <2>7. Pending(file, K) = NoFiles <=> Clean(file) /\ Unique(file)
    BY <2>1, <2>2, NothingPending
  <2>8. FilesHold(file)
    BY DEF LayersInv
  <2>9. MigrateInv'
    <3>1. SUFFICES ASSUME Pending(file, K) # NoFiles
                   PROVE  MigrateInv'
      BY <2>4 DEF MigrateInv
    <3>2. IF Clean(file) THEN op.restarts < 2 ELSE op.restarts = 0
      BY <2>6, <2>7, <3>1
    <3>3. \A s \in Scopes :
            IF Pending(file, K)[s] = Missing THEN file[s] = Target(file, K)[s]
            ELSE Pending(file, K)[s] = Pending(file, K)[s] /\ file[s] = file[s]
      BY <2>2, TargetFields
    <3>4. QED
      BY <2>1, <2>2, <2>4, <3>1, <3>2, <3>3 DEF MigrateInv
  <2>10. SeedInv'
    BY <2>2, <2>4, <2>7 DEF SeedInv
  <2>11. MergeInv'
    <3>1. SUFFICES ASSUME Pending(file, K) = NoFiles
                   PROVE  MergeInv'
      BY <2>4 DEF MergeInv
    <3>2. FilesHold(op'.snap) /\ FilesHold(file)'
      BY <2>2, <2>4, <2>8, FilesStay
    <3>3. QED
      BY <1>2, <2>2, <2>4, <2>7, <3>1, <3>2 DEF MergeInv, FilesHold
  <2>12. QED
    BY <2>2, <2>4, <2>5, <2>8, <2>9, <2>10, <2>11, FilesStay, ShownStays
    DEF LayersInv, ReadInv, SettledInv
<1>3. QED
  BY <1>1, <1>2

\* One file is rewritten; after the last one the load starts over, with one
\* migration less to do.
LEMMA MigrateKeeps ==
  ASSUME TypeOK, LayersInv, NEW s \in Scopes, Migrate(s)
  PROVE  TypeOK' /\ LayersInv'
<1>1. /\ op.pc = "migrate" /\ op.writes[s] # Missing
      /\ file' = [file EXCEPT ![s] = op.writes[s]]
      /\ shown' = Missing /\ UNCHANGED <<edits, off, on>>
  BY DEF Migrate
<1>2. PICK K \in SUBSET Explicit(op.snap) :
        /\ Keeps(op.snap, K)
        /\ \A t \in Scopes :
             IF op.writes[t] = Missing THEN file[t] = Target(op.snap, K)[t]
             ELSE op.writes[t] = Pending(op.snap, K)[t] /\ file[t] = op.snap[t]
  BY <1>1 DEF LayersInv, MigrateInv
<1> DEFINE left == [op.writes EXCEPT ![s] = Missing]
           T    == Target(op.snap, K)
<1>3. /\ op.snap \in Layers /\ op.writes \in Layers /\ file \in Layers /\ op.restarts \in 0 .. 2
      /\ IF Clean(op.snap) THEN op.restarts < 2 ELSE op.restarts = 0
  BY <1>1, OpFields DEF LayersInv, MigrateInv
<1>4. /\ left \in Layers /\ left[s] = Missing
      /\ \A t \in Scopes \ {s} : left[t] = op.writes[t]
  BY <1>3 DEF Layers
<1>5. /\ file' \in Layers /\ file'[s] = op.writes[s]
      /\ \A t \in Scopes \ {s} : file'[t] = file[t]
  BY <1>1, <1>3 DEF Layers
<1>6. op.writes[s] = Pending(op.snap, K)[s] /\ file[s] = op.snap[s] /\ file'[s] = T[s]
  BY <1>1, <1>2, <1>3, <1>5, TargetFields
<1>7. FilesHold(file)'
  <2>1. /\ file[s] \in File /\ file'[s] \in File /\ file'[s].plugins = file[s].plugins
        /\ \A id \in Ids : Offed(file[s], id) => Offed(file'[s], id)
    BY <1>1, <1>3, <1>5, <1>6, PendingKeeps
  <2>2. ASSUME NEW x \in off
        PROVE  Offed(file'[x[1]], x[2])
    <3>1. x[1] \in Scopes /\ x[2] \in Ids
      BY PairFields DEF TypeOK
    <3>2. Offed(file[x[1]], x[2])
      BY DEF LayersInv, FilesHold
    <3>3. QED
      BY <1>5, <2>1, <3>1, <3>2
  <2>3. on \subseteq OrBlank(file'["workspace"]).plugins
    <3>1. on \subseteq OrBlank(file["workspace"]).plugins
      BY DEF LayersInv, FilesHold
    <3>2. CASE s = "workspace"
      BY <2>1, <3>1, <3>2, FileFields
    <3>3. CASE s # "workspace"
      BY <1>5, <3>1, <3>3 DEF Scopes
    <3>4. QED
      BY <3>2, <3>3
  <2>4. QED
    BY <1>1, <2>2, <2>3 DEF FilesHold
<1>8. CASE left = NoFiles
  <2>1. op' = [op EXCEPT !.pc = "read", !.writes = left, !.restarts = op.restarts + 1]
    BY <1>8 DEF Migrate
  <2>2. op.restarts + 1 \in 0 .. 2
    BY <1>3
  <2>3. /\ op' \in [pc : Stages, toggle : Toggles, snap : Layers, restarts : 0 .. 2, writes : Layers]
        /\ op'.pc = "read" /\ op'.restarts = op.restarts + 1
    BY <1>4, <2>1, <2>2 DEF TypeOK, Layers, Stages
  <2>4. file' = T
    <3>1. \A t \in Scopes : left[t] = Missing
      BY <1>8 DEF NoFiles
    <3>2. \A t \in Scopes : file'[t] = T[t]
      BY <1>2, <1>4, <1>5, <1>6, <3>1
    <3>3. T \in Layers
      BY <1>3, TargetFields
    <3>4. QED
      BY <1>5, <3>2, <3>3 DEF Layers
  <2>5. Clean(T) /\ (Clean(op.snap) => Unique(T))
    BY <1>2, <1>3, TargetIsClean, TargetIsUnique
  <2>6. op'.restarts > 1 => Clean(op.snap)
    BY <1>3, <2>3
  <2>7. ReadInv'
    <3>1. Clean(file') /\ (op'.restarts > 1 => Unique(file'))
      BY <2>4, <2>5, <2>6
    <3>2. QED
      BY <3>1 DEF ReadInv
  <2>8. TypeOK'
    BY <1>1, <1>5, <2>3 DEF TypeOK, Layers
  <2>9. QED
    BY <1>1, <1>7, <2>3, <2>7, <2>8
    DEF LayersInv, MigrateInv, SeedInv, MergeInv, SettledInv, ShownInv
<1>9. CASE left # NoFiles
  <2>1. op' = [op EXCEPT !.writes = left]
    BY <1>9 DEF Migrate
  <2>2. /\ op' \in [pc : Stages, toggle : Toggles, snap : Layers, restarts : 0 .. 2, writes : Layers]
        /\ op'.pc = "migrate" /\ op'.restarts = op.restarts /\ op'.snap = op.snap
        /\ op'.writes = left
    BY <1>1, <1>4, <2>1 DEF TypeOK, Layers, Stages
  <2>3. \A t \in Scopes :
          IF left[t] = Missing THEN file'[t] = T[t]
          ELSE left[t] = Pending(op.snap, K)[t] /\ file'[t] = op.snap[t]
    BY <1>2, <1>4, <1>5, <1>6
  <2>4. MigrateInv'
    BY <1>2, <1>3, <1>9, <2>2, <2>3 DEF MigrateInv
  <2>5. TypeOK'
    BY <1>1, <1>5, <2>2 DEF TypeOK, Layers
  <2>6. QED
    BY <1>1, <1>7, <2>2, <2>4, <2>5
    DEF LayersInv, ReadInv, SeedInv, MergeInv, SettledInv, ShownInv
<1>10. QED
  BY <1>8, <1>9

\* Seeding lists ids and touches no profile.
LEMMA SeedFields ==
  ASSUME NEW f \in File
  PROVE  LET new == DefaultOff \ f.seeded
             g   == [f EXCEPT !.disabled = f.disabled \cup new, !.seeded = f.seeded \cup new]
         IN /\ g \in File /\ g.profiles = f.profiles /\ g.plugins = f.plugins
            /\ DefaultOff \subseteq g.seeded
            /\ LegacyOff(g) = LegacyOff(f)
            /\ \A id \in Ids : Offed(f, id) => Offed(g, id)
<1> DEFINE new == DefaultOff \ f.seeded
           d   == f.disabled \cup new
           sd  == f.seeded \cup new
           g   == [f EXCEPT !.disabled = d, !.seeded = sd]
<1>1. d \in SUBSET Ids /\ sd \in SUBSET Ids
  BY FileFields, ConfigAssumption
<1>2. DefaultOff \subseteq sd /\ f.disabled \subseteq d
  OBVIOUS
<1> HIDE DEF d, sd
<1>3. g \in File /\ g.profiles = f.profiles /\ g.plugins = f.plugins /\ g.disabled = d /\ g.seeded = sd
  BY <1>1 DEF File
<1> HIDE DEF g
<1>4. LegacyOff(g) = LegacyOff(f)
  BY <1>3, FileFields
<1>5. \A id \in Ids : Offed(f, id) => Offed(g, id)
  BY <1>2, <1>3, <1>4, FileFields DEF Offed
<1>6. QED
  BY <1>2, <1>3, <1>4, <1>5 DEF g, d, sd

LEMMA SeedKeeps ==
  ASSUME TypeOK, LayersInv, MigrateSeedDefaultDisabled
  PROVE  TypeOK' /\ LayersInv'
<1> DEFINE ws  == file["workspace"]
           new == DefaultOff \ ws.seeded
           g   == [ws EXCEPT !.disabled = ws.disabled \cup new, !.seeded = ws.seeded \cup new]
<1>1. /\ op.pc = "seed" /\ UNCHANGED <<shown, edits, off, on>>
      /\ op' = [op EXCEPT !.pc = "merge"]
      /\ file' = IF ws = Missing \/ new = {} THEN file ELSE [file EXCEPT !["workspace"] = g]
  BY DEF MigrateSeedDefaultDisabled
<1>2. /\ op' \in [pc : Stages, toggle : Toggles, snap : Layers, restarts : 0 .. 2, writes : Layers]
      /\ op'.pc = "merge" /\ op'.snap = op.snap
  BY <1>1 DEF TypeOK, Layers, Stages
<1>3. file \in Layers /\ Clean(file) /\ Unique(file) /\ FilesHold(file)
  BY <1>1, OpFields DEF LayersInv, SeedInv
<1>4. CASE ws = Missing \/ new = {}
  <2>1. Seeded(file["workspace"])
    BY <1>4 DEF Seeded
  <2>2. file' = file
    BY <1>1, <1>4
  <2>3. TypeOK'
    BY <1>1, <1>2, <2>2 DEF TypeOK, Layers
  <2>4. SettledInv'
    BY <1>3, <2>1, <2>2 DEF SettledInv
  <2>5. MergeInv'
    BY <1>1, <1>2 DEF LayersInv, MergeInv, FilesHold
  <2>6. QED
    BY <1>1, <1>2, <1>3, <2>2, <2>3, <2>4, <2>5, FilesStay, ShownStays
    DEF LayersInv, ReadInv, MigrateInv, SeedInv
<1>5. CASE ~ (ws = Missing \/ new = {})
  <2>1. ws \in File
    BY <1>3, <1>5 DEF Layers, Scopes
  <2>2. /\ g \in File /\ g.profiles = ws.profiles /\ g.plugins = ws.plugins
        /\ DefaultOff \subseteq g.seeded
        /\ LegacyOff(g) = LegacyOff(ws)
        /\ \A id \in Ids : Offed(ws, id) => Offed(g, id)
    BY <2>1, SeedFields
  <2>3. file' = [file EXCEPT !["workspace"] = g]
    BY <1>1, <1>5
  <2> HIDE DEF g
  <2>4. /\ file' \in Layers /\ file'["workspace"] = g /\ file'["user"] = file["user"]
    BY <1>3, <2>2, <2>3 DEF Layers, Scopes
  <2>5. \A s \in Scopes : /\ LegacyOff(file'[s]) = LegacyOff(file[s])
                          /\ file'[s] = Missing <=> file[s] = Missing
                          /\ file[s] # Missing => file'[s].profiles = file[s].profiles
                          /\ \A id \in Ids : Offed(file[s], id) => Offed(file'[s], id)
    BY <2>1, <2>2, <2>4, FileFields DEF Scopes
  <2>6. Clean(file') /\ Seeded(file'["workspace"])
    BY <1>3, <2>2, <2>4, <2>5 DEF Clean, Seeded
  <2>7. Unique(file')
    <3>1. \A s \in Scopes, id \in Ids :
            <<s, id>> \in Explicit(file') <=> <<s, id>> \in Explicit(file)
      <4>1. SUFFICES ASSUME NEW s \in Scopes, NEW id \in Ids
                     PROVE  <<s, id>> \in Explicit(file') <=> <<s, id>> \in Explicit(file)
        OBVIOUS
      <4>2. <<s, id>> \in Explicit(file) <=> file[s] # Missing /\ file[s].profiles[id] \in Profile
        BY <1>3, ExplicitFields
      <4>3. <<s, id>> \in Explicit(file') <=> file'[s] # Missing /\ file'[s].profiles[id] \in Profile
        BY <2>4, ExplicitFields
      <4>4. QED
        BY <2>5, <4>2, <4>3
    <3>2. Explicit(file') = Explicit(file) /\ Explicit(file) \subseteq Scopes \X Ids
      BY <3>1 DEF Explicit
    <3>3. \A x \in Explicit(file) : ModelOf(file', x) = ModelOf(file, x)
      BY <2>5 DEF Explicit, ModelOf
    <3>4. QED
      BY <1>3, <3>2, <3>3 DEF Unique
  <2>8. FilesHold(file)'
    <3>1. ASSUME NEW x \in off
          PROVE  Offed(file'[x[1]], x[2])
      BY <1>3, <2>5, PairFields DEF FilesHold, TypeOK
    <3>2. on \subseteq OrBlank(file'["workspace"]).plugins
      BY <1>3, <2>1, <2>2, <2>4, FileFields DEF FilesHold
    <3>3. QED
      BY <1>1, <3>1, <3>2 DEF FilesHold
  <2>9. MergeInv'
    BY <1>1, <1>2 DEF LayersInv, MergeInv, FilesHold
  <2>10. TypeOK'
    BY <1>1, <1>2, <2>4 DEF TypeOK, Layers
  <2>11. QED
    BY <1>1, <1>2, <2>6, <2>7, <2>8, <2>9, <2>10, ShownStays
    DEF LayersInv, ReadInv, MigrateInv, SeedInv, SettledInv
<1>6. QED
  BY <1>4, <1>5

\* What is returned has what was read, and what was read has what was switched.
LEMMA FinishKeeps ==
  ASSUME TypeOK, LayersInv, NEW offered \in Offers, FinishLoad(offered)
  PROVE  TypeOK' /\ LayersInv'
<1> DEFINE u == OrBlank(op.snap["user"])
           w == OrBlank(op.snap["workspace"])
<1>1. /\ op.pc = "merge" /\ shown' = Merged(u, w, offered) /\ UNCHANGED <<file, edits, off, on>>
      /\ op' = Idle \/ (op.toggle.kind # "none" /\ op' = [op EXCEPT !.pc = "write"])
  BY DEF FinishLoad
<1>2. /\ Clean(op.snap) /\ FilesHold(op.snap) /\ op.snap \in Layers
      /\ \A s \in Scopes : ~ Rejected(op.snap[s])
  BY <1>1, OpFields DEF LayersInv, MergeInv
<1>3. /\ u \in File /\ ~ Rejected(u) /\ w \in File /\ ~ Rejected(w)
  <2>1. ~ Rejected(Blank)
    BY MarksAssumption DEF Rejected, Blank
  <2>2. QED
    BY <1>2, <2>1, BlankFile DEF OrBlank, Layers, Scopes
<1>4. ASSUME NEW x \in off
      PROVE  x[2] \in u.disabled \cup w.disabled
  <2>1. x[1] \in Scopes /\ x[2] \in Ids
    BY PairFields DEF TypeOK
  <2>2. op.snap[x[1]] # Missing /\ x[2] \in op.snap[x[1]].disabled
    BY <1>2, <2>1 DEF FilesHold, Offed, Clean
  <2>3. QED
    BY <2>1, <2>2 DEF Scopes, OrBlank
<1>5. on \subseteq ActivePlugins(u, w)
  BY <1>2 DEF FilesHold, ActivePlugins
<1> DEFINE m == Merged(u, w, offered)
<1>6. /\ m \in File /\ m.disabled = u.disabled \cup w.disabled
      /\ \A id \in u.disabled \cup w.disabled : m.profiles[id] = Absent \/ m.profiles[id].legacyOff
      /\ m.plugins = ActivePlugins(u, w)
  BY <1>3, MergedFields
<1> HIDE DEF m, u, w
<1>7. shown' = m
  BY <1>1 DEF m
<1>8. /\ op' \in [pc : Stages, toggle : Toggles, snap : Layers, restarts : 0 .. 2, writes : Layers]
      /\ op'.pc \in {"idle", "write"}
      /\ op'.pc = "write" => op'.toggle # NoToggle
  <2>1. CASE op' = Idle
    BY <2>1, IdleFields
  <2>2. CASE op.toggle.kind # "none" /\ op' = [op EXCEPT !.pc = "write"]
    <3>1. op.toggle # NoToggle
      BY <2>2 DEF NoToggle
    <3>2. QED
      BY <2>2, <3>1 DEF TypeOK, Layers, Stages
  <2>3. QED
    BY <1>1, <2>1, <2>2
<1>9. ShownInv'
  <2>1. shown' # Missing
    BY <1>6, <1>7, FileFields
  <2>2. SwitchesStick'
    BY <1>1, <1>4, <1>5, <1>6, <1>7 DEF SwitchesStick
  <2>3. \A x \in off' : x[2] \in shown'.disabled
    BY <1>1, <1>4, <1>6, <1>7
  <2>4. QED
    BY <1>8, <2>1, <2>2, <2>3 DEF ShownInv
<1>10. TypeOK'
  BY <1>1, <1>6, <1>7, <1>8 DEF TypeOK, Layers
<1>11. QED
  BY <1>1, <1>8, <1>9, <1>10, FilesStay
  DEF LayersInv, ReadInv, MigrateInv, SeedInv, MergeInv, SettledInv

\* The merged configuration lists what either file listed.
LEMMA WriteKeeps ==
  ASSUME TypeOK, LayersInv, WriteToggle
  PROVE  TypeOK' /\ LayersInv'
<1> DEFINE p  == op.toggle.plugin
           ps == IF op.toggle.kind = "enable" THEN shown.plugins \cup {p} ELSE shown.plugins \ {p}
           f  == [shown EXCEPT !.plugins = ps]
<1>1. /\ op.pc = "write" /\ file' = [file EXCEPT !["workspace"] = f]
      /\ on' = IF op.toggle.kind = "enable" THEN on \cup {p} ELSE on \ {p}
      /\ shown' = Missing /\ op' = Idle /\ UNCHANGED <<edits, off>>
  BY DEF WriteToggle
<1>2. /\ shown # Missing /\ shown \in File
      /\ on \subseteq shown.plugins
      /\ \A x \in off : x[2] \in shown.disabled
  BY <1>1 DEF LayersInv, ShownInv, SwitchesStick, TypeOK
<1>3. p \in Plugins
  BY <1>1, OpFields DEF LayersInv, ShownInv, Toggles
<1>4. ps \in SUBSET Plugins
  BY <1>2, <1>3, FileFields
<1>5. on' \subseteq ps /\ on' \subseteq Plugins
  BY <1>1, <1>2, <1>4
<1> HIDE DEF ps
<1>6. f \in File /\ f.disabled = shown.disabled /\ f.plugins = ps
  BY <1>2, <1>4 DEF File
<1> HIDE DEF f
<1>7. file \in Layers
  BY OpFields
<1>8. file' \in Layers /\ file'["workspace"] = f /\ file'["user"] = file["user"]
  BY <1>1, <1>6, <1>7 DEF Layers, Scopes
<1>9. FilesHold(file)'
  <2>1. ASSUME NEW x \in off
        PROVE  Offed(file'[x[1]], x[2])
    <3>1. x[1] \in Scopes
      BY PairFields DEF TypeOK
    <3>2. CASE x[1] = "workspace"
      BY <1>2, <1>6, <1>8, <3>2, FileFields DEF Offed
    <3>3. CASE x[1] = "user"
      BY <1>8, <3>3 DEF LayersInv, FilesHold
    <3>4. QED
      BY <3>1, <3>2, <3>3 DEF Scopes
  <2>2. on' \subseteq OrBlank(file'["workspace"]).plugins
    BY <1>5, <1>6, <1>8, FileFields
  <2>3. QED
    BY <1>1, <2>1, <2>2 DEF FilesHold
<1>10. TypeOK'
  BY <1>1, <1>5, <1>8, IdleFields DEF TypeOK, Layers
<1>11. QED
  BY <1>1, <1>9, <1>10, IdleFields
  DEF LayersInv, ReadInv, MigrateInv, SeedInv, MergeInv, SettledInv, ShownInv

LEMMA LayersInvariance ==
  ASSUME TypeOK, LayersInv, [Next]_vars
  PROVE  TypeOK' /\ LayersInv'
<1>1. CASE Crash
  BY <1>1, LoadEnds DEF Crash
<1>2. CASE UNCHANGED vars
  <2>1. TypeOK'
    BY <1>2 DEF vars, TypeOK
  <2>2. FilesHold(file)' /\ ReadInv' /\ MigrateInv' /\ SeedInv' /\ MergeInv' /\ SettledInv'
    BY <1>2 DEF vars, LayersInv, FilesHold, ReadInv, MigrateInv, SeedInv, MergeInv, SettledInv
  <2>3. ShownInv'
    BY <1>2 DEF vars, LayersInv, ShownInv, SwitchesStick
  <2>4. QED
    BY <2>1, <2>2, <2>3 DEF LayersInv
<1>3. QED
  BY <1>1, <1>2, CommandKeeps, StartKeeps, ReadKeeps, MigrateKeeps, SeedKeeps, FinishKeeps,
     WriteKeeps DEF Next, Load

LEMMA LayersInit == Init => TypeOK /\ LayersInv
<1> SUFFICES ASSUME Init
             PROVE  TypeOK /\ LayersInv
  OBVIOUS
<1>1. /\ op = Idle /\ shown = Missing /\ edits = 0 /\ off = {} /\ on = {}
  BY DEF Init
<1>2. \A ps \in SUBSET Plugins : [Blank EXCEPT !.plugins = ps] \in File
  BY BlankFile DEF File
<1>3. file \in Layers
  BY <1>2, BlankFile DEF Init, Layers, Scopes
<1>4. TypeOK
  BY <1>1, <1>3, IdleFields, ConfigAssumption DEF TypeOK, Layers
<1>5. QED
  BY <1>1, <1>4, IdleFields
  DEF LayersInv, FilesHold, ReadInv, MigrateInv, SeedInv, MergeInv, SettledInv, ShownInv

LEMMA LayersAlways == Spec => [](TypeOK /\ LayersInv)
<1>1. TypeOK /\ LayersInv /\ [Next]_vars => (TypeOK /\ LayersInv)'
  BY LayersInvariance
<1>2. QED
  BY <1>1, LayersInit, PTL DEF Spec

-----------------------------------------------------------------------------
\* A profile switched off at either level, by the list or by the old field, is in
\* no configuration that a load returns as usable, and a plugin that was enabled
\* is active in all of them until it is disabled: through the migrations, a death
\* between their writes, a toggle that writes the merged configuration back, and
\* every edit of the other level.
THEOREM WhatIsSwitchedSticks == Spec => []SwitchesStick
<1>1. TypeOK /\ LayersInv => SwitchesStick
  BY DEF LayersInv, ShownInv, SwitchesStick
<1>2. QED
  BY <1>1, LayersAlways, PTL

\* A load starts over at most twice, and one that gets to the merge leaves no old
\* field, no two explicit profiles of one model and nothing to seed.
THEOREM LoadsSettle == Spec => []LoadSettles
<1>1. TypeOK /\ LayersInv => LoadSettles
  BY DEF LayersInv, SettledInv, Clean, Unique, Seeded, LoadSettles
<1>2. QED
  BY <1>1, LayersAlways, PTL

-----------------------------------------------------------------------------
\* What a file that is there and whole holds.
Content == [Edits!Sections -> 0 .. MaxChanges]

\* No file and a torn file are not contents.
MarksDiffer == Missing # Torn /\ {Missing, Torn} \cap Content = {} /\ MaxChanges \in Nat

LEMMA MarksOfChanges == MarksDiffer
BY ChangesAssumption DEF MarksDiffer, Content, Edits!Sections

-----------------------------------------------------------------------------
(* Edits of the file: types.                                                 *)

States       == {"unborn", "began", "read", "open", "written", "done", "refused", "dead"}
ActiveStates == {"began", "read", "open", "written"}
Holding      == {"read", "open", "written"}

EditRecord == [kind : Edits!Kinds \cup {"none"}, st : States, held : Content \cup {Missing},
               at : {"none", "tmp", "config"}, bad : BOOLEAN]

\* An edit that began has a kind, one that has read holds what it will write, and
\* only an open file has a place.
EditOK(x, e) ==
  /\ x.st # "unborn" => x.kind \in Edits!Kinds
  /\ x.st \in Holding => x.held \in Content /\ \A s \in Edits!Of[x.kind] : x.held[s] = e
  /\ x.at # "none" => x.st = "open"
  /\ x.at = "tmp" => x.kind \in Edits!Shared
  /\ x.st = "open" => x.kind \in Edits!Shared \cup Edits!InPlace
  /\ x.st = "written" => x.kind \in Edits!Shared

\* The type of every variable.
EditsTyped ==
  /\ changes \in [Edits!Edits -> EditRecord]
  /\ config \in Content \cup {Missing, Torn}
  /\ changesTmp \in Content \cup {Missing, Torn}
  /\ crashes \in Nat
  /\ beside \in [Edits!Edits -> SUBSET Edits!Edits]
  /\ \A e \in Edits!Edits : EditOK(changes[e], e)

\* Of is the table of the operations, and the three ways to write are apart.
LEMMA OfKinds ==
  /\ Edits!Kinds = {"add", "remove", "fields", "toggle", "preset", "routing", "runtime", "init"}
  /\ Edits!Of \in [Edits!Kinds -> SUBSET Edits!Sections]
  /\ Edits!Of["init"] = Edits!Sections
  /\ Edits!Shared \cap Edits!InPlace = {} /\ Edits!Shared \cap Edits!Own = {} /\ Edits!InPlace \cap Edits!Own = {}
BY DEF Edits!Kinds, Edits!Of, Edits!Sections, Edits!Shared, Edits!InPlace, Edits!Own

LEMMA BlankType == MaxChanges \in Nat => Edits!Blank \in Content
BY DEF Edits!Blank, Content

\* What an edit will write: its own number in its sections, and the rest as read.
LEMMA ChangeType ==
  ASSUME MaxChanges \in Nat, NEW e \in Edits!Edits, changes[e].kind \in Edits!Kinds, NEW c \in Content
  PROVE  /\ Edits!Change(e, c) \in Content
         /\ \A s \in Edits!Of[changes[e].kind] : Edits!Change(e, c)[s] = e
         /\ \A s \in Edits!Sections \ Edits!Of[changes[e].kind] : Edits!Change(e, c)[s] = c[s]
<1>1. e \in 0 .. MaxChanges
  BY DEF Edits!Edits
<1>2. Edits!Of[changes[e].kind] \subseteq Edits!Sections
  BY OfKinds
<1>3. QED
  BY <1>1, <1>2 DEF Edits!Change, Content

\* The fields of every edit after e alone has changed its own.
LEMMA EndFields ==
  ASSUME changes \in [Edits!Edits -> EditRecord], NEW e \in Edits!Edits, NEW st \in States, Edits!End(e, st)
  PROVE  /\ changes' \in [Edits!Edits -> EditRecord]
         /\ changes'[e].kind = changes[e].kind /\ changes'[e].st = st
         /\ changes'[e].held = changes[e].held /\ changes'[e].at = "none"
         /\ \A f \in Edits!Edits \ {e} : changes'[f] = changes[f]
<1> DEFINE x == [changes[e] EXCEPT !.st = st, !.at = "none"]
<1>1. changes[e] \in EditRecord
  OBVIOUS
<1>2. x \in EditRecord /\ x.kind = changes[e].kind /\ x.st = st /\ x.held = changes[e].held
      /\ x.at = "none"
  BY <1>1 DEF EditRecord
<1>3. changes' = [changes EXCEPT ![e] = x]
  BY DEF Edits!End
<1> HIDE DEF x
<1>4. QED
  BY <1>2, <1>3

\* A read, by the kind of the edit and what is in the file.
LEMMA EditReadFields ==
  ASSUME MarksDiffer, EditsTyped, NEW e \in Edits!Edits, Edits!readConfigOrInit(e)
  PROVE  \/ Edits!End(e, "refused")
         \/ \E c \in Content :
              /\ changes[e].kind = "init" \/ c = config \/ (config = Missing /\ c = Edits!Blank)
              /\ changes' \in [Edits!Edits -> EditRecord]
              /\ changes'[e].kind = changes[e].kind /\ changes'[e].st = "read"
              /\ changes'[e].held = Edits!Change(e, c) /\ changes'[e].at = changes[e].at
              /\ \A f \in Edits!Edits \ {e} : changes'[f] = changes[f]
<1> DEFINE k == changes[e].kind
           c == IF config = Missing \/ k = "init" THEN Edits!Blank ELSE config
           x == [changes[e] EXCEPT !.held = Edits!Change(e, c), !.st = "read", !.bad = Edits!LeavesBad(k, c)]
<1>1. \/ Edits!End(e, "refused")
      \/ (k = "init" \/ config # Torn) /\ changes' = [changes EXCEPT ![e] = x]
  BY DEF Edits!readConfigOrInit
<1>2. SUFFICES ASSUME k = "init" \/ config # Torn, changes' = [changes EXCEPT ![e] = x]
               PROVE  /\ c \in Content
                      /\ k = "init" \/ c = config \/ (config = Missing /\ c = Edits!Blank)
                      /\ changes' \in [Edits!Edits -> EditRecord]
                      /\ changes'[e].kind = changes[e].kind /\ changes'[e].st = "read"
                      /\ changes'[e].held = Edits!Change(e, c) /\ changes'[e].at = changes[e].at
                      /\ \A f \in Edits!Edits \ {e} : changes'[f] = changes[f]
  BY <1>1
<1>3. c \in Content
  BY <1>2, BlankType DEF EditsTyped, MarksDiffer
<1>4. changes[e] \in EditRecord /\ k \in Edits!Kinds
  BY DEF EditsTyped, EditOK, Edits!readConfigOrInit
<1>5. Edits!Change(e, c) \in Content
  BY <1>3, <1>4, ChangeType DEF MarksDiffer
<1>6. Edits!LeavesBad(k, c) \in BOOLEAN
  BY DEF Edits!LeavesBad
<1>7. x \in EditRecord /\ x.kind = k /\ x.st = "read" /\ x.held = Edits!Change(e, c) /\ x.at = changes[e].at
  BY <1>4, <1>5, <1>6 DEF EditRecord, States
<1>8. k = "init" \/ c = config \/ (config = Missing /\ c = Edits!Blank)
  OBVIOUS
<1> HIDE DEF x, c, k
<1>9. QED
  BY <1>2, <1>3, <1>7, <1>8 DEF EditsTyped, k

\* Nothing of the edit f changes but, perhaps, the place of its open file.
OnlyMoves(f) ==
  /\ changes'[f].kind = changes[f].kind
  /\ changes'[f].st = changes[f].st
  /\ changes'[f].held = changes[f].held
  /\ changes'[f].at # "none" => changes[f].at # "none"
  /\ changes'[f].at = "tmp" => changes[f].at = "tmp"

\* An edit e opens a file.
LEMMA OpenFields ==
  ASSUME changes \in [Edits!Edits -> EditRecord], NEW e \in Edits!Edits, NEW at \in {"tmp", "config"},
         changes' = [changes EXCEPT ![e].st = "open", ![e].at = at]
  PROVE  /\ changes' \in [Edits!Edits -> EditRecord]
         /\ changes'[e].kind = changes[e].kind /\ changes'[e].st = "open"
         /\ changes'[e].held = changes[e].held /\ changes'[e].at = at
         /\ \A f \in Edits!Edits \ {e} : changes'[f] = changes[f]
<1> DEFINE x == [changes[e] EXCEPT !.st = "open", !.at = at]
<1>1. changes[e] \in EditRecord
  OBVIOUS
<1>2. x \in EditRecord /\ x.kind = changes[e].kind /\ x.st = "open" /\ x.held = changes[e].held
      /\ x.at = at
  BY <1>1 DEF EditRecord, States
<1>3. changes' = [changes EXCEPT ![e] = x]
  OBVIOUS
<1> HIDE DEF x
<1>4. QED
  BY <1>2, <1>3

\* An edit e that renames or writes its own file is done, and other open files
\* are moved.
LEMMA RenameFields ==
  ASSUME changes \in [Edits!Edits -> EditRecord], NEW e \in Edits!Edits, changes[e].at = "none",
         \/ Edits!rename(e) /\ changesTmp # Missing
         \/ Edits!WriteOwn(e)
  PROVE  /\ changes' \in [Edits!Edits -> EditRecord]
         /\ changes'[e].kind = changes[e].kind /\ changes'[e].st = "done"
         /\ changes'[e].held = changes[e].held /\ changes'[e].at = "none"
         /\ \A f \in Edits!Edits \ {e} : OnlyMoves(f)
         /\ Edits!WriteOwn(e) => \A f \in Edits!Edits \ {e} : changes[f].at = "tmp" => changes'[f].at = "tmp"
<1>1. \A f \in Edits!Edits : changes[f] \in EditRecord
  OBVIOUS
<1>2. /\ changes' = [f \in Edits!Edits |-> changes'[f]]
      /\ changes'[e] = [changes[e] EXCEPT !.st = "done"]
      /\ \A f \in Edits!Edits \ {e} :
           \/ changes'[f] = changes[f]
           \/ changes[f].at = "tmp" /\ ~Edits!WriteOwn(e) /\ changes'[f] = [changes[f] EXCEPT !.at = "config"]
           \/ changes[f].at = "config" /\ changes'[f] = [changes[f] EXCEPT !.at = "none"]
  <2>1. CASE Edits!rename(e) /\ changesTmp # Missing
    <3>1. ~Edits!WriteOwn(e)
      BY <2>1 DEF Edits!rename, Edits!WriteOwn
    <3>2. QED
      BY <2>1, <3>1 DEF Edits!rename
  <2>2. CASE Edits!WriteOwn(e)
    BY <2>2 DEF Edits!WriteOwn
  <2>3. QED
    BY <2>1, <2>2
<1>3. changes'[e] \in EditRecord /\ changes'[e].kind = changes[e].kind /\ changes'[e].st = "done"
      /\ changes'[e].held = changes[e].held /\ changes'[e].at = "none"
  BY <1>1, <1>2 DEF EditRecord, States
<1>4. ASSUME NEW f \in Edits!Edits \ {e}
      PROVE  /\ changes'[f] \in EditRecord /\ OnlyMoves(f)
             /\ Edits!WriteOwn(e) => (changes[f].at = "tmp" => changes'[f].at = "tmp")
  <2>1. changes[f] \in EditRecord
    BY <1>1
  <2>2. CASE changes'[f] = changes[f]
    BY <2>1, <2>2 DEF OnlyMoves
  <2>3. CASE changes[f].at = "tmp" /\ ~Edits!WriteOwn(e) /\ changes'[f] = [changes[f] EXCEPT !.at = "config"]
    BY <2>1, <2>3 DEF OnlyMoves, EditRecord
  <2>4. CASE changes[f].at = "config" /\ changes'[f] = [changes[f] EXCEPT !.at = "none"]
    BY <2>1, <2>4 DEF OnlyMoves, EditRecord
  <2>5. QED
    BY <1>2, <2>2, <2>3, <2>4
<1>5. QED
  BY <1>2, <1>3, <1>4

\* One edit takes a step, and the others are at most moved.
LEMMA TypeStep ==
  ASSUME EditsTyped, NEW e \in Edits!Edits, changes' \in [Edits!Edits -> EditRecord], EditOK(changes'[e], e),
         \A f \in Edits!Edits \ {e} : OnlyMoves(f),
         config' \in Content \cup {Missing, Torn}, changesTmp' \in Content \cup {Missing, Torn},
         crashes' \in Nat, beside' \in [Edits!Edits -> SUBSET Edits!Edits]
  PROVE  EditsTyped'
<1>1. \A f \in Edits!Edits \ {e} : EditOK(changes'[f], f)
  BY DEF EditsTyped, EditOK, OnlyMoves
<1>2. QED
  BY <1>1 DEF EditsTyped

LEMMA SameMoves ==
  ASSUME NEW f, changes'[f] = changes[f]
  PROVE  OnlyMoves(f)
BY DEF OnlyMoves

LEMMA EditsTypeInvariance ==
  ASSUME MarksDiffer, EditsTyped, [Edits!Next]_(Edits!vars)
  PROVE  EditsTyped'
<1>0. /\ changes \in [Edits!Edits -> EditRecord] /\ beside \in [Edits!Edits -> SUBSET Edits!Edits]
      /\ \A e \in Edits!Edits : changes[e] \in EditRecord /\ EditOK(changes[e], e)
  BY DEF EditsTyped
<1>1. ASSUME NEW e \in Edits!Edits, NEW k \in Edits!Kinds, Edits!Begin(e, k)
      PROVE  EditsTyped'
  <2> DEFINE x == [Edits!Unborn EXCEPT !.kind = k, !.st = "began"]
  <2>1. x \in EditRecord /\ EditOK(x, e)
    BY DEF Edits!Unborn, EditRecord, States, EditOK, Holding
  <2>2. changes' = [changes EXCEPT ![e] = x]
    BY <1>1 DEF Edits!Begin
  <2> HIDE DEF x
  <2>3. /\ changes' \in [Edits!Edits -> EditRecord] /\ changes'[e] = x
        /\ \A f \in Edits!Edits \ {e} : changes'[f] = changes[f]
    BY <1>0, <2>1, <2>2
  <2>4. beside' \in [Edits!Edits -> SUBSET Edits!Edits]
    BY <1>0, <1>1 DEF Edits!Begin, Edits!Active
  <2>5. QED
    BY <1>1, <2>1, <2>3, <2>4, SameMoves, TypeStep DEF Edits!Begin, EditsTyped
<1>2. ASSUME NEW e \in Edits!Edits, NEW st \in {"refused", "dead", "done"}, Edits!End(e, st),
             config' \in Content \cup {Missing, Torn}, changesTmp' \in Content \cup {Missing, Torn},
             crashes' \in Nat, beside' = beside, changes[e].st # "unborn"
      PROVE  EditsTyped'
  <2>1. /\ changes' \in [Edits!Edits -> EditRecord] /\ changes'[e].kind = changes[e].kind
        /\ changes'[e].st = st /\ changes'[e].at = "none"
        /\ \A f \in Edits!Edits \ {e} : changes'[f] = changes[f]
    BY <1>0, <1>2, EndFields DEF States
  <2>2. EditOK(changes'[e], e)
    BY <1>0, <1>2, <2>1 DEF EditOK, Holding
  <2>3. QED
    BY <1>0, <1>2, <2>1, <2>2, SameMoves, TypeStep
<1>3. ASSUME NEW e \in Edits!Edits, Edits!readConfigOrInit(e)
      PROVE  EditsTyped'
  <2>1. changes[e].st = "began" /\ UNCHANGED <<config, changesTmp, crashes, beside>>
    BY <1>3 DEF Edits!readConfigOrInit
  <2>2. CASE Edits!End(e, "refused")
    BY <1>2, <2>1, <2>2 DEF EditsTyped
  <2>3. ASSUME NEW c \in Content,
               changes' \in [Edits!Edits -> EditRecord],
               changes'[e].kind = changes[e].kind, changes'[e].st = "read",
               changes'[e].held = Edits!Change(e, c), changes'[e].at = changes[e].at,
               \A f \in Edits!Edits \ {e} : changes'[f] = changes[f]
        PROVE  EditsTyped'
    <3>1. changes[e].kind \in Edits!Kinds /\ changes[e].at = "none"
      BY <1>0, <2>1 DEF EditOK
    <3>2. Edits!Change(e, c) \in Content /\ \A s \in Edits!Of[changes[e].kind] : Edits!Change(e, c)[s] = e
      BY <3>1, ChangeType DEF MarksDiffer
    <3>3. EditOK(changes'[e], e)
      BY <2>3, <3>1, <3>2 DEF EditOK, Holding
    <3>4. QED
      BY <2>1, <2>3, <3>3, SameMoves, TypeStep DEF EditsTyped
  <2>4. QED
    BY <1>3, <2>2, <2>3, EditReadFields
<1>4. ASSUME NEW e \in Edits!Edits, Edits!OpenTemp(e)
      PROVE  EditsTyped'
  <2>1. /\ changes' \in [Edits!Edits -> EditRecord]
        /\ changes'[e].kind = changes[e].kind /\ changes'[e].st = "open"
        /\ changes'[e].held = changes[e].held /\ changes'[e].at = "tmp"
        /\ \A f \in Edits!Edits \ {e} : changes'[f] = changes[f]
    BY <1>0, <1>4, OpenFields DEF Edits!OpenTemp
  <2>2. EditOK(changes'[e], e)
    BY <1>0, <1>4, <2>1 DEF Edits!OpenTemp, EditOK, Holding
  <2>3. QED
    BY <1>4, <2>1, <2>2, SameMoves, TypeStep DEF Edits!OpenTemp, EditsTyped
<1>5. ASSUME NEW e \in Edits!Edits, Edits!OpenInPlace(e)
      PROVE  EditsTyped'
  <2>1. /\ changes' \in [Edits!Edits -> EditRecord]
        /\ changes'[e].kind = changes[e].kind /\ changes'[e].st = "open"
        /\ changes'[e].held = changes[e].held /\ changes'[e].at = "config"
        /\ \A f \in Edits!Edits \ {e} : changes'[f] = changes[f]
    BY <1>0, <1>5, OpenFields DEF Edits!OpenInPlace
  <2>2. EditOK(changes'[e], e)
    BY <1>0, <1>5, <2>1 DEF Edits!OpenInPlace, EditOK, Holding
  <2>3. QED
    BY <1>5, <2>1, <2>2, SameMoves, TypeStep DEF Edits!OpenInPlace, EditsTyped
<1>6. ASSUME NEW e \in Edits!Edits, Edits!Fill(e)
      PROVE  EditsTyped'
  <2>1. changes[e].st = "open" /\ changes[e].held \in Content /\ UNCHANGED <<crashes, beside>>
        /\ changes[e].kind \in Edits!Shared \cup Edits!InPlace
    BY <1>0, <1>6 DEF Edits!Fill, EditOK, Holding
  <2>2. config' \in Content \cup {Missing, Torn} /\ changesTmp' \in Content \cup {Missing, Torn}
    BY <1>6, <2>1 DEF Edits!Fill, EditsTyped
  <2>3. CASE changes[e].kind \in Edits!InPlace
    BY <1>2, <1>6, <2>1, <2>2, <2>3 DEF Edits!Fill, EditsTyped
  <2>4. CASE changes[e].kind \notin Edits!InPlace
    <3>1. Edits!End(e, "written")
      BY <1>6, <2>4 DEF Edits!Fill, Edits!End
    <3>2. /\ changes' \in [Edits!Edits -> EditRecord]
          /\ changes'[e].kind = changes[e].kind /\ changes'[e].st = "written"
          /\ changes'[e].held = changes[e].held /\ changes'[e].at = "none"
          /\ \A f \in Edits!Edits \ {e} : changes'[f] = changes[f]
      BY <1>0, <3>1, EndFields DEF States
    <3>3. EditOK(changes'[e], e)
      BY <1>0, <2>1, <2>4, <3>2 DEF EditOK, Holding
    <3>4. QED
      BY <1>0, <2>1, <2>2, <3>2, <3>3, SameMoves, TypeStep DEF EditsTyped
  <2>5. QED
    BY <2>3, <2>4
<1>7. ASSUME NEW e \in Edits!Edits, Edits!rename(e)
      PROVE  EditsTyped'
  <2>1. changes[e].st = "written" /\ changes[e].at = "none" /\ UNCHANGED <<crashes, beside>>
    BY <1>0, <1>7 DEF Edits!rename, EditOK
  <2>2. CASE changesTmp = Missing
    BY <1>2, <1>7, <2>1, <2>2 DEF Edits!rename, EditsTyped
  <2>3. CASE changesTmp # Missing
    <3>1. /\ changes' \in [Edits!Edits -> EditRecord]
          /\ changes'[e].kind = changes[e].kind /\ changes'[e].st = "done" /\ changes'[e].at = "none"
          /\ \A f \in Edits!Edits \ {e} : OnlyMoves(f)
      BY <1>0, <1>7, <2>1, <2>3, RenameFields
    <3>2. EditOK(changes'[e], e)
      BY <1>0, <2>1, <3>1 DEF EditOK, Holding
    <3>3. QED
      BY <1>7, <2>1, <2>3, <3>1, <3>2, TypeStep DEF Edits!rename, EditsTyped
  <2>4. QED
    BY <2>2, <2>3
<1>8. ASSUME NEW e \in Edits!Edits, Edits!WriteOwn(e)
      PROVE  EditsTyped'
  <2>1. changes[e].st = "read" /\ changes[e].at = "none" /\ changes[e].held \in Content
    BY <1>0, <1>8 DEF Edits!WriteOwn, EditOK, Holding
  <2>2. /\ changes' \in [Edits!Edits -> EditRecord]
        /\ changes'[e].kind = changes[e].kind /\ changes'[e].st = "done" /\ changes'[e].at = "none"
        /\ \A f \in Edits!Edits \ {e} : OnlyMoves(f)
    BY <1>0, <1>8, <2>1, RenameFields
  <2>3. EditOK(changes'[e], e)
    BY <1>0, <2>1, <2>2 DEF EditOK, Holding
  <2>4. QED
    BY <1>8, <2>1, <2>2, <2>3, TypeStep DEF Edits!WriteOwn, EditsTyped
<1>9. ASSUME NEW e \in Edits!Edits, Edits!Crash(e)
      PROVE  EditsTyped'
  BY <1>2, <1>9 DEF Edits!Crash, Edits!Active, EditsTyped
<1>10. CASE UNCHANGED Edits!vars
  BY <1>10 DEF Edits!vars, EditsTyped
<1>11. QED
  BY <1>1, <1>3, <1>4, <1>5, <1>6, <1>7, <1>8, <1>9, <1>10 DEF Edits!Next, Edits!AllEnded

LEMMA EditsInitTyped == ASSUME MarksDiffer PROVE Edits!Init => EditsTyped
<1>1. Edits!Unborn \in EditRecord /\ \A e \in Edits!Edits : EditOK(Edits!Unborn, e)
  BY DEF Edits!Unborn, EditRecord, States, EditOK, Holding
<1>2. QED
  BY <1>1, BlankType DEF Edits!Init, EditsTyped, MarksDiffer

-----------------------------------------------------------------------------
(* Who ran beside whom, and what is in the two files. *)

Begun(e)    == changes[e].st # "unborn"
IsActive(e) == changes[e].st \in ActiveStates

\* Edits begin in the order of their numbers.
Ordered == \A e, f \in Edits!Edits : f < e /\ Begun(e) => Begun(f)

\* Edits that are under way know of each other.
BesideInv ==
  /\ \A e, f \in Edits!Edits : IsActive(e) /\ IsActive(f) /\ e # f => f \in beside[e]
  /\ \A e \in Edits!Edits : \A f \in beside[e] : Begun(f)

\* An edit that no other one met in the shared temporary file finds there what
\* it wrote.
MetNone(e) == \A f \in beside[e] : changes[f].kind \notin Edits!Shared

TempInv ==
  \A e \in Edits!Edits : changes[e].kind \in Edits!Shared /\ MetNone(e) =>
    /\ changes[e].st = "open" => changes[e].at = "tmp"
    /\ changes[e].st = "written" => changesTmp = changes[e].held

\* An edit in place that runs alone writes where the configuration is.
PlaceInv ==
  \A e \in Edits!Edits :
    changes[e].kind \in Edits!InPlace /\ changes[e].st = "open" /\ Edits!Alone(e) => changes[e].at = "config"

\* Who may have left a torn file.
Tears(e) ==
  /\ Begun(e)
  /\ \/ changes[e].kind \in Edits!InPlace
     \/ changes[e].kind \in Edits!Shared /\ \E f \in beside[e] : changes[f].kind \in Edits!Shared

TornInv == config = Torn => \E e \in Edits!Edits : Tears(e)

\* The contents c has the sections of the edit e as e wrote them, or as a later
\* one did.
KeepsEdit(es, c, e) ==
  \A s \in Edits!Of[es[e].kind] :
    \E f \in Edits!Edits : f >= e /\ es[f].st # "unborn" /\ s \in Edits!Of[es[f].kind] /\ c[s] = f

\* Everything that may still become the configuration keeps the edit e.
Sticks(es, cf, tm, e) ==
  /\ \A f \in Edits!Edits : es[f].st \in ActiveStates => f > e
  /\ cf = Torn \/ (cf \in Content /\ KeepsEdit(es, cf, e))
  /\ \A f \in Edits!Edits : es[f].st \in Holding => KeepsEdit(es, es[f].held, e)
  /\ (\E f \in Edits!Edits : es[f].st \in {"open", "written"} /\ es[f].kind \in Edits!Shared) =>
       tm \in {Torn, Missing} \/ KeepsEdit(es, tm, e)

StickInv ==
  \A e \in Edits!Edits : changes[e].st = "done" /\ Edits!Alone(e) => Sticks(changes, config, changesTmp, e)

EditsInv == Ordered /\ BesideInv /\ TempInv /\ PlaceInv /\ TornInv /\ StickInv

\* More edits begin, and what they begin as they stay.
LEMMA KeepsGrows ==
  ASSUME NEW es, NEW es2, NEW c, NEW e \in Edits!Edits, es[e].st # "unborn", KeepsEdit(es, c, e),
         \A f \in Edits!Edits : es[f].st # "unborn" =>
           es2[f].st # "unborn" /\ es2[f].kind = es[f].kind
  PROVE  KeepsEdit(es2, c, e)
BY DEF KeepsEdit

-----------------------------------------------------------------------------
(* An edit that is under way takes a step. *)

Acts(e) ==
  /\ IsActive(e)
  /\ changes' \in [Edits!Edits -> EditRecord]
  /\ changes'[e].kind = changes[e].kind
  /\ changes'[e].st \in States \ {"unborn"}
  /\ \A f \in Edits!Edits \ {e} : OnlyMoves(f)
  /\ beside' = beside

\* What changes about the edits that are not e, and about all.
LEMMA ActsFields ==
  ASSUME EditsTyped, NEW e \in Edits!Edits, Acts(e)
  PROVE  /\ \A f \in Edits!Edits : /\ changes'[f].kind = changes[f].kind
                                   /\ Begun(f)' <=> Begun(f)
                                   /\ IsActive(f)' => IsActive(f)
                                   /\ MetNone(f)' <=> MetNone(f)
         /\ \A f \in Edits!Edits \ {e} : changes'[f].st = changes[f].st /\ changes'[f].held = changes[f].held
<1>1. \A f \in Edits!Edits : changes'[f].kind = changes[f].kind
  BY DEF Acts, OnlyMoves
<1>2. \A f \in Edits!Edits : Begun(f)' <=> Begun(f)
  BY DEF Acts, OnlyMoves, Begun, IsActive, ActiveStates
<1>3. \A f \in Edits!Edits : IsActive(f)' => IsActive(f)
  BY DEF Acts, OnlyMoves, IsActive
<1>4. ASSUME NEW f \in Edits!Edits
      PROVE  MetNone(f)' <=> MetNone(f)
  <2>1. beside'[f] = beside[f] /\ beside[f] \subseteq Edits!Edits
    BY DEF Acts, EditsTyped
  <2>2. QED
    BY <1>1, <2>1 DEF MetNone
<1>5. \A f \in Edits!Edits \ {e} : changes'[f].st = changes[f].st /\ changes'[f].held = changes[f].held
  BY DEF Acts, OnlyMoves
<1>6. QED
  BY <1>1, <1>2, <1>3, <1>4, <1>5

LEMMA ActsOrder ==
  ASSUME EditsTyped, Ordered, BesideInv, NEW e \in Edits!Edits, Acts(e)
  PROVE  Ordered' /\ BesideInv'
<1>1. \A f \in Edits!Edits : (Begun(f)' <=> Begun(f)) /\ (IsActive(f)' => IsActive(f))
  BY ActsFields
<1>2. \A f \in Edits!Edits : beside[f] \subseteq Edits!Edits /\ beside'[f] = beside[f]
  BY DEF EditsTyped, Acts
<1>3. QED
  BY <1>1, <1>2 DEF Ordered, BesideInv

\* An edit that met no other in the temporary file meets none that acts now.
LEMMA ActsTemp ==
  ASSUME EditsTyped, TempInv, BesideInv, NEW e \in Edits!Edits, Acts(e),
         changes[e].kind \notin Edits!Shared =>
           /\ changesTmp' = changesTmp
           /\ \A f \in Edits!Edits \ {e} : changes[f].at = "tmp" => changes'[f].at = "tmp",
         changes[e].kind \in Edits!Shared /\ MetNone(e) =>
           /\ changes'[e].st = "open" => changes'[e].at = "tmp"
           /\ changes'[e].st = "written" => changesTmp' = changes'[e].held
  PROVE  TempInv'
<1> SUFFICES ASSUME NEW f \in Edits!Edits, changes'[f].kind \in Edits!Shared, MetNone(f)',
                    changes'[f].st \in {"open", "written"}
             PROVE  /\ changes'[f].st = "open" => changes'[f].at = "tmp"
                    /\ changes'[f].st = "written" => changesTmp' = changes'[f].held
  BY DEF TempInv
<1>1. changes[f].kind \in Edits!Shared /\ MetNone(f)
  BY ActsFields
<1>2. CASE f = e
  BY <1>1, <1>2
<1>3. CASE f # e
  <2>1. changes'[f].st = changes[f].st /\ changes'[f].held = changes[f].held
    BY <1>3, ActsFields
  <2>2. e \in beside[f]
    BY <1>3, <2>1 DEF BesideInv, IsActive, Acts, ActiveStates
  <2>3. changes[e].kind \notin Edits!Shared
    BY <1>1, <2>2 DEF MetNone
  <2>4. QED
    BY <1>1, <1>3, <2>1, <2>3 DEF TempInv
<1>4. QED
  BY <1>2, <1>3

\* An edit in place that is alone meets none that acts.
LEMMA ActsPlace ==
  ASSUME EditsTyped, PlaceInv, BesideInv, NEW e \in Edits!Edits, Acts(e),
         changes[e].kind \in Edits!InPlace /\ changes'[e].st = "open" => changes'[e].at = "config"
  PROVE  PlaceInv'
<1> SUFFICES ASSUME NEW f \in Edits!Edits, changes'[f].kind \in Edits!InPlace, changes'[f].st = "open", Edits!Alone(f)'
             PROVE  changes'[f].at = "config"
  BY DEF PlaceInv
<1>1. changes[f].kind \in Edits!InPlace /\ beside[f] = {}
  BY ActsFields DEF Acts, Edits!Alone
<1>2. f = e
  BY <1>1, ActsFields DEF BesideInv, IsActive, Acts, ActiveStates
<1>3. QED
  BY <1>1, <1>2

\* A torn configuration has somebody to explain it.
LEMMA ActsTorn ==
  ASSUME EditsTyped, TornInv, NEW e \in Edits!Edits, Acts(e),
         config' = Torn => config = Torn \/ Tears(e)
  PROVE  TornInv'
<1>1. ASSUME NEW f \in Edits!Edits, Tears(f)
      PROVE  Tears(f)'
  <2>1. /\ beside'[f] = beside[f] /\ beside[f] \subseteq Edits!Edits
        /\ \A g \in Edits!Edits : changes'[g].kind = changes[g].kind /\ (Begun(g)' <=> Begun(g))
    BY ActsFields DEF EditsTyped, Acts
  <2>2. QED
    BY <1>1, <2>1 DEF Tears
<1>2. QED
  BY <1>1 DEF TornInv

\* What stuck sticks, when what an edit reads, writes or renames kept it.
LEMMA ActsStick ==
  ASSUME EditsTyped, StickInv, NEW e \in Edits!Edits, Acts(e),
         changes'[e].st = "done" /\ Edits!Alone(e) => Sticks(changes', config', changesTmp', e),
         \A d \in Edits!Edits : changes[d].st = "done" /\ Sticks(changes, config, changesTmp, d) =>
           /\ config' = Torn \/ (config' \in Content /\ KeepsEdit(changes, config', d))
           /\ changes'[e].st \in Holding => KeepsEdit(changes, changes'[e].held, d)
           /\ \/ changesTmp' \in {Torn, Missing}
              \/ KeepsEdit(changes, changesTmp', d)
              \/ /\ changesTmp' = changesTmp
                 /\ changes'[e].st \in {"open", "written"} /\ changes[e].kind \in Edits!Shared
                      => changes[e].st \in {"open", "written"}
  PROVE  StickInv'
<1> SUFFICES ASSUME NEW d \in Edits!Edits, changes'[d].st = "done", Edits!Alone(d)'
             PROVE  Sticks(changes', config', changesTmp', d)
  BY DEF StickInv
<1>1. Edits!Alone(d)
  BY DEF Acts, Edits!Alone
<1>2. CASE d = e
  BY <1>1, <1>2
<1>3. CASE d # e
  <2>1. changes[d].st = "done" /\ Sticks(changes, config, changesTmp, d)
    BY <1>1, <1>3, ActsFields DEF StickInv
  <2>2. \A f \in Edits!Edits : (IsActive(f)' => IsActive(f)) /\ (Begun(f)' <=> Begun(f))
                               /\ changes'[f].kind = changes[f].kind
    BY ActsFields
  <2>3. ASSUME NEW c, KeepsEdit(changes, c, d)
        PROVE  KeepsEdit(changes', c, d)
    BY <2>1, <2>2, <2>3, KeepsGrows DEF Begun
  <2>4. \A f \in Edits!Edits : changes'[f].st \in ActiveStates => f > d
    BY <2>1, <2>2 DEF Sticks, IsActive
  <2>5. config' = Torn \/ (config' \in Content /\ KeepsEdit(changes', config', d))
    BY <2>1, <2>3
  <2>6. \A f \in Edits!Edits : changes'[f].st \in Holding => KeepsEdit(changes', changes'[f].held, d)
    <3>1. changes'[e].st \in Holding => KeepsEdit(changes', changes'[e].held, d)
      BY <2>1, <2>3
    <3>2. \A f \in Edits!Edits \ {e} : changes'[f].st \in Holding => KeepsEdit(changes', changes'[f].held, d)
      BY <2>1, <2>3, ActsFields DEF Sticks
    <3>3. QED
      BY <3>1, <3>2
  <2>7. ASSUME NEW f \in Edits!Edits, changes'[f].st \in {"open", "written"}, changes'[f].kind \in Edits!Shared
        PROVE  changesTmp' \in {Torn, Missing} \/ KeepsEdit(changes', changesTmp', d)
    <3>1. CASE changesTmp' \in {Torn, Missing} \/ KeepsEdit(changes, changesTmp', d)
      BY <2>3, <3>1
    <3>2. CASE /\ changesTmp' = changesTmp
               /\ changes'[e].st \in {"open", "written"} /\ changes[e].kind \in Edits!Shared
                    => changes[e].st \in {"open", "written"}
      <4>1. changes[f].st \in {"open", "written"} /\ changes[f].kind \in Edits!Shared
        BY <2>2, <2>7, <3>2, ActsFields
      <4>2. changesTmp \in {Torn, Missing} \/ KeepsEdit(changes, changesTmp, d)
        BY <2>1, <4>1 DEF Sticks
      <4>3. QED
        BY <2>3, <3>2, <4>2
    <3>3. QED
      BY <2>1, <3>1, <3>2
  <2>8. QED
    BY <2>4, <2>5, <2>6, <2>7 DEF Sticks
<1>4. QED
  BY <1>2, <1>3

\* An edit that is alone puts what it holds into the file: nothing else is left
\* that could become the configuration.
LEMMA FreshSticks ==
  ASSUME EditsTyped, BesideInv, NEW e \in Edits!Edits, Acts(e), Edits!Alone(e), changes'[e].st = "done",
         changes[e].st \in Holding, config' = changes[e].held
  PROVE  Sticks(changes', config', changesTmp', e)
<1>1. \A f \in Edits!Edits : ~ IsActive(f)'
  <2>1. \A f \in Edits!Edits \ {e} : ~ IsActive(f)
    BY DEF Acts, BesideInv, Edits!Alone
  <2>2. ~ IsActive(e)'
    BY DEF IsActive, ActiveStates
  <2>3. QED
    BY <2>1, <2>2, ActsFields
<1>2. /\ config' \in Content
      /\ \A s \in Edits!Of[changes'[e].kind] : config'[s] = e
  BY ActsFields DEF EditsTyped, EditOK
<1>3. KeepsEdit(changes', config', e)
  <2>1. e \in Nat /\ changes'[e].st # "unborn"
    BY DEF Edits!Edits
  <2>2. QED
    BY <1>2, <2>1 DEF KeepsEdit
<1>4. QED
  BY <1>1, <1>2, <1>3 DEF Sticks, IsActive, ActiveStates, Holding

\* An edit begins: it is later than all that began, and those under way are beside it.
LEMMA BeginKeeps ==
  ASSUME MarksDiffer, EditsTyped, EditsInv, NEW e \in Edits!Edits, NEW k \in Edits!Kinds, Edits!Begin(e, k)
  PROVE  EditsInv'
<1> DEFINE x == [Edits!Unborn EXCEPT !.kind = k, !.st = "began"]
<1>0. /\ changes \in [Edits!Edits -> EditRecord] /\ beside \in [Edits!Edits -> SUBSET Edits!Edits]
      /\ ~ Begun(e)
      /\ \A f \in Edits!Edits : f < e => Begun(f)
      /\ UNCHANGED <<config, changesTmp>>
  BY DEF EditsTyped, Edits!Begin, Begun
<1>1. x.kind = k /\ x.st = "began" /\ x.at = "none"
  BY DEF Edits!Unborn
<1>2. changes' = [changes EXCEPT ![e] = x]
  BY DEF Edits!Begin
<1> HIDE DEF x
<1>3. /\ changes'[e].kind = k /\ changes'[e].st = "began"
      /\ \A f \in Edits!Edits \ {e} : changes'[f] = changes[f]
  BY <1>0, <1>1, <1>2
<1>4. /\ beside'[e] = Edits!Active
      /\ \A f \in Edits!Edits \ {e} : beside'[f] = IF f \in Edits!Active THEN beside[f] \cup {e} ELSE beside[f]
  BY DEF Edits!Begin
<1>5. \A f \in Edits!Edits : f \in Edits!Active <=> IsActive(f)
  BY DEF Edits!Active, IsActive, ActiveStates
<1>6. \A f \in Edits!Edits : (Begun(f) => f # e) /\ (IsActive(f) => Begun(f))
  BY <1>0 DEF Begun, IsActive, ActiveStates
<1>7. \A f \in Edits!Edits : Begun(f)' <=> Begun(f) \/ f = e
  BY <1>3 DEF Begun
<1>8. \A f \in Edits!Edits : f > e => ~ Begun(f)
  BY <1>0 DEF EditsInv, Ordered
<1>9. Ordered'
  <2>1. \A f, g \in Edits!Edits : g < f /\ f = e => Begun(g)
    BY <1>0
  <2>2. QED
    BY <1>7, <2>1 DEF EditsInv, Ordered
<1>10. BesideInv'
  <2>1. \A f \in Edits!Edits : IsActive(f)' => IsActive(f) \/ f = e
    BY <1>3 DEF IsActive
  <2>2. ASSUME NEW f \in Edits!Edits, NEW g \in Edits!Edits, IsActive(f)', IsActive(g)', f # g
        PROVE  g \in beside'[f]
    <3>1. CASE f = e
      BY <1>4, <1>5, <2>1, <2>2, <3>1
    <3>2. CASE f # e
      BY <1>4, <1>5, <2>1, <2>2, <3>2 DEF EditsInv, BesideInv
    <3>3. QED
      BY <3>1, <3>2
  <2>3. ASSUME NEW f \in Edits!Edits, NEW g \in beside'[f]
        PROVE  Begun(g)'
    <3>0. g \in beside'[f] => IF f = e THEN g \in Edits!Active ELSE g = e \/ g \in beside[f]
      BY <1>4
    <3>1. g \in Edits!Edits /\ (g \in Edits!Active \/ g = e \/ g \in beside[f])
      <4>1. Edits!Active \subseteq Edits!Edits /\ beside[f] \subseteq Edits!Edits
        BY <1>0 DEF Edits!Active
      <4>2. QED
        BY <2>3, <3>0, <4>1
    <3>2. g \in beside[f] => Begun(g)
      BY DEF EditsInv, BesideInv
    <3>3. QED
      BY <1>5, <1>6, <1>7, <3>1, <3>2
  <2>4. QED
    BY <2>2, <2>3 DEF BesideInv
<1>11. ASSUME NEW f \in Edits!Edits, f # e
       PROVE  /\ changes'[f] = changes[f]
              /\ beside[f] \subseteq beside'[f] /\ beside[f] \subseteq Edits!Edits
              /\ \A g \in beside[f] : Begun(g) /\ g # e /\ changes'[g] = changes[g]
  <2>1. changes'[f] = changes[f] /\ beside[f] \subseteq beside'[f] /\ beside[f] \subseteq Edits!Edits
    BY <1>0, <1>3, <1>4, <1>11
  <2>2. \A g \in beside[f] : Begun(g)
    BY DEF EditsInv, BesideInv
  <2>3. QED
    BY <1>3, <1>6, <2>1, <2>2
<1>12. TempInv'
  <2>1. SUFFICES ASSUME NEW f \in Edits!Edits, changes'[f].kind \in Edits!Shared, MetNone(f)',
                        changes'[f].st \in {"open", "written"}
                 PROVE  /\ changes'[f].st = "open" => changes'[f].at = "tmp"
                        /\ changes'[f].st = "written" => changesTmp' = changes'[f].held
    BY DEF TempInv
  <2>2. f # e
    BY <1>3, <2>1
  <2>3. MetNone(f)
    BY <1>11, <2>1, <2>2 DEF MetNone
  <2>4. QED
    BY <1>0, <1>11, <2>1, <2>2, <2>3 DEF EditsInv, TempInv
<1>13. PlaceInv'
  <2>1. SUFFICES ASSUME NEW f \in Edits!Edits, changes'[f].kind \in Edits!InPlace, changes'[f].st = "open",
                        Edits!Alone(f)'
                 PROVE  changes'[f].at = "config"
    BY DEF PlaceInv
  <2>2. f # e
    BY <1>3, <2>1
  <2>3. Edits!Alone(f)
    BY <1>11, <2>1, <2>2 DEF Edits!Alone
  <2>4. QED
    BY <1>11, <2>1, <2>2, <2>3 DEF EditsInv, PlaceInv
<1>14. TornInv'
  <2>1. ASSUME NEW f \in Edits!Edits, Tears(f)
        PROVE  Tears(f)'
    <3>1. f # e
      BY <1>6, <2>1 DEF Tears
    <3>2. QED
      BY <1>7, <1>11, <2>1, <3>1 DEF Tears
  <2>2. QED
    BY <1>0, <2>1 DEF EditsInv, TornInv
<1>15. StickInv'
  <2>1. SUFFICES ASSUME NEW d \in Edits!Edits, changes'[d].st = "done", Edits!Alone(d)'
                 PROVE  Sticks(changes', config', changesTmp', d)
    BY DEF StickInv
  <2>2. d # e
    BY <1>3, <2>1
  <2>3. changes[d].st = "done" /\ Edits!Alone(d)
    BY <1>11, <2>1, <2>2 DEF Edits!Alone
  <2>4. Sticks(changes, config, changesTmp, d)
    BY <2>3 DEF EditsInv, StickInv
  <2>5. \A f \in Edits!Edits : changes[f].st # "unborn" =>
          changes'[f].st # "unborn" /\ changes'[f].kind = changes[f].kind
    BY <1>3, <1>6 DEF Begun
  <2>6. ASSUME NEW c, KeepsEdit(changes, c, d)
        PROVE  KeepsEdit(changes', c, d)
    BY <2>3, <2>5, <2>6, KeepsGrows
  <2>7. e > d
    <3>1. e \in Nat /\ d \in Nat
      BY DEF Edits!Edits
    <3>2. ~ (d > e)
      BY <1>8, <2>3 DEF Begun
    <3>3. QED
      BY <2>2, <3>1, <3>2
  <2>8. \A f \in Edits!Edits : changes'[f].st \in ActiveStates => f > d
    BY <1>3, <2>4, <2>7 DEF Sticks
  <2>9. config' = Torn \/ (config' \in Content /\ KeepsEdit(changes', config', d))
    BY <1>0, <2>4, <2>6 DEF Sticks
  <2>10. \A f \in Edits!Edits : changes'[f].st \in Holding => KeepsEdit(changes', changes'[f].held, d)
    BY <1>3, <2>4, <2>6 DEF Sticks, Holding
  <2>11. (\E f \in Edits!Edits : changes'[f].st \in {"open", "written"} /\ changes'[f].kind \in Edits!Shared) =>
           changesTmp' \in {Torn, Missing} \/ KeepsEdit(changes', changesTmp', d)
    BY <1>0, <1>3, <2>4, <2>6 DEF Sticks
  <2>12. QED
    BY <2>8, <2>9, <2>10, <2>11 DEF Sticks
<1>16. QED
  BY <1>9, <1>10, <1>12, <1>13, <1>14, <1>15 DEF EditsInv

\* An edit that ends refused or dead leaves the files alone.
LEMMA EndKeeps ==
  ASSUME MarksDiffer, EditsTyped, EditsInv, NEW e \in Edits!Edits, NEW st \in {"refused", "dead"},
         IsActive(e), Edits!End(e, st), UNCHANGED <<config, changesTmp, beside>>
  PROVE  EditsInv'
<1>1. /\ changes' \in [Edits!Edits -> EditRecord] /\ changes'[e].kind = changes[e].kind /\ changes'[e].st = st
      /\ \A f \in Edits!Edits \ {e} : changes'[f] = changes[f]
  BY EndFields DEF EditsTyped, States
<1>2. Acts(e)
  BY <1>1, SameMoves DEF Acts, States
<1>3. Ordered' /\ BesideInv'
  BY <1>2, ActsOrder DEF EditsInv
<1>4. TempInv'
  BY <1>1, <1>2, ActsTemp DEF EditsInv
<1>5. PlaceInv'
  BY <1>1, <1>2, ActsPlace DEF EditsInv
<1>6. TornInv'
  BY <1>2, ActsTorn DEF EditsInv
<1>7. StickInv'
  BY <1>1, <1>2, ActsStick DEF EditsInv, Sticks, Holding
<1>8. QED
  BY <1>3, <1>4, <1>5, <1>6, <1>7 DEF EditsInv

\* What an edit writes after it read keeps what stuck.
LEMMA ChangeKeeps ==
  ASSUME MarksDiffer, EditsTyped, NEW e \in Edits!Edits, NEW d \in Edits!Edits, IsActive(e),
         changes[e].kind \in Edits!Kinds, changes[d].st = "done", Sticks(changes, config, changesTmp, d),
         NEW c \in Content,
         changes[e].kind = "init" \/ c = config \/ (config = Missing /\ c = Edits!Blank)
  PROVE  KeepsEdit(changes, Edits!Change(e, c), d)
<1>1. e >= d /\ Begun(e)
  <2>1. e > d
    BY DEF Sticks, IsActive
  <2>2. QED
    BY <2>1 DEF Edits!Edits, Begun, IsActive, ActiveStates
<1>2. changes[d].kind \in Edits!Kinds
  BY DEF EditsTyped, EditOK
<1>3. SUFFICES ASSUME NEW s \in Edits!Of[changes[d].kind]
               PROVE  \E f \in Edits!Edits : /\ f >= d /\ changes[f].st # "unborn"
                                             /\ s \in Edits!Of[changes[f].kind] /\ Edits!Change(e, c)[s] = f
  BY DEF KeepsEdit
<1>4. s \in Edits!Sections
  BY <1>2, <1>3, OfKinds
<1>5. CASE s \in Edits!Of[changes[e].kind]
  BY <1>1, <1>5, ChangeType DEF MarksDiffer, Begun
<1>6. CASE s \notin Edits!Of[changes[e].kind]
  <2>1. c = config
    BY <1>4, <1>6, OfKinds DEF Sticks, MarksDiffer
  <2>2. KeepsEdit(changes, c, d)
    BY <2>1 DEF Sticks, MarksDiffer
  <2>3. Edits!Change(e, c)[s] = c[s]
    BY <1>4, <1>6, ChangeType DEF MarksDiffer
  <2>4. QED
    BY <1>3, <2>2, <2>3 DEF KeepsEdit
<1>7. QED
  BY <1>5, <1>6

LEMMA EditReadKeeps ==
  ASSUME MarksDiffer, EditsTyped, EditsInv, NEW e \in Edits!Edits, Edits!readConfigOrInit(e)
  PROVE  EditsInv'
<1>1. changes[e].st = "began" /\ UNCHANGED <<config, changesTmp, beside>>
  BY DEF Edits!readConfigOrInit
<1>2. IsActive(e) /\ changes[e].kind \in Edits!Kinds /\ changes[e].at = "none"
  BY <1>1 DEF IsActive, ActiveStates, EditsTyped, EditOK
<1>3. CASE Edits!End(e, "refused")
  BY <1>1, <1>2, <1>3, EndKeeps
<1>4. ASSUME NEW c \in Content,
             changes[e].kind = "init" \/ c = config \/ (config = Missing /\ c = Edits!Blank),
             changes' \in [Edits!Edits -> EditRecord],
             changes'[e].kind = changes[e].kind, changes'[e].st = "read",
             changes'[e].held = Edits!Change(e, c),
             \A f \in Edits!Edits \ {e} : changes'[f] = changes[f]
      PROVE  EditsInv'
  <2>1. Acts(e)
    BY <1>1, <1>2, <1>4, SameMoves DEF Acts, States
  <2>2. Ordered' /\ BesideInv'
    BY <2>1, ActsOrder DEF EditsInv
  <2>3. TempInv'
    BY <1>1, <1>4, <2>1, ActsTemp DEF EditsInv
  <2>4. PlaceInv'
    BY <1>4, <2>1, ActsPlace DEF EditsInv
  <2>5. TornInv'
    BY <1>1, <2>1, ActsTorn DEF EditsInv
  <2>6. \A d \in Edits!Edits : changes[d].st = "done" /\ Sticks(changes, config, changesTmp, d) =>
          KeepsEdit(changes, changes'[e].held, d)
    BY <1>2, <1>4, ChangeKeeps
  <2>7. StickInv'
    BY <1>1, <1>4, <2>1, <2>6, ActsStick DEF EditsInv, Sticks
  <2>8. QED
    BY <2>2, <2>3, <2>4, <2>5, <2>7 DEF EditsInv
<1>5. QED
  BY <1>3, <1>4, EditReadFields

LEMMA OpenKeeps ==
  ASSUME MarksDiffer, EditsTyped, EditsInv, NEW e \in Edits!Edits, Edits!OpenTemp(e) \/ Edits!OpenInPlace(e)
  PROVE  EditsInv'
<1> DEFINE at == IF changes[e].kind \in Edits!Shared THEN "tmp" ELSE "config"
<1>1. /\ changes[e].st = "read" /\ changes[e].kind \in Edits!Shared \cup Edits!InPlace
      /\ changes' = [changes EXCEPT ![e].st = "open", ![e].at = at]
      /\ beside' = beside
      /\ changes[e].kind \in Edits!Shared => config' = config /\ changesTmp' = Torn
      /\ changes[e].kind \in Edits!InPlace => config' = Torn /\ changesTmp' = changesTmp
  BY OfKinds DEF Edits!OpenTemp, Edits!OpenInPlace
<1>2. /\ changes' \in [Edits!Edits -> EditRecord] /\ changes'[e].kind = changes[e].kind
      /\ changes'[e].st = "open" /\ changes'[e].held = changes[e].held /\ changes'[e].at = at
      /\ \A f \in Edits!Edits \ {e} : changes'[f] = changes[f]
  BY <1>1, OpenFields DEF EditsTyped
<1>3. Acts(e)
  BY <1>1, <1>2, SameMoves DEF Acts, States, IsActive, ActiveStates
<1>4. Ordered' /\ BesideInv'
  BY <1>3, ActsOrder DEF EditsInv
<1>5. TempInv'
  BY <1>1, <1>2, <1>3, ActsTemp DEF EditsInv
<1>6. PlaceInv'
  BY <1>1, <1>2, <1>3, OfKinds, ActsPlace DEF EditsInv
<1>7. config' = Torn => config = Torn \/ Tears(e)
  BY <1>1 DEF Tears, Begun
<1>8. TornInv'
  BY <1>3, <1>7, ActsTorn DEF EditsInv
<1>9. \A d \in Edits!Edits : Sticks(changes, config, changesTmp, d) => KeepsEdit(changes, changes[e].held, d)
  BY <1>1 DEF Sticks, Holding
<1>10. StickInv'
  BY <1>1, <1>2, <1>3, <1>9, OfKinds, ActsStick DEF EditsInv, Sticks
<1>11. QED
  BY <1>4, <1>5, <1>6, <1>8, <1>10 DEF EditsInv

LEMMA FillKeeps ==
  ASSUME MarksDiffer, EditsTyped, EditsInv, NEW e \in Edits!Edits, Edits!Fill(e)
  PROVE  EditsInv'
<1> DEFINE st == IF changes[e].kind \in Edits!InPlace THEN "done" ELSE "written"
<1>1. /\ changes[e].st = "open" /\ changes[e].held \in Content
      /\ changes[e].kind \in Edits!Shared \cup Edits!InPlace
      /\ changes[e].at = "tmp" => changes[e].kind \in Edits!Shared
      /\ beside' = beside
  BY DEF Edits!Fill, EditsTyped, EditOK, Holding
<1>2. /\ config' = IF changes[e].at = "config" THEN changes[e].held ELSE config
      /\ changesTmp' = IF changes[e].at = "tmp" THEN changes[e].held ELSE changesTmp
      /\ Edits!End(e, st)
  BY DEF Edits!Fill, Edits!End
<1>3. /\ changes' \in [Edits!Edits -> EditRecord] /\ changes'[e].kind = changes[e].kind
      /\ changes'[e].st = st /\ changes'[e].held = changes[e].held
      /\ \A f \in Edits!Edits \ {e} : changes'[f] = changes[f]
  BY <1>2, EndFields DEF EditsTyped, States
<1>4. Acts(e)
  BY <1>1, <1>3, SameMoves DEF Acts, States, IsActive, ActiveStates
<1>5. Ordered' /\ BesideInv'
  BY <1>4, ActsOrder DEF EditsInv
<1>6. TempInv'
  <2>1. changes[e].kind \in Edits!Shared /\ MetNone(e) => changes[e].at = "tmp"
    BY <1>1 DEF EditsInv, TempInv
  <2>2. QED
    BY <1>1, <1>2, <1>3, <1>4, <2>1, OfKinds, ActsTemp DEF EditsInv
<1>7. PlaceInv'
  BY <1>3, <1>4, ActsPlace DEF EditsInv
<1>8. TornInv'
  BY <1>1, <1>2, <1>4, ActsTorn DEF EditsInv, MarksDiffer
<1>9. changes'[e].st = "done" /\ Edits!Alone(e) => Sticks(changes', config', changesTmp', e)
  <2>1. SUFFICES ASSUME changes'[e].st = "done", Edits!Alone(e)
                 PROVE  Sticks(changes', config', changesTmp', e)
    OBVIOUS
  <2>2. changes[e].kind \in Edits!InPlace
    BY <1>3, <2>1
  <2>3. config' = changes[e].held
    BY <1>1, <1>2, <2>1, <2>2 DEF EditsInv, PlaceInv
  <2>4. QED
    BY <1>1, <1>4, <2>1, <2>3, FreshSticks DEF EditsInv, Holding
<1>10. \A d \in Edits!Edits : Sticks(changes, config, changesTmp, d) => KeepsEdit(changes, changes[e].held, d)
  BY <1>1 DEF Sticks, Holding
<1>11. ASSUME NEW d \in Edits!Edits, Sticks(changes, config, changesTmp, d)
       PROVE  /\ config' = Torn \/ (config' \in Content /\ KeepsEdit(changes, config', d))
              /\ changesTmp' = changesTmp \/ KeepsEdit(changes, changesTmp', d)
  BY <1>1, <1>2, <1>10, <1>11 DEF Sticks
<1>12. StickInv'
  BY <1>1, <1>3, <1>4, <1>9, <1>10, <1>11, ActsStick DEF EditsInv
<1>13. QED
  BY <1>5, <1>6, <1>7, <1>8, <1>12 DEF EditsInv

LEMMA RenameKeeps ==
  ASSUME MarksDiffer, EditsTyped, EditsInv, NEW e \in Edits!Edits, Edits!rename(e)
  PROVE  EditsInv'
<1>1. /\ changes[e].st = "written" /\ changes[e].kind \in Edits!Shared /\ changes[e].at = "none"
      /\ changes[e].held \in Content /\ IsActive(e) /\ Begun(e)
      /\ beside' = beside
  BY DEF Edits!rename, EditsTyped, EditOK, Holding, IsActive, ActiveStates, Begun
<1>2. CASE changesTmp = Missing
  BY <1>1, <1>2, EndKeeps DEF Edits!rename
<1>3. CASE changesTmp # Missing
  <2>1. config' = changesTmp /\ changesTmp' = Missing
    BY <1>3 DEF Edits!rename
  <2>2. /\ changes' \in [Edits!Edits -> EditRecord] /\ changes'[e].kind = changes[e].kind /\ changes'[e].st = "done"
        /\ \A f \in Edits!Edits \ {e} : OnlyMoves(f)
    BY <1>1, <1>3, RenameFields DEF EditsTyped
  <2>3. Acts(e)
    BY <1>1, <2>2 DEF Acts, States
  <2>4. MetNone(e) => changesTmp = changes[e].held
    BY <1>1 DEF EditsInv, TempInv
  <2>5. Ordered' /\ BesideInv'
    BY <2>3, ActsOrder DEF EditsInv
  <2>6. TempInv'
    BY <1>1, <2>2, <2>3, ActsTemp DEF EditsInv
  <2>7. PlaceInv'
    BY <2>2, <2>3, ActsPlace DEF EditsInv
  <2>8. config' = Torn => Tears(e)
    BY <1>1, <2>1, <2>4 DEF Tears, MetNone, MarksDiffer
  <2>9. TornInv'
    BY <2>3, <2>8, ActsTorn DEF EditsInv
  <2>10. Edits!Alone(e) => Sticks(changes', config', changesTmp', e)
    <3>1. Edits!Alone(e) => MetNone(e)
      BY DEF Edits!Alone, MetNone
    <3>2. QED
      BY <1>1, <2>1, <2>2, <2>3, <2>4, <3>1, FreshSticks DEF EditsInv, Holding
  <2>11. ASSUME NEW d \in Edits!Edits, Sticks(changes, config, changesTmp, d)
         PROVE  config' = Torn \/ (config' \in Content /\ KeepsEdit(changes, config', d))
    BY <1>1, <1>3, <2>1, <2>11 DEF Sticks, EditsTyped
  <2>12. changes'[e].st \notin Holding
    BY <2>2 DEF Holding
  <2>13. StickInv'
    BY <2>1, <2>3, <2>10, <2>11, <2>12, ActsStick DEF EditsInv
  <2>14. QED
    BY <2>5, <2>6, <2>7, <2>9, <2>13 DEF EditsInv
<1>4. QED
  BY <1>2, <1>3

LEMMA OwnKeeps ==
  ASSUME MarksDiffer, EditsTyped, EditsInv, NEW e \in Edits!Edits, Edits!WriteOwn(e)
  PROVE  EditsInv'
<1>1. /\ changes[e].st = "read" /\ changes[e].kind \in Edits!Own /\ changes[e].at = "none"
      /\ changes[e].held \in Content /\ IsActive(e)
      /\ config' = changes[e].held /\ UNCHANGED <<changesTmp, beside>>
  BY DEF Edits!WriteOwn, EditsTyped, EditOK, Holding, IsActive, ActiveStates
<1>2. /\ changes' \in [Edits!Edits -> EditRecord] /\ changes'[e].kind = changes[e].kind /\ changes'[e].st = "done"
      /\ \A f \in Edits!Edits \ {e} : OnlyMoves(f)
      /\ \A f \in Edits!Edits \ {e} : changes[f].at = "tmp" => changes'[f].at = "tmp"
  BY <1>1, RenameFields DEF EditsTyped
<1>3. Acts(e)
  BY <1>1, <1>2 DEF Acts, States
<1>4. Ordered' /\ BesideInv'
  BY <1>3, ActsOrder DEF EditsInv
<1>5. TempInv'
  BY <1>1, <1>2, <1>3, OfKinds, ActsTemp DEF EditsInv
<1>6. PlaceInv'
  BY <1>2, <1>3, ActsPlace DEF EditsInv
<1>7. TornInv'
  BY <1>1, <1>3, ActsTorn DEF EditsInv, MarksDiffer
<1>8. Edits!Alone(e) => Sticks(changes', config', changesTmp', e)
  BY <1>1, <1>2, <1>3, FreshSticks DEF EditsInv, Holding
<1>9. \A d \in Edits!Edits : Sticks(changes, config, changesTmp, d) => KeepsEdit(changes, config', d)
  BY <1>1 DEF Sticks, Holding
<1>10. changes'[e].st \notin Holding \cup {"open", "written"}
  BY <1>2 DEF Holding
<1>11. StickInv'
  BY <1>1, <1>3, <1>8, <1>9, <1>10, ActsStick DEF EditsInv
<1>12. QED
  BY <1>4, <1>5, <1>6, <1>7, <1>11 DEF EditsInv

LEMMA EditsInvariance ==
  ASSUME MarksDiffer, EditsTyped, EditsInv, [Edits!Next]_(Edits!vars)
  PROVE  EditsInv'
<1>1. ASSUME NEW e \in Edits!Edits, Edits!Crash(e)
      PROVE  EditsInv'
  <2>1. IsActive(e) /\ Edits!End(e, "dead") /\ UNCHANGED <<config, changesTmp, beside>>
    BY <1>1 DEF Edits!Crash, Edits!Active, IsActive, ActiveStates
  <2>2. QED
    BY <2>1, EndKeeps
<1>2. CASE UNCHANGED Edits!vars
  BY <1>2 DEF Edits!vars, EditsInv, Ordered, BesideInv, TempInv, PlaceInv, TornInv, StickInv,
              Begun, IsActive, MetNone, Edits!Alone, Tears
<1>3. QED
  BY <1>1, <1>2, BeginKeeps, EditReadKeeps, OpenKeeps, FillKeeps, RenameKeeps, OwnKeeps
  DEF Edits!Next, Edits!AllEnded

LEMMA InitEdits == ASSUME MarksDiffer PROVE Edits!Init => EditsInv
<1> SUFFICES ASSUME Edits!Init
             PROVE  EditsInv
  OBVIOUS
<1>1. /\ \A e \in Edits!Edits : changes[e].st = "unborn" /\ beside[e] = {}
      /\ config # Torn
  <2>1. Edits!Unborn.st = "unborn"
    BY DEF Edits!Unborn
  <2>2. config # Torn
    BY BlankType DEF Edits!Init, MarksDiffer
  <2>3. QED
    BY <2>1, <2>2 DEF Edits!Init
<1>2. QED
  BY <1>1 DEF EditsInv, Ordered, BesideInv, TempInv, PlaceInv, TornInv, StickInv,
              Begun, IsActive, ActiveStates

-----------------------------------------------------------------------------
\* An edit that ran beside no other and was acknowledged is in the file, or a
\* later one of its section is, however many edits overlap, fail or die after it;
\* a torn file is the work of an edit in place, or of two that were in the shared
\* temporary file together (profileCrud, the preset, routing and runtime routes).
THEOREM LoneEditsStick == Edits!Spec => []Edits!EditsStick
<1>0. MarksDiffer
  BY MarksOfChanges
<1>1. Edits!Init => EditsTyped /\ EditsInv
  BY <1>0, EditsInitTyped, InitEdits
<1>2. EditsTyped /\ EditsInv /\ [Edits!Next]_(Edits!vars) => (EditsTyped /\ EditsInv)'
  BY <1>0, EditsTypeInvariance, EditsInvariance
<1>3. ASSUME EditsTyped, EditsInv
      PROVE  Edits!EditsStick
  <2>1. CASE config = Torn
    BY <1>3, <2>1 DEF EditsInv, TornInv, Tears, Edits!EditsStick
  <2>2. CASE config # Torn
    <3>1. SUFFICES ASSUME NEW e \in Edits!Edits, changes[e].st = "done", Edits!Alone(e), NEW s \in Edits!Writes(e)
                   PROVE  \E f \in Edits!Edits : f >= e /\ s \in Edits!Writes(f) /\ config[s] = f
      BY <2>2 DEF Edits!EditsStick
    <3>2. KeepsEdit(changes, config, e)
      BY <1>3, <2>2, <3>1 DEF EditsInv, StickInv, Sticks
    <3>3. QED
      BY <3>1, <3>2 DEF KeepsEdit, Edits!Writes
  <2>3. QED
    BY <2>1, <2>2
<1>4. QED
  BY <1>1, <1>2, <1>3, PTL DEF Edits!Spec

-----------------------------------------------------------------------------
(* Discovery: the calls, the probes and what is kept.                          *)

CallRecord == [st : {"unborn", "waits", "done"}, force : BOOLEAN, asked : Nat, since : Nat,
               at : Nat, on : Disc!Calls \cup {None}, profiles : SUBSET Profiles]

DiscTyped ==
  /\ clock \in Nat
  /\ cache \in Cached \cup {None}
  /\ inflight \in Disc!Calls \cup {None}
  /\ probe \in [Disc!Calls -> [pending : SUBSET Hosts, began : Nat]]
  /\ call \in [Disc!Calls -> CallRecord]

Keeping(profiles) == IF profiles # {} THEN CacheTtl ELSE NegativeTtl

\* What is kept was found by a probe that took no longer than one may.
CacheOK == cache # None => cache.since <= cache.at /\ cache.at <= clock
                           /\ cache.at <= cache.since + ProbeTime

\* A probe under way was begun by its call, and has time left.
ProbeOK(p) ==
  probe[p].pending # {} =>
    /\ call[p].st # "unborn" /\ probe[p].began = call[p].asked
    /\ probe[p].began <= clock /\ clock <= probe[p].began + ProbeTime

CallOK(c) ==
  /\ call[c].st = "waits" => /\ call[c].on \in Disc!Calls /\ probe[call[c].on].pending # {}
                             /\ call[c].force => call[c].on = c
  /\ call[c].st = "done" => /\ call[c].at <= call[c].since + ProbeTime + Keeping(call[c].profiles)
                            /\ call[c].force => call[c].since >= call[c].asked

\* The probe to join is under way; one that nobody forced is the only one of its
\* kind, and where none is to be joined it began before the last was kept.
OneProbe ==
  /\ inflight # None => probe[inflight].pending # {}
  /\ \A p \in Disc!Calls : probe[p].pending # {} /\ ~call[p].force =>
       /\ inflight = None => cache # None /\ probe[p].began <= cache.at
       /\ \A q \in Disc!Calls : probe[q].pending # {} /\ ~call[q].force => p = q

DiscInv ==
  /\ DiscTyped
  /\ CacheOK
  /\ \A c \in Disc!Calls : ProbeOK(c) /\ CallOK(c)
  /\ OneProbe

LEMMA DiscConstants ==
  /\ Hosts # {} /\ ProbeTime \in Nat /\ CacheTtl \in Nat /\ NegativeTtl \in Nat
  /\ ProbeTime < CacheTtl /\ ProbeTime < NegativeTtl /\ MaxCalls \in Nat
  /\ None \notin Disc!Calls /\ None \notin Cached
BY DiscoveryAssumption DEF Disc!Calls

LEMMA KeepingType == \A S : Keeping(S) \in Nat /\ ProbeTime < Keeping(S)
BY DiscConstants DEF Keeping

\* A model that is good and bad at something is large and small by its name.
LEMMA ProfilesAreClear ==
  ASSUME NEW p \in Profiles, p.tags.good \cap p.tags.bad # {}
  PROVE  p.model.large /\ p.model.small
<1>1. PICK m \in Model : p = [model |-> m, tags |-> Disc!inferCapabilities(m)]
  BY DEF Profiles, Disc!ProfilesOf
<1>2. p.model = m /\ p.tags = Disc!inferCapabilities(m)
  BY <1>1
<1> DEFINE G == Disc!inferCapabilities(m).good
           B == Disc!inferCapabilities(m).bad
<1>3. m.coder \in BOOLEAN /\ m.large \in BOOLEAN /\ m.small \in BOOLEAN /\ m.korean \in BOOLEAN
  BY DEF Model
<1>4. SUFFICES ASSUME ~ (m.large /\ m.small) PROVE G \cap B = {}
  BY <1>2
<1>5. CASE m.coder
  <2>1. CASE m.large /\ ~m.small
    BY <1>5, <2>1 DEF Disc!inferCapabilities, Disc!Coding, Disc!Light
  <2>2. CASE ~m.large /\ m.small
    BY <1>5, <2>2 DEF Disc!inferCapabilities, Disc!Coding, Disc!Light
  <2>3. CASE ~m.large /\ ~m.small
    BY <1>5, <2>3 DEF Disc!inferCapabilities, Disc!Coding, Disc!Light
  <2>4. QED
    BY <1>3, <1>4, <2>1, <2>2, <2>3
<1>6. CASE ~m.coder
  <2>1. CASE m.large /\ ~m.small
    BY <1>6, <2>1 DEF Disc!inferCapabilities, Disc!Coding, Disc!Light
  <2>2. CASE ~m.large /\ m.small
    BY <1>6, <2>2 DEF Disc!inferCapabilities, Disc!Coding, Disc!Light
  <2>3. CASE ~m.large /\ ~m.small
    BY <1>6, <2>3 DEF Disc!inferCapabilities, Disc!Coding, Disc!Light
  <2>4. QED
    BY <1>3, <1>4, <2>1, <2>2, <2>3
<1>7. QED
  BY <1>3, <1>5, <1>6

LEMMA FoundType ==
  ASSUME NEW installed \in Installs
  PROVE  Disc!ProfilesOf(installed) \subseteq Profiles
BY DiscoveryAssumption DEF Profiles, Disc!ProfilesOf

LEMMA DiscInit == Disc!Init => DiscInv
<1>1. SUFFICES ASSUME Disc!Init PROVE DiscInv
  OBVIOUS
<1>2. Disc!NoCall \in CallRecord /\ Disc!NoProbe \in [pending : SUBSET Hosts, began : Nat]
  BY DEF Disc!NoCall, Disc!NoProbe, CallRecord
<1>3. DiscTyped
  BY <1>1, <1>2 DEF Disc!Init, DiscTyped
<1>4. \A c \in Disc!Calls : call[c].st = "unborn" /\ probe[c].pending = {}
  BY <1>1 DEF Disc!Init, Disc!NoCall, Disc!NoProbe
<1>5. cache = None /\ inflight = None
  BY <1>1 DEF Disc!Init
<1>6. QED
  BY <1>3, <1>4, <1>5 DEF DiscInv, CacheOK, ProbeOK, CallOK, OneProbe

\* A call that is answered at once, or joins.
LEMMA AskKeeps ==
  ASSUME DiscInv, NEW c \in Disc!Calls, NEW force \in BOOLEAN, Disc!discoverOllamaProfiles(c, force)
  PROVE  DiscInv'
<1>1. DiscTyped /\ call[c].st = "unborn" /\ UNCHANGED <<clock, cache>>
  BY DEF DiscInv, Disc!discoverOllamaProfiles
<1>2. probe[c].pending = {}
  BY <1>1 DEF DiscInv, ProbeOK
<1>3. clock \in Nat /\ call[c] \in CallRecord /\ c # None
  BY <1>1, DiscConstants DEF DiscTyped
<1> DEFINE new == [Disc!NoCall EXCEPT !.force = force, !.asked = clock]
<1>4. new \in CallRecord /\ new.force = force /\ new.asked = clock
  BY <1>3 DEF Disc!NoCall, CallRecord
<1>5. CASE Disc!Fresh /\ ~force
  <2> DEFINE a == [new EXCEPT !.st = "done", !.at = clock, !.since = cache.since,
                             !.profiles = cache.profiles]
  <2>1. call' = [call EXCEPT ![c] = a] /\ UNCHANGED <<inflight, probe>>
    BY <1>5 DEF Disc!discoverOllamaProfiles
  <2>2. cache \in Cached /\ clock - cache.at < Keeping(cache.profiles)
    BY <1>1, <1>5 DEF Disc!Fresh, DiscTyped, Keeping
  <2>3. cache.since \in Nat /\ cache.at \in Nat /\ cache.profiles \in SUBSET Profiles
    BY <2>2 DEF Cached
  <2>4. a \in CallRecord /\ a.st = "done" /\ a.at = clock /\ a.since = cache.since
        /\ a.profiles = cache.profiles /\ a.force = force
    BY <1>3, <1>4, <2>3 DEF CallRecord
  <2> HIDE DEF a, new
  <2>5. clock <= cache.since + ProbeTime + Keeping(cache.profiles)
    <3>1. cache.at <= clock /\ cache.at <= cache.since + ProbeTime
      BY <1>5 DEF DiscInv, CacheOK, Disc!Fresh
    <3>2. Keeping(cache.profiles) \in Nat
      BY KeepingType
    <3>3. QED
      BY <1>3, <2>2, <2>3, <3>1, <3>2, DiscConstants
  <2>6. /\ call'[c] = a /\ \A d \in Disc!Calls : d # c => call'[d] = call[d]
        /\ call' \in [Disc!Calls -> CallRecord]
    BY <1>1, <2>1, <2>4 DEF DiscTyped
  <2>7. DiscTyped'
    BY <1>1, <2>1, <2>6 DEF DiscTyped
  <2>8. CacheOK'
    BY <1>1 DEF DiscInv, CacheOK
  <2>9. ASSUME NEW d \in Disc!Calls PROVE ProbeOK(d)' /\ CallOK(d)'
    <3>1. CASE d = c
      BY <1>2, <1>5, <2>1, <2>4, <2>5, <2>6, <3>1 DEF ProbeOK, CallOK
    <3>2. CASE d # c
      BY <1>1, <2>1, <2>6, <3>2 DEF DiscInv, ProbeOK, CallOK
    <3>3. QED
      BY <3>1, <3>2
  <2>10. OneProbe'
    <3>1. \A p \in Disc!Calls : probe[p].pending # {} => p # c
      BY <1>2
    <3>2. QED
      BY <1>1, <2>1, <2>6, <3>1 DEF DiscInv, OneProbe
  <2>11. QED
    BY <2>7, <2>8, <2>9, <2>10 DEF DiscInv
<1>6. CASE ~(Disc!Fresh /\ ~force) /\ inflight # None /\ ~force
  <2> DEFINE a == [new EXCEPT !.st = "waits", !.on = inflight]
  <2>1. call' = [call EXCEPT ![c] = a] /\ UNCHANGED <<inflight, probe>>
    BY <1>6 DEF Disc!discoverOllamaProfiles
  <2>2. inflight \in Disc!Calls
    BY <1>1, <1>6 DEF DiscTyped
  <2>3. a \in CallRecord /\ a.st = "waits" /\ a.on = inflight /\ a.force = force
    BY <1>3, <1>4, <2>2 DEF CallRecord
  <2> HIDE DEF a, new
  <2>4. /\ call'[c] = a /\ \A d \in Disc!Calls : d # c => call'[d] = call[d]
        /\ call' \in [Disc!Calls -> CallRecord]
    BY <1>1, <2>1, <2>3 DEF DiscTyped
  <2>5. DiscTyped'
    BY <1>1, <2>1, <2>4 DEF DiscTyped
  <2>6. CacheOK'
    BY <1>1 DEF DiscInv, CacheOK
  <2>7. probe[inflight].pending # {}
    BY <1>6 DEF DiscInv, OneProbe
  <2>8. ASSUME NEW d \in Disc!Calls PROVE ProbeOK(d)' /\ CallOK(d)'
    <3>1. CASE d = c
      BY <1>2, <1>6, <2>1, <2>2, <2>3, <2>4, <2>7, <3>1 DEF ProbeOK, CallOK
    <3>2. CASE d # c
      BY <1>1, <2>1, <2>4, <3>2 DEF DiscInv, ProbeOK, CallOK
    <3>3. QED
      BY <3>1, <3>2
  <2>9. OneProbe'
    <3>1. \A p \in Disc!Calls : probe[p].pending # {} => p # c
      BY <1>2
    <3>2. QED
      BY <1>1, <2>1, <2>4, <3>1 DEF DiscInv, OneProbe
  <2>10. QED
    BY <2>5, <2>6, <2>8, <2>9 DEF DiscInv
<1>7. CASE ~(Disc!Fresh /\ ~force) /\ ~(inflight # None /\ ~force)
  <2> DEFINE a == [new EXCEPT !.st = "waits", !.on = c]
             b == [pending |-> Hosts, began |-> clock]
  <2>1. call' = [call EXCEPT ![c] = a] /\ inflight' = c /\ probe' = [probe EXCEPT ![c] = b]
    BY <1>7 DEF Disc!discoverOllamaProfiles
  <2>2. a \in CallRecord /\ a.st = "waits" /\ a.on = c /\ a.force = force /\ a.asked = clock
    BY <1>3, <1>4 DEF CallRecord
  <2>3. b \in [pending : SUBSET Hosts, began : Nat] /\ b.pending = Hosts /\ b.began = clock
    BY <1>3
  <2> HIDE DEF a, b, new
  <2>4. /\ call'[c] = a /\ \A d \in Disc!Calls : d # c => call'[d] = call[d]
        /\ call' \in [Disc!Calls -> CallRecord]
    BY <1>1, <2>1, <2>2 DEF DiscTyped
  <2>5. /\ probe'[c] = b /\ \A d \in Disc!Calls : d # c => probe'[d] = probe[d]
        /\ probe' \in [Disc!Calls -> [pending : SUBSET Hosts, began : Nat]]
    BY <1>1, <2>1, <2>3 DEF DiscTyped
  <2>6. DiscTyped'
    BY <1>1, <2>1, <2>4, <2>5 DEF DiscTyped
  <2>7. CacheOK'
    BY <1>1 DEF DiscInv, CacheOK
  <2>8. ASSUME NEW d \in Disc!Calls PROVE ProbeOK(d)' /\ CallOK(d)'
    <3>1. CASE d = c
      <4>1. clock <= clock + ProbeTime /\ clock <= clock
        BY <1>3, DiscConstants
      <4>2. QED
        BY <1>1, <2>2, <2>3, <2>4, <2>5, <3>1, <4>1, DiscConstants DEF ProbeOK, CallOK
    <3>2. CASE d # c
      <4>1. ProbeOK(d)'
        BY <1>1, <2>4, <2>5, <3>2 DEF DiscInv, ProbeOK
      <4>2. CallOK(d)'
        <5>1. CallOK(d)
          BY DEF DiscInv
        <5>2. call[d].st = "waits" => call[d].on # c
          BY <1>2, <5>1 DEF CallOK
        <5>3. QED
          BY <2>4, <2>5, <3>2, <5>1, <5>2 DEF CallOK
      <4>3. QED
        BY <4>1, <4>2
    <3>3. QED
      BY <3>1, <3>2
  <2>9. ASSUME ~force, NEW p \in Disc!Calls, probe[p].pending # {}, ~call[p].force PROVE FALSE
    <3>1. inflight = None /\ ~Disc!Fresh
      BY <1>7, <2>9
    <3>2. cache # None /\ probe[p].began <= cache.at
      BY <2>9, <3>1 DEF DiscInv, OneProbe
    <3>3. clock <= probe[p].began + ProbeTime
      BY <2>9 DEF DiscInv, ProbeOK
    <3>4. cache.at \in Nat /\ cache.at <= clock /\ probe[p].began \in Nat
      BY <1>1, <3>2 DEF DiscInv, DiscTyped, CacheOK, Cached
    <3>5. Keeping(cache.profiles) \in Nat /\ ProbeTime < Keeping(cache.profiles)
      BY KeepingType
    <3>6. clock - cache.at < Keeping(cache.profiles)
      BY <1>3, <3>2, <3>3, <3>4, <3>5, DiscConstants
    <3>7. QED
      BY <3>1, <3>2, <3>6 DEF Disc!Fresh, Keeping
  <2>10. OneProbe'
    <3>1. inflight' # None /\ probe'[inflight'].pending # {}
      BY <1>3, <2>1, <2>3, <2>5, DiscConstants
    <3>2. ASSUME NEW p \in Disc!Calls, NEW q \in Disc!Calls, (probe[p].pending # {} /\ ~call[p].force)',
                 (probe[q].pending # {} /\ ~call[q].force)'
          PROVE  p = q
      <4>1. CASE p = c /\ q # c
        BY <2>2, <2>4, <2>5, <2>9, <3>2, <4>1
      <4>2. CASE q = c /\ p # c
        BY <2>2, <2>4, <2>5, <2>9, <3>2, <4>2
      <4>3. CASE p # c /\ q # c
        BY <2>4, <2>5, <3>2, <4>3 DEF DiscInv, OneProbe
      <4>4. QED
        BY <4>1, <4>2, <4>3
    <3>3. QED
      BY <3>1, <3>2 DEF OneProbe
  <2>11. QED
    BY <2>6, <2>7, <2>8, <2>10 DEF DiscInv
<1>8. QED
  BY <1>5, <1>6, <1>7

\* A host answers, or does not: the probe goes on, or its callers have their models.
LEMMA ProbeKeeps ==
  ASSUME DiscInv, NEW p \in Disc!Calls, NEW h \in Hosts, NEW installed \in Installs,
         Disc!probeOne(p, h, installed)
  PROVE  DiscInv'
<1>1. DiscTyped /\ h \in probe[p].pending /\ clock' = clock
  BY DEF DiscInv, Disc!probeOne
<1>2. clock \in Nat /\ Disc!ProfilesOf(installed) \in SUBSET Profiles
  BY <1>1, FoundType DEF DiscTyped
<1>3. PICK found \in SUBSET Profiles : found = Disc!ProfilesOf(installed)
  BY <1>2
<1>4. PICK since \in Nat : since = probe[p].began
  BY <1>1 DEF DiscTyped
<1>5. since <= clock /\ clock <= since + ProbeTime
  BY <1>1, <1>4 DEF DiscInv, ProbeOK
<1>6. CASE found = {} /\ probe[p].pending # {h}
  <2> DEFINE left == probe[p].pending \ {h}
  <2>1. probe' = [probe EXCEPT ![p].pending = left] /\ UNCHANGED <<cache, inflight, call>>
    BY <1>3, <1>6 DEF Disc!probeOne
  <2>2. left # {} /\ left \in SUBSET Hosts
    BY <1>1, <1>6 DEF DiscTyped
  <2>3. /\ probe' \in [Disc!Calls -> [pending : SUBSET Hosts, began : Nat]]
        /\ \A d \in Disc!Calls : probe'[d].began = probe[d].began
        /\ \A d \in Disc!Calls : probe'[d].pending # {} <=> probe[d].pending # {}
    <3> HIDE DEF left
    <3>1. /\ probe'[p].pending = left /\ probe'[p].began = probe[p].began
          /\ \A d \in Disc!Calls : d # p => probe'[d] = probe[d]
          /\ probe' \in [Disc!Calls -> [pending : SUBSET Hosts, began : Nat]]
      BY <1>1, <2>1, <2>2 DEF DiscTyped
    <3>2. QED
      BY <1>1, <2>2, <3>1
  <2> HIDE DEF left
  <2>4. DiscTyped' /\ CacheOK'
    BY <1>1, <2>1, <2>3 DEF DiscInv, DiscTyped, CacheOK
  <2>5. ASSUME NEW d \in Disc!Calls PROVE ProbeOK(d)' /\ CallOK(d)'
    BY <1>1, <2>1, <2>3 DEF DiscInv, ProbeOK, CallOK
  <2>6. OneProbe'
    <3>1. inflight # None => inflight \in Disc!Calls
      BY <1>1 DEF DiscTyped
    <3>2. QED
      BY <2>1, <2>3, <3>1 DEF DiscInv, OneProbe
  <2>7. QED
    BY <2>4, <2>5, <2>6 DEF DiscInv
<1>7. CASE ~(found = {} /\ probe[p].pending # {h})
  <2> DEFINE kept == [at |-> clock, since |-> since, profiles |-> found]
             a(d) == [call[d] EXCEPT !.st = "done", !.at = clock, !.since = since,
                                     !.profiles = found]
             Served(d) == call[d].st = "waits" /\ call[d].on = p
  <2>1. /\ probe' = [probe EXCEPT ![p].pending = {}]
        /\ cache' = kept
        /\ inflight' = IF inflight = p THEN None ELSE inflight
        /\ call' = [d \in Disc!Calls |-> IF Served(d) THEN a(d) ELSE call[d]]
    BY <1>3, <1>4, <1>7 DEF Disc!probeOne
  <2>2. /\ probe' \in [Disc!Calls -> [pending : SUBSET Hosts, began : Nat]]
        /\ \A d \in Disc!Calls : probe'[d].began = probe[d].began
        /\ \A d \in Disc!Calls : probe'[d].pending # {} <=> probe[d].pending # {} /\ d # p
    <3>1. /\ probe'[p].pending = {} /\ probe'[p].began = probe[p].began
          /\ \A d \in Disc!Calls : d # p => probe'[d] = probe[d]
          /\ probe' \in [Disc!Calls -> [pending : SUBSET Hosts, began : Nat]]
      BY <1>1, <2>1 DEF DiscTyped
    <3>2. QED
      BY <3>1
  <2>3. ASSUME NEW d \in Disc!Calls
        PROVE  /\ a(d) \in CallRecord /\ a(d).st = "done" /\ a(d).at = clock
               /\ a(d).since = since /\ a(d).profiles = found /\ a(d).force = call[d].force
               /\ a(d).asked = call[d].asked
    <3>1. call[d] \in CallRecord
      BY <1>1 DEF DiscTyped
    <3>2. QED
      BY <1>2, <1>3, <1>4, <3>1 DEF CallRecord
  <2>4. kept \in Cached /\ kept.at = clock /\ kept.since = since
    BY <1>2 DEF Cached
  <2> HIDE DEF a, kept
  <2>5. ASSUME NEW d \in Disc!Calls
        PROVE  /\ Served(d) => call'[d] = a(d)
               /\ ~Served(d) => call'[d] = call[d]
               /\ call'[d].force = call[d].force /\ call'[d].asked = call[d].asked
               /\ call'[d].st = "unborn" <=> call[d].st = "unborn"
    BY <2>1, <2>3
  <2>6. call' \in [Disc!Calls -> CallRecord]
    BY <1>1, <2>1, <2>3 DEF DiscTyped
  <2>7. DiscTyped'
    BY <1>1, <2>1, <2>2, <2>4, <2>6 DEF DiscTyped
  <2>8. CacheOK'
    BY <1>1, <1>5, <2>1, <2>4, <1>2 DEF CacheOK
  <2>9. ASSUME NEW d \in Disc!Calls PROVE ProbeOK(d)'
    BY <1>1, <2>2, <2>5 DEF DiscInv, ProbeOK
  <2>10. ASSUME NEW d \in Disc!Calls PROVE CallOK(d)'
    <3>1. CASE Served(d)
      <4>1. call[d].force => since >= call[d].asked
        <5>1. call[d].force => probe[d].began = call[d].asked /\ since = probe[d].began
          BY <1>1, <1>4, <3>1 DEF DiscInv, CallOK, ProbeOK
        <5>2. call[d].asked \in Nat
          BY <1>1 DEF DiscTyped, CallRecord
        <5>3. QED
          BY <5>1, <5>2
      <4>2. clock <= since + ProbeTime + Keeping(found)
        BY <1>2, <1>5, KeepingType, DiscConstants
      <4>3. QED
        BY <2>3, <2>5, <3>1, <4>1, <4>2 DEF CallOK
    <3>2. CASE ~Served(d)
      <4>1. CallOK(d)
        BY DEF DiscInv
      <4>2. call[d].st = "waits" => call[d].on \in Disc!Calls /\ call[d].on # p
        BY <3>2, <4>1 DEF CallOK
      <4>3. QED
        BY <2>2, <2>5, <3>2, <4>1, <4>2 DEF CallOK
    <3>3. QED
      BY <3>1, <3>2
  <2>11. OneProbe'
    <3>1. inflight # None => inflight \in Disc!Calls /\ probe[inflight].pending # {}
      BY <1>1 DEF DiscInv, DiscTyped, OneProbe
    <3>2. inflight' # None => probe'[inflight'].pending # {}
      BY <2>1, <2>2, <3>1
    <3>3. cache' # None /\ cache'.at = clock
      BY <2>1, <2>4, DiscConstants
    <3>4. ASSUME NEW q \in Disc!Calls, probe'[q].pending # {} PROVE probe'[q].began <= cache'.at
      BY <2>2, <3>3, <3>4 DEF DiscInv, ProbeOK
    <3>5. ASSUME NEW q \in Disc!Calls, NEW s \in Disc!Calls, (probe[q].pending # {} /\ ~call[q].force)',
                 (probe[s].pending # {} /\ ~call[s].force)'
          PROVE  q = s
      BY <2>2, <2>5, <3>5 DEF DiscInv, OneProbe
    <3>6. QED
      BY <3>2, <3>3, <3>4, <3>5 DEF OneProbe
  <2>12. QED
    BY <2>7, <2>8, <2>9, <2>10, <2>11 DEF DiscInv
<1>8. QED
  BY <1>6, <1>7

LEMMA ClockKeeps ==
  ASSUME DiscInv, Disc!Tick
  PROVE  DiscInv'
<1>1. DiscTyped /\ clock \in Nat /\ clock' = clock + 1
      /\ UNCHANGED <<cache, inflight, probe, call>>
  BY DEF DiscInv, DiscTyped, Disc!Tick
<1>2. ASSUME NEW p \in Disc!Calls, probe[p].pending # {}
      PROVE  clock + 1 <= probe[p].began + ProbeTime /\ probe[p].began <= clock + 1
  <2>1. probe[p].began \in Nat
    BY <1>1 DEF DiscTyped
  <2>2. clock < probe[p].began + ProbeTime
    BY <1>2 DEF Disc!Tick, Disc!Probing
  <2>3. probe[p].began <= clock
    BY <1>2 DEF DiscInv, ProbeOK
  <2>4. QED
    BY <1>1, <2>1, <2>2, <2>3, DiscConstants
<1>3. cache # None => cache.at <= clock + 1
  BY <1>1 DEF DiscInv, DiscTyped, Cached, CacheOK
<1>4. DiscTyped' /\ CacheOK'
  BY <1>1, <1>3 DEF DiscInv, DiscTyped, CacheOK
<1>5. \A c \in Disc!Calls : ProbeOK(c)' /\ CallOK(c)'
  BY <1>1, <1>2 DEF DiscInv, ProbeOK, CallOK
<1>6. OneProbe'
  BY <1>1 DEF DiscInv, OneProbe
<1>7. QED
  BY <1>4, <1>5, <1>6 DEF DiscInv

LEMMA DiscNext == DiscInv /\ [Disc!Next]_(Disc!vars) => DiscInv'
<1>1. SUFFICES ASSUME DiscInv, [Disc!Next]_(Disc!vars) PROVE DiscInv'
  OBVIOUS
<1>2. CASE UNCHANGED Disc!vars
  BY <1>1, <1>2 DEF Disc!vars, DiscInv, DiscTyped, CacheOK, ProbeOK, CallOK, OneProbe
<1>3. ASSUME NEW p \in Disc!Calls, NEW h \in Hosts, NEW installed \in Installs,
             Disc!probeOne(p, h, installed)
      PROVE  DiscInv'
  BY <1>1, <1>3, ProbeKeeps
<1>4. QED
  BY <1>1, <1>2, <1>3, AskKeeps, ClockKeeps DEF Disc!Next, Disc!Rest

\* What is found is current.
LEMMA FoundIsCurrent == Disc!Spec => []Disc!DiscoveryIsCurrent
<1>1. ASSUME DiscInv PROVE Disc!DiscoveryIsCurrent
  <2>1. ASSUME NEW c \in Disc!Calls, call[c].st = "done"
        PROVE  /\ call[c].at <= call[c].since + ProbeTime
                                  + (IF call[c].profiles # {} THEN CacheTtl ELSE NegativeTtl)
               /\ call[c].force => call[c].since >= call[c].asked
               /\ \A p \in call[c].profiles :
                    p.tags.good \cap p.tags.bad # {} => p.model.large /\ p.model.small
    <3>1. call[c].profiles \in SUBSET Profiles
      BY <1>1 DEF DiscInv, DiscTyped, CallRecord
    <3>2. QED
      BY <1>1, <2>1, <3>1, ProfilesAreClear DEF DiscInv, CallOK, Keeping
  <2>2. \A p, q \in Disc!Probing : ~call[p].force /\ ~call[q].force => p = q
    BY <1>1 DEF DiscInv, OneProbe, Disc!Probing
  <2>3. inflight # None => inflight \in Disc!Probing
    BY <1>1 DEF DiscInv, DiscTyped, OneProbe, Disc!Probing
  <2>4. QED
    BY <2>1, <2>2, <2>3, Zenon DEF Disc!DiscoveryIsCurrent
<1>2. QED
  BY <1>1, DiscInit, DiscNext, PTL DEF Disc!Spec

-----------------------------------------------------------------------------
(* Routing of the coding tools: types.                                         *)

ToolStates == {"unborn", "read", "open", "fill", "rename", "openYaml", "fillYaml",
               "done", "failed", "dead"}

ToolRequest == [tool : Tools!Tools \cup {"none"}, st : ToolStates,
                held : KeysFile \cup YamlFile \cup {Missing}, at : {"none", "tmp", "settings"}]

ToolsTyped ==
  /\ req \in [Tools!Requests -> ToolRequest]
  /\ settings \in KeysFile \cup {Missing, Torn}
  /\ tmp \in KeysFile \cup {Missing, Torn}
  /\ yaml \in YamlFile \cup {Missing}
  /\ userHad \in [settings : {"none", "plain", "globs"}, yaml : BOOLEAN]
  /\ overlap \in BOOLEAN

\* Settings that still hold the user's, but for what a connect cuts.
UsersOwn(s) == s.user = userHad.settings \/ (userHad.settings = "globs" /\ s.user = "cut")

\* What a request in state x holds is of the file it is about.
HeldOK(x) ==
  /\ x.st # "unborn" => x.tool \in Tools!Tools
  /\ x.at # "none" => x.st = "fill"
  /\ x.st \in {"open", "fill", "rename"} =>
       x.tool \in Tools!Keyed /\ x.held \in KeysFile /\ UsersOwn(x.held)
  /\ x.st \in {"openYaml", "fillYaml"} => x.tool = "continue" /\ x.held \in YamlFile

Owned ==
  /\ settings = Missing => userHad.settings = "none"
  /\ settings \in KeysFile => UsersOwn(settings)
  /\ tmp \in KeysFile => UsersOwn(tmp)
  /\ \A q \in Tools!Requests : HeldOK(req[q])

Filling == \E q \in Tools!Requests : req[q].st = "fillYaml"

\* Where no two requests overlapped and none died: what a request in state x has
\* done, or is about to do, adds up with what the others did.
AddsUp(x) ==
  /\ x.st # "dead"
  /\ x.st = "fill" => x.at = "tmp"
  /\ x.st = "rename" => tmp = x.held
  /\ x.st \in {"open", "fill", "rename"} =>
       x.tool \in x.held.routed /\ (settings \in KeysFile => settings.routed \subseteq x.held.routed)
  /\ x.st \in {"openYaml", "fillYaml"} => x.held = Tools!Yaml(userHad.yaml, 1)
  /\ x.st = "done" /\ x.tool \in Tools!Keyed => settings \in KeysFile /\ x.tool \in settings.routed
  /\ x.st = "done" /\ x.tool = "continue" /\ ~Filling => yaml \in YamlFile /\ yaml.entries > 0

Solo ==
  ~overlap =>
    /\ settings # Torn
    /\ \A p, q \in Tools!Requests : Tools!Active(p) /\ Tools!Active(q) => p = q
    /\ \A q \in Tools!Requests : AddsUp(req[q])
    /\ ~Filling => /\ yaml = Missing => userHad.yaml = FALSE
                   /\ yaml \in YamlFile => yaml.user = userHad.yaml

ToolsInv == ToolsTyped /\ Owned /\ Solo

LEMMA MarksAreNoFiles ==
  /\ Missing # Torn
  /\ Missing \notin KeysFile /\ Torn \notin KeysFile
  /\ Missing \notin YamlFile /\ Torn \notin YamlFile
BY FilesAssumption, ChangesAssumption

LEMMA ToolsInit == Tools!Init => ToolsInv
<1>1. SUFFICES ASSUME Tools!Init PROVE ToolsInv
  OBVIOUS
<1>2. Tools!Unborn \in ToolRequest /\ Tools!Unborn.st = "unborn" /\ Tools!Unborn.at = "none"
  BY DEF Tools!Unborn, ToolRequest, ToolStates
<1>3. userHad \in [settings : {"none", "plain", "globs"}, yaml : BOOLEAN]
  BY <1>1 DEF Tools!Init
<1>4. settings \in KeysFile \cup {Missing} /\ (settings = Missing => userHad.settings = "none")
      /\ (settings \in KeysFile => UsersOwn(settings))
  <2>1. CASE userHad.settings = "none"
    BY <1>1, <2>1, MarksAreNoFiles DEF Tools!Init
  <2>2. CASE userHad.settings # "none"
    <3>1. settings = [user |-> userHad.settings, routed |-> {}]
      BY <1>1, <2>2 DEF Tools!Init, Tools!Settings
    <3>2. settings \in KeysFile /\ settings.user = userHad.settings
      BY <1>3, <3>1 DEF KeysFile
    <3>3. QED
      BY <3>2, MarksAreNoFiles DEF UsersOwn
  <2>3. QED
    BY <2>1, <2>2
<1>5. /\ yaml \in YamlFile \cup {Missing}
      /\ yaml = Missing => userHad.yaml = FALSE
      /\ yaml \in YamlFile => yaml.user = userHad.yaml
  <2>1. CASE userHad.yaml
    <3>1. yaml = [user |-> TRUE, entries |-> 0]
      BY <1>1, <2>1 DEF Tools!Init, Tools!Yaml
    <3>2. yaml \in YamlFile /\ yaml.user = TRUE
      BY <3>1 DEF YamlFile
    <3>3. QED
      BY <1>3, <2>1, <3>2, MarksAreNoFiles
  <2>2. CASE ~userHad.yaml
    BY <1>1, <1>3, <2>2, MarksAreNoFiles DEF Tools!Init
  <2>3. QED
    BY <2>1, <2>2
<1>6. req \in [Tools!Requests -> ToolRequest] /\ \A q \in Tools!Requests : req[q] = Tools!Unborn
  BY <1>1, <1>2 DEF Tools!Init
<1>7. ToolsTyped
  <2>1. tmp = Missing /\ overlap = FALSE
    BY <1>1 DEF Tools!Init
  <2>2. QED
    BY <1>3, <1>4, <1>5, <1>6, <2>1 DEF ToolsTyped
<1>8. Owned
  BY <1>1, <1>2, <1>4, <1>6, MarksAreNoFiles DEF Tools!Init, Owned, HeldOK
<1>9. Solo
  BY <1>1, <1>2, <1>4, <1>5, <1>6, MarksAreNoFiles DEF Solo, Tools!Active, AddsUp
<1>10. QED
  BY <1>7, <1>8, <1>9 DEF ToolsInv

\* One request q moves to state x; the files stay as they are, but for the temporary one.
LEMMA RequestMoves ==
  ASSUME ToolsInv, NEW q \in Tools!Requests, NEW x \in ToolRequest, req' = [req EXCEPT ![q] = x],
         UNCHANGED <<settings, yaml, userHad>>, tmp' \in KeysFile \cup {Missing, Torn},
         overlap' \in BOOLEAN, ~overlap' => ~overlap,
         tmp' \in KeysFile => UsersOwn(tmp'), HeldOK(x),
         req[q].st # "fillYaml", x.st # "fillYaml", req[q].st # "done",
         ~overlap' => /\ \A p \in Tools!Requests : Tools!Active(p) => p = q
                      /\ x.st # "dead"
                      /\ x.st = "fill" => x.at = "tmp"
                      /\ x.st = "rename" => tmp' = x.held
                      /\ x.st \in {"open", "fill", "rename"} =>
                           x.tool \in x.held.routed
                           /\ (settings \in KeysFile => settings.routed \subseteq x.held.routed)
                      /\ x.st = "openYaml" => x.held = Tools!Yaml(userHad.yaml, 1)
                      /\ x.st = "done" => /\ x.tool = "continue" /\ yaml \in YamlFile
                                          /\ yaml.entries > 0
  PROVE  ToolsInv'
<1>1. /\ req' \in [Tools!Requests -> ToolRequest] /\ req'[q] = x
      /\ \A p \in Tools!Requests : p # q => req'[p] = req[p]
  BY DEF ToolsInv, ToolsTyped
<1>2. ToolsTyped'
  BY <1>1 DEF ToolsInv, ToolsTyped
<1>3. Owned'
  <2>1. ASSUME NEW p \in Tools!Requests PROVE HeldOK(req[p])'
    BY <1>1 DEF ToolsInv, Owned, HeldOK, UsersOwn
  <2>2. QED
    BY <2>1 DEF ToolsInv, Owned, UsersOwn, HeldOK
<1>4. Solo'
  <2>1. SUFFICES ASSUME ~overlap'
                 PROVE  /\ settings' # Torn
                        /\ \A p, r \in Tools!Requests : (Tools!Active(p) /\ Tools!Active(r) => p = r)'
                        /\ \A r \in Tools!Requests : AddsUp(req[r])'
                        /\ ~Filling' => /\ yaml' = Missing => userHad'.yaml = FALSE
                                        /\ yaml' \in YamlFile => yaml'.user = userHad'.yaml
    BY DEF Solo
  <2>2. ~overlap /\ \A p \in Tools!Requests : Tools!Active(p) => p = q
    BY <2>1
  <2>3. \A p \in Tools!Requests : Tools!Active(p)' => p = q
    BY <1>1, <2>2 DEF Tools!Active
  <2>4. Filling' <=> Filling
    BY <1>1 DEF Filling
  <2>5. ASSUME NEW r \in Tools!Requests PROVE AddsUp(req[r])'
    <3>1. CASE r = q
      BY <1>1, <2>1, <3>1 DEF AddsUp, HeldOK, Tools!Yaml, Tools!Keyed
    <3>2. CASE r # q
      <4>1. AddsUp(req[r]) /\ req'[r] = req[r] /\ ~Tools!Active(r)
        BY <1>1, <2>2, <3>2 DEF ToolsInv, Solo
      <4>2. req[r].st \in {"unborn", "done", "failed", "dead"}
        BY <4>1 DEF Tools!Active
      <4>3. QED
        BY <2>4, <4>1, <4>2 DEF AddsUp
    <3>3. QED
      BY <3>1, <3>2
  <2>6. QED
    BY <2>2, <2>3, <2>4, <2>5 DEF ToolsInv, Solo
<1>5. QED
  BY <1>2, <1>3, <1>4 DEF ToolsInv

LEMMA Begins ==
  ASSUME ToolsInv, NEW q \in Tools!Requests, NEW tool \in Tools!Tools, Tools!connectTool(q, tool)
  PROVE  ToolsInv'
<1>1. PICK o \in ToolRequest : o = req[q] /\ o.st = "unborn" /\ HeldOK(o)
  BY DEF ToolsInv, ToolsTyped, Owned, Tools!connectTool
<1> DEFINE x == [o EXCEPT !.tool = tool, !.st = "read"]
<1>2. req' = [req EXCEPT ![q] = x] /\ overlap' = (overlap \/ \E p \in Tools!Requests : Tools!Active(p))
      /\ UNCHANGED <<settings, tmp, yaml, userHad>>
  BY <1>1 DEF Tools!connectTool, ToolsInv, ToolsTyped
<1>3. x \in ToolRequest /\ x.tool = tool /\ x.st = "read" /\ x.at = o.at
  BY DEF ToolRequest, ToolStates
<1>4. overlap \in BOOLEAN /\ overlap' \in BOOLEAN
  BY <1>2 DEF ToolsInv, ToolsTyped
<1>5. ~overlap' => ~overlap /\ \A p \in Tools!Requests : ~Tools!Active(p)
  BY <1>2, <1>4
<1> HIDE DEF x
<1>6. HeldOK(x)
  BY <1>1, <1>3 DEF HeldOK
<1>7. tmp' \in KeysFile \cup {Missing, Torn} /\ (tmp' \in KeysFile => UsersOwn(tmp'))
  BY <1>2 DEF ToolsInv, ToolsTyped, Owned
<1>8. QED
  BY <1>1, <1>2, <1>3, <1>4, <1>5, <1>6, <1>7, RequestMoves

\* A request that goes on alone, in the four states of which a file is still whole.
LEMMA ReadsSettings ==
  ASSUME ToolsInv, NEW q \in Tools!Requests, Tools!readJsonMaybeWithComments(q)
  PROVE  ToolsInv'
<1>1. PICK o \in ToolRequest : o = req[q] /\ o.st = "read" /\ o.tool \in Tools!Keyed /\ HeldOK(o)
  BY DEF ToolsInv, ToolsTyped, Owned, Tools!readJsonMaybeWithComments
<1>2. UNCHANGED <<settings, tmp, yaml, userHad, overlap>> /\ overlap \in BOOLEAN
  BY DEF Tools!readJsonMaybeWithComments, ToolsInv, ToolsTyped
<1>3. tmp' \in KeysFile \cup {Missing, Torn} /\ (tmp' \in KeysFile => UsersOwn(tmp'))
  BY <1>2 DEF ToolsInv, ToolsTyped, Owned
<1>4. ~overlap => \A p \in Tools!Requests : Tools!Active(p) => p = q
  BY <1>1 DEF ToolsInv, Solo, Tools!Active
<1>5. CASE Tools!Go(q, "failed")
  <2> DEFINE x == [o EXCEPT !.st = "failed"]
  <2>1. req' = [req EXCEPT ![q] = x]
    BY <1>1, <1>5 DEF Tools!Go, ToolsInv, ToolsTyped
  <2>2. x \in ToolRequest /\ x.tool = o.tool /\ x.st = "failed" /\ x.at = o.at
    BY DEF ToolRequest, ToolStates
  <2> HIDE DEF x
  <2>3. HeldOK(x)
    BY <1>1, <2>2 DEF HeldOK
  <2>4. QED
    BY <1>1, <1>2, <1>3, <1>4, <2>1, <2>2, <2>3, RequestMoves
<1>6. CASE ~Tools!Go(q, "failed")
  <2> DEFINE s == IF settings = Missing THEN Tools!Settings("none", {}) ELSE Tools!stripJsonComments(settings)
             n == [s EXCEPT !.routed = @ \cup {o.tool}]
             x == [o EXCEPT !.held = n, !.st = "open"]
  <2>1. settings # Torn /\ req' = [req EXCEPT ![q] = x]
    BY <1>1, <1>6 DEF Tools!readJsonMaybeWithComments, ToolsInv, ToolsTyped
  <2>2. settings \in KeysFile \cup {Missing}
    BY <2>1 DEF ToolsInv, ToolsTyped
  <2>3. /\ s \in KeysFile /\ UsersOwn(s)
        /\ settings \in KeysFile => s.routed = settings.routed
    <3>1. CASE settings = Missing
      <4>1. s = [user |-> "none", routed |-> {}]
        BY <3>1 DEF Tools!Settings
      <4>2. s \in KeysFile /\ s.user = "none"
        BY <4>1 DEF KeysFile
      <4>3. QED
        BY <3>1, <4>2, MarksAreNoFiles DEF UsersOwn, ToolsInv, Owned
    <3>2. CASE settings \in KeysFile /\ settings.user # "globs"
      BY <3>2, MarksAreNoFiles DEF Tools!stripJsonComments, ToolsInv, Owned
    <3>3. CASE settings \in KeysFile /\ settings.user = "globs"
      <4>1. s = [settings EXCEPT !.user = "cut"]
        BY <3>3, MarksAreNoFiles DEF Tools!stripJsonComments
      <4>2. s \in KeysFile /\ s.user = "cut" /\ s.routed = settings.routed
        BY <3>3, <4>1 DEF KeysFile
      <4>3. userHad.settings = "globs"
        BY <3>3 DEF ToolsInv, Owned, UsersOwn
      <4>4. QED
        BY <4>2, <4>3 DEF UsersOwn
    <3>4. QED
      BY <2>2, <3>1, <3>2, <3>3
  <2> HIDE DEF s
  <2>4. n \in KeysFile /\ UsersOwn(n) /\ n.routed = s.routed \cup {o.tool}
    <3>1. n \in KeysFile /\ n.user = s.user /\ n.routed = s.routed \cup {o.tool}
      BY <1>1, <2>3 DEF KeysFile
    <3>2. QED
      BY <2>3, <3>1 DEF UsersOwn
  <2> HIDE DEF n
  <2>5. x \in ToolRequest /\ x.tool = o.tool /\ x.st = "open" /\ x.at = o.at /\ x.held = n
    BY <2>4 DEF ToolRequest, ToolStates
  <2> HIDE DEF x
  <2>6. HeldOK(x)
    BY <1>1, <2>4, <2>5 DEF HeldOK, Tools!Keyed, Tools!Tools
  <2>7. x.tool \in x.held.routed /\ (settings \in KeysFile => settings.routed \subseteq x.held.routed)
    BY <2>3, <2>4, <2>5
  <2>8. QED
    BY <1>1, <1>2, <1>3, <1>4, <2>1, <2>5, <2>6, <2>7, RequestMoves
<1>7. QED
  BY <1>5, <1>6

LEMMA OpensTemp ==
  ASSUME ToolsInv, NEW q \in Tools!Requests, Tools!OpenTemp(q)
  PROVE  ToolsInv'
<1>1. PICK o \in ToolRequest : o = req[q] /\ o.st = "open" /\ HeldOK(o)
  BY DEF ToolsInv, ToolsTyped, Owned, Tools!OpenTemp
<1>2. UNCHANGED <<settings, yaml, userHad, overlap>> /\ overlap \in BOOLEAN /\ tmp' = Torn
  BY DEF Tools!OpenTemp, ToolsInv, ToolsTyped
<1>3. ~overlap => (\A p \in Tools!Requests : Tools!Active(p) => p = q) /\ AddsUp(o)
  BY <1>1 DEF ToolsInv, Solo, Tools!Active
<1> DEFINE x == [o EXCEPT !.st = "fill", !.at = "tmp"]
<1>4. req' = [req EXCEPT ![q] = x]
  BY <1>1 DEF Tools!OpenTemp, ToolsInv, ToolsTyped
<1>5. x \in ToolRequest /\ x.tool = o.tool /\ x.st = "fill" /\ x.at = "tmp" /\ x.held = o.held
  BY DEF ToolRequest, ToolStates
<1> HIDE DEF x
<1>6. HeldOK(x)
  BY <1>1, <1>5 DEF HeldOK
<1>7. ~overlap => /\ x.tool \in x.held.routed
                  /\ settings \in KeysFile => settings.routed \subseteq x.held.routed
  BY <1>1, <1>3, <1>5 DEF AddsUp
<1>8. tmp' \in KeysFile \cup {Missing, Torn} /\ (tmp' \in KeysFile => UsersOwn(tmp'))
  BY <1>2, MarksAreNoFiles
<1>9. QED
  BY <1>1, <1>2, <1>3, <1>4, <1>5, <1>6, <1>7, <1>8, RequestMoves

\* The settings are only written here by one that overlapped another.
LEMMA FillsTemp ==
  ASSUME ToolsInv, NEW q \in Tools!Requests, Tools!FillTemp(q)
  PROVE  ToolsInv'
<1>1. PICK o \in ToolRequest : o = req[q] /\ o.st = "fill" /\ HeldOK(o)
  BY DEF ToolsInv, ToolsTyped, Owned, Tools!FillTemp
<1>2. /\ UNCHANGED <<yaml, userHad, overlap>> /\ overlap \in BOOLEAN
      /\ tmp' = IF o.at = "tmp" THEN o.held ELSE tmp
      /\ settings' = IF o.at = "settings" THEN o.held ELSE settings
  BY <1>1 DEF Tools!FillTemp, ToolsInv, ToolsTyped
<1>3. ~overlap => (\A p \in Tools!Requests : Tools!Active(p) => p = q) /\ AddsUp(o)
  BY <1>1 DEF ToolsInv, Solo, Tools!Active
<1> DEFINE x == [o EXCEPT !.st = "rename", !.at = "none"]
<1>4. req' = [req EXCEPT ![q] = x]
  BY <1>1 DEF Tools!FillTemp, ToolsInv, ToolsTyped
<1>5. x \in ToolRequest /\ x.tool = o.tool /\ x.st = "rename" /\ x.at = "none" /\ x.held = o.held
  BY DEF ToolRequest, ToolStates
<1> HIDE DEF x
<1>6. HeldOK(x)
  BY <1>1, <1>5 DEF HeldOK
<1>7. o.held \in KeysFile /\ UsersOwn(o.held)
  BY <1>1 DEF HeldOK
<1>8. tmp' \in KeysFile \cup {Missing, Torn} /\ (tmp' \in KeysFile => UsersOwn(tmp'))
  BY <1>2, <1>7, MarksAreNoFiles DEF ToolsInv, ToolsTyped, Owned
<1>9. CASE o.at # "settings"
  <2>1. settings' = settings
    BY <1>2, <1>9
  <2>2. ~overlap => /\ tmp' = x.held
                    /\ x.tool \in x.held.routed
                    /\ settings \in KeysFile => settings.routed \subseteq x.held.routed
    BY <1>1, <1>2, <1>3, <1>5 DEF AddsUp
  <2>3. QED
    BY <1>1, <1>2, <1>3, <1>4, <1>5, <1>6, <1>8, <2>1, <2>2, RequestMoves
<1>10. CASE o.at = "settings"
  <2>1. overlap
    BY <1>1, <1>3, <1>10, <1>2 DEF AddsUp
  <2>2. settings' \in KeysFile /\ UsersOwn(settings') /\ settings' # Missing
    BY <1>2, <1>7, <1>10, MarksAreNoFiles
  <2>3. /\ req' \in [Tools!Requests -> ToolRequest] /\ req'[q] = x
        /\ \A p \in Tools!Requests : p # q => req'[p] = req[p]
    BY <1>4, <1>5 DEF ToolsInv, ToolsTyped
  <2>4. ToolsTyped'
    BY <1>2, <1>8, <2>2, <2>3 DEF ToolsInv, ToolsTyped
  <2>5. Owned'
    <3>1. ASSUME NEW p \in Tools!Requests PROVE HeldOK(req[p])'
      BY <1>2, <1>6, <2>3 DEF ToolsInv, Owned, HeldOK, UsersOwn
    <3>2. QED
      BY <1>2, <1>8, <2>2, <3>1 DEF Owned, UsersOwn
  <2>6. Solo'
    BY <1>2, <2>1 DEF Solo
  <2>7. QED
    BY <2>4, <2>5, <2>6 DEF ToolsInv
<1>11. QED
  BY <1>9, <1>10

LEMMA Renames ==
  ASSUME ToolsInv, NEW q \in Tools!Requests, Tools!writeJson(q)
  PROVE  ToolsInv'
<1>1. PICK o \in ToolRequest : o = req[q] /\ o.st = "rename" /\ HeldOK(o)
  BY DEF ToolsInv, ToolsTyped, Owned, Tools!writeJson
<1>2. UNCHANGED <<yaml, userHad, overlap>> /\ overlap \in BOOLEAN
  BY DEF Tools!writeJson, ToolsInv, ToolsTyped
<1>3. ~overlap => (\A p \in Tools!Requests : Tools!Active(p) => p = q) /\ AddsUp(o)
  BY <1>1 DEF ToolsInv, Solo, Tools!Active
<1>4. CASE tmp = Missing
  <2> DEFINE x == [o EXCEPT !.st = "failed"]
  <2>1. req' = [req EXCEPT ![q] = x] /\ UNCHANGED <<settings, tmp>>
    BY <1>1, <1>4 DEF Tools!writeJson, Tools!Go, ToolsInv, ToolsTyped
  <2>2. x \in ToolRequest /\ x.tool = o.tool /\ x.st = "failed" /\ x.at = o.at
    BY DEF ToolRequest, ToolStates
  <2> HIDE DEF x
  <2>3. HeldOK(x)
    BY <1>1, <2>2 DEF HeldOK
  <2>4. tmp' \in KeysFile \cup {Missing, Torn} /\ (tmp' \in KeysFile => UsersOwn(tmp'))
    BY <2>1 DEF ToolsInv, ToolsTyped, Owned
  <2>5. QED
    BY <1>1, <1>2, <1>3, <2>1, <2>2, <2>3, <2>4, RequestMoves
<1>5. CASE tmp # Missing
  <2> DEFINE x == [o EXCEPT !.st = "done"]
             other(p) == [req[p] EXCEPT !.at = IF @ = "tmp" THEN "settings"
                                               ELSE IF @ = "settings" THEN "none" ELSE @]
  <2>1. /\ settings' = tmp /\ tmp' = Missing
        /\ req' = [p \in Tools!Requests |-> IF p = q THEN x ELSE other(p)]
    BY <1>1, <1>5 DEF Tools!writeJson
  <2>2. x \in ToolRequest /\ x.tool = o.tool /\ x.st = "done" /\ x.at = o.at
    BY DEF ToolRequest, ToolStates
  <2>3. ASSUME NEW p \in Tools!Requests
        PROVE  /\ other(p) \in ToolRequest /\ other(p).tool = req[p].tool
               /\ other(p).st = req[p].st /\ other(p).held = req[p].held
               /\ other(p).at # "none" => req[p].at # "none"
    <3>1. PICK a \in {"none", "tmp", "settings"} :
            other(p) = [req[p] EXCEPT !.at = a] /\ (a # "none" => req[p].at # "none")
      <4>1. req[p] \in ToolRequest
        BY DEF ToolsInv, ToolsTyped
      <4>2. req[p].at \in {"none", "tmp", "settings"}
        BY <4>1 DEF ToolRequest
      <4>3. QED
        BY <4>2
    <3>2. req[p] \in ToolRequest
      BY DEF ToolsInv, ToolsTyped
    <3> HIDE DEF other
    <3>3. QED
      BY <3>1, <3>2 DEF ToolRequest
  <2> HIDE DEF x, other
  <2>4. /\ req' \in [Tools!Requests -> ToolRequest] /\ req'[q] = x
        /\ \A p \in Tools!Requests : p # q => req'[p] = other(p)
    BY <2>1, <2>2, <2>3
  <2>5. settings' \in KeysFile \cup {Torn} /\ (settings' \in KeysFile => UsersOwn(settings'))
    BY <1>5, <2>1 DEF ToolsInv, ToolsTyped, Owned
  <2>6. ToolsTyped'
    BY <1>2, <2>1, <2>4, <2>5 DEF ToolsInv, ToolsTyped
  <2>7. Owned'
    <3>1. ASSUME NEW p \in Tools!Requests PROVE HeldOK(req[p])'
      <4>1. CASE p = q
        BY <1>1, <2>2, <2>4, <4>1 DEF HeldOK
      <4>2. CASE p # q
        <5>1. HeldOK(req[p]) /\ req'[p] = other(p)
          BY <2>4, <4>2 DEF ToolsInv, Owned
        <5>2. QED
          BY <1>2, <2>3, <5>1 DEF HeldOK, UsersOwn
      <4>3. QED
        BY <4>1, <4>2
    <3>2. settings' # Missing /\ tmp' \notin KeysFile
      BY <2>1, <2>5, MarksAreNoFiles
    <3>3. QED
      BY <1>2, <2>5, <3>1, <3>2 DEF Owned, UsersOwn
  <2>8. Solo'
    <3>1. SUFFICES ASSUME ~overlap
                   PROVE  /\ settings' # Torn
                          /\ \A p, r \in Tools!Requests : (Tools!Active(p) /\ Tools!Active(r) => p = r)'
                          /\ \A r \in Tools!Requests : AddsUp(req[r])'
                          /\ ~Filling' => /\ yaml' = Missing => userHad'.yaml = FALSE
                                          /\ yaml' \in YamlFile => yaml'.user = userHad'.yaml
      BY <1>2 DEF Solo
    <3>2. /\ settings' = o.held /\ o.held \in KeysFile
          /\ o.tool \in o.held.routed
          /\ settings \in KeysFile => settings.routed \subseteq o.held.routed
      BY <1>1, <1>3, <2>1, <3>1 DEF AddsUp, HeldOK
    <3>3. \A p \in Tools!Requests : ~Tools!Active(p)'
      BY <1>3, <2>2, <2>3, <2>4, <3>1 DEF Tools!Active
    <3>4. Filling' <=> Filling
      BY <1>1, <2>2, <2>3, <2>4 DEF Filling
    <3>5. ASSUME NEW r \in Tools!Requests PROVE AddsUp(req[r])'
      <4>1. CASE r = q
        BY <1>1, <2>2, <2>4, <3>2, <4>1 DEF AddsUp, HeldOK, Tools!Keyed
      <4>2. CASE r # q
        <5>1. AddsUp(req[r]) /\ req'[r] = other(r) /\ ~Tools!Active(r)
          BY <1>3, <2>4, <3>1, <4>2 DEF ToolsInv, Solo
        <5>2. req[r].st \in {"unborn", "done", "failed", "dead"}
          BY <5>1 DEF Tools!Active
        <5>3. QED
          BY <1>2, <2>3, <3>2, <3>4, <5>1, <5>2 DEF AddsUp
      <4>3. QED
        BY <4>1, <4>2
    <3>6. QED
      BY <1>2, <3>1, <3>2, <3>3, <3>4, <3>5, MarksAreNoFiles DEF ToolsInv, Solo
  <2>9. QED
    BY <2>6, <2>7, <2>8 DEF ToolsInv
<1>6. QED
  BY <1>4, <1>5

\* Alone, a request that is about to read finds the file of Continue whole.
LEMMA ConnectsContinue ==
  ASSUME ToolsInv, NEW q \in Tools!Requests, Tools!connectContinue(q)
  PROVE  ToolsInv'
<1>1. PICK o \in ToolRequest : o = req[q] /\ o.st = "read" /\ o.tool = "continue" /\ HeldOK(o)
  BY DEF ToolsInv, ToolsTyped, Owned, Tools!connectContinue
<1>2. UNCHANGED <<settings, tmp, yaml, userHad, overlap>> /\ overlap \in BOOLEAN
  BY DEF Tools!connectContinue, ToolsInv, ToolsTyped
<1>3. tmp' \in KeysFile \cup {Missing, Torn} /\ (tmp' \in KeysFile => UsersOwn(tmp'))
  BY <1>2 DEF ToolsInv, ToolsTyped, Owned
<1>4. ~overlap => \A p \in Tools!Requests : Tools!Active(p) => p = q
  BY <1>1 DEF ToolsInv, Solo, Tools!Active
<1>5. ~overlap => ~Filling
  BY <1>1, <1>4 DEF Filling, Tools!Active
<1> DEFINE y == IF yaml = Missing THEN Tools!Emptied ELSE yaml
<1>6. y \in YamlFile /\ (~overlap => y.user = userHad.yaml) /\ (y.entries > 0 => y = yaml)
  <2>1. CASE yaml = Missing
    <3>1. y = [user |-> FALSE, entries |-> 0]
      BY <2>1 DEF Tools!Emptied, Tools!Yaml
    <3> HIDE DEF y
    <3>2. y \in YamlFile /\ y.user = FALSE /\ y.entries = 0
      BY <3>1 DEF YamlFile
    <3>3. ~overlap => userHad.yaml = FALSE
      BY <1>5, <2>1 DEF ToolsInv, Solo
    <3>4. ~overlap => y.user = userHad.yaml
      BY <3>2, <3>3, Zenon
    <3>5. ~(y.entries > 0)
      BY <3>2
    <3>6. QED
      BY <3>2, <3>4, <3>5, Zenon
  <2>2. CASE yaml # Missing
    BY <1>5, <2>2 DEF ToolsInv, ToolsTyped, Solo
  <2>3. QED
    BY <2>1, <2>2
<1>7. IF y.entries > 0 THEN Tools!Go(q, "done")
      ELSE req' = [req EXCEPT ![q].held = [y EXCEPT !.entries = 1], ![q].st = "openYaml"]
  BY DEF Tools!connectContinue
<1> HIDE DEF y
<1>8. CASE y.entries > 0
  <2> DEFINE x == [o EXCEPT !.st = "done"]
  <2>1. req' = [req EXCEPT ![q] = x]
    BY <1>1, <1>7, <1>8 DEF Tools!Go, ToolsInv, ToolsTyped
  <2>2. x \in ToolRequest /\ x.tool = o.tool /\ x.st = "done" /\ x.at = o.at
    BY DEF ToolRequest, ToolStates
  <2> HIDE DEF x
  <2>3. HeldOK(x)
    BY <1>1, <2>2 DEF HeldOK
  <2>4. yaml \in YamlFile /\ yaml.entries > 0
    BY <1>6, <1>8
  <2>5. QED
    BY <1>1, <1>2, <1>3, <1>4, <2>1, <2>2, <2>3, <2>4, RequestMoves
<1>9. CASE ~(y.entries > 0)
  <2> DEFINE n == [y EXCEPT !.entries = 1]
             x == [o EXCEPT !.held = n, !.st = "openYaml"]
  <2>1. req' = [req EXCEPT ![q] = x]
    BY <1>1, <1>7, <1>9 DEF ToolsInv, ToolsTyped
  <2>2. n \in YamlFile /\ n = [user |-> y.user, entries |-> 1]
    BY <1>6 DEF YamlFile
  <2> HIDE DEF n
  <2>3. x \in ToolRequest /\ x.tool = o.tool /\ x.st = "openYaml" /\ x.at = o.at /\ x.held = n
    BY <2>2 DEF ToolRequest, ToolStates
  <2> HIDE DEF x
  <2>4. HeldOK(x)
    BY <1>1, <2>2, <2>3 DEF HeldOK, Tools!Tools
  <2>5. ~overlap => x.held = Tools!Yaml(userHad.yaml, 1)
    BY <1>6, <2>2, <2>3 DEF Tools!Yaml
  <2>6. QED
    BY <1>1, <1>2, <1>3, <1>4, <2>1, <2>3, <2>4, <2>5, RequestMoves
<1>10. QED
  BY <1>8, <1>9

LEMMA OpensYaml ==
  ASSUME ToolsInv, NEW q \in Tools!Requests, Tools!OpenYaml(q)
  PROVE  ToolsInv'
<1>1. PICK o \in ToolRequest : o = req[q] /\ o.st = "openYaml" /\ HeldOK(o)
  BY DEF ToolsInv, ToolsTyped, Owned, Tools!OpenYaml
<1>2. UNCHANGED <<settings, tmp, userHad, overlap>> /\ yaml' = Tools!Emptied
  BY DEF Tools!OpenYaml
<1>3. yaml' \in YamlFile
  BY <1>2 DEF Tools!Emptied, Tools!Yaml, YamlFile
<1>4. ~overlap => (\A p \in Tools!Requests : Tools!Active(p) => p = q) /\ AddsUp(o)
  BY <1>1 DEF ToolsInv, Solo, Tools!Active
<1> DEFINE x == [o EXCEPT !.st = "fillYaml"]
<1>5. req' = [req EXCEPT ![q] = x]
  BY <1>1 DEF Tools!OpenYaml, Tools!Go, ToolsInv, ToolsTyped
<1>6. x \in ToolRequest /\ x.tool = o.tool /\ x.st = "fillYaml" /\ x.at = o.at /\ x.held = o.held
  BY DEF ToolRequest, ToolStates
<1> HIDE DEF x
<1>7. /\ req' \in [Tools!Requests -> ToolRequest] /\ req'[q] = x
      /\ \A p \in Tools!Requests : p # q => req'[p] = req[p]
  BY <1>5, <1>6 DEF ToolsInv, ToolsTyped
<1>8. ToolsTyped'
  BY <1>2, <1>3, <1>7 DEF ToolsInv, ToolsTyped
<1>9. Owned'
  <2>1. ASSUME NEW p \in Tools!Requests PROVE HeldOK(req[p])'
    BY <1>1, <1>2, <1>6, <1>7 DEF ToolsInv, Owned, HeldOK, UsersOwn
  <2>2. QED
    BY <1>2, <2>1 DEF ToolsInv, Owned, UsersOwn
<1>10. Solo'
  <2>1. SUFFICES ASSUME ~overlap
                 PROVE  /\ settings' # Torn
                        /\ \A p, r \in Tools!Requests : (Tools!Active(p) /\ Tools!Active(r) => p = r)'
                        /\ \A r \in Tools!Requests : AddsUp(req[r])'
                        /\ Filling'
    BY <1>2 DEF Solo
  <2>2. Filling'
    BY <1>6, <1>7 DEF Filling
  <2>3. \A p \in Tools!Requests : Tools!Active(p)' => p = q
    BY <1>4, <1>7, <2>1 DEF Tools!Active
  <2>4. ASSUME NEW r \in Tools!Requests PROVE AddsUp(req[r])'
    <3>1. CASE r = q
      BY <1>1, <1>2, <1>4, <1>6, <1>7, <2>1, <3>1 DEF AddsUp, Tools!Yaml
    <3>2. CASE r # q
      <4>1. AddsUp(req[r]) /\ req'[r] = req[r] /\ ~Tools!Active(r)
        BY <1>4, <1>7, <2>1, <3>2 DEF ToolsInv, Solo
      <4>2. req[r].st \in {"unborn", "done", "failed", "dead"}
        BY <4>1 DEF Tools!Active
      <4>3. QED
        BY <1>2, <2>2, <4>1, <4>2 DEF AddsUp
    <3>3. QED
      BY <3>1, <3>2
  <2>5. QED
    BY <1>2, <2>1, <2>2, <2>3, <2>4 DEF ToolsInv, Solo
<1>11. QED
  BY <1>8, <1>9, <1>10 DEF ToolsInv

LEMMA FillsYaml ==
  ASSUME ToolsInv, NEW q \in Tools!Requests, Tools!FillYaml(q)
  PROVE  ToolsInv'
<1>1. PICK o \in ToolRequest : o = req[q] /\ o.st = "fillYaml" /\ HeldOK(o)
  BY DEF ToolsInv, ToolsTyped, Owned, Tools!FillYaml
<1>2. UNCHANGED <<settings, tmp, userHad, overlap>> /\ yaml' = o.held
  BY <1>1 DEF Tools!FillYaml
<1>3. yaml' \in YamlFile /\ o.tool = "continue"
  BY <1>1, <1>2 DEF HeldOK
<1>4. ~overlap => (\A p \in Tools!Requests : Tools!Active(p) => p = q) /\ AddsUp(o)
  BY <1>1 DEF ToolsInv, Solo, Tools!Active
<1> DEFINE x == [o EXCEPT !.st = "done"]
<1>5. req' = [req EXCEPT ![q] = x]
  BY <1>1 DEF Tools!FillYaml, Tools!Go, ToolsInv, ToolsTyped
<1>6. x \in ToolRequest /\ x.tool = o.tool /\ x.st = "done" /\ x.at = o.at
  BY DEF ToolRequest, ToolStates
<1> HIDE DEF x
<1>7. /\ req' \in [Tools!Requests -> ToolRequest] /\ req'[q] = x
      /\ \A p \in Tools!Requests : p # q => req'[p] = req[p]
  BY <1>5, <1>6 DEF ToolsInv, ToolsTyped
<1>8. ToolsTyped'
  BY <1>2, <1>3, <1>7 DEF ToolsInv, ToolsTyped
<1>9. Owned'
  <2>1. ASSUME NEW p \in Tools!Requests PROVE HeldOK(req[p])'
    BY <1>1, <1>2, <1>6, <1>7 DEF ToolsInv, Owned, HeldOK, UsersOwn
  <2>2. QED
    BY <1>2, <2>1 DEF ToolsInv, Owned, UsersOwn
<1>10. Solo'
  <2>1. SUFFICES ASSUME ~overlap
                 PROVE  /\ settings' # Torn
                        /\ \A p, r \in Tools!Requests : (Tools!Active(p) /\ Tools!Active(r) => p = r)'
                        /\ \A r \in Tools!Requests : AddsUp(req[r])'
                        /\ yaml' # Missing /\ yaml'.user = userHad.yaml
    BY <1>2 DEF Solo
  <2>2. yaml' = [user |-> userHad.yaml, entries |-> 1]
    BY <1>1, <1>2, <1>4, <2>1 DEF AddsUp, Tools!Yaml
  <2>3. yaml' # Missing /\ yaml'.user = userHad.yaml /\ yaml'.entries > 0
    BY <1>3, <2>2, MarksAreNoFiles
  <2>4. \A p \in Tools!Requests : ~Tools!Active(p)'
    BY <1>4, <1>6, <1>7, <2>1 DEF Tools!Active
  <2>5. ASSUME NEW r \in Tools!Requests PROVE AddsUp(req[r])'
    <3>1. CASE r = q
      BY <1>2, <1>3, <1>6, <1>7, <2>3, <3>1 DEF AddsUp, Tools!Keyed
    <3>2. CASE r # q
      <4>1. AddsUp(req[r]) /\ req'[r] = req[r] /\ ~Tools!Active(r)
        BY <1>4, <1>7, <2>1, <3>2 DEF ToolsInv, Solo
      <4>2. req[r].st \in {"unborn", "done", "failed", "dead"}
        BY <4>1 DEF Tools!Active
      <4>3. QED
        BY <1>2, <1>3, <2>3, <4>1, <4>2 DEF AddsUp
    <3>3. QED
      BY <3>1, <3>2
  <2>6. QED
    BY <1>2, <2>1, <2>3, <2>4, <2>5 DEF ToolsInv, Solo
<1>11. QED
  BY <1>8, <1>9, <1>10 DEF ToolsInv

LEMMA Dies ==
  ASSUME ToolsInv, NEW q \in Tools!Requests, Tools!Crash(q)
  PROVE  ToolsInv'
<1>1. PICK o \in ToolRequest : o = req[q] /\ o.st # "unborn" /\ HeldOK(o)
  BY DEF ToolsInv, ToolsTyped, Owned, Tools!Crash, Tools!Active
<1> DEFINE x == [o EXCEPT !.st = "dead", !.at = "none"]
<1>2. req' = [req EXCEPT ![q] = x] /\ overlap' = TRUE /\ UNCHANGED <<settings, tmp, yaml, userHad>>
  BY <1>1 DEF Tools!Crash, ToolsInv, ToolsTyped
<1>3. x \in ToolRequest /\ x.tool = o.tool /\ x.st = "dead" /\ x.at = "none"
  BY DEF ToolRequest, ToolStates
<1> HIDE DEF x
<1>4. HeldOK(x)
  BY <1>1, <1>3 DEF HeldOK
<1>5. tmp' \in KeysFile \cup {Missing, Torn} /\ (tmp' \in KeysFile => UsersOwn(tmp'))
  BY <1>2 DEF ToolsInv, ToolsTyped, Owned
<1>6. /\ req' \in [Tools!Requests -> ToolRequest] /\ req'[q] = x
      /\ \A p \in Tools!Requests : p # q => req'[p] = req[p]
  BY <1>2, <1>3 DEF ToolsInv, ToolsTyped
<1>7. ToolsTyped'
  BY <1>2, <1>6 DEF ToolsInv, ToolsTyped
<1>8. Owned'
  <2>1. ASSUME NEW p \in Tools!Requests PROVE HeldOK(req[p])'
    BY <1>2, <1>4, <1>6 DEF ToolsInv, Owned, HeldOK, UsersOwn
  <2>2. QED
    BY <1>2, <2>1 DEF ToolsInv, Owned, UsersOwn
<1>9. QED
  BY <1>2, <1>7, <1>8 DEF ToolsInv, Solo

LEMMA ToolsNext == ToolsInv /\ [Tools!Next]_(Tools!vars) => ToolsInv'
<1> SUFFICES ASSUME ToolsInv, [Tools!Next]_(Tools!vars) PROVE ToolsInv'
  OBVIOUS
<1>2. CASE UNCHANGED Tools!vars
  <2>1. UNCHANGED <<req, settings, tmp, yaml, userHad, overlap>>
    BY <1>2 DEF Tools!vars
  <2>2. ToolsTyped' /\ Owned'
    BY <2>1 DEF ToolsInv, ToolsTyped, Owned, HeldOK, UsersOwn
  <2>3. Solo'
    BY <2>1 DEF ToolsInv, Solo, Tools!Active, Filling, AddsUp
  <2>4. QED
    BY <2>2, <2>3 DEF ToolsInv
<1>3. CASE Tools!Next
  BY <1>2, <1>3, Begins, ReadsSettings, OpensTemp, FillsTemp, Renames, ConnectsContinue, OpensYaml,
     FillsYaml, Dies DEF Tools!Next, Tools!AllDone
<1>4. QED
  BY <1>2, <1>3

LEMMA ToolsAddUp == ToolsInv => Tools!RoutesAddUp
<1> SUFFICES ASSUME ToolsInv PROVE Tools!RoutesAddUp
  OBVIOUS
<1>2. settings \notin {Missing, Torn} =>
        settings.user = userHad.settings \/ (userHad.settings = "globs" /\ settings.user = "cut")
  BY DEF ToolsInv, ToolsTyped, Owned, UsersOwn
<1>3. ASSUME ~overlap, \A q \in Tools!Requests : ~Tools!Active(q)
      PROVE  /\ \A q \in Tools!Requests : req[q].st = "done" => Tools!routed(req[q].tool)
             /\ yaml # Missing => yaml.user = userHad.yaml /\ yaml.entries <= 1
  <2>1. ~Filling
    BY <1>3 DEF Filling, Tools!Active
  <2>2. ASSUME NEW q \in Tools!Requests, req[q].st = "done" PROVE Tools!routed(req[q].tool)
    <3>1. AddsUp(req[q]) /\ HeldOK(req[q])
      BY <1>3 DEF ToolsInv, Solo, Owned
    <3>2. CASE req[q].tool \in Tools!Keyed
      BY <2>2, <3>1, <3>2, MarksAreNoFiles DEF AddsUp, Tools!routed
    <3>3. CASE req[q].tool \notin Tools!Keyed
      <4>1. req[q].tool = "continue"
        BY <2>2, <3>1, <3>3 DEF HeldOK, Tools!Tools
      <4>2. QED
        BY <2>1, <2>2, <3>1, <3>3, <4>1, MarksAreNoFiles DEF AddsUp, Tools!routed
    <3>4. QED
      BY <3>2, <3>3
  <2>3. yaml \in YamlFile => yaml.entries <= 1
    BY DEF YamlFile
  <2>4. QED
    BY <1>3, <2>1, <2>2, <2>3 DEF ToolsInv, ToolsTyped, Solo
<1>4. QED
  BY <1>2, <1>3 DEF Tools!RoutesAddUp

LEMMA RoutesOfToolsAddUp == Tools!Spec => []Tools!RoutesAddUp
<1>1. Tools!Spec => []ToolsInv
  BY ToolsInit, ToolsNext, PTL DEF Tools!Spec
<1>2. QED
  BY <1>1, ToolsAddUp, PTL

-----------------------------------------------------------------------------
(* CLAUDE.md: the user's text, and a block in it.                            *)

\* The user's text is a before and c after block b.
Around(a, b, c) == a \o b \o c

\* The piece at place i of a text with a block of level between a and c.
LEMMA AroundBlock ==
  ASSUME NEW a \in Seq(Conn!Text), NEW c \in Seq(Conn!Text), NEW level \in {"light", "full"}
  PROVE  LET s == Around(a, Conn!buildInstructionsBlock(level), c)
         IN /\ s \in Seq(Piece) /\ Len(s) = Len(a) + 3 + Len(c)
            /\ \A i \in 1 .. Len(a) : s[i] = a[i]
            /\ s[Len(a) + 1] = "BEGIN" /\ s[Len(a) + 2] = level /\ s[Len(a) + 3] = "END"
            /\ \A i \in 1 .. Len(c) : s[Len(a) + 3 + i] = c[i]
<1> DEFINE b == Conn!buildInstructionsBlock(level)
           n == Len(a)
           m == Len(c)
           d == a \o b
<1>1. a \in Seq(Piece) /\ c \in Seq(Piece) /\ n \in Nat /\ m \in Nat
  BY DEF Piece
<1>2. b \in Seq(Piece) /\ Len(b) = 3 /\ b[1] = "BEGIN" /\ b[2] = level /\ b[3] = "END"
  BY DEF Conn!buildInstructionsBlock, Piece
<1>3. Len(a) = n /\ Len(c) = m
  OBVIOUS
<1> HIDE DEF b, n, m
<1>4. /\ d \in Seq(Piece) /\ Len(d) = n + 3
      /\ \A i \in 1 .. n + 3 : d[i] = IF i <= n THEN a[i] ELSE b[i - n]
  <2>1. /\ a \o b \in Seq(Piece) /\ Len(a \o b) = Len(a) + Len(b)
        /\ \A i \in 1 .. Len(a) + Len(b) :
             (a \o b)[i] = IF i <= Len(a) THEN a[i] ELSE b[i - Len(a)]
    BY <1>1, <1>2, ConcatProperties
  <2>2. Len(a) + Len(b) = n + 3
    BY <1>2, <1>3
  <2>3. QED
    BY <1>3, <2>1, <2>2
<1> HIDE DEF d
<1>5. /\ d \o c \in Seq(Piece) /\ Len(d \o c) = n + 3 + m
      /\ \A i \in 1 .. n + 3 + m : (d \o c)[i] = IF i <= n + 3 THEN d[i] ELSE c[i - (n + 3)]
  <2>1. /\ d \o c \in Seq(Piece) /\ Len(d \o c) = Len(d) + Len(c)
        /\ \A i \in 1 .. Len(d) + Len(c) :
             (d \o c)[i] = IF i <= Len(d) THEN d[i] ELSE c[i - Len(d)]
    BY <1>1, <1>4, ConcatProperties
  <2>2. Len(d) = n + 3 /\ Len(c) = m
    BY <1>3, <1>4
  <2>3. QED
    BY <2>1, <2>2
<1> DEFINE s == d \o c
<1>6. s = Around(a, b, c)
  BY DEF Around, d
<1> HIDE DEF s
<1>7. \A i \in 1 .. n : s[i] = a[i]
  BY <1>1, <1>4, <1>5 DEF s
<1>8. s[n + 1] = "BEGIN" /\ s[n + 2] = level /\ s[n + 3] = "END"
  <2>1. \A j \in 1 .. 3 : s[n + j] = b[j]
    <3>1. ASSUME NEW j \in 1 .. 3 PROVE s[n + j] = b[j]
      <4>1. n + j \in 1 .. n + 3 /\ n + j \in 1 .. n + 3 + m /\ ~(n + j <= n) /\ n + j <= n + 3
        BY <1>1
      <4>2. (n + j) - n = j
        BY <1>1
      <4>3. QED
        BY <1>4, <1>5, <4>1, <4>2 DEF s
    <3>2. QED
      BY <3>1
  <2>2. QED
    BY <1>2, <2>1
<1>9. ASSUME NEW i \in 1 .. m PROVE s[n + 3 + i] = c[i]
  <2>1. n + 3 + i \in 1 .. n + 3 + m /\ ~(n + 3 + i <= n + 3) /\ (n + 3 + i) - (n + 3) = i
    BY <1>1
  <2>2. QED
    BY <1>5, <2>1 DEF s
<1>10. s \in Seq(Piece) /\ Len(s) = n + 3 + m
  BY <1>5 DEF s
<1>11. QED
  BY <1>3, <1>6, <1>7, <1>8, <1>9, <1>10 DEF b, n, m

\* A place that is the only one is the first one.
LEMMA OnlyPlace ==
  ASSUME NEW s, NEW x, NEW from, NEW k \in Int, {i \in from .. Len(s) : s[i] = x} = {k}
  PROVE  Conn!Position(s, x, from) = k
<1> DEFINE at == {i \in from .. Len(s) : s[i] = x}
<1>1. at = {k}
  OBVIOUS
<1>2. (CHOOSE i \in {k} : \A j \in {k} : i <= j) = k
  OBVIOUS
<1>3. Conn!Position(s, x, from) = IF at = {} THEN 0 ELSE CHOOSE i \in at : \A j \in at : i <= j
  BY DEF Conn!Position
<1> HIDE DEF at
<1>4. QED
  BY <1>1, <1>2, <1>3

LEMMA NoPlace ==
  ASSUME NEW s, NEW x, NEW from, \A i \in from .. Len(s) : s[i] # x
  PROVE  Conn!Position(s, x, from) = 0
BY DEF Conn!Position

\* A place is one of the sequence, or none.
LEMMA PositionType ==
  ASSUME NEW s \in Seq(Piece), NEW x, NEW from \in Nat \ {0}
  PROVE  /\ Conn!Position(s, x, from) \in 0 .. Len(s)
         /\ Conn!Position(s, x, from) # 0 => Conn!Position(s, x, from) >= from
<1> DEFINE at == {i \in from .. Len(s) : s[i] = x}
<1>1. Conn!Position(s, x, from) = IF at = {} THEN 0 ELSE CHOOSE i \in at : \A j \in at : i <= j
  BY DEF Conn!Position
<1>2. Len(s) \in Nat /\ \A i \in at : i \in 1 .. Len(s) /\ i >= from
  OBVIOUS
<1>3. CASE at = {}
  BY <1>1, <1>2, <1>3
<1>4. CASE at # {}
  <2>1. at \subseteq Nat
    BY <1>2
  <2> HIDE DEF at
  <2>2. PICK i \in at : \A j \in at : ~(j < i)
    <3> DEFINE R == OpToRel(<, Nat)
    <3>1. IsWellFoundedOn(R, Nat)
      BY NatLessThanWellFounded
    <3>2. \A x1, y1 \in Nat : y1 < x1 => <<y1, x1>> \in R
      BY DEF OpToRel
    <3> HIDE DEF R
    <3>3. PICK i \in at : \A j \in at : ~(<<j, i>> \in R)
      BY <1>4, <2>1, <3>1, WFMin
    <3>4. QED
      BY <2>1, <3>2, <3>3
  <2>3. \A j \in at : i <= j
    BY <2>1, <2>2
  <2>4. (CHOOSE k \in at : \A j \in at : k <= j) \in at
    BY <2>3
  <2>5. QED
    BY <1>1, <1>2, <1>4, <2>4
<1>5. QED
  BY <1>3, <1>4

-----------------------------------------------------------------------------
\* A block is found where it is, and taking it out leaves the text around it.
LEMMA StripsBlock ==
  ASSUME NEW a \in Seq(Conn!Text), NEW c \in Seq(Conn!Text), NEW level \in {"light", "full"}
  PROVE  LET s == Around(a, Conn!buildInstructionsBlock(level), c)
         IN Conn!HasBlock(s) /\ Conn!stripExistingBlock(s) = a \o c
<1> DEFINE s == Around(a, Conn!buildInstructionsBlock(level), c)
           n == Len(a)
           m == Len(c)
<1>1. /\ s \in Seq(Piece) /\ Len(s) = n + 3 + m
      /\ \A i \in 1 .. n : s[i] = a[i]
      /\ s[n + 1] = "BEGIN" /\ s[n + 2] = level /\ s[n + 3] = "END"
      /\ \A i \in 1 .. m : s[n + 3 + i] = c[i]
  BY AroundBlock
<1>2. n \in Nat /\ m \in Nat /\ Len(a) = n /\ Len(c) = m
  OBVIOUS
<1>3. /\ \A i \in 1 .. n : a[i] \notin {"BEGIN", "END"}
      /\ \A i \in 1 .. m : c[i] \notin {"BEGIN", "END"}
  BY DEF Conn!Text
<1> HIDE DEF s, n, m
<1>4. \A i \in 1 .. n + 3 + m :
        s[i] \in {"BEGIN", "END"} => (s[i] = "BEGIN" /\ i = n + 1) \/ (s[i] = "END" /\ i = n + 3)
  <2>1. ASSUME NEW i \in 1 .. n + 3 + m, s[i] \in {"BEGIN", "END"}
        PROVE  (s[i] = "BEGIN" /\ i = n + 1) \/ (s[i] = "END" /\ i = n + 3)
    <3>1. ~(i \in 1 .. n)
      BY <1>1, <1>3, <2>1
    <3>2. ~(i > n + 3)
      <4>1. SUFFICES ASSUME i > n + 3 PROVE FALSE
        OBVIOUS
      <4>2. i - (n + 3) \in 1 .. m /\ n + 3 + (i - (n + 3)) = i
        BY <1>2, <4>1
      <4>3. QED
        BY <1>1, <1>3, <2>1, <4>2
    <3>3. i \in {n + 1, n + 2, n + 3}
      BY <1>2, <3>1, <3>2
    <3>4. QED
      BY <1>1, <2>1, <3>3
  <2>2. QED
    BY <2>1
<1>5. Conn!Position(s, "BEGIN", 1) = n + 1
  <2>1. n + 1 \in 1 .. Len(s) /\ n + 1 \in Int
    BY <1>1, <1>2
  <2>2. \A i \in 1 .. Len(s) : s[i] = "BEGIN" => i = n + 1
    BY <1>1, <1>4
  <2>3. {i \in 1 .. Len(s) : s[i] = "BEGIN"} = {n + 1}
    BY <1>1, <2>1, <2>2
  <2>4. QED
    BY <2>1, <2>3, OnlyPlace
<1>6. Conn!Position(s, "END", n + 1) = n + 3
  <2>1. n + 3 \in n + 1 .. Len(s) /\ n + 3 \in Int
    BY <1>1, <1>2
  <2>2. \A i \in n + 1 .. Len(s) : i \in 1 .. n + 3 + m
    BY <1>1, <1>2
  <2>3. \A i \in n + 1 .. Len(s) : s[i] = "END" => i = n + 3
    BY <1>4, <2>2
  <2>4. s[n + 3] = "END"
    BY <1>1
  <2>5. {i \in n + 1 .. Len(s) : s[i] = "END"} = {n + 3}
    BY <2>1, <2>3, <2>4
  <2>6. QED
    BY <2>1, <2>5, OnlyPlace
<1>7. Conn!HasBlock(s)
  BY <1>2, <1>5, <1>6 DEF Conn!HasBlock
<1>8. Conn!stripExistingBlock(s) = SubSeq(s, 1, (n + 1) - 1) \o SubSeq(s, (n + 3) + 1, Len(s))
  BY <1>5, <1>6, <1>7 DEF Conn!stripExistingBlock
<1>9. SubSeq(s, 1, (n + 1) - 1) = a
  <2>1. (n + 1) - 1 = n
    BY <1>2
  <2>2. \A i \in 1 .. n : s[i] \in Conn!Text
    BY <1>1, <1>2
  <2>3. /\ SubSeq(s, 1, n) \in Seq(Conn!Text) /\ Len(SubSeq(s, 1, n)) = n
        /\ \A i \in 1 .. n : SubSeq(s, 1, n)[i] = s[i]
    <3>1. /\ SubSeq(s, 1, n) \in Seq(Conn!Text)
          /\ Len(SubSeq(s, 1, n)) = IF 1 <= n THEN n - 1 + 1 ELSE 0
          /\ \A i \in 1 .. n - 1 + 1 : SubSeq(s, 1, n)[i] = s[1 + i - 1]
      BY <1>2, <2>2, SubSeqProperties
    <3>2. n - 1 + 1 = n /\ \A i \in 1 .. n : 1 + i - 1 = i
      BY <1>2
    <3>3. QED
      BY <1>2, <3>1, <3>2
  <2>4. QED
    BY <1>1, <1>2, <2>1, <2>3, SeqEqual
<1>10. SubSeq(s, (n + 3) + 1, Len(s)) = c
  <2> DEFINE k == n + 4
             l == n + 3 + m
  <2>1. k \in Int /\ l \in Int /\ (n + 3) + 1 = k /\ Len(s) = l
    BY <1>1, <1>2
  <2>2. \A i \in k .. l : s[i] \in Conn!Text
    <3>1. ASSUME NEW i \in k .. l PROVE s[i] \in Conn!Text
      <4>1. i - (n + 3) \in 1 .. m /\ n + 3 + (i - (n + 3)) = i
        BY <1>2
      <4>2. c[i - (n + 3)] \in Conn!Text
        BY <1>2, <4>1
      <4>3. QED
        BY <1>1, <4>1, <4>2
    <3>2. QED
      BY <3>1
  <2>3. (IF k <= l THEN l - k + 1 ELSE 0) = m /\ l - k + 1 = m
        /\ \A i \in 1 .. m : k + i - 1 = n + 3 + i
    BY <1>2
  <2> HIDE DEF k, l
  <2>4. /\ SubSeq(s, k, l) \in Seq(Conn!Text) /\ Len(SubSeq(s, k, l)) = IF k <= l THEN l - k + 1 ELSE 0
        /\ \A i \in 1 .. l - k + 1 : SubSeq(s, k, l)[i] = s[k + i - 1]
    BY <2>1, <2>2, SubSeqProperties
  <2>5. Len(SubSeq(s, k, l)) = m /\ \A i \in 1 .. m : SubSeq(s, k, l)[i] = c[i]
    BY <1>1, <2>3, <2>4
  <2>6. SubSeq(s, k, l) = c
    BY <1>2, <2>4, <2>5, SeqEqual
  <2>7. QED
    BY <2>1, <2>6
<1>11. QED
  BY <1>7, <1>8, <1>9, <1>10 DEF s

\* Without a begin there is no block, and nothing is taken out.
LEMMA StripsNothing ==
  ASSUME NEW s \in Seq(Conn!Text)
  PROVE  ~Conn!HasBlock(s) /\ Conn!stripExistingBlock(s) = s
<1>1. \A i \in 1 .. Len(s) : s[i] # "BEGIN"
  BY DEF Conn!Text
<1>2. Conn!Position(s, "BEGIN", 1) = 0
  BY <1>1, NoPlace
<1>3. QED
  BY <1>2 DEF Conn!HasBlock, Conn!stripExistingBlock

\* What is left of any text is a text.
LEMMA StripType ==
  ASSUME NEW s \in Seq(Piece)
  PROVE  Conn!stripExistingBlock(s) \in Seq(Piece)
<1>1. CASE ~Conn!HasBlock(s)
  BY <1>1 DEF Conn!stripExistingBlock
<1>2. CASE Conn!HasBlock(s)
  <2> DEFINE b == Conn!Position(s, "BEGIN", 1)
             e == Conn!Position(s, "END", b)
  <2>1. b \in 1 .. Len(s) /\ e \in 1 .. Len(s)
    <3>1. b \in 0 .. Len(s) /\ b # 0 /\ e # 0
      BY <1>2, PositionType DEF Conn!HasBlock
    <3>2. b \in Nat \ {0} /\ Len(s) \in Nat
      BY <3>1
    <3> HIDE DEF b
    <3>3. e \in 0 .. Len(s)
      BY <3>2, PositionType
    <3>4. QED
      BY <3>1, <3>2, <3>3
  <2>2. Conn!stripExistingBlock(s) = SubSeq(s, 1, b - 1) \o SubSeq(s, e + 1, Len(s))
    BY <1>2 DEF Conn!stripExistingBlock
  <2> HIDE DEF b, e
  <2>3. SubSeq(s, 1, b - 1) \in Seq(Piece) /\ SubSeq(s, e + 1, Len(s)) \in Seq(Piece)
    BY <2>1, SubSeqProperties
  <2>4. QED
    BY <2>2, <2>3, ConcatProperties
<1>3. QED
  BY <1>1, <1>2

-----------------------------------------------------------------------------
(* What is held: types.                                                      *)

ConnStates == {"unborn", "readCfg", "openCfg", "fillCfg", "readMd", "openMd", "fillMd", "verify",
               "done", "failed", "dead"}

Operation == [kind : {"none", "connect", "disconnect", "heal"}, scope : Conn!Scopes, level : Conn!Levels,
              entry : Nat, st : ConnStates, cfg : McpFile \cup {Missing},
              text : Seq(Piece) \cup {Missing}]

ConnTyped ==
  /\ ops \in [Conn!Ops -> Operation]
  /\ mcp \in [Conn!Scopes -> McpFile \cup {Missing, Torn}]
  /\ md \in Seq(Piece) \cup {Missing}
  /\ cli \in Nat \ {0}
  /\ had \subseteq Conn!Scopes /\ asked \subseteq Conn!Scopes
  /\ typed \in Seq(Conn!Text)
  /\ cut \in BOOLEAN /\ mixed \in BOOLEAN

\* Entries are only written where a connect was asked for, among the user's servers.
ServersOf(f, s) == f.servers = (s \in had) /\ (f.entry # Conn!NoEntry => s \in asked)

OpHolds(x) ==
  /\ x.st # "unborn" => x.kind # "none"
  /\ x.kind = "connect" => x.scope \in asked /\ x.entry # Conn!NoEntry
  /\ x.kind = "disconnect" => x.entry = Conn!NoEntry
  /\ x.kind = "heal" => x.st \in {"readCfg", "openCfg", "fillCfg", "done", "dead"}
  /\ x.st = "verify" => x.kind = "connect"
  /\ x.st \in {"openCfg", "fillCfg"} =>
       x.cfg \in McpFile /\ ServersOf(x.cfg, x.scope) /\ x.cfg.entry = x.entry
  /\ x.st \in {"openMd", "fillMd"} => x.text \in Seq(Piece)
  /\ x.kind = "connect" /\ x.st \in {"readMd", "openMd", "fillMd"} => x.level # "none"

FilesHeld ==
  /\ \A s \in Conn!Scopes : /\ mcp[s] = Missing => s \notin had
                            /\ mcp[s] \in McpFile => ServersOf(mcp[s], s)
  /\ \A o \in Conn!Ops : OpHolds(ops[o])

CBegun(o) == ops[o].st # "unborn"
InOrder  == \A o, p \in Conn!Ops : p < o /\ CBegun(o) => CBegun(p)

-----------------------------------------------------------------------------
(* What holds as long as no two operations overlapped and none died, of the   *)
(* last one that began and of the files.                                      *)

IsLast(o) == CBegun(o) /\ \A p \in Conn!Ops : p > o => ~CBegun(p)

\* x has been through the configuration file of scope s, which is as it wants it.
Past(x, s) ==
  IF x.kind = "heal" THEN x.st = "done" \/ (s = "workspace" /\ x.scope = "global")
  ELSE s = x.scope /\ x.st \in {"readMd", "openMd", "fillMd", "verify", "done"}

Settled(x, s) ==
  /\ mcp[s] \in McpFile => mcp[s].entry = x.entry \/ (x.kind = "heal" /\ mcp[s].entry = Conn!NoEntry)
  /\ x.kind = "connect" => mcp[s] \in McpFile

EntryOK(x) ==
  /\ x.st # "dead"
  /\ \A s \in Conn!Scopes : Past(x, s) => Settled(x, s)
  /\ \A s \in Conn!Scopes : mcp[s] = Torn => x.st = "fillCfg" /\ x.scope = s

Alone ==
  ~mixed =>
    /\ \A o \in Conn!Ops : Conn!Active(o) => IsLast(o)
    /\ \A o \in Conn!Ops : ops[o].st # "dead"
    /\ \A o \in Conn!Ops : IsLast(o) => EntryOK(ops[o])
    /\ (\A o \in Conn!Ops : ~CBegun(o)) => \A s \in Conn!Scopes : mcp[s] # Torn

\* The user's text is whole, with block b, or none, in it.
Whole(b) == \E a, c \in Seq(Conn!Text) : typed = a \o c /\ Conn!Pieces = Around(a, b, c)
Intact   == \E b \in Conn!Blocks \cup {<< >>} : Whole(b)

Wanted(x) == IF x.kind = "connect" THEN Around(typed, Conn!buildInstructionsBlock(x.level), << >>)
             ELSE typed

\* Where in addition the user took no marker out: CLAUDE.md and x.
MdOK(x) ==
  /\ x.st = "fillMd" => md = << >>
  /\ x.st # "fillMd" => Intact
  /\ x.st \in {"openMd", "fillMd"} => x.text = Wanted(x)
  /\ x.kind = "connect" /\ x.st \in {"verify", "done"} /\ x.level # "none" =>
       Whole(Conn!buildInstructionsBlock(x.level))
  /\ x.kind = "disconnect" /\ x.st = "done" => Whole(<< >>)

Unmarred ==
  ~mixed /\ ~cut =>
    /\ \A o \in Conn!Ops : IsLast(o) => MdOK(ops[o])
    /\ (\A o \in Conn!Ops : ~CBegun(o)) => Intact

ConnInv == ConnTyped /\ FilesHeld /\ InOrder /\ Alone /\ Unmarred

-----------------------------------------------------------------------------
LEMMA NoConfigs ==
  /\ Missing # Torn
  /\ Missing \notin McpFile /\ Torn \notin McpFile
  /\ \A s \in Seq(Piece) : s # Missing
BY FilesAssumption, ChangesAssumption

LEMMA OfBlocks == Conn!Blocks = {Conn!buildInstructionsBlock("light"), Conn!buildInstructionsBlock("full")}
BY DEF Conn!Blocks, Conn!Levels

LEMMA BlockType ==
  ASSUME NEW level \in {"light", "full"}
  PROVE  /\ Conn!buildInstructionsBlock(level) \in Seq(Piece)
         /\ Conn!buildInstructionsBlock(level) # << >>
BY DEF Conn!buildInstructionsBlock, Piece

LEMMA PiecesType == ConnTyped => Conn!Pieces \in Seq(Piece)
BY DEF ConnTyped, Conn!Pieces

LEMMA AroundNothing ==
  ASSUME NEW a \in Seq(Conn!Text), NEW c \in Seq(Conn!Text)
  PROVE  Around(a, << >>, c) = a \o c
BY ConcatEmptySeq DEF Around

LEMMA TextIsPieces == ASSUME NEW a \in Seq(Conn!Text) PROVE a \in Seq(Piece)
BY DEF Piece

\* Whatever block is in the text, taking it out leaves the user's text.
LEMMA TakesOut ==
  ASSUME ConnTyped, NEW b \in Conn!Blocks \cup {<< >>}, Whole(b)
  PROVE  /\ Conn!stripExistingBlock(Conn!Pieces) = typed
         /\ Conn!HasBlock(Conn!Pieces) <=> b # << >>
         /\ b = << >> => Conn!Pieces = typed
<1>1. PICK a \in Seq(Conn!Text), c \in Seq(Conn!Text) : typed = a \o c /\ Conn!Pieces = Around(a, b, c)
  BY DEF Whole
<1>2. CASE b = << >>
  <2>1. Conn!Pieces = typed /\ typed \in Seq(Conn!Text)
    BY <1>1, <1>2, AroundNothing DEF ConnTyped
  <2>2. QED
    BY <1>2, <2>1, StripsNothing
<1>3. CASE b # << >>
  <2>1. PICK level \in {"light", "full"} : b = Conn!buildInstructionsBlock(level)
    BY <1>3, OfBlocks
  <2>2. Conn!HasBlock(Conn!Pieces) /\ Conn!stripExistingBlock(Conn!Pieces) = a \o c
    BY <1>1, <2>1, StripsBlock
  <2>3. QED
    BY <1>1, <1>3, <2>2
<1>4. QED
  BY <1>2, <1>3

\* The text itself is whole, and so is the text with a block at its end.
LEMMA WantedIsWhole ==
  ASSUME ConnTyped
  PROVE  /\ Conn!Pieces = typed => Whole(<< >>)
         /\ \A b \in Conn!Blocks : Conn!Pieces = Around(typed, b, << >>) => Whole(b)
<1>1. << >> \in Seq(Conn!Text) /\ typed \in Seq(Conn!Text) /\ typed = typed \o << >>
  BY ConcatEmptySeq DEF ConnTyped
<1>2. Around(typed, << >>, << >>) = typed
  BY <1>1, AroundNothing
<1>3. QED
  BY <1>1, <1>2 DEF Whole

LEMMA WholeHolds ==
  ASSUME ConnTyped, NEW b, Whole(b)
  PROVE  Conn!Holds(b)
<1>1. PICK a \in Seq(Conn!Text), c \in Seq(Conn!Text) : typed = a \o c /\ Conn!Pieces = Around(a, b, c)
  BY DEF Whole
<1> DEFINE n == Len(a)
           m == Len(c)
<1>2. n \in Nat /\ m \in Nat /\ Len(a) = n /\ Len(c) = m
  OBVIOUS
<1> HIDE DEF n, m
<1>3. /\ typed \in Seq(Conn!Text) /\ Len(typed) = n + m
      /\ \A i \in 1 .. n + m : typed[i] = IF i <= n THEN a[i] ELSE c[i - n]
  BY <1>1, <1>2, ConcatProperties
<1>4. SubSeq(typed, 1, n) = a
  <2>1. /\ SubSeq(typed, 1, n) \in Seq(Conn!Text)
        /\ Len(SubSeq(typed, 1, n)) = IF 1 <= n THEN n - 1 + 1 ELSE 0
        /\ \A i \in 1 .. n - 1 + 1 : SubSeq(typed, 1, n)[i] = typed[1 + i - 1]
    <3>1. \A i \in 1 .. n : typed[i] \in Conn!Text
      BY <1>2, <1>3
    <3>2. QED
      BY <1>2, <3>1, SubSeqProperties
  <2>2. Len(SubSeq(typed, 1, n)) = n /\ \A i \in 1 .. n : SubSeq(typed, 1, n)[i] = a[i]
    BY <1>2, <1>3, <2>1
  <2>3. QED
    BY <1>2, <2>1, <2>2, SeqEqual
<1>5. SubSeq(typed, n + 1, n + m) = c
  <2> DEFINE k == n + 1
             l == n + m
  <2>1. k \in Int /\ l \in Int /\ \A i \in k .. l : typed[i] \in Conn!Text
    BY <1>2, <1>3
  <2>2. /\ (IF k <= l THEN l - k + 1 ELSE 0) = m /\ l - k + 1 = m
        /\ \A i \in 1 .. m : typed[k + i - 1] = c[i]
    <3>1. (IF k <= l THEN l - k + 1 ELSE 0) = m /\ l - k + 1 = m
      BY <1>2
    <3>2. ASSUME NEW i \in 1 .. m PROVE typed[k + i - 1] = c[i]
      <4>1. k + i - 1 \in 1 .. n + m /\ ~(k + i - 1 <= n) /\ (k + i - 1) - n = i
        BY <1>2
      <4>2. QED
        BY <1>3, <4>1
    <3>3. QED
      BY <3>1, <3>2
  <2> HIDE DEF k, l
  <2>3. /\ SubSeq(typed, k, l) \in Seq(Conn!Text)
        /\ Len(SubSeq(typed, k, l)) = IF k <= l THEN l - k + 1 ELSE 0
        /\ \A i \in 1 .. l - k + 1 : SubSeq(typed, k, l)[i] = typed[k + i - 1]
    BY <2>1, SubSeqProperties
  <2>4. SubSeq(typed, k, l) = c
    BY <1>2, <2>2, <2>3, SeqEqual
  <2>5. QED
    BY <2>4 DEF k, l
<1>6. n \in 0 .. Len(typed)
  BY <1>2, <1>3
<1>7. QED
  BY <1>1, <1>3, <1>4, <1>5, <1>6 DEF Conn!Holds, Around

\* The user adds to the end of the text, block or not.
LEMMA UserAdds ==
  ASSUME ConnTyped, NEW b \in Conn!Blocks \cup {<< >>}, Whole(b),
         typed' = Append(typed, "more"), md' = Append(Conn!Pieces, "more")
  PROVE  Whole(b)' /\ typed' \in Seq(Conn!Text) /\ md' \in Seq(Piece)
<1>1. PICK a \in Seq(Conn!Text), c \in Seq(Conn!Text) : typed = a \o c /\ Conn!Pieces = Around(a, b, c)
  BY DEF Whole
<1> DEFINE d == Append(c, "more")
           e == <<"more">>
<1>2. e \in Seq(Conn!Text) /\ "more" \in Conn!Text /\ "more" \in Piece
  BY DEF Conn!Text, Piece
<1>3. d \in Seq(Conn!Text) /\ d = c \o e
  BY <1>2, AppendProperties, AppendIsConcat
<1>4. b \in Seq(Piece)
  <2>1. b = << >> \/ b = Conn!buildInstructionsBlock("light") \/ b = Conn!buildInstructionsBlock("full")
    BY OfBlocks
  <2>2. << >> \in Seq(Piece)
    OBVIOUS
  <2>3. QED
    BY <2>1, <2>2, BlockType
<1>5. a \in Seq(Piece) /\ c \in Seq(Piece) /\ e \in Seq(Piece) /\ a \o b \in Seq(Piece)
  BY <1>2, <1>4, TextIsPieces, ConcatProperties
<1>6. Conn!Pieces \in Seq(Piece) /\ typed \in Seq(Conn!Text)
  BY PiecesType DEF ConnTyped
<1> HIDE DEF d, e
<1>7. typed' = typed \o e /\ md' = Conn!Pieces \o e /\ typed' \in Seq(Conn!Text) /\ md' \in Seq(Piece)
  BY <1>2, <1>6, AppendProperties, AppendIsConcat DEF e
<1>8. typed' = a \o d
  <2>1. (a \o c) \o e = a \o (c \o e)
    BY <1>2, ConcatAssociative
  <2>2. QED
    BY <1>1, <1>3, <1>7, <2>1
<1>9. md' = Around(a, b, d)
  <2> DEFINE ab == a \o b
  <2>1. ab \in Seq(Piece)
    BY <1>5
  <2>2. Conn!Pieces = ab \o c
    BY <1>1 DEF Around
  <2> HIDE DEF ab
  <2>3. (ab \o c) \o e = ab \o (c \o e)
    <3>1. c \in Seq(Piece) /\ e \in Seq(Piece)
      BY <1>5
    <3>2. QED
      BY ONLY <2>1, <3>1, ConcatAssociative
  <2>4. md' = ab \o d
    BY <1>3, <1>7, <2>2, <2>3
  <2>5. QED
    BY <2>4 DEF ab, Around
<1>10. Conn!Pieces' = md'
  BY <1>7, NoConfigs DEF Conn!Pieces
<1>11. QED
  BY <1>3, <1>7, <1>8, <1>9, <1>10 DEF Whole

-----------------------------------------------------------------------------
(* The operations.                                                           *)

LEMMA ConnInit == Conn!Init => ConnInv
<1> SUFFICES ASSUME Conn!Init PROVE ConnInv
  OBVIOUS
<1>1. ops \in [Conn!Ops -> Operation] /\ \A o \in Conn!Ops : ops[o].st = "unborn" /\ OpHolds(ops[o])
  <2>1. Conn!Unborn \in Operation
    BY DEF Conn!Unborn, Operation, ConnStates, Conn!Scopes, Conn!Levels, Conn!NoEntry
  <2>2. Conn!Unborn.st = "unborn" /\ OpHolds(Conn!Unborn)
    BY DEF Conn!Unborn, OpHolds
  <2>3. QED
    BY <2>1, <2>2 DEF Conn!Init
<1>2. \A s \in Conn!Scopes : /\ mcp[s] \in McpFile \cup {Missing}
                             /\ mcp[s] = Missing => s \notin had
                             /\ mcp[s] \in McpFile => ServersOf(mcp[s], s)
  <2>1. ASSUME NEW s \in Conn!Scopes, s \in had
        PROVE  /\ mcp[s] \in McpFile
               /\ ServersOf(mcp[s], s)
    <3>1. mcp[s] = [servers |-> TRUE, entry |-> Conn!NoEntry]
      BY <2>1 DEF Conn!Init, Conn!File
    <3>2. mcp[s] \in McpFile /\ mcp[s].servers = TRUE /\ mcp[s].entry = Conn!NoEntry
      BY <3>1 DEF McpFile, Conn!NoEntry
    <3>3. QED
      BY <2>1, <3>2, Zenon DEF ServersOf
  <2>2. ASSUME NEW s \in Conn!Scopes, s \notin had PROVE mcp[s] = Missing
    BY <2>2 DEF Conn!Init
  <2>3. QED
    BY <2>1, <2>2, NoConfigs
<1>3. typed \in Seq(Conn!Text) /\ md \in Seq(Piece) \cup {Missing} /\ Conn!Pieces = typed
  <2>1. typed \in {<< >>, <<"text">>} /\ md = IF typed = << >> THEN Missing ELSE typed
    BY DEF Conn!Init
  <2>2. typed \in Seq(Conn!Text)
    <3>1. << >> \in Seq(Conn!Text) /\ <<"text">> \in Seq(Conn!Text)
      BY DEF Conn!Text
    <3>2. QED
      BY <2>1, <3>1
  <2>3. typed \in Seq(Piece) /\ typed # Missing
    BY <2>2, TextIsPieces, NoConfigs
  <2>4. QED
    BY <2>1, <2>2, <2>3 DEF Conn!Pieces
<1>4. ConnTyped
  <2>1. mcp \in [Conn!Scopes -> McpFile \cup {Missing, Torn}]
    BY <1>2 DEF Conn!Init
  <2>2. cli = 1 /\ had \in SUBSET Conn!Scopes /\ asked = {} /\ cut = FALSE /\ mixed = FALSE
    BY Zenon DEF Conn!Init
  <2>3. cli \in Nat \ {0}
    BY <2>2
  <2>4. had \subseteq Conn!Scopes /\ asked \subseteq Conn!Scopes /\ cut \in BOOLEAN /\ mixed \in BOOLEAN
    BY <2>2, Zenon
  <2>5. QED
    BY <1>1, <1>3, <2>1, <2>3, <2>4 DEF ConnTyped
<1>5. FilesHeld /\ InOrder
  BY <1>1, <1>2 DEF FilesHeld, InOrder, CBegun
<1>6. \A o \in Conn!Ops : ~CBegun(o)
  BY <1>1 DEF CBegun
<1>7. Alone
  BY <1>1, <1>2, <1>6, NoConfigs DEF Alone, Conn!Active, IsLast
<1>8. Unmarred
  <2>1. Whole(<< >>)
    BY <1>3, <1>4, WantedIsWhole
  <2>2. QED
    BY <1>6, <2>1 DEF Unmarred, Intact, IsLast
<1>9. QED
  BY <1>4, <1>5, <1>7, <1>8 DEF ConnInv

\* One operation o that is under way moves to x, with what it does to the files.
LEMMA OperationMoves ==
  ASSUME ConnInv, NEW o \in Conn!Ops, NEW x \in Operation, Conn!Active(o), ops' = [ops EXCEPT ![o] = x],
         UNCHANGED <<cli, had, typed, cut, asked, mixed>>,
         x.st \notin {"unborn", "dead"}, OpHolds(x),
         mcp' \in [Conn!Scopes -> McpFile \cup {Missing, Torn}],
         \A s \in Conn!Scopes : mcp'[s] # mcp[s] =>
           mcp'[s] # Missing /\ (mcp'[s] \in McpFile => ServersOf(mcp'[s], s)),
         md' \in Seq(Piece) \cup {Missing},
         ~mixed /\ IsLast(o) => EntryOK(x)',
         ~mixed /\ ~cut /\ IsLast(o) => MdOK(x)'
  PROVE  ConnInv'
<1>1. /\ ops' \in [Conn!Ops -> Operation] /\ ops'[o] = x
      /\ \A p \in Conn!Ops : p # o => ops'[p] = ops[p]
  BY DEF ConnInv, ConnTyped
<1>2. ConnTyped'
  BY <1>1 DEF ConnInv, ConnTyped
<1>3. FilesHeld'
  <2>1. ASSUME NEW s \in Conn!Scopes
        PROVE  /\ (mcp[s] = Missing => s \notin had)'
               /\ (mcp[s] \in McpFile => ServersOf(mcp[s], s))'
    <3>1. (mcp'[s] = Missing => s \notin had) /\ (mcp'[s] \in McpFile => ServersOf(mcp'[s], s))
      BY DEF ConnInv, FilesHeld
    <3>2. QED
      BY <3>1 DEF ServersOf
  <2>2. ASSUME NEW p \in Conn!Ops PROVE OpHolds(ops[p])'
    <3>1. OpHolds(ops'[p])
      BY <1>1 DEF ConnInv, FilesHeld
    <3>2. QED
      BY <3>1 DEF OpHolds, ServersOf
  <2>3. QED
    BY <2>1, <2>2 DEF FilesHeld
<1>4. /\ CBegun(o) /\ CBegun(o)'
      /\ \A p \in Conn!Ops : (CBegun(p)' <=> CBegun(p)) /\ (IsLast(p)' <=> IsLast(p))
  BY <1>1 DEF CBegun, Conn!Active, IsLast
<1>5. InOrder'
  BY <1>4 DEF ConnInv, InOrder
<1>6. ~mixed => IsLast(o)
  BY DEF ConnInv, Alone
<1>7. ~mixed => \A p \in Conn!Ops : IsLast(p) => p = o
  <2>1. \A p, r \in Conn!Ops : p # r => p < r \/ p > r
    BY FilesAssumption, ChangesAssumption DEF Conn!Ops
  <2>2. QED
    BY <1>4, <1>6, <2>1 DEF IsLast
<1>8. Alone'
  <2>1. SUFFICES ASSUME ~mixed
                 PROVE  /\ \A p \in Conn!Ops : (Conn!Active(p) => IsLast(p))'
                        /\ \A p \in Conn!Ops : ops'[p].st # "dead"
                        /\ \A p \in Conn!Ops : IsLast(p)' => EntryOK(ops[p])'
    BY <1>4 DEF Alone
  <2>2. EntryOK(ops[o])'
    BY <1>1, <1>6, <2>1 DEF EntryOK, Past, Settled
  <2>3. \A p \in Conn!Ops : (Conn!Active(p) => IsLast(p))'
    BY <1>1, <1>4, <1>6, <2>1 DEF ConnInv, Alone, Conn!Active
  <2>4. QED
    BY <1>1, <1>4, <1>7, <2>1, <2>2, <2>3 DEF ConnInv, Alone
<1>9. Unmarred'
  <2>1. SUFFICES ASSUME ~mixed, ~cut
                 PROVE  \A p \in Conn!Ops : IsLast(p)' => MdOK(ops[p])'
    BY <1>4 DEF Unmarred
  <2>2. MdOK(ops[o])'
    BY <1>1, <1>6, <2>1 DEF MdOK, Wanted
  <2>3. QED
    BY <1>4, <1>7, <2>1, <2>2
<1>10. QED
  BY <1>2, <1>3, <1>5, <1>8, <1>9 DEF ConnInv

\* What an operation under way finds.
LEMMA UnderWay ==
  ASSUME ConnInv, NEW o \in Conn!Ops
  PROVE  /\ ops[o] \in Operation /\ OpHolds(ops[o]) /\ mcp[ops[o].scope] \in McpFile \cup {Missing, Torn}
         /\ ~mixed /\ IsLast(o) => EntryOK(ops[o])
         /\ ~mixed /\ ~cut /\ IsLast(o) => MdOK(ops[o])
         /\ \A s \in Conn!Scopes : /\ mcp[s] = Missing => s \notin had
                                   /\ mcp[s] \in McpFile => ServersOf(mcp[s], s)
<1>1. ops[o] \in Operation
  BY DEF ConnInv, ConnTyped
<1>2. ops[o].scope \in Conn!Scopes
  BY <1>1 DEF Operation
<1>3. QED
  BY <1>1, <1>2 DEF ConnInv, ConnTyped, FilesHeld, Alone, Unmarred

\* Which operation comes after its entry, or goes on to the next scope.
After(x) ==
  IF x.kind # "heal"
    THEN [x EXCEPT !.st = IF x.kind = "connect" /\ x.level = "none" THEN "verify" ELSE "readMd"]
  ELSE IF x.scope = "workspace" THEN [x EXCEPT !.scope = "global", !.st = "readCfg"]
  ELSE [x EXCEPT !.st = "done"]

LEMMA AfterFields ==
  ASSUME NEW x \in Operation, x.kind # "none", x.st \in {"readCfg", "fillCfg"}, OpHolds(x)
  PROVE  LET y == After(x)
         IN /\ y \in Operation /\ y.kind = x.kind /\ y.entry = x.entry /\ y.level = x.level
            /\ y.st \in {"readCfg", "readMd", "verify", "done"}
            /\ x.kind = "heal" => y.st \in {"readCfg", "done"}
            /\ y.st = "verify" <=> x.kind = "connect" /\ x.level = "none"
            /\ x.kind # "heal" => y.scope = x.scope /\ y.st \in {"readMd", "verify"}
            /\ x.kind = "heal" /\ x.scope = "workspace" => y.scope = "global" /\ y.st = "readCfg"
            /\ x.kind = "heal" /\ x.scope = "global" => y.scope = "global" /\ y.st = "done"
            /\ OpHolds(y)
<1> DEFINE y == After(x)
<1>1. x.scope \in {"workspace", "global"}
  BY DEF Operation, Conn!Scopes
<1>2. CASE x.kind # "heal"
  <2> DEFINE st == IF x.kind = "connect" /\ x.level = "none" THEN "verify" ELSE "readMd"
  <2>1. y = [x EXCEPT !.st = st]
    BY <1>2 DEF After
  <2>2. st \in {"readMd", "verify"} /\ (st = "verify" <=> x.kind = "connect" /\ x.level = "none")
    OBVIOUS
  <2> HIDE DEF st, y
  <2>3. /\ y \in Operation /\ y.kind = x.kind /\ y.entry = x.entry /\ y.level = x.level
        /\ y.scope = x.scope /\ y.st = st
    BY <2>1, <2>2 DEF Operation, ConnStates
  <2>4. OpHolds(y)
    BY <1>2, <2>2, <2>3 DEF OpHolds
  <2>5. QED
    BY <1>2, <2>2, <2>3, <2>4 DEF y
<1>3. CASE x.kind = "heal" /\ x.scope = "workspace"
  <2>1. y = [x EXCEPT !.scope = "global", !.st = "readCfg"]
    BY <1>3 DEF After
  <2> HIDE DEF y
  <2>2. /\ y \in Operation /\ y.kind = x.kind /\ y.entry = x.entry /\ y.level = x.level
        /\ y.scope = "global" /\ y.st = "readCfg"
    BY <2>1 DEF Operation, ConnStates, Conn!Scopes
  <2>3. OpHolds(y)
    BY <1>3, <2>2 DEF OpHolds
  <2>4. QED
    BY <1>3, <2>2, <2>3 DEF y
<1>4. CASE x.kind = "heal" /\ x.scope = "global"
  <2>1. y = [x EXCEPT !.st = "done"]
    BY <1>4 DEF After
  <2> HIDE DEF y
  <2>2. /\ y \in Operation /\ y.kind = x.kind /\ y.entry = x.entry /\ y.level = x.level
        /\ y.scope = x.scope /\ y.st = "done"
    BY <2>1 DEF Operation, ConnStates
  <2>3. OpHolds(y)
    BY <1>4, <2>2 DEF OpHolds
  <2>4. QED
    BY <1>4, <2>2, <2>3 DEF y
<1>5. QED
  BY <1>1, <1>2, <1>3, <1>4

LEMMA AfterMoves ==
  ASSUME ConnInv, NEW o \in Conn!Ops, Conn!AfterEntry(o)
  PROVE  ops' = [ops EXCEPT ![o] = After(ops[o])]
BY DEF Conn!AfterEntry, After, Conn!Go, ConnInv, ConnTyped

\* An operation whose entry is as it wants it, and no file torn, goes on.
LEMMA EntryIsThere ==
  ASSUME ConnInv, NEW o \in Conn!Ops, NEW x \in Operation, x = ops[o], x.st \in {"readCfg", "fillCfg"},
         ops' = [ops EXCEPT ![o] = After(x)], UNCHANGED <<md, cli, had, typed, cut, asked, mixed>>,
         mcp' \in [Conn!Scopes -> McpFile \cup {Missing, Torn}],
         \A s \in Conn!Scopes : mcp'[s] # mcp[s] =>
           mcp'[s] # Missing /\ (mcp'[s] \in McpFile => ServersOf(mcp'[s], s)),
         ~mixed /\ IsLast(o) => /\ Settled(x, x.scope)'
                                /\ \A s \in Conn!Scopes : mcp'[s] # Torn
                                /\ \A s \in Conn!Scopes : s # x.scope => mcp'[s] = mcp[s]
  PROVE  ConnInv'
<1> DEFINE y == After(x)
<1>1. Conn!Active(o) /\ x.kind # "none" /\ OpHolds(x)
  BY UnderWay DEF Conn!Active, OpHolds
<1>2. /\ y \in Operation /\ y.kind = x.kind /\ y.entry = x.entry /\ y.level = x.level
      /\ y.st \in {"readCfg", "readMd", "verify", "done"}
      /\ x.kind = "heal" => y.st \in {"readCfg", "done"}
      /\ y.st = "verify" <=> x.kind = "connect" /\ x.level = "none"
      /\ x.kind # "heal" => y.scope = x.scope /\ y.st \in {"readMd", "verify"}
      /\ x.kind = "heal" /\ x.scope = "workspace" => y.scope = "global" /\ y.st = "readCfg"
      /\ x.kind = "heal" /\ x.scope = "global" => y.scope = "global" /\ y.st = "done"
      /\ OpHolds(y)
  BY <1>1, AfterFields
<1> HIDE DEF y
<1>3. ASSUME ~mixed, IsLast(o) PROVE EntryOK(y)'
  <2>1. EntryOK(x) /\ x.scope \in {"workspace", "global"}
    BY <1>3, UnderWay DEF Operation, Conn!Scopes
  <2>2. ASSUME NEW s \in Conn!Scopes, Past(y, s) PROVE Settled(y, s)'
    <3>1. CASE s = x.scope
      BY <1>2, <1>3, <3>1 DEF Settled
    <3>2. CASE s # x.scope
      <4>1. x.kind = "heal" /\ s = "workspace" /\ x.scope = "global"
        BY <1>2, <2>1, <2>2, <3>2 DEF Past, Conn!Scopes
      <4>2. Settled(x, s)
        BY <2>1, <4>1 DEF EntryOK, Past
      <4>3. mcp'[s] = mcp[s]
        BY <1>3, <3>2
      <4>4. QED
        BY <1>2, <4>1, <4>2, <4>3 DEF Settled
    <3>3. QED
      BY <3>1, <3>2
  <2>3. y.st # "dead" /\ \A s \in Conn!Scopes : mcp'[s] # Torn
    BY <1>2, <1>3
  <2>4. \A s \in Conn!Scopes : Past(y, s)' => Past(y, s)
    BY DEF Past
  <2>5. QED
    BY <2>2, <2>3, <2>4 DEF EntryOK
<1>4. ASSUME ~mixed, ~cut, IsLast(o) PROVE MdOK(y)'
  <2>1. Intact
    BY <1>4, UnderWay DEF MdOK
  <2>2. Intact'
    BY <2>1 DEF Intact, Whole, Conn!Pieces
  <2>3. QED
    BY <1>1, <1>2, <2>2 DEF MdOK
<1>5. md' \in Seq(Piece) \cup {Missing} /\ UNCHANGED <<cli, had, typed, cut, asked, mixed>>
      /\ ops' = [ops EXCEPT ![o] = y] /\ y.st \notin {"unborn", "dead"}
  BY <1>2 DEF ConnInv, ConnTyped, y
<1>6. QED
  BY <1>1, <1>2, <1>3, <1>4, <1>5, OperationMoves

LEMMA ReadsCfg ==
  ASSUME ConnInv, NEW o \in Conn!Ops, Conn!ReadCfg(o)
  PROVE  ConnInv'
<1>1. PICK x \in Operation : x = ops[o] /\ x.st = "readCfg" /\ OpHolds(x) /\ x.kind # "none"
  BY UnderWay DEF Conn!ReadCfg, OpHolds
<1>2. x.scope \in Conn!Scopes /\ x.entry \in Nat
  BY DEF Operation
<1>3. UNCHANGED <<mcp, md, cli, had, typed, cut, asked, mixed>>
  BY DEF Conn!ReadCfg
<1>4. mcp' \in [Conn!Scopes -> McpFile \cup {Missing, Torn}] /\ md' \in Seq(Piece) \cup {Missing}
  BY <1>3 DEF ConnInv, ConnTyped
<1> DEFINE f == mcp[x.scope]
<1>5. CASE f = Torn
  <2>1. ~mixed /\ IsLast(o) => FALSE
    BY <1>1, <1>2, <1>5, UnderWay DEF EntryOK
  <2>2. CASE x.kind = "heal"
    <3>1. ops' = [ops EXCEPT ![o] = After(x)]
      BY <1>1, <1>5, <2>2, AfterMoves DEF Conn!ReadCfg
    <3>2. QED
      BY <1>1, <1>3, <1>4, <2>1, <3>1, EntryIsThere
  <2>3. CASE x.kind # "heal"
    <3> DEFINE y == [x EXCEPT !.st = "failed"]
    <3>1. ops' = [ops EXCEPT ![o] = y]
      BY <1>1, <1>5, <2>3 DEF Conn!ReadCfg, Conn!Go, ConnInv, ConnTyped
    <3>2. y \in Operation /\ y.st = "failed" /\ y.kind = x.kind /\ y.scope = x.scope /\ y.entry = x.entry
      BY DEF Operation, ConnStates
    <3> HIDE DEF y
    <3>3. OpHolds(y)
      BY <1>1, <2>3, <3>2 DEF OpHolds
    <3>4. Conn!Active(o)
      BY <1>1 DEF Conn!Active
    <3>5. QED
      BY <1>3, <1>4, <2>1, <3>1, <3>2, <3>3, <3>4, OperationMoves
  <2>4. QED
    BY <2>2, <2>3
<1>6. CASE f # Torn
  <2>1. PICK c \in McpFile : /\ c = Conn!readJson(f) /\ ServersOf(c, x.scope)
                             /\ f # Missing => c = f
                             /\ f = Missing => c.entry = Conn!NoEntry
    <3>1. CASE f = Missing
      <4> DEFINE c == Conn!File(FALSE, Conn!NoEntry)
      <4>1. c = [servers |-> FALSE, entry |-> Conn!NoEntry] /\ Conn!readJson(f) = c
        BY <3>1 DEF Conn!readJson, Conn!File
      <4> HIDE DEF c
      <4>2. c \in McpFile /\ c.servers = FALSE /\ c.entry = Conn!NoEntry
        BY <4>1 DEF McpFile, Conn!NoEntry
      <4>3. x.scope \notin had
        BY <1>2, <3>1, UnderWay
      <4>4. ServersOf(c, x.scope)
        <5>1. (x.scope \in had) = FALSE
          BY <4>3
        <5>2. QED
          BY <4>2, <5>1, Zenon DEF ServersOf
      <4>5. QED
        BY <3>1, <4>1, <4>2, <4>4
    <3>2. CASE f # Missing
      BY <1>1, <1>2, <1>6, <3>2, UnderWay DEF Conn!readJson
    <3>3. QED
      BY <3>1, <3>2
  <2>2. IF c.entry = x.entry \/ (x.kind = "heal" /\ c.entry = Conn!NoEntry)
        THEN Conn!AfterEntry(o)
        ELSE ops' = [ops EXCEPT ![o].cfg = Conn!File(c.servers, x.entry), ![o].st = "openCfg"]
    BY <1>1, <1>6, <2>1 DEF Conn!ReadCfg
  <2>3. ~mixed /\ IsLast(o) => \A s \in Conn!Scopes : mcp[s] # Torn
    BY <1>1, <1>2, UnderWay DEF EntryOK
  <2>4. CASE c.entry = x.entry \/ (x.kind = "heal" /\ c.entry = Conn!NoEntry)
    <3>1. ops' = [ops EXCEPT ![o] = After(x)]
      BY <1>1, <2>2, <2>4, AfterMoves
    <3>2. Settled(x, x.scope)
      <4>1. x.kind = "connect" => x.entry # Conn!NoEntry
        BY <1>1 DEF OpHolds
      <4>2. f \in McpFile \cup {Missing}
        BY <1>1, <1>6, UnderWay
      <4>3. QED
        BY <2>1, <2>4, <4>1, <4>2, NoConfigs DEF Settled
    <3>3. Settled(x, x.scope)'
      BY <1>3, <3>2 DEF Settled
    <3>4. QED
      BY <1>1, <1>3, <1>4, <2>3, <3>1, <3>3, EntryIsThere
  <2>5. CASE ~(c.entry = x.entry \/ (x.kind = "heal" /\ c.entry = Conn!NoEntry))
    <3> DEFINE g == [servers |-> c.servers, entry |-> x.entry]
               y == [x EXCEPT !.cfg = g, !.st = "openCfg"]
    <3>1. ops' = [ops EXCEPT ![o] = y]
      BY <1>1, <2>2, <2>5 DEF Conn!File, ConnInv, ConnTyped
    <3>2. g \in McpFile /\ g.servers = c.servers /\ g.entry = x.entry
      BY <1>2, <2>1 DEF McpFile
    <3> HIDE DEF g
    <3>3. /\ y \in Operation /\ y.st = "openCfg" /\ y.kind = x.kind /\ y.scope = x.scope
          /\ y.entry = x.entry /\ y.level = x.level /\ y.cfg = g
      BY <3>2 DEF Operation, ConnStates
    <3> HIDE DEF y
    <3>4. ServersOf(g, x.scope)
      <4>1. x.entry # Conn!NoEntry => x.scope \in asked
        <5>1. CASE x.kind = "heal"
          BY <2>1, <2>5, <5>1 DEF ServersOf
        <5>2. CASE x.kind # "heal"
          BY <1>1, <5>2 DEF OpHolds, Operation
        <5>3. QED
          BY <5>1, <5>2
      <4>2. QED
        BY <2>1, <3>2, <4>1 DEF ServersOf
    <3>5. OpHolds(y)
      BY <1>1, <3>2, <3>3, <3>4 DEF OpHolds
    <3>6. Conn!Active(o)
      BY <1>1 DEF Conn!Active
    <3>7. ASSUME ~mixed, IsLast(o) PROVE EntryOK(y)'
      <4>1. EntryOK(x)
        BY <1>1, <3>7, UnderWay
      <4>2. \A s \in Conn!Scopes : Past(y, s)' => Past(x, s)
        BY <1>1, <3>3 DEF Past
      <4>3. \A s \in Conn!Scopes : Settled(x, s) => Settled(y, s)'
        BY <1>3, <3>3 DEF Settled
      <4>4. QED
        BY <1>3, <2>3, <3>3, <3>7, <4>1, <4>2, <4>3 DEF EntryOK
    <3>8. ASSUME ~mixed, ~cut, IsLast(o) PROVE MdOK(y)'
      <4>1. Intact
        BY <1>1, <3>8, UnderWay DEF MdOK
      <4>2. Intact'
        BY <1>3, <4>1 DEF Intact, Whole, Conn!Pieces
      <4>3. QED
        BY <3>3, <4>2 DEF MdOK
    <3>9. QED
      BY <1>3, <1>4, <3>1, <3>3, <3>5, <3>6, <3>7, <3>8, OperationMoves
  <2>6. QED
    BY <2>4, <2>5
<1>7. QED
  BY <1>5, <1>6

\* Alone, the file that is emptied is filled again by the same operation.
LEMMA OpensCfg ==
  ASSUME ConnInv, NEW o \in Conn!Ops, Conn!OpenCfg(o)
  PROVE  ConnInv'
<1>1. PICK x \in Operation : x = ops[o] /\ x.st = "openCfg" /\ OpHolds(x) /\ x.scope \in Conn!Scopes
  BY UnderWay DEF Conn!OpenCfg, Operation
<1>2. UNCHANGED <<md, cli, had, typed, cut, asked, mixed>> /\ mcp' = [mcp EXCEPT ![x.scope] = Torn]
  BY <1>1 DEF Conn!OpenCfg
<1>3. /\ mcp' \in [Conn!Scopes -> McpFile \cup {Missing, Torn}] /\ md' \in Seq(Piece) \cup {Missing}
      /\ mcp'[x.scope] = Torn /\ \A s \in Conn!Scopes : s # x.scope => mcp'[s] = mcp[s]
  BY <1>1, <1>2 DEF ConnInv, ConnTyped
<1> DEFINE y == [x EXCEPT !.st = "fillCfg"]
<1>4. ops' = [ops EXCEPT ![o] = y]
  BY <1>1 DEF Conn!OpenCfg, Conn!Go, ConnInv, ConnTyped
<1>5. /\ y \in Operation /\ y.st = "fillCfg" /\ y.kind = x.kind /\ y.scope = x.scope
      /\ y.entry = x.entry /\ y.level = x.level /\ y.cfg = x.cfg
  BY DEF Operation, ConnStates
<1> HIDE DEF y
<1>6. OpHolds(y) /\ Conn!Active(o)
  BY <1>1, <1>5 DEF OpHolds, Conn!Active
<1>7. ASSUME ~mixed, IsLast(o) PROVE EntryOK(y)'
  <2>1. EntryOK(x)
    BY <1>1, <1>7, UnderWay
  <2>2. ASSUME NEW s \in Conn!Scopes, Past(y, s) PROVE Settled(y, s)'
    <3>1. Past(x, s) /\ s # x.scope
      BY <1>1, <1>5, <2>2 DEF Past
    <3>2. Settled(x, s) /\ mcp'[s] = mcp[s]
      BY <1>3, <2>1, <3>1 DEF EntryOK
    <3>3. QED
      BY <1>5, <3>2 DEF Settled
  <2>3. \A s \in Conn!Scopes : Past(y, s)' => Past(y, s)
    BY DEF Past
  <2>4. \A s \in Conn!Scopes : mcp'[s] = Torn => s = x.scope
    BY <1>1, <1>3, <2>1 DEF EntryOK
  <2>5. QED
    BY <1>5, <2>2, <2>3, <2>4 DEF EntryOK
<1>8. ASSUME ~mixed, ~cut, IsLast(o) PROVE MdOK(y)'
  <2>1. Intact
    BY <1>1, <1>8, UnderWay DEF MdOK
  <2>2. Intact'
    BY <1>2, <2>1 DEF Intact, Whole, Conn!Pieces
  <2>3. QED
    BY <1>5, <2>2 DEF MdOK
<1>9. \A s \in Conn!Scopes : mcp'[s] # mcp[s] =>
        mcp'[s] # Missing /\ (mcp'[s] \in McpFile => ServersOf(mcp'[s], s))
  BY <1>3, NoConfigs
<1>10. QED
  BY <1>2, <1>3, <1>4, <1>5, <1>6, <1>7, <1>8, <1>9, OperationMoves

LEMMA FillsCfg ==
  ASSUME ConnInv, NEW o \in Conn!Ops, Conn!FillCfg(o)
  PROVE  ConnInv'
<1>1. PICK x \in Operation : x = ops[o] /\ x.st = "fillCfg" /\ OpHolds(x) /\ x.scope \in Conn!Scopes
  BY UnderWay DEF Conn!FillCfg, Operation
<1>2. UNCHANGED <<md, cli, had, typed, cut, asked, mixed>> /\ mcp' = [mcp EXCEPT ![x.scope] = x.cfg]
  BY <1>1 DEF Conn!FillCfg
<1>3. x.cfg \in McpFile /\ ServersOf(x.cfg, x.scope) /\ x.cfg.entry = x.entry /\ x.cfg # Missing
  BY <1>1, NoConfigs DEF OpHolds
<1>4. /\ mcp' \in [Conn!Scopes -> McpFile \cup {Missing, Torn}]
      /\ mcp'[x.scope] = x.cfg /\ \A s \in Conn!Scopes : s # x.scope => mcp'[s] = mcp[s]
  BY <1>1, <1>2, <1>3 DEF ConnInv, ConnTyped
<1>5. ops' = [ops EXCEPT ![o] = After(x)]
  BY <1>1, AfterMoves DEF Conn!FillCfg
<1>6. Settled(x, x.scope)'
  BY <1>3, <1>4 DEF Settled
<1>7. ASSUME ~mixed, IsLast(o) PROVE \A s \in Conn!Scopes : mcp'[s] # Torn
  <2>1. \A s \in Conn!Scopes : mcp[s] = Torn => s = x.scope
    BY <1>1, <1>7, UnderWay DEF EntryOK
  <2>2. QED
    BY <1>3, <1>4, <2>1, NoConfigs
<1>8. \A s \in Conn!Scopes : mcp'[s] # mcp[s] =>
        mcp'[s] # Missing /\ (mcp'[s] \in McpFile => ServersOf(mcp'[s], s))
  BY <1>3, <1>4
<1>9. QED
  BY <1>1, <1>2, <1>4, <1>5, <1>6, <1>7, <1>8, EntryIsThere

-----------------------------------------------------------------------------
(* CLAUDE.md.                                                                *)

\* An operation about CLAUDE.md leaves the configuration files alone.
LEMMA MdMoves ==
  ASSUME ConnInv, NEW o \in Conn!Ops, NEW x \in Operation, x = ops[o],
         x.st \in {"readMd", "openMd", "fillMd", "verify"}, NEW y \in Operation,
         ops' = [ops EXCEPT ![o] = y], UNCHANGED <<mcp, cli, had, typed, cut, asked, mixed>>,
         y.kind = x.kind, y.scope = x.scope, y.entry = x.entry, y.level = x.level,
         y.st \in {"openMd", "fillMd", "verify", "done"},
         y.st = "verify" => x.kind = "connect",
         y.st \in {"openMd", "fillMd"} =>
           y.text \in Seq(Piece) /\ (x.kind = "connect" => x.level # "none"),
         md' \in Seq(Piece) \cup {Missing},
         ~mixed /\ ~cut /\ IsLast(o) => MdOK(y)'
  PROVE  ConnInv'
<1>1. OpHolds(x) /\ Conn!Active(o) /\ x.kind # "heal"
  BY UnderWay DEF OpHolds, Conn!Active
<1>2. OpHolds(y)
  BY <1>1 DEF OpHolds
<1>3. ASSUME ~mixed, IsLast(o) PROVE EntryOK(y)'
  <2>1. EntryOK(x)
    BY <1>3, UnderWay
  <2>2. \A s \in Conn!Scopes : Past(y, s)' => Past(x, s)
    BY <1>1 DEF Past
  <2>3. \A s \in Conn!Scopes : Settled(x, s) => Settled(y, s)'
    BY DEF Settled
  <2>4. QED
    BY <2>1, <2>2, <2>3 DEF EntryOK
<1>4. mcp' \in [Conn!Scopes -> McpFile \cup {Missing, Torn}]
  BY DEF ConnInv, ConnTyped
<1>5. y.st \notin {"unborn", "dead"}
  OBVIOUS
<1>6. QED
  BY <1>1, <1>2, <1>3, <1>4, <1>5, OperationMoves

LEMMA WritesMd ==
  ASSUME ConnInv, NEW o \in Conn!Ops, Conn!writeClaudeMd(o)
  PROVE  ConnInv'
<1>1. PICK x \in Operation : x = ops[o] /\ x.st = "readMd" /\ OpHolds(x) /\ x.kind # "none"
  BY UnderWay DEF Conn!writeClaudeMd, OpHolds
<1>2. UNCHANGED <<mcp, md, cli, had, typed, cut, asked, mixed>>
      /\ md' \in Seq(Piece) \cup {Missing}
  BY DEF Conn!writeClaudeMd, ConnInv, ConnTyped
<1>3. ConnTyped /\ Conn!Pieces \in Seq(Piece) /\ Conn!stripExistingBlock(Conn!Pieces) \in Seq(Piece)
  BY PiecesType, StripType DEF ConnInv
<1>4. x.kind \in {"connect", "disconnect"}
  BY <1>1 DEF OpHolds, Operation
<1>5. ASSUME ~mixed, ~cut, IsLast(o)
      PROVE  /\ Intact' /\ Conn!stripExistingBlock(Conn!Pieces) = typed
             /\ ~Conn!HasBlock(Conn!Pieces) => Whole(<< >>)
  <2>1. MdOK(x)
    BY <1>1, <1>5, UnderWay
  <2>2. PICK b \in Conn!Blocks \cup {<< >>} : Whole(b)
    BY <1>1, <2>1 DEF MdOK, Intact
  <2>3. Intact'
    BY <1>2, <2>2 DEF Intact, Whole, Conn!Pieces
  <2>4. QED
    BY <1>1, <1>3, <2>1, <2>2, <2>3, TakesOut DEF MdOK
<1>6. CASE x.kind = "disconnect" /\ ~Conn!HasBlock(Conn!Pieces)
  <2> DEFINE y == [x EXCEPT !.st = "done"]
  <2>1. ops' = [ops EXCEPT ![o] = y]
    BY <1>1, <1>6 DEF Conn!writeClaudeMd, Conn!Go, ConnInv, ConnTyped
  <2>2. /\ y \in Operation /\ y.st = "done" /\ y.kind = x.kind /\ y.scope = x.scope
        /\ y.entry = x.entry /\ y.level = x.level
    BY DEF Operation, ConnStates
  <2> HIDE DEF y
  <2>3. ASSUME ~mixed, ~cut, IsLast(o) PROVE MdOK(y)'
    <3>1. Whole(<< >>)' /\ Intact'
      BY <1>2, <1>5, <1>6, <2>3 DEF Whole, Conn!Pieces
    <3>2. QED
      BY <1>6, <2>2, <3>1 DEF MdOK
  <2>4. QED
    BY <1>1, <1>2, <2>1, <2>2, <2>3, MdMoves
<1>7. CASE ~(x.kind = "disconnect" /\ ~Conn!HasBlock(Conn!Pieces))
  <2>1. PICK t \in Seq(Piece) :
          /\ t = IF x.kind = "disconnect" THEN Conn!stripExistingBlock(Conn!Pieces)
                 ELSE Conn!stripExistingBlock(Conn!Pieces) \o Conn!buildInstructionsBlock(x.level)
          /\ ~mixed /\ ~cut /\ IsLast(o) => t = Wanted(x)
    <3>1. CASE x.kind = "disconnect"
      BY <1>3, <1>5, <3>1 DEF Wanted
    <3>2. CASE x.kind = "connect"
      <4> DEFINE b == Conn!buildInstructionsBlock(x.level)
                 t == Conn!stripExistingBlock(Conn!Pieces) \o b
      <4>1. x.level \in {"light", "full"}
        BY <1>1, <3>2 DEF OpHolds, Operation, Conn!Levels
      <4>2. b \in Seq(Piece)
        BY <4>1, BlockType
      <4>3. t \in Seq(Piece)
        BY <1>3, <4>2, ConcatProperties
      <4>4. ~mixed /\ ~cut /\ IsLast(o) => t = Wanted(x)
        <5>1. SUFFICES ASSUME ~mixed, ~cut, IsLast(o) PROVE t = Wanted(x)
          OBVIOUS
        <5>2. t = typed \o b /\ t \in Seq(Piece)
          BY <1>5, <4>3, <5>1
        <5>3. t = t \o << >>
          BY <5>2, ConcatEmptySeq
        <5>4. QED
          BY <3>2, <5>2, <5>3 DEF Wanted, Around
      <4>5. QED
        BY <3>2, <4>3, <4>4
    <3>3. QED
      BY <1>4, <3>1, <3>2
  <2> DEFINE y == [x EXCEPT !.text = t, !.st = "openMd"]
  <2>2. ops' = [ops EXCEPT ![o] = y]
    BY <1>1, <1>7, <2>1 DEF Conn!writeClaudeMd, ConnInv, ConnTyped
  <2>3. /\ y \in Operation /\ y.st = "openMd" /\ y.kind = x.kind /\ y.scope = x.scope
        /\ y.entry = x.entry /\ y.level = x.level /\ y.text = t
    BY DEF Operation, ConnStates
  <2> HIDE DEF y
  <2>4. ASSUME ~mixed, ~cut, IsLast(o) PROVE MdOK(y)'
    <3>1. Intact' /\ t = Wanted(x)
      BY <1>5, <2>1, <2>4
    <3>2. Wanted(y)' = Wanted(x)
      BY <1>2, <2>3 DEF Wanted
    <3>3. QED
      BY <2>3, <3>1, <3>2 DEF MdOK
  <2>5. x.kind = "connect" => x.level # "none"
    BY <1>1 DEF OpHolds
  <2>6. QED
    BY <1>1, <1>2, <2>2, <2>3, <2>4, <2>5, MdMoves
<1>8. QED
  BY <1>6, <1>7

LEMMA OpensMd ==
  ASSUME ConnInv, NEW o \in Conn!Ops, Conn!OpenMd(o)
  PROVE  ConnInv'
<1>1. PICK x \in Operation : x = ops[o] /\ x.st = "openMd" /\ OpHolds(x) /\ x.kind # "none"
  BY UnderWay DEF Conn!OpenMd, OpHolds
<1>2. UNCHANGED <<mcp, cli, had, typed, cut, asked, mixed>> /\ ConnTyped
  BY DEF Conn!OpenMd, ConnInv
<1>3. x.text \in Seq(Piece) /\ x.kind \in {"connect", "disconnect"} /\ typed \in Seq(Conn!Text)
  BY <1>1, <1>2 DEF OpHolds, Operation, ConnTyped
<1>4. ~mixed /\ ~cut /\ IsLast(o) => MdOK(x) /\ x.text = Wanted(x)
  BY <1>1, UnderWay DEF MdOK
<1>5. CASE x.text = << >>
  <2> DEFINE y == [x EXCEPT !.st = "done"]
  <2>1. ops' = [ops EXCEPT ![o] = y] /\ md' = Missing
    BY <1>1, <1>5 DEF Conn!OpenMd, Conn!Go, ConnInv, ConnTyped
  <2>2. /\ y \in Operation /\ y.st = "done" /\ y.kind = x.kind /\ y.scope = x.scope
        /\ y.entry = x.entry /\ y.level = x.level
    BY DEF Operation, ConnStates
  <2> HIDE DEF y
  <2>3. ASSUME ~mixed, ~cut, IsLast(o) PROVE MdOK(y)'
    <3>1. x.kind # "connect"
      <4>1. SUFFICES ASSUME x.kind = "connect" PROVE FALSE
        OBVIOUS
      <4>2. x.level \in {"light", "full"}
        BY <1>1, <4>1 DEF OpHolds, Operation, Conn!Levels
      <4>3. Around(typed, Conn!buildInstructionsBlock(x.level), << >>) = << >>
        BY <1>4, <1>5, <2>3, <4>1 DEF Wanted
      <4>4. Len(Around(typed, Conn!buildInstructionsBlock(x.level), << >>)) = Len(typed) + 3 + Len(<< >>)
        <5> DEFINE c == << >>
        <5>1. c \in Seq(Conn!Text)
          OBVIOUS
        <5> HIDE DEF c
        <5>2. Len(Around(typed, Conn!buildInstructionsBlock(x.level), c)) = Len(typed) + 3 + Len(c)
          BY <1>3, <4>2, <5>1, AroundBlock
        <5>3. QED
          BY <5>2 DEF c
      <4>5. Len(typed) \in Nat /\ Len(<< >>) = 0
        BY <1>3
      <4>6. QED
        BY <4>3, <4>4, <4>5
    <3>2. typed = << >>
      BY <1>4, <1>5, <2>3, <3>1 DEF Wanted
    <3>3. Conn!Pieces' = << >> /\ typed' = << >>
      BY <1>2, <2>1, <3>2 DEF Conn!Pieces
    <3>4. Whole(<< >>)'
      <4>1. << >> \in Seq(Conn!Text)
        OBVIOUS
      <4>2. Around(<< >>, << >>, << >>) = << >> \o << >> /\ << >> \o << >> = << >>
        BY <4>1, AroundNothing, ConcatEmptySeq
      <4>3. QED
        BY <3>3, <4>1, <4>2 DEF Whole
    <3>5. Intact'
      BY <3>4 DEF Intact
    <3>6. QED
      BY <2>2, <3>1, <3>4, <3>5 DEF MdOK
  <2>4. QED
    BY <1>1, <1>2, <2>1, <2>2, <2>3, MdMoves
<1>6. CASE x.text # << >>
  <2> DEFINE y == [x EXCEPT !.st = "fillMd"]
  <2>1. ops' = [ops EXCEPT ![o] = y] /\ md' = << >>
    BY <1>1, <1>6 DEF Conn!OpenMd, Conn!Go, ConnInv, ConnTyped
  <2>2. /\ y \in Operation /\ y.st = "fillMd" /\ y.kind = x.kind /\ y.scope = x.scope
        /\ y.entry = x.entry /\ y.level = x.level /\ y.text = x.text
    BY DEF Operation, ConnStates
  <2> HIDE DEF y
  <2>3. ASSUME ~mixed, ~cut, IsLast(o) PROVE MdOK(y)'
    <3>1. Wanted(y)' = Wanted(x)
      BY <1>2, <2>2 DEF Wanted
    <3>2. QED
      BY <1>1, <1>4, <2>1, <2>2, <2>3, <3>1 DEF MdOK
  <2>4. md' \in Seq(Piece) /\ (x.kind = "connect" => x.level # "none")
    BY <1>1, <2>1 DEF OpHolds
  <2>5. QED
    BY <1>1, <1>2, <1>3, <2>1, <2>2, <2>3, <2>4, MdMoves
<1>7. QED
  BY <1>5, <1>6

LEMMA FillsMd ==
  ASSUME ConnInv, NEW o \in Conn!Ops, Conn!FillMd(o)
  PROVE  ConnInv'
<1>1. PICK x \in Operation : x = ops[o] /\ x.st = "fillMd" /\ OpHolds(x) /\ x.kind # "none"
  BY UnderWay DEF Conn!FillMd, OpHolds
<1>2. UNCHANGED <<mcp, cli, had, typed, cut, asked, mixed>> /\ ConnTyped /\ md' = x.text
  BY <1>1 DEF Conn!FillMd, ConnInv
<1>3. x.text \in Seq(Piece) /\ x.kind \in {"connect", "disconnect"} /\ typed \in Seq(Conn!Text)
  BY <1>1, <1>2 DEF OpHolds, Operation, ConnTyped
<1>4. ~mixed /\ ~cut /\ IsLast(o) => MdOK(x) /\ x.text = Wanted(x)
  BY <1>1, UnderWay DEF MdOK
<1> DEFINE st == IF x.kind = "connect" THEN "verify" ELSE "done"
           y == [x EXCEPT !.st = st]
<1>5. ops' = [ops EXCEPT ![o] = y]
  BY <1>1 DEF Conn!FillMd, Conn!Go, ConnInv, ConnTyped
<1>6. st \in {"verify", "done"} /\ (st = "verify" <=> x.kind = "connect")
  OBVIOUS
<1> HIDE DEF st
<1>7. /\ y \in Operation /\ y.st = st /\ y.kind = x.kind /\ y.scope = x.scope
      /\ y.entry = x.entry /\ y.level = x.level
  BY <1>6 DEF Operation, ConnStates
<1> HIDE DEF y
<1>8. ASSUME ~mixed, ~cut, IsLast(o) PROVE MdOK(y)'
  <2>1. ConnTyped'
    <3>1. ops' \in [Conn!Ops -> Operation]
      BY <1>2, <1>5, <1>7 DEF ConnTyped
    <3>2. QED
      BY <1>2, <1>3, <3>1 DEF ConnTyped
  <2>2. Conn!Pieces' = x.text
    BY <1>2, <1>3, NoConfigs DEF Conn!Pieces
  <2>3. CASE x.kind = "connect"
    <3>1. x.level \in {"light", "full"} /\ x.text = Around(typed, Conn!buildInstructionsBlock(x.level), << >>)
      BY <1>1, <1>4, <1>8, <2>3 DEF OpHolds, Operation, Conn!Levels, Wanted
    <3>2. Conn!buildInstructionsBlock(x.level) \in Conn!Blocks
      BY <3>1, OfBlocks
    <3>3. Whole(Conn!buildInstructionsBlock(x.level))'
      <4>1. << >> \in Seq(Conn!Text) /\ typed = typed \o << >>
        BY <1>3, ConcatEmptySeq
      <4>2. QED
        BY <1>2, <1>3, <2>2, <3>1, <4>1 DEF Whole
    <3>4. Intact'
      BY <3>2, <3>3 DEF Intact
    <3>5. QED
      BY <1>6, <1>7, <2>3, <3>3, <3>4 DEF MdOK
  <2>4. CASE x.kind = "disconnect"
    <3>1. Conn!Pieces' = typed'
      BY <1>2, <1>4, <1>8, <2>2, <2>4 DEF Wanted
    <3>2. Whole(<< >>)'
      <4>1. << >> \in Seq(Conn!Text) /\ typed = typed \o << >>
        BY <1>3, ConcatEmptySeq
      <4>2. Around(typed, << >>, << >>) = typed \o << >>
        BY <1>3, <4>1, AroundNothing
      <4>3. QED
        BY <1>2, <1>3, <3>1, <4>1, <4>2 DEF Whole
    <3>3. Intact'
      BY <3>2 DEF Intact
    <3>4. QED
      BY <1>6, <1>7, <2>4, <3>2, <3>3 DEF MdOK
  <2>5. QED
    BY <1>3, <2>3, <2>4
<1>9. QED
  BY <1>1, <1>2, <1>3, <1>5, <1>6, <1>7, <1>8, MdMoves

LEMMA Verifies ==
  ASSUME ConnInv, NEW o \in Conn!Ops, Conn!verifyConnect(o)
  PROVE  ConnInv'
<1>1. PICK x \in Operation : x = ops[o] /\ x.st = "verify" /\ OpHolds(x) /\ x.kind = "connect"
  BY UnderWay DEF Conn!verifyConnect, OpHolds
<1>2. UNCHANGED <<mcp, md, cli, had, typed, cut, asked, mixed>>
      /\ md' \in Seq(Piece) \cup {Missing}
  BY DEF Conn!verifyConnect, ConnInv, ConnTyped
<1> DEFINE y == [x EXCEPT !.st = "done"]
<1>3. ops' = [ops EXCEPT ![o] = y]
  BY <1>1 DEF Conn!verifyConnect, Conn!Go, ConnInv, ConnTyped
<1>4. /\ y \in Operation /\ y.st = "done" /\ y.kind = x.kind /\ y.scope = x.scope
      /\ y.entry = x.entry /\ y.level = x.level
  BY DEF Operation, ConnStates
<1> HIDE DEF y
<1>5. ASSUME ~mixed, ~cut, IsLast(o) PROVE MdOK(y)'
  <2>1. Intact /\ (x.level # "none" => Whole(Conn!buildInstructionsBlock(x.level)))
    BY <1>1, <1>5, UnderWay DEF MdOK
  <2>2. Intact' /\ (x.level # "none" => Whole(Conn!buildInstructionsBlock(x.level))')
    BY <1>2, <2>1 DEF Intact, Whole, Conn!Pieces
  <2>3. QED
    BY <1>1, <1>4, <2>2 DEF MdOK
<1>6. QED
  BY <1>1, <1>2, <1>3, <1>4, <1>5, MdMoves

\* Of the operations that began, one is the last.
LEMMA LastOne ==
  ASSUME \E o \in Conn!Ops : CBegun(o)
  PROVE  \E o \in Conn!Ops : IsLast(o)
<1> DEFINE B == {o \in Conn!Ops : CBegun(o)}
           D == {MaxOps - o : o \in B}
           R == OpToRel(<, Nat)
<1>1. MaxOps \in Nat /\ \A o \in B : o \in Nat /\ MaxOps - o \in Nat
  BY FilesAssumption, ChangesAssumption DEF Conn!Ops
<1>2. B \subseteq Conn!Ops /\ B # {}
  OBVIOUS
<1>3. \A o \in Conn!Ops : o \in B <=> CBegun(o)
  OBVIOUS
<1> HIDE DEF B
<1>4. D \subseteq Nat /\ D # {}
  BY <1>1, <1>2
<1>5. IsWellFoundedOn(R, Nat)
  BY NatLessThanWellFounded
<1>6. \A x1, y1 \in Nat : y1 < x1 => <<y1, x1>> \in R
  BY DEF OpToRel
<1> HIDE DEF R
<1>7. PICK d \in D : \A e \in D : ~(<<e, d>> \in R)
  <2> HIDE DEF D
  <2>1. QED
    BY <1>4, <1>5, WFMin
<1>8. PICK o \in B : d = MaxOps - o
  OBVIOUS
<1>9. ASSUME NEW p \in Conn!Ops, p > o PROVE p \notin B
  <2>1. SUFFICES ASSUME p \in B PROVE FALSE
    OBVIOUS
  <2>2. MaxOps - p \in D /\ MaxOps - p \in Nat /\ d \in Nat
    BY <1>1, <1>8, <2>1
  <2>3. MaxOps - p < d
    BY <1>1, <1>8, <1>9, <2>1
  <2>4. QED
    BY <1>6, <1>7, <2>2, <2>3
<1>10. QED
  BY <1>2, <1>3, <1>8, <1>9 DEF IsLast

-----------------------------------------------------------------------------
(* Operations begin and die, and the user edits.                             *)

\* An operation begins: it is the last one from now on.
LEMMA OperationBegins ==
  ASSUME ConnInv, NEW o \in Conn!Ops, NEW x \in Operation, Conn!Begin(o, x), x.st = "readCfg",
         x.kind # "none", x.kind # "heal" => x.scope \in asked' \/ x.kind = "disconnect",
         x.kind = "heal" => x.scope = "workspace",
         x.kind = "connect" => x.entry # Conn!NoEntry, x.kind = "disconnect" => x.entry = Conn!NoEntry,
         cli' \in Nat \ {0}, asked \subseteq asked', asked' \subseteq Conn!Scopes
  PROVE  ConnInv'
<1>1. /\ ops[o].st = "unborn" /\ \A p \in Conn!Ops : p < o => CBegun(p)
      /\ ops' = [ops EXCEPT ![o] = x]
      /\ mixed' = (mixed \/ Conn!Others(o))
      /\ UNCHANGED <<mcp, md, had, typed, cut>>
  BY DEF Conn!Begin, CBegun
<1>2. /\ ops' \in [Conn!Ops -> Operation] /\ ops'[o] = x
      /\ \A p \in Conn!Ops : p # o => ops'[p] = ops[p]
  BY <1>1 DEF ConnInv, ConnTyped
<1>3. mixed \in BOOLEAN /\ mixed' \in BOOLEAN
  BY <1>1 DEF ConnInv, ConnTyped
<1>4. ConnTyped'
  BY <1>1, <1>2, <1>3 DEF ConnInv, ConnTyped
<1>5. OpHolds(x)'
  BY DEF OpHolds
<1>6. FilesHeld'
  <2>1. ASSUME NEW s \in Conn!Scopes
        PROVE  /\ (mcp[s] = Missing => s \notin had)'
               /\ (mcp[s] \in McpFile => ServersOf(mcp[s], s))'
    BY <1>1 DEF ConnInv, FilesHeld, ServersOf
  <2>2. ASSUME NEW p \in Conn!Ops PROVE OpHolds(ops[p])'
    <3>1. CASE p = o
      BY <1>2, <1>5, <3>1 DEF OpHolds
    <3>2. CASE p # o
      <4>1. OpHolds(ops[p]) /\ ops'[p] = ops[p]
        BY <1>2, <3>2 DEF ConnInv, FilesHeld
      <4>2. QED
        BY <1>1, <4>1 DEF OpHolds, ServersOf
    <3>3. QED
      BY <3>1, <3>2
  <2>3. QED
    BY <2>1, <2>2 DEF FilesHeld
<1>7. \A p, r \in Conn!Ops : p # r => (p < r \/ r < p) /\ ~(p < r /\ r < p) /\ (p > r <=> r < p)
  BY FilesAssumption, ChangesAssumption DEF Conn!Ops
<1>8. \A p \in Conn!Ops : CBegun(p)' <=> (CBegun(p) \/ p = o)
  BY <1>1, <1>2 DEF CBegun
<1>9. InOrder'
  BY <1>1, <1>7, <1>8 DEF ConnInv, InOrder
<1>10. ~CBegun(o) /\ \A p \in Conn!Ops : p > o => ~CBegun(p)
  BY <1>1, <1>7 DEF ConnInv, InOrder, CBegun
<1>11. \A p \in Conn!Ops : IsLast(p)' <=> p = o
  <2>1. IsLast(o)'
    <3>1. \A p \in Conn!Ops : p > o => p # o
      BY FilesAssumption, ChangesAssumption DEF Conn!Ops
    <3>2. QED
      BY <1>8, <1>10, <3>1 DEF IsLast
  <2>2. ASSUME NEW p \in Conn!Ops, p # o PROVE ~IsLast(p)'
    <3>1. CASE p < o
      BY <1>7, <1>8, <2>2, <3>1 DEF IsLast
    <3>2. CASE p > o
      BY <1>8, <1>10, <2>2, <3>2 DEF IsLast
    <3>3. QED
      BY <1>7, <2>2, <3>1, <3>2
  <2>3. QED
    BY <2>1, <2>2
<1>12. ~mixed' => ~mixed /\ \A p \in Conn!Ops : ~Conn!Active(p)
  BY <1>1, <1>3 DEF Conn!Others, Conn!Active
<1>13. ASSUME ~mixed' PROVE \A s \in Conn!Scopes : mcp[s] # Torn
  <2>1. ~mixed /\ \A p \in Conn!Ops : ~Conn!Active(p)
    BY <1>12, <1>13
  <2>2. CASE \A p \in Conn!Ops : ~CBegun(p)
    BY <2>1, <2>2 DEF ConnInv, Alone
  <2>3. CASE \E p \in Conn!Ops : CBegun(p)
    <3>1. PICK p \in Conn!Ops : IsLast(p)
      BY <2>3, LastOne DEF ConnInv
    <3>2. EntryOK(ops[p]) /\ ~Conn!Active(p)
      BY <2>1, <3>1 DEF ConnInv, Alone
    <3>3. QED
      BY <3>2 DEF EntryOK, Conn!Active
  <2>4. QED
    BY <2>2, <2>3
<1>14. Alone'
  <2>1. SUFFICES ASSUME ~mixed'
                 PROVE  /\ \A p \in Conn!Ops : (Conn!Active(p) => IsLast(p))'
                        /\ \A p \in Conn!Ops : ops'[p].st # "dead"
                        /\ EntryOK(ops[o])'
    BY <1>8, <1>11 DEF Alone
  <2>2. ~mixed /\ \A p \in Conn!Ops : ~Conn!Active(p)
    BY <1>12, <2>1
  <2>3. \A p \in Conn!Ops : ops'[p].st # "dead"
    BY <1>2, <2>2 DEF ConnInv, Alone
  <2>4. \A p \in Conn!Ops : (Conn!Active(p) => IsLast(p))'
    BY <1>2, <1>11, <2>2 DEF Conn!Active
  <2>5. EntryOK(ops[o])'
    <3>1. \A s \in Conn!Scopes : ~Past(x, s)
      BY DEF Past
    <3>2. \A s \in Conn!Scopes : mcp'[s] # Torn
      BY <1>1, <1>13, <2>1
    <3>3. QED
      BY <1>2, <3>1, <3>2 DEF EntryOK, Past
  <2>6. QED
    BY <2>3, <2>4, <2>5
<1>15. Unmarred'
  <2>1. SUFFICES ASSUME ~mixed', ~cut PROVE MdOK(ops[o])'
    BY <1>1, <1>8, <1>11 DEF Unmarred
  <2>2. ~mixed /\ \A p \in Conn!Ops : ~Conn!Active(p)
    BY <1>12, <2>1
  <2>3. Intact
    <3>1. CASE \A p \in Conn!Ops : ~CBegun(p)
      BY <2>1, <2>2, <3>1 DEF ConnInv, Unmarred
    <3>2. CASE \E p \in Conn!Ops : CBegun(p)
      <4>1. PICK p \in Conn!Ops : IsLast(p)
        BY <3>2, LastOne DEF ConnInv
      <4>2. MdOK(ops[p]) /\ ~Conn!Active(p)
        BY <2>1, <2>2, <4>1 DEF ConnInv, Unmarred
      <4>3. QED
        BY <4>2 DEF MdOK, Conn!Active
    <3>3. QED
      BY <3>1, <3>2
  <2>4. Intact'
    BY <1>1, <2>3 DEF Intact, Whole, Conn!Pieces
  <2>5. QED
    BY <1>2, <2>4 DEF MdOK
<1>16. QED
  BY <1>4, <1>6, <1>9, <1>14, <1>15 DEF ConnInv

LEMMA Connects ==
  ASSUME ConnInv, NEW o \in Conn!Ops, NEW s \in Conn!Scopes, NEW level \in Conn!Levels,
         Conn!connectClaudeCode(o, s, level)
  PROVE  ConnInv'
<1> DEFINE x == [Conn!Unborn EXCEPT !.kind = "connect", !.scope = s, !.level = level,
                                    !.entry = cli, !.st = "readCfg"]
<1>1. Conn!Begin(o, x) /\ asked' = asked \cup {s} /\ cli' = cli
  BY DEF Conn!connectClaudeCode, Conn!resolveBinaryPath
<1>2. cli \in Nat \ {0} /\ asked \subseteq Conn!Scopes
  BY DEF ConnInv, ConnTyped
<1>3. PICK n \in Nat \ {0} : n = cli
  BY <1>2
<1> DEFINE y == [Conn!Unborn EXCEPT !.kind = "connect", !.scope = s, !.level = level,
                                    !.entry = n, !.st = "readCfg"]
<1>4. Conn!Begin(o, y)
  BY <1>1, <1>3
<1>5. /\ y \in Operation /\ y.kind = "connect" /\ y.scope = s /\ y.entry = n /\ y.st = "readCfg"
  BY DEF Conn!Unborn, Operation, ConnStates, Conn!NoEntry, Conn!Scopes, Conn!Levels
<1> HIDE DEF x, y
<1>6. y.entry # Conn!NoEntry
  BY <1>5 DEF Conn!NoEntry
<1>7. cli' \in Nat \ {0} /\ asked \subseteq asked' /\ asked' \subseteq Conn!Scopes /\ y.scope \in asked'
  BY <1>1, <1>2, <1>5
<1>8. y.kind # "none" /\ y.kind # "heal" /\ y.kind # "disconnect"
  BY <1>5
<1>9. QED
  BY <1>4, <1>5, <1>6, <1>7, <1>8, OperationBegins

LEMMA Disconnects ==
  ASSUME ConnInv, NEW o \in Conn!Ops, NEW s \in Conn!Scopes, Conn!disconnectClaudeCode(o, s)
  PROVE  ConnInv'
<1> DEFINE y == [Conn!Unborn EXCEPT !.kind = "disconnect", !.scope = s, !.st = "readCfg"]
<1>1. Conn!Begin(o, y) /\ asked' = asked /\ cli' = cli
  BY DEF Conn!disconnectClaudeCode
<1>2. /\ y \in Operation /\ y.kind = "disconnect" /\ y.scope = s /\ y.entry = Conn!NoEntry
      /\ y.st = "readCfg"
  BY DEF Conn!Unborn, Operation, ConnStates, Conn!NoEntry, Conn!Scopes, Conn!Levels
<1> HIDE DEF y
<1>3. cli' \in Nat \ {0} /\ asked \subseteq asked' /\ asked' \subseteq Conn!Scopes
  BY <1>1 DEF ConnInv, ConnTyped
<1>4. y.kind # "none" /\ y.kind # "heal" /\ y.kind # "connect"
  BY <1>2
<1>5. QED
  BY <1>1, <1>2, <1>3, <1>4, OperationBegins

LEMMA Heals ==
  ASSUME ConnInv, NEW o \in Conn!Ops, NEW v \in 1 .. MaxCli, Conn!HostInfo(o, v)
  PROVE  ConnInv'
<1> DEFINE y == [Conn!Unborn EXCEPT !.kind = "heal", !.entry = v, !.st = "readCfg"]
<1>1. Conn!Begin(o, y) /\ asked' = asked /\ cli' = v
  BY DEF Conn!HostInfo
<1>2. v \in Nat \ {0}
  BY FilesAssumption, ChangesAssumption
<1>3. /\ y \in Operation /\ y.kind = "heal" /\ y.scope = "workspace" /\ y.st = "readCfg"
  BY <1>2 DEF Conn!Unborn, Operation, ConnStates, Conn!NoEntry, Conn!Scopes, Conn!Levels
<1> HIDE DEF y
<1>4. cli' \in Nat \ {0} /\ asked \subseteq asked' /\ asked' \subseteq Conn!Scopes
  BY <1>1, <1>2 DEF ConnInv, ConnTyped
<1>5. y.kind # "none" /\ y.kind # "connect" /\ y.kind # "disconnect"
  BY <1>3
<1>6. QED
  BY <1>1, <1>3, <1>4, <1>5, OperationBegins

LEMMA Perishes ==
  ASSUME ConnInv, NEW o \in Conn!Ops, Conn!Crash(o)
  PROVE  ConnInv'
<1>1. PICK x \in Operation : x = ops[o] /\ x.st # "unborn" /\ OpHolds(x)
  BY UnderWay DEF Conn!Crash, Conn!Active
<1> DEFINE y == [x EXCEPT !.st = "dead"]
<1>2. /\ ops' = [ops EXCEPT ![o] = y] /\ mixed' = TRUE
      /\ UNCHANGED <<mcp, md, cli, had, typed, cut, asked>>
  BY <1>1 DEF Conn!Crash, Conn!Go, ConnInv, ConnTyped
<1>3. /\ y \in Operation /\ y.st = "dead" /\ y.kind = x.kind /\ y.scope = x.scope
      /\ y.entry = x.entry
  BY DEF Operation, ConnStates
<1> HIDE DEF y
<1>4. OpHolds(y)
  BY <1>1, <1>3 DEF OpHolds
<1>5. /\ ops' \in [Conn!Ops -> Operation] /\ ops'[o] = y
      /\ \A p \in Conn!Ops : p # o => ops'[p] = ops[p]
  BY <1>2, <1>3 DEF ConnInv, ConnTyped
<1>6. ConnTyped'
  BY <1>2, <1>5 DEF ConnInv, ConnTyped
<1>7. FilesHeld'
  <2>1. ASSUME NEW p \in Conn!Ops PROVE OpHolds(ops[p])'
    <3>1. OpHolds(ops'[p])
      BY <1>4, <1>5 DEF ConnInv, FilesHeld
    <3>2. QED
      BY <1>2, <3>1 DEF OpHolds, ServersOf
  <2>2. QED
    BY <1>2, <2>1 DEF ConnInv, FilesHeld, ServersOf
<1>8. InOrder'
  BY <1>1, <1>3, <1>5 DEF ConnInv, InOrder, CBegun
<1>9. QED
  BY <1>2, <1>6, <1>7, <1>8 DEF ConnInv, Alone, Unmarred

\* The user's edits leave everything but CLAUDE.md alone.
LEMMA UserFrame ==
  ASSUME ConnInv, UNCHANGED <<ops, mcp, cli, had, asked, mixed>>
  PROVE  /\ FilesHeld' /\ InOrder' /\ Alone'
         /\ \A o \in Conn!Ops : (CBegun(o)' <=> CBegun(o)) /\ (IsLast(o)' <=> IsLast(o))
<1>1. FilesHeld' /\ InOrder'
  BY DEF ConnInv, FilesHeld, InOrder, OpHolds, ServersOf, CBegun
<1>2. \A o \in Conn!Ops : (CBegun(o)' <=> CBegun(o)) /\ (IsLast(o)' <=> IsLast(o))
  BY DEF CBegun, IsLast
<1>3. \A o \in Conn!Ops : EntryOK(ops[o]) => EntryOK(ops[o])'
  BY DEF EntryOK, Past, Settled
<1>4. Alone'
  BY <1>2, <1>3 DEF ConnInv, Alone, Conn!Active
<1>5. QED
  BY <1>1, <1>2, <1>4

LEMMA UserWritesKeeps == ASSUME ConnInv, Conn!UserWrites PROVE ConnInv'
<1>1. /\ typed' = Append(typed, "more") /\ md' = Append(Conn!Pieces, "more")
      /\ UNCHANGED <<ops, mcp, cli, had, cut, asked, mixed>>
      /\ ConnTyped /\ \A o \in Conn!Ops : ~Conn!Active(o)
  BY DEF Conn!UserWrites, Conn!Quiet, ConnInv
<1>2. "more" \in Conn!Text /\ "more" \in Piece /\ Conn!Pieces \in Seq(Piece) /\ typed \in Seq(Conn!Text)
  BY <1>1, PiecesType DEF Conn!Text, Piece, ConnTyped
<1>3. typed' \in Seq(Conn!Text) /\ md' \in Seq(Piece)
  BY <1>1, <1>2, AppendProperties
<1>4. ConnTyped'
  BY <1>1, <1>3 DEF ConnTyped
<1>5. \A b \in Conn!Blocks \cup {<< >>} : Whole(b) => Whole(b)'
  BY <1>1, UserAdds
<1>6. Intact => Intact'
  <2>1. (Conn!Blocks \cup {<< >>})' = Conn!Blocks \cup {<< >>}
    BY OfBlocks
  <2>2. QED
    BY <1>5, <2>1 DEF Intact
<1>7. ASSUME NEW o \in Conn!Ops, IsLast(o), MdOK(ops[o]) PROVE MdOK(ops[o])'
  <2>1. ops[o].st \in {"done", "failed", "dead"} /\ ops[o] \in Operation
    BY <1>1, <1>7 DEF IsLast, CBegun, Conn!Active, ConnTyped
  <2>2. PICK x \in Operation : x = ops[o]
    BY <2>1
  <2>3. Intact'
    BY <1>6, <1>7, <2>1 DEF MdOK
  <2>4. ASSUME x.kind = "connect", x.st \in {"verify", "done"}, x.level # "none"
        PROVE  Whole(Conn!buildInstructionsBlock(x.level))'
    <3> DEFINE b == Conn!buildInstructionsBlock(x.level)
    <3>1. b \in Conn!Blocks
      BY <2>4 DEF Conn!Blocks, Operation
    <3>2. Whole(b)
      BY <1>7, <2>2, <2>4 DEF MdOK
    <3> HIDE DEF b
    <3>3. Whole(b)'
      BY <1>5, <3>1, <3>2
    <3>4. QED
      BY <3>3 DEF b
  <2>5. x.kind = "disconnect" /\ x.st = "done" => Whole(<< >>)'
    BY <1>5, <1>7, <2>2 DEF MdOK
  <2>6. MdOK(x)'
    BY <2>1, <2>2, <2>3, <2>4, <2>5 DEF MdOK
  <2>7. QED
    BY <1>1, <2>2, <2>6
<1>8. FilesHeld' /\ InOrder' /\ Alone'
      /\ \A o \in Conn!Ops : (CBegun(o)' <=> CBegun(o)) /\ (IsLast(o)' <=> IsLast(o))
  BY <1>1, UserFrame
<1>9. Unmarred'
  BY <1>1, <1>6, <1>7, <1>8 DEF ConnInv, Unmarred
<1>10. QED
  BY <1>4, <1>8, <1>9 DEF ConnInv

LEMMA UserCutsKeeps == ASSUME ConnInv, Conn!UserCutsEnd PROVE ConnInv'
<1>1. /\ cut' = TRUE /\ md' = Conn!RemoveAt(md, Conn!Position(md, "END", 1))
      /\ Conn!Position(Conn!Pieces, "END", 1) # 0
      /\ UNCHANGED <<ops, mcp, cli, had, typed, asked, mixed>> /\ ConnTyped
  BY DEF Conn!UserCutsEnd, ConnInv
<1>2. Conn!Pieces \in Seq(Piece)
  BY <1>1, PiecesType
<1>3. Conn!Position(Conn!Pieces, "END", 1) \in 1 .. Len(Conn!Pieces)
  BY <1>1, <1>2, PositionType
<1>4. md = Conn!Pieces
  <2>1. SUFFICES ASSUME md = Missing PROVE FALSE
    BY DEF Conn!Pieces
  <2>2. Len(Conn!Pieces) = 0
    BY <2>1 DEF Conn!Pieces
  <2>3. QED
    BY <1>3, <2>2
<1>5. md' \in Seq(Piece)
  <2>1. PICK i \in 1 .. Len(md) : i = Conn!Position(md, "END", 1)
    BY <1>3, <1>4
  <2>2. md' = SubSeq(md, 1, i - 1) \o SubSeq(md, i + 1, Len(md))
    BY <1>1, <2>1 DEF Conn!RemoveAt
  <2>3. md \in Seq(Piece) /\ Len(md) \in Nat
    BY <1>2, <1>4
  <2>4. SubSeq(md, 1, i - 1) \in Seq(Piece) /\ SubSeq(md, i + 1, Len(md)) \in Seq(Piece)
    BY <2>1, <2>3, SubSeqProperties
  <2>5. QED
    BY <2>2, <2>4, ConcatProperties
<1>6. ConnTyped'
  BY <1>1, <1>5 DEF ConnTyped
<1>7. FilesHeld' /\ InOrder' /\ Alone'
  BY <1>1, UserFrame
<1>8. QED
  BY <1>1, <1>6, <1>7 DEF ConnInv, Unmarred

LEMMA ConnNext == ConnInv /\ [Conn!Next]_(Conn!vars) => ConnInv'
<1> SUFFICES ASSUME ConnInv, [Conn!Next]_(Conn!vars) PROVE ConnInv'
  OBVIOUS
<1>1. CASE UNCHANGED Conn!vars
  <2>1. UNCHANGED <<ops, mcp, md, cli, had, typed, cut, asked, mixed>>
    BY <1>1 DEF Conn!vars
  <2>2. ConnTyped'
    BY <2>1 DEF ConnInv, ConnTyped
  <2>3. FilesHeld' /\ InOrder' /\ Alone'
        /\ \A o \in Conn!Ops : (CBegun(o)' <=> CBegun(o)) /\ (IsLast(o)' <=> IsLast(o))
    BY <2>1, UserFrame
  <2>4. Unmarred'
    <3>1. Intact => Intact'
      BY <2>1 DEF Intact, Whole, Conn!Pieces
    <3>2. \A o \in Conn!Ops : MdOK(ops[o]) => MdOK(ops[o])'
      BY <2>1, <3>1 DEF MdOK, Wanted, Whole, Conn!Pieces
    <3>3. QED
      BY <2>1, <2>3, <3>1, <3>2 DEF ConnInv, Unmarred
  <2>5. QED
    BY <2>2, <2>3, <2>4 DEF ConnInv
<1>2. CASE Conn!Next
  <2>1. ASSUME NEW o \in Conn!Ops, NEW s \in Conn!Scopes, NEW level \in Conn!Levels, Conn!connectClaudeCode(o, s, level)
        PROVE  ConnInv'
    BY <2>1, Connects
  <2>2. ASSUME NEW o \in Conn!Ops, NEW s \in Conn!Scopes, Conn!disconnectClaudeCode(o, s) PROVE ConnInv'
    BY <2>2, Disconnects
  <2>3. ASSUME NEW o \in Conn!Ops, NEW v \in 1 .. MaxCli, Conn!HostInfo(o, v) PROVE ConnInv'
    BY <2>3, Heals
  <2>4. ASSUME NEW o \in Conn!Ops,
               Conn!ReadCfg(o) \/ Conn!OpenCfg(o) \/ Conn!FillCfg(o) \/ Conn!writeClaudeMd(o) \/ Conn!OpenMd(o) \/ Conn!FillMd(o)
                 \/ Conn!verifyConnect(o) \/ Conn!Crash(o)
        PROVE  ConnInv'
    BY <2>4, ReadsCfg, OpensCfg, FillsCfg, WritesMd, OpensMd, FillsMd, Verifies, Perishes
  <2>5. CASE Conn!UserWrites
    BY <2>5, UserWritesKeeps
  <2>6. CASE Conn!UserCutsEnd
    BY <2>6, UserCutsKeeps
  <2>7. CASE Conn!AllDone
    BY <1>1, <2>7 DEF Conn!AllDone
  <2>8. QED
    BY <1>2, <2>1, <2>2, <2>3, <2>4, <2>5, <2>6, <2>7 DEF Conn!Next
<1>3. QED
  BY <1>1, <1>2

LEMMA AsAsked == ConnInv => Conn!ConnectionAsAsked
<1> SUFFICES ASSUME ConnInv PROVE Conn!ConnectionAsAsked
  OBVIOUS
<1>1. ASSUME NEW s \in Conn!Scopes
      PROVE  /\ mcp[s] \notin {Missing, Torn} => mcp[s].servers = (s \in had)
             /\ Conn!connected(s) => s \in asked
  <2>1. mcp[s] \in McpFile \cup {Missing, Torn} /\ (mcp[s] \in McpFile => ServersOf(mcp[s], s))
    BY DEF ConnInv, ConnTyped, FilesHeld
  <2>2. QED
    BY <2>1 DEF ServersOf, Conn!connected
<1>2. ASSUME Conn!Quiet, ~mixed, ~cut
      PROVE  /\ \E block \in Conn!Blocks \cup {<< >>} : Conn!Holds(block)
             /\ \A o \in Conn!Ops : ops[o].st = "done" /\ (\A p \in Conn!Ops : p > o => ops[p].st = "unborn") =>
                  CASE ops[o].kind = "connect" ->
                         /\ mcp[ops[o].scope].entry = ops[o].entry
                         /\ ops[o].level # "none" => Conn!Holds(Conn!buildInstructionsBlock(ops[o].level))
                    [] ops[o].kind = "disconnect" -> ~Conn!connected(ops[o].scope) /\ Conn!Holds(<< >>)
                    [] OTHER -> \A s \in Conn!Scopes : Conn!connected(s) => mcp[s].entry = ops[o].entry
  <2>1. ConnTyped
    BY DEF ConnInv
  <2>2. Intact
    <3>1. CASE \A o \in Conn!Ops : ~CBegun(o)
      BY <1>2, <3>1 DEF ConnInv, Unmarred
    <3>2. CASE \E o \in Conn!Ops : CBegun(o)
      <4>1. PICK o \in Conn!Ops : IsLast(o)
        BY <3>2, LastOne
      <4>2. MdOK(ops[o]) /\ ~Conn!Active(o)
        BY <1>2, <4>1 DEF ConnInv, Unmarred, Conn!Quiet
      <4>3. QED
        BY <4>2 DEF MdOK, Conn!Active
    <3>3. QED
      BY <3>1, <3>2
  <2>3. \E block \in Conn!Blocks \cup {<< >>} : Conn!Holds(block)
    BY <2>1, <2>2, WholeHolds DEF Intact
  <2>4. ASSUME NEW o \in Conn!Ops, ops[o].st = "done", \A p \in Conn!Ops : p > o => ops[p].st = "unborn"
        PROVE  CASE ops[o].kind = "connect" ->
                      /\ mcp[ops[o].scope].entry = ops[o].entry
                      /\ ops[o].level # "none" => Conn!Holds(Conn!buildInstructionsBlock(ops[o].level))
                 [] ops[o].kind = "disconnect" -> ~Conn!connected(ops[o].scope) /\ Conn!Holds(<< >>)
                 [] OTHER -> \A s \in Conn!Scopes : Conn!connected(s) => mcp[s].entry = ops[o].entry
    <3>1. PICK x \in Operation : x = ops[o] /\ OpHolds(x)
      BY DEF ConnInv, ConnTyped, FilesHeld
    <3>2. IsLast(o)
      BY <2>4 DEF IsLast, CBegun
    <3>3. EntryOK(x) /\ MdOK(x) /\ x.st = "done" /\ x.kind # "none"
      BY <1>2, <2>4, <3>1, <3>2 DEF ConnInv, Alone, Unmarred, OpHolds
    <3>4. /\ x.kind \in {"connect", "disconnect", "heal"} /\ x.scope \in {"workspace", "global"}
          /\ \A s \in Conn!Scopes : mcp[s] \in McpFile \cup {Missing, Torn}
      BY <2>1, <3>3 DEF Operation, Conn!Scopes, ConnTyped
    <3>5. CASE x.kind = "connect"
      <4>1. mcp[x.scope].entry = x.entry
        <5>1. Settled(x, x.scope)
          BY <3>3, <3>4, <3>5 DEF EntryOK, Past, Conn!Scopes
        <5>2. QED
          BY <3>5, <5>1 DEF Settled
      <4>2. x.level # "none" => Conn!Holds(Conn!buildInstructionsBlock(x.level))
        BY <2>1, <3>3, <3>5, WholeHolds DEF MdOK
      <4>3. QED
        BY <3>1, <3>5, <4>1, <4>2
    <3>6. CASE x.kind = "disconnect"
      <4>1. ~Conn!connected(x.scope)
        <5>1. Settled(x, x.scope) /\ x.entry = Conn!NoEntry
          BY <3>1, <3>3, <3>4, <3>6 DEF EntryOK, Past, Conn!Scopes, OpHolds
        <5>2. mcp[x.scope] \in McpFile \cup {Missing, Torn}
          BY <3>4 DEF Conn!Scopes
        <5>3. QED
          BY <3>6, <5>1, <5>2 DEF Settled, Conn!connected
      <4>2. Conn!Holds(<< >>)
        BY <2>1, <3>3, <3>6, WholeHolds DEF MdOK
      <4>3. QED
        BY <3>1, <3>6, <4>1, <4>2
    <3>7. CASE x.kind = "heal"
      <4>1. ASSUME NEW s \in Conn!Scopes, Conn!connected(s) PROVE mcp[s].entry = x.entry
        <5>1. Settled(x, s)
          BY <3>3, <3>7 DEF EntryOK, Past
        <5>2. QED
          BY <3>4, <4>1, <5>1 DEF Settled, Conn!connected
      <4>2. x.kind # "connect" /\ x.kind # "disconnect"
        BY <3>7
      <4>3. QED
        BY <3>1, <4>1, <4>2
    <3>8. QED
      BY <3>4, <3>5, <3>6, <3>7
  <2>5. QED
    BY <2>3, <2>4
<1>3. QED
  BY <1>1, <1>2 DEF Conn!ConnectionAsAsked

LEMMA ConnectedAsOneAsked == Conn!Spec => []Conn!ConnectionAsAsked
<1>1. Conn!Spec => []ConnInv
  BY ConnInit, ConnNext, PTL DEF Conn!Spec
<1>2. QED
  BY <1>1, AsAsked, PTL

-----------------------------------------------------------------------------
(* And beside the layers, in the specification that is checked.              *)

FilesNext == LayersStep \/ EditsStep \/ ToolsStep \/ ConnStep \/ DiscStep
filesVars == <<part, vars, editVars, toolVars, connVars, discVars>>

\* What an edit that met no other has acknowledged is in the file until a later
\* edit of the same section, and only writes in place or the shared temporary
\* file tear it (readConfigOrInit, writeConfig and the routes of the daemon).
THEOREM EditsOfTheFileStick == FilesSpec => []EditsStick
<1> DEFINE Mine == part = "edits"
<1>1. FilesSpec => FilesInit /\ [][FilesNext]_filesVars
  BY DEF FilesSpec, FilesNext, filesVars
<1>2. FilesInit /\ Mine => Edits!Init
  BY DEF FilesInit
<1>3. Mine /\ [FilesNext]_filesVars => Mine' /\ [Edits!Next]_(Edits!vars)
  BY DEF FilesNext, LayersStep, EditsStep, ToolsStep, ConnStep, DiscStep, filesVars, editVars,
         Edits!vars
<1>4. ~ Mine /\ [FilesNext]_filesVars => ~ Mine'
  BY DEF FilesNext, LayersStep, EditsStep, ToolsStep, ConnStep, DiscStep, filesVars
<1>5. Edits!Spec => []Edits!EditsStick
  BY LoneEditsStick
<1>6. (Mine => Edits!EditsStick) => EditsStick
  BY DEF EditsStick
<1> HIDE DEF Mine
<1>7. QED
  BY <1>1, <1>2, <1>3, <1>4, <1>5, <1>6, PTL DEF Edits!Spec

\* A load is given what a probe found no longer ago than what is kept may be old,
\* and since the load where it forces a probe; one probe at most is under way that
\* no load forced; and no model is good and bad at one thing unless its name says
\* both (discoverOllamaProfiles).
THEOREM DiscoveryCurrent == FilesSpec => []DiscoveryIsCurrent
<1> DEFINE Mine == part = "discovery"
<1>1. FilesSpec => FilesInit /\ [][FilesNext]_filesVars
  BY DEF FilesSpec, FilesNext, filesVars
<1>2. FilesInit /\ Mine => Disc!Init
  BY DEF FilesInit
<1>3. Mine /\ [FilesNext]_filesVars => Mine' /\ [Disc!Next]_(Disc!vars)
  BY DEF FilesNext, LayersStep, EditsStep, ToolsStep, ConnStep, DiscStep, filesVars, discVars,
         Disc!vars
<1>4. ~ Mine /\ [FilesNext]_filesVars => ~ Mine'
  BY DEF FilesNext, LayersStep, EditsStep, ToolsStep, ConnStep, DiscStep, filesVars
<1>5. Disc!Spec => []Disc!DiscoveryIsCurrent
  BY FoundIsCurrent
<1>6. (Mine => Disc!DiscoveryIsCurrent) => DiscoveryIsCurrent
  BY DEF DiscoveryIsCurrent
<1> HIDE DEF Mine
<1>7. QED
  BY <1>1, <1>2, <1>3, <1>4, <1>5, <1>6, PTL DEF Disc!Spec

\* However requests and operations interleave and die, the files of the coding
\* tools still hold what is the user's, and nothing is connected that no connect
\* asked for; and where none overlapped and none died, every tool that was
\* connected is routed, and Claude Code's entry and block are as the last
\* operation wants them, in the user's whole text (connectTool,
\* connectClaudeCode, disconnectClaudeCode and the host-info route).
THEOREM ConnectedThroughout == FilesSpec => []ConnectedAsAsked
<1> DEFINE Routes == part = "tools"
           Wires == part = "connection"
<1>1. FilesSpec => FilesInit /\ [][FilesNext]_filesVars
  BY DEF FilesSpec, FilesNext, filesVars
<1>2. (FilesInit /\ Routes => Tools!Init) /\ (FilesInit /\ Wires => Conn!Init)
  BY DEF FilesInit
<1>3. Routes /\ [FilesNext]_filesVars => Routes' /\ [Tools!Next]_(Tools!vars)
  BY DEF FilesNext, LayersStep, EditsStep, ToolsStep, ConnStep, DiscStep, filesVars, toolVars,
         Tools!vars
<1>4. Wires /\ [FilesNext]_filesVars => Wires' /\ [Conn!Next]_(Conn!vars)
  BY DEF FilesNext, LayersStep, EditsStep, ToolsStep, ConnStep, DiscStep, filesVars, connVars,
         Conn!vars
<1>5. /\ ~ Routes /\ [FilesNext]_filesVars => ~ Routes'
      /\ ~ Wires /\ [FilesNext]_filesVars => ~ Wires'
  BY DEF FilesNext, LayersStep, EditsStep, ToolsStep, ConnStep, DiscStep, filesVars
<1>6. (Tools!Spec => []Tools!RoutesAddUp) /\ (Conn!Spec => []Conn!ConnectionAsAsked)
  BY RoutesOfToolsAddUp, ConnectedAsOneAsked
<1>7. (Routes => Tools!RoutesAddUp) /\ (Wires => Conn!ConnectionAsAsked) => ConnectedAsAsked
  BY DEF ConnectedAsAsked
<1> HIDE DEF Routes, Wires
<1>8. QED
  BY <1>1, <1>2, <1>3, <1>4, <1>5, <1>6, <1>7, PTL DEF Tools!Spec, Conn!Spec
=============================================================================
