--------------------------- MODULE MCConfigLayers ---------------------------
(* Configuration, in one run: ConfigLayers, ConfigEdits (the writes to        *)
(* tierkit.config.json), ToolSettings and ClaudeCodeConnection (the files of  *)
(* the coding tools), OllamaDiscovery (the profiles a load adds). The         *)
(* components are side by side: part says which of them a behaviour is about; *)
(* the variables of the others are blank, and ConfigLayers stays as it begins. *)
EXTENDS ConfigLayers, Sequences, TLC

CONSTANTS
  cloud, local, m1, m2, Torn, None,
  MaxChanges,  \* bound: edits of ConfigEdits
  MaxDeaths,   \* bound: edits whose process dies
  MaxRequests,                   \* bound of ToolSettings
  MaxOps, MaxCli, MaxUserEdits,  \* bounds of ClaudeCodeConnection
  Hosts, Installs, ProbeTime, CacheTtl, NegativeTtl, MaxCalls, MaxClock  \* of OllamaDiscovery

\* One bundled profile, switched off by default, and one model Ollama offers.
OneBundled    == [id \in Ids |-> IF id = cloud THEN m1 ELSE Absent]
OneDiscovered == [id \in Ids |-> IF id = local THEN m2 ELSE Absent]
\* No plugin is special.
SamePlugins == Permutations(Plugins)

\* A Korean coder, a coder that is large by one name and small by another, a
\* small model, and one for embeddings: each the only model of its host.
OneModel ==
  LET Named(c, l, s, k, e) == [coder |-> c, large |-> l, small |-> s, korean |-> k, embed |-> e]
  IN {{Named(TRUE, FALSE, FALSE, TRUE, FALSE)}, {Named(TRUE, TRUE, TRUE, FALSE, FALSE)},
      {Named(FALSE, FALSE, TRUE, FALSE, FALSE)}, {Named(FALSE, FALSE, FALSE, FALSE, TRUE)}}
AtMostOneModel == {{}} \cup OneModel

\* The marks of ConfigEdits stand for no sections.
ASSUME ChangesAssumption ==
  /\ MaxChanges \in Nat
  /\ Missing # Torn
  /\ {Missing, Torn}
       \cap [{"profile", "disabled", "routing", "runtime"} -> 0 .. MaxChanges] = {}

-----------------------------------------------------------------------------
VARIABLES
  part,
  changes, config, changesTmp, crashes, beside,
  req, settings, tmp, yaml, userHad, overlap,
  ops, mcp, md, cli, had, typed, cut, asked, mixed,
  clock, cache, inflight, probe, call

editVars == <<changes, config, changesTmp, crashes, beside>>
toolVars == <<req, settings, tmp, yaml, userHad, overlap>>
connVars == <<ops, mcp, md, cli, had, typed, cut, asked, mixed>>
discVars == <<clock, cache, inflight, probe, call>>

Edits == INSTANCE ConfigEdits
           WITH MaxEdits <- MaxChanges, MaxCrashes <- MaxDeaths,
                edits <- changes, tmp <- changesTmp
Tools == INSTANCE ToolSettings WITH had <- userHad, mixed <- overlap
Conn  == INSTANCE ClaudeCodeConnection
Disc  == INSTANCE OllamaDiscovery

\* What is in the files of the tools, where they are not missing or torn.
KeysFile == [user : {"none", "plain", "globs", "cut"}, routed : SUBSET Tools!Keyed]
YamlFile == [user : BOOLEAN, entries : 0 .. 1]
McpFile  == [servers : BOOLEAN, entry : Nat]
Piece    == Conn!Text \cup {"BEGIN", "light", "full", "END"}

\* What the marks stand for is told apart from what is in the files.
ASSUME FilesAssumption ==
  /\ MaxOps \in Nat /\ MaxCli \in Nat
  /\ {Missing, Torn} \cap (KeysFile \cup YamlFile) = {}
  /\ {Missing, Torn} \cap McpFile = {}
  /\ Missing \notin Seq(Piece)

\* The models an Ollama may have, by what their names say, and the profiles kept.
Model   == [coder : BOOLEAN, large : BOOLEAN, small : BOOLEAN, korean : BOOLEAN, embed : BOOLEAN]
Profiles == Disc!ProfilesOf(Model)
Cached  == [at : Nat, since : Nat, profiles : SUBSET Profiles]

\* A probe is over well before what it found is old (1000 ms, of 30 s and of 5 s).
ASSUME DiscoveryAssumption ==
  /\ Hosts # {} /\ Installs \subseteq SUBSET Model
  /\ {ProbeTime, CacheTtl, NegativeTtl, MaxCalls, MaxClock} \subseteq Nat
  /\ ProbeTime < CacheTtl /\ ProbeTime < NegativeTtl
  /\ None \notin Nat /\ None \notin Cached

EditsBlank == changes = 0 /\ config = 0 /\ changesTmp = 0 /\ crashes = 0 /\ beside = 0
ToolsBlank == /\ req = 0 /\ settings = 0 /\ tmp = 0
              /\ yaml = 0 /\ userHad = 0 /\ overlap = 0
ConnBlank  == /\ ops = 0 /\ mcp = 0 /\ md = 0 /\ cli = 0 /\ had = 0
              /\ typed = 0 /\ cut = 0 /\ asked = 0 /\ mixed = 0
DiscBlank  == clock = 0 /\ cache = 0 /\ inflight = 0 /\ probe = 0 /\ call = 0

FilesInit ==
  /\ part \in {"layers", "edits", "tools", "connection", "discovery"}
  /\ Init /\ (part # "layers" => file = NoFiles)
  /\ IF part = "edits" THEN Edits!Init ELSE EditsBlank
  /\ IF part = "tools" THEN Tools!Init ELSE ToolsBlank
  /\ IF part = "connection" THEN Conn!Init ELSE ConnBlank
  /\ IF part = "discovery" THEN Disc!Init ELSE DiscBlank

LayersStep == part = "layers" /\ Next
              /\ UNCHANGED <<part, editVars, toolVars, connVars, discVars>>
EditsStep  == part = "edits" /\ Edits!Next
              /\ UNCHANGED <<part, vars, toolVars, connVars, discVars>>
ToolsStep  == part = "tools" /\ Tools!Next
              /\ UNCHANGED <<part, vars, editVars, connVars, discVars>>
ConnStep   == part = "connection" /\ Conn!Next
              /\ UNCHANGED <<part, vars, editVars, toolVars, discVars>>
DiscStep   == part = "discovery" /\ Disc!Next
              /\ UNCHANGED <<part, vars, editVars, toolVars, connVars>>

FilesSpec ==
  /\ FilesInit
  /\ [][LayersStep \/ EditsStep \/ ToolsStep \/ ConnStep \/ DiscStep]_
       <<part, vars, editVars, toolVars, connVars, discVars>>

\* Edits of tierkit.config.json that met no other edit stick, and the file is
\* torn only where the code writes it in place or shares its temporary file
\* (ConfigEdits).
EditsStick == part = "edits" => Edits!EditsStick

\* The files that users and their tools share with Tierkit hold what was asked
\* for, and still what was the user's: routes add up (ToolSettings), and Claude
\* Code is connected as asked (ClaudeCodeConnection).
ConnectedAsAsked ==
  /\ part = "tools" => Tools!RoutesAddUp
  /\ part = "connection" => Conn!ConnectionAsAsked

\* A load finds the models of Ollama as they are, or were a moment ago
\* (OllamaDiscovery).
DiscoveryIsCurrent == part = "discovery" => Disc!DiscoveryIsCurrent
=============================================================================
