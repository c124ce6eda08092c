---------------------------- MODULE MCLlmRouting ----------------------------
(* A model call from the page that asks to the bytes of the provider, in one *)
(* run: PageTransport; LlmRouting with a free local model, two private ones  *)
(* that differ in price, and a command line in the cloud; ProviderStreams;   *)
(* OllamaLaunch. The components are side by side: part says which of them a  *)
(* behaviour is about; the variables of the others are blank, and LlmRouting *)
(* stays as it begins.                                                       *)
EXTENDS LlmRouting, TLC

CONSTANTS
  local, flat, metered, cli,   \* the profiles
  MaxLaunches,                             \* of OllamaLaunch
  MaxId, MaxPages, MaxChunks, MaxQueue     \* of PageTransport

McDeclared  == <<metered, local, flat, cli>>
McTier      == local :> 0 @@ flat :> 1 @@ metered :> 1 @@ cli :> 2
McPayment   == local :> None @@ flat :> "flat-rate" @@ metered :> "per-token" @@ cli :> None
McGoodAt    == [p \in Profiles |-> IF p = metered THEN {"code-review"} ELSE {}]
McNotGoodAt == [p \in Profiles |-> {}]
McCost      == local :> 0 @@ flat :> 0 @@ metered :> 1 @@ cli :> 2
McEstimate  == [p \in Profiles |-> IF p = cli THEN 1 ELSE 0]
McCap       == [p \in Profiles |-> IF p = cli THEN 2 ELSE None]

\* A review of risk 30, local by score, and one that mentions production.
Plain   == [type |-> "code-review", high |-> FALSE, medium |-> FALSE, files |-> 0,
            secrets |-> FALSE, infra |-> FALSE]
Risky   == [Plain EXCEPT !.high = TRUE]
McTasks == {Plain, Risky}

\* Callers are alike.
SameCallers == Permutations(Callers)

-----------------------------------------------------------------------------
VARIABLES
  part,
  profile, phase, sent, slots, usage, events, record,
  caller, spawnedChild, process, cooling, external, shutdowns,
  page, nextId, entry, toHost, job, inflight, toPage, got, overlapped

streamVars  == <<profile, phase, sent, slots, usage, events, record>>
launchVars  == <<caller, spawnedChild, process, cooling, external, shutdowns>>
transitVars == <<page, nextId, entry, toHost, job, inflight, toPage, got, overlapped>>

Streams == INSTANCE ProviderStreams
             WITH Providers <- {"ollama", "openai", "anthropic"}, Slots <- {0, 1},
                  MaxFrames <- 4
Launch  == INSTANCE OllamaLaunch
Transit == INSTANCE PageTransport

\* The bounds are numbers, and there is a page to begin with.
ASSUME TransitAssumption ==
  {MaxLaunches, MaxId, MaxPages, MaxChunks, MaxQueue} \subseteq Nat /\ MaxPages > 0

StreamsBlank == /\ profile = 0 /\ phase = 0 /\ sent = 0 /\ slots = 0
                /\ usage = 0 /\ events = 0 /\ record = 0
LaunchBlank  == /\ caller = 0 /\ spawnedChild = 0 /\ process = 0
                /\ cooling = 0 /\ external = 0 /\ shutdowns = 0
TransitBlank == /\ page = 0 /\ nextId = 0 /\ entry = 0 /\ toHost = 0 /\ job = 0
                /\ inflight = 0 /\ toPage = 0 /\ got = 0 /\ overlapped = 0

CallInit ==
  /\ part \in {"routing", "streams", "launch", "transit"}
  /\ Init
  /\ IF part = "streams" THEN Streams!Init ELSE StreamsBlank
  /\ IF part = "launch" THEN Launch!Init ELSE LaunchBlank
  /\ IF part = "transit" THEN Transit!Init ELSE TransitBlank

RoutingStep == part = "routing" /\ Next
               /\ UNCHANGED <<part, streamVars, launchVars, transitVars>>
StreamsStep == part = "streams" /\ Streams!Next
               /\ UNCHANGED <<part, vars, launchVars, transitVars>>
LaunchStep  == part = "launch" /\ Launch!Next
               /\ UNCHANGED <<part, vars, streamVars, transitVars>>
TransitStep == part = "transit" /\ Transit!Next
               /\ UNCHANGED <<part, vars, streamVars, launchVars>>

CallSpec ==
  /\ CallInit
  /\ [][RoutingStep \/ StreamsStep \/ LaunchStep \/ TransitStep]_
       <<part, vars, streamVars, launchVars, transitVars>>

\* What a provider's stream gives its reader is what the server sent
\* (ProviderStreams: the providers' stream and runRoute's tee), and the Ollama
\* that serves one is launched once and remembered (OllamaLaunch:
\* tryEnsureOllamaRunning and its exit handlers).
ProvidersAreSound ==
  /\ part = "streams" => Streams!StreamIsSound
  /\ part = "launch" => Launch!OneOllama

\* A request of the page in the editor is answered once, and with its own answer
\* (PageTransport).
AnswersAreOwn == part = "transit" => Transit!AnswersAreOwn
=============================================================================
