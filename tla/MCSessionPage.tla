---------------------------- MODULE MCSessionPage ----------------------------
(* A user's session and the page it is led from, in one run: SessionWorkflow, *)
(* Composer (the chat and agent threads of the page), ContextCompare (its     *)
(* comparisons) and ToolAnswers (the tool calls of an editor's own agent).    *)
(* The components are side by side: part says which of them a behaviour is    *)
(* about; the variables of the others are blank, and SessionWorkflow stays as *)
(* it begins.                                                                 *)
EXTENDS MCSessionWorkflow, Naturals, Sequences

CONSTANTS
  MAX_ATTACHMENTS,                    \* images attached to a message
  MaxTurns, MaxMessages, MaxFiles,    \* bounds: chat turns, these and agent runs, images
  MaxArtifacts, MaxCompares, MaxLoads \* bounds: artifacts, comparisons, loads at a time

ASSUME PageAssumption ==
  /\ MAX_ATTACHMENTS \in Nat \ {0}
  /\ MaxTurns \in Nat /\ MaxMessages \in Nat /\ MaxFiles \in Nat
  /\ MaxArtifacts \in Nat /\ MaxCompares \in Nat /\ MaxLoads \in Nat

Local  == [provider |-> "ollama", local |-> TRUE]
Claude == [provider |-> "anthropic", local |-> FALSE]
OpenAi == [provider |-> "openai", local |-> FALSE]

\* Narrative, the tags of two tools, and the calls that are written without them.
Pieces ==
  [kind : {"open", "close"}, tool : {"read", "write"}] \cup
  {[kind |-> "say", tool |-> "other"], [kind |-> "fence", tool |-> "other"],
   [kind |-> "fence", tool |-> "write"], [kind |-> "bare", tool |-> "read"]}

-----------------------------------------------------------------------------
VARIABLES
  part,
  run, runs, suppress, bubbles, remembered, card, importing, images, turn, ctrl, chat, view,
  loading, excused,
  artifacts, compareRuns, running, compareCard, compareCall, loads, saving,
  settings, request, chain, wire, made, reply, counter, phase

composerVars == <<run, runs, suppress, bubbles, remembered, card, importing, images, turn,
                  ctrl, chat, view, loading, excused>>
compareVars  == <<artifacts, compareRuns, running, compareCard, compareCall, loads, saving>>
answerVars   == <<settings, request, chain, wire, made, reply, counter, phase>>

Threads == INSTANCE Composer WITH session <- chat
Compare == INSTANCE ContextCompare
             WITH MaxRuns <- MaxCompares,
                  runs <- compareRuns, card <- compareCard, call <- compareCall
Answers == INSTANCE ToolAnswers
             WITH Tools <- <<"read", "write">>, Stranger <- "other",
                  Chains <- {<<Local>>, <<OpenAi>>, <<Claude>>, <<Local, Claude>>},
                  Phrases <- Pieces, MaxPieces <- 3, MaxCalls <- 2

ThreadsBlank == /\ run = 0 /\ runs = 0 /\ suppress = 0 /\ bubbles = 0 /\ remembered = 0
                /\ card = 0 /\ importing = 0 /\ images = 0 /\ turn = 0 /\ ctrl = 0
                /\ chat = 0 /\ view = 0 /\ loading = 0 /\ excused = 0
CompareBlank == /\ artifacts = 0 /\ compareRuns = 0 /\ running = 0 /\ compareCard = 0
                /\ compareCall = 0 /\ loads = 0 /\ saving = 0
AnswersBlank == /\ settings = 0 /\ request = 0 /\ chain = 0 /\ wire = 0
                /\ made = 0 /\ reply = 0 /\ counter = 0 /\ phase = 0

PageInit ==
  /\ part \in {"session", "threads", "compare", "answers"}
  /\ Init /\ (part # "session" => active = {})
  /\ IF part = "threads" THEN Threads!Init ELSE ThreadsBlank
  /\ IF part = "compare" THEN Compare!Init ELSE CompareBlank
  /\ IF part = "answers" THEN Answers!Init ELSE AnswersBlank

SessionStep == part = "session" /\ Next
               /\ UNCHANGED <<part, composerVars, compareVars, answerVars>>
ThreadsStep == part = "threads" /\ Threads!Next
               /\ UNCHANGED <<part, vars, compareVars, answerVars>>
CompareStep == part = "compare" /\ Compare!Next
               /\ UNCHANGED <<part, vars, composerVars, answerVars>>
AnswersStep == part = "answers" /\ Answers!Next
               /\ UNCHANGED <<part, vars, composerVars, compareVars>>

PageSpec ==
  /\ PageInit
  /\ [][SessionStep \/ ThreadsStep \/ CompareStep \/ AnswersStep]_
       <<part, vars, composerVars, compareVars, answerVars>>

\* The threads show what there is: Stop reaches the turn that streams, the next
\* message continues the session on screen, a task is drawn once and an approval
\* that is waited for has its buttons (Composer).
ThreadsAreTrue ==
  part = "threads" =>
    Threads!StopStops /\ Threads!ThreadIsSession /\ Threads!AgentThreadIsTrue

\* A comparison, and a verdict on it, is of one whole run (ContextCompare).
ComparesAreWhole == part = "compare" => Compare!ComparesAreWhole

\* The tool calls a model makes are the ones the client is given, and what the
\* client sends of earlier ones is what the provider gets (ToolAnswers).
CallsComeThrough == part = "answers" => Answers!CallsComeThrough
=============================================================================
