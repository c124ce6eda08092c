----------------------------- MODULE ToolAnswers -----------------------------
(***************************************************************************)
(* Tool calls through the OpenAI endpoint: the conversation and the tools  *)
(* a coding client sends, what each provider is given of them, and what    *)
(* the model's answer becomes on the way back, through the tool shim where *)
(* it is active.  Names of tools matter here, their arguments do not.      *)
(***************************************************************************)
EXTENDS Naturals, Sequences, SequencesExt, FiniteSets

CONSTANTS
  Tools,       \* the tools the client declares, in order
  Stranger,    \* the name of a tool it does not declare
  Chains,      \* the candidate lists: sequences of [provider, local]
  Phrases,     \* the pieces a model's text is made of
  MaxPieces,   \* bound: pieces of a text that is scanned for calls; of others, 1
  MaxCalls     \* bound: structured calls in an answer

VARIABLES
  settings,  \* runtime.toolShim and responseQualityCheck
  request,   \* what the client sent
  chain,     \* the candidates left to try, the one being tried first
  wire,      \* what the provider of the call under way was given
  made,      \* history: the answer the client's reply is made of
  reply,     \* what the client has been given
  counter,   \* callIdCounter
  phase

vars == <<settings, request, chain, wire, made, reply, counter, phase>>

-----------------------------------------------------------------------------
(* What is said, and with what.                                             *)

Known  == Range(Tools)
Named  == Known \cup {Stranger}
Forced == {"required"}

Call(id, tool)    == [id |-> id, tool |-> tool]
Piece(kind, tool) == [kind |-> kind, tool |-> tool]

\* A piece of text (Phrases is a set of them) is narrative, a tag, or a fenced
\* or bare JSON object that names a tool.
Say == Piece("say", Stranger)

Message(role, content, calls, answers) ==
  [role |-> role, content |-> content, calls |-> calls, answers |-> answers]

\* The conversations a client sends: a first turn, one with the results of two
\* calls and an image, one that cannot be read.
User     == Message("user", "text", <<>>, 0)
Earlier  == <<Call(1, Tools[1]), Call(2, Tools[Len(Tools)])>>
Dialogue ==
  { <<User>>,
    <<Message("system", "text", <<>>, 0), [User EXCEPT !.content = "image"],
      Message("assistant", "none", Earlier, 0),
      Message("tool", "text", <<>>, 1), Message("tool", "text", <<>>, 2)>>,
    <<Message("user", "bad", <<>>, 0)>> }

\* A choice that is forced names one tool or all: the ways are the same.
ClientRequests == [messages : Dialogue, tools : BOOLEAN, stream : BOOLEAN,
                   choice : {"auto", "none"} \cup Forced]

NoWire   == [messages |-> <<>>, system |-> 0, tools |-> FALSE, choice |-> "auto", format |-> FALSE]
NoAnswer == [text |-> <<>>, calls |-> <<>>, envelope |-> FALSE, finish |-> "unset"]
NoReply  == [status |-> "none", text |-> <<>>, calls |-> <<>>, finish |-> "unset", shim |-> FALSE]

Init ==
  /\ settings \in [shim : {"auto", "on", "off"}, quality : BOOLEAN]
  /\ request \in {r \in ClientRequests : r.choice # "auto" => r.tools}
  /\ chain \in {c \in Chains : settings.quality => Len(c) > 1}
  /\ wire = NoWire
  /\ made = NoAnswer
  /\ reply = NoReply
  /\ counter = 0
  /\ phase = "parse"

-----------------------------------------------------------------------------
(* The request.                                                             *)

parseRequest ==
  /\ phase = "parse"
  /\ IF \E i \in DOMAIN request.messages : request.messages[i].content = "bad"
       THEN phase' = "done" /\ reply' = [NoReply EXCEPT !.status = "400"]
       ELSE phase' = "send" /\ UNCHANGED reply
  /\ UNCHANGED <<settings, request, chain, wire, made, counter>>

Profile == Head(chain)

ShimActive ==
  /\ request.choice \notin Forced
  /\ request.tools
  /\ \/ settings.shim = "on"
     \/ settings.shim = "auto" /\ Profile.local

\* Ollama has no ids for calls, and drops images.
toOllamaMessages(messages) ==
  [i \in DOMAIN messages |->
     [messages[i] EXCEPT !.content = IF @ = "image" THEN "text" ELSE @,
                         !.calls = [k \in DOMAIN @ |-> Call(0, @[k].tool)],
                         !.answers = 0]]

\* Anthropic takes the system messages apart, and results as the user's.
toAnthropicMessages(messages) ==
  LET spoken == SelectSeq(messages, LAMBDA m : m.role # "system")
  IN [i \in DOMAIN spoken |->
        [spoken[i] EXCEPT !.role = IF @ = "tool" THEN "user" ELSE @]]

Converted(messages) ==
  CASE Profile.provider = "ollama"    -> toOllamaMessages(messages)
    [] Profile.provider = "anthropic" -> toAnthropicMessages(messages)
    [] OTHER                          -> messages

\* The instructions of an active shim take the place of the tools and come
\* first; a forced choice of Ollama's is a format its answer has to have.
Send ==
  /\ phase = "send"
  /\ LET told     == Message("system", "text", <<>>, 0)
         messages == IF ShimActive THEN <<told>> \o request.messages ELSE request.messages
         tools    == request.tools /\ ~ShimActive
     IN wire' = [messages |-> Converted(messages),
                 system   |-> Len(SelectSeq(messages, LAMBDA m : m.role = "system")),
                 tools    |-> tools,
                 choice   |-> IF tools THEN request.choice ELSE "auto",
                 format   |-> tools /\ request.choice \in Forced /\ Profile.provider = "ollama"]
  /\ phase' = "answer"
  /\ UNCHANGED <<settings, request, chain, made, reply, counter>>

-----------------------------------------------------------------------------
(* extractToolCallsFromText.                                                *)

\* The first closing tag of t after its first opening tag from position n on.
Block(text, t, n) ==
  LET from == {i \in n .. Len(text) : text[i] = Piece("open", t)
                 /\ \E j \in i .. Len(text) : text[j] = Piece("close", t)}
      i    == CHOOSE i \in from : \A k \in from : i <= k
      to   == {j \in i .. Len(text) : text[j] = Piece("close", t)}
  IN IF from = {} THEN <<0, 0>> ELSE <<i, CHOOSE j \in to : \A k \in to : j <= k>>

\* Mutant: one piece too many is cut out.
Without_Next(text, b) == SubSeq(text, 1, b[1] - 1) \o SubSeq(text, b[2] + 2, Len(text))

Without(text, b) == SubSeq(text, 1, b[1] - 1) \o SubSeq(text, b[2] + 1, Len(text))

\* The next block of t is cut out of what is left, if there is one.
CutBlock(found, t) ==
  LET b == Block(found.text, t, found.from)
  IN IF b[1] = 0 THEN found
     ELSE [text |-> Without(found.text, b), calls |-> Append(found.calls, t), from |-> b[1]]

\* A text has no more blocks than pieces.
Blocks(found, t) ==
  FoldLeft(LAMBDA f, piece : CutBlock(f, t), [found EXCEPT !.from = 1], found.text)

XmlCalls(text) == FoldLeft(Blocks, [text |-> text, calls |-> <<>>, from |-> 1], Tools)

FencedCalls(text) ==
  LET ours(p) == p.kind = "fence" /\ p.tool \in Known
      fences  == SelectSeq(text, ours)
  IN [text  |-> SelectSeq(text, LAMBDA p : ~ours(p)),
      calls |-> [i \in DOMAIN fences |-> fences[i].tool]]

\* The first of the three ways that finds a call is the only one that is used.
extractToolCallsFromText(text) ==
  IF XmlCalls(text).calls # <<>> THEN XmlCalls(text)
  ELSE IF FencedCalls(text).calls # <<>> THEN FencedCalls(text)
  ELSE IF Len(text) = 1 /\ text[1].kind = "bare" /\ text[1].tool \in Known
    THEN [text |-> <<>>, calls |-> <<text[1].tool>>]
  ELSE [text |-> text, calls |-> <<>>]

-----------------------------------------------------------------------------
(* The answer.                                                              *)

Answered(text, calls, finish) ==
  [text |-> text, calls |-> [i \in DOMAIN calls |-> Call(i, calls[i])],
   finish |-> finish, shim |-> FALSE]

\* Under a forced format an answer without calls is taken for one, and the text
\* that carries it is cleared.
adoptFormatJsonAsToolCalls(a) ==
  IF a.calls = <<>> /\ a.envelope THEN <<Tools[1]>> ELSE a.calls

\* What each provider's client makes of its server's answer. An answer of
\* Anthropic's is a sequence of blocks, words and calls.
ollamaChat(a) ==
  LET calls == IF wire.format THEN adoptFormatJsonAsToolCalls(a) ELSE a.calls
  IN Answered(IF wire.format /\ calls # <<>> THEN <<>> ELSE a.text, calls,
              IF calls = <<>> THEN "unset" ELSE "tool_calls")

openaiChat(a) == Answered(a.text, a.calls, a.finish)

anthropicChat(a) ==
  LET blocks == a.text \o [i \in DOMAIN a.calls |-> Piece("tool_use", a.calls[i])]
      uses   == SelectSeq(blocks, LAMBDA b : b.kind = "tool_use")
  IN Answered(SelectSeq(blocks, LAMBDA b : b.kind # "tool_use"),
              [i \in DOMAIN uses |-> uses[i].tool], a.finish)

chat(a) ==
  CASE Profile.provider = "ollama"    -> ollamaChat(a)
    [] Profile.provider = "anthropic" -> anthropicChat(a)
    [] OTHER                          -> openaiChat(a)

\* executeLlmCall, once its provider has answered.
executeLlmCall(a) ==
  LET r     == chat(a)
      found == extractToolCallsFromText(r.text)
  IN IF ShimActive /\ r.calls = <<>> /\ found.calls # <<>>
       THEN [text   |-> found.text,
             calls  |-> [i \in DOMAIN found.calls |-> Call(counter + i, found.calls[i])],
             finish |-> "tool_calls",
             shim   |-> TRUE]
       ELSE r

\* An empty text is never acceptable; of others the wording decides.
evaluateResponse(r) == IF r.text = <<>> THEN {FALSE} ELSE BOOLEAN

\* An answer in one piece, or as three chunks of a stream without the calls.
streamResponse(r) == [status |-> "stream", text |-> r.text, calls |-> <<>>,
                      finish |-> "stop", shim |-> r.shim]

Delivered(r) ==
  IF request.stream THEN streamResponse(r)
  ELSE [status |-> "200", text |-> r.text, calls |-> r.calls, shim |-> r.shim,
        finish |-> IF r.finish # "unset" THEN r.finish
                   ELSE IF r.calls # <<>> THEN "tool_calls" ELSE "stop"]

\* A stream is of the first candidate; the walk of an auto request, the only one
\* with several, goes on over answers the quality check rejects, and ends with
\* the last one anyway.
ProviderAnswers(a) ==
  /\ phase = "answer"
  /\ a.calls # <<>> => wire.tools
  /\ a.envelope => wire.format
  /\ Len(a.text) > 1 => ShimActive
  /\ LET r == executeLlmCall(a)
     IN /\ counter' = counter + IF r.shim THEN Len(r.calls) ELSE 0
        /\ \E acceptable \in IF settings.quality THEN evaluateResponse(r) ELSE {TRUE} :
             IF acceptable \/ request.stream \/ Len(chain) = 1
               THEN /\ phase' = "done"
                    /\ reply' = Delivered(r)
                    /\ made' = a
                    /\ UNCHANGED <<chain, wire>>
               ELSE /\ phase' = "send"
                    /\ chain' = Tail(chain)
                    /\ wire' = NoWire
                    /\ UNCHANGED <<reply, made>>
  /\ UNCHANGED <<settings, request>>

\* A failure that may pass moves an auto request on; others end it.
ProviderFails(transient) ==
  /\ phase = "answer"
  /\ IF transient /\ Len(chain) > 1 /\ ~request.stream
       THEN phase' = "send" /\ chain' = Tail(chain) /\ wire' = NoWire /\ UNCHANGED reply
       ELSE /\ phase' = "done"
            /\ reply' = [NoReply EXCEPT !.status = "failed"]
            /\ UNCHANGED <<chain, wire>>
  /\ UNCHANGED <<settings, request, counter, made>>

Texts(n) == UNION {[1 .. k -> Phrases] : k \in 0 .. n}
Answer(text, calls, envelope, finish) ==
  [text |-> text, calls |-> calls, envelope |-> envelope, finish |-> finish]

\* Calls of the model's own may come with a word, and cut off by the limit.
Answers ==
  {Answer(t, <<>>, FALSE, "stop") : t \in Texts(MaxPieces)}
    \cup {Answer(<<Say>>, <<>>, TRUE, "stop")}
    \cup {Answer(t, c, FALSE, f) : t \in {<<>>, <<Say>>}, f \in {"tool_calls", "length"},
            c \in UNION {[1 .. n -> Known] : n \in 1 .. MaxCalls}}

Over == phase = "done" /\ UNCHANGED vars

Next ==
  \/ parseRequest
  \/ Send
  \/ \E a \in Answers : ProviderAnswers(a)
  \/ \E transient \in BOOLEAN : ProviderFails(transient)
  \/ Over

Spec == Init /\ [][Next]_vars

-----------------------------------------------------------------------------
(* What the model asked for, read off its answer without any scanning.      *)

\* The blocks of known tools: an opening tag and the first closing one.
AllBlocks(text) ==
  {b \in (DOMAIN text) \X (DOMAIN text) :
     /\ b[1] < b[2] /\ text[b[1]].tool \in Known
     /\ text[b[1]] = Piece("open", text[b[1]].tool)
     /\ text[b[2]] = Piece("close", text[b[1]].tool)
     /\ \A k \in b[1] .. b[2] - 1 : text[k] # Piece("close", text[b[1]].tool)}

Inside(b, c) == c[1] < b[1] /\ b[2] <= c[2]
Outermost(text) == {b \in AllBlocks(text) : \A c \in AllBlocks(text) : ~Inside(b, c)}

\* No block of one tool reaches into a block of another.
Separate(text) ==
  \A b, c \in AllBlocks(text) : text[b[1]] # text[c[1]] => b[2] < c[1] \/ c[2] < b[1]

Times(t, calls) == Cardinality({i \in DOMAIN calls : calls[i].tool = t})
Says(text)      == Len(SelectSeq(text, LAMBDA p : p = Say))

\* A tool call comes through whole (toolShim: "bridges structured tool calling
\* to weak local models"; forceToolChoiceBypass.test). In an answer that is not
\* streamed: the calls the model made in the structured form are the client's;
\* if it made none and the shim is active, every block of a declared tool that
\* lies apart from the others is one call, no more and no fewer, no block is
\* left in the text and no word outside of the blocks is missing; with no call
\* in it the text is as it was; a forced envelope is one call without a text;
\* the ids differ, and calls of the shim's are announced as such. And what the
\* provider is given of a conversation has every result after its call, and
\* offers the tools in exactly one of the two ways.
CallsComeThrough ==
  /\ reply.status = "200" =>
       /\ made.calls # <<>> => /\ \A t \in Known : Times(t, reply.calls)
                                     = Cardinality({i \in DOMAIN made.calls : made.calls[i] = t})
                               /\ ~reply.shim
       /\ made.calls = <<>> /\ ShimActive /\ Separate(made.text) /\ Outermost(made.text) # {} =>
            /\ \A t \in Known : Times(t, reply.calls)
                 = Cardinality({b \in Outermost(made.text) : made.text[b[1]].tool = t})
            /\ AllBlocks(reply.text) = {}
            /\ Says(reply.text) = Cardinality({i \in DOMAIN made.text :
                 made.text[i] = Say /\ \A b \in Outermost(made.text) : i \notin b[1] .. b[2]})
       /\ reply.calls = <<>> => reply.text = made.text
       /\ made.envelope /\ made.calls = <<>> => Len(reply.calls) = 1 /\ reply.text = <<>>
       /\ \A i, j \in DOMAIN reply.calls : i # j => reply.calls[i].id # reply.calls[j].id
       /\ reply.shim => reply.finish = "tool_calls" /\ reply.calls # <<>>
  /\ wire # NoWire =>
       /\ \A i \in DOMAIN wire.messages : \A k \in DOMAIN Earlier :
            wire.messages[i].answers = Earlier[k].id =>
              \E j \in 1 .. i - 1 : \E c \in DOMAIN wire.messages[j].calls :
                wire.messages[j].calls[c].id = wire.messages[i].answers
       /\ Cardinality({i \in DOMAIN wire.messages : wire.messages[i].answers # 0})
            = IF Profile.provider = "ollama" THEN 0
              ELSE Cardinality({i \in DOMAIN request.messages : request.messages[i].answers # 0})
       /\ request.choice \in Forced => wire.tools
=============================================================================
