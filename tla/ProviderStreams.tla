-------------------------- MODULE ProviderStreams --------------------------
(***************************************************************************)
(* One streamed answer of an HTTP provider (OllamaClient,                  *)
(* OpenAICompatibleClient, AnthropicClient: stream) and the use case that  *)
(* reads it, passes it on and logs it (runRoute's teed stream).            *)
(*                                                                         *)
(* The server answers anything: no connection, any status, frames of any   *)
(* kind in any order, a clean end or a broken one.  Arguments of a tool    *)
(* call arrive in parts; a part is counted, not spelled out.               *)
(***************************************************************************)
EXTENDS Naturals, Sequences, SequencesExt, FiniteSets

CONSTANTS
  Providers,    \* a subset of {"ollama", "openai", "anthropic"}
  Slots,        \* the indices a server numbers its tool calls with
  MaxFrames     \* bound: frames in one answer

VARIABLES
  profile,   \* the profile of the call and whether its key is set
  phase,     \* where the generator is
  sent,      \* history: the frames the server sent
  slots,     \* the tool calls being put together
  usage,     \* token counts were reported
  events,    \* the events the reader was given
  record     \* the usage records

vars == <<profile, phase, sent, slots, usage, events, record>>

Frame ==
  [type : {"text", "usage", "junk", "call"}]
    \cup [type : {"open"}, slot : Slots, named : BOOLEAN]
    \cup [type : {"args", "close"}, slot : Slots]

\* The frames each protocol has; "open" and "args" are parts of a delta in
\* OpenAI's, blocks and their deltas in Anthropic's.
FramesOf(provider) ==
  CASE provider = "ollama"    -> {f \in Frame : f.type \in {"text", "usage", "junk", "call"}}
    [] provider = "openai"    -> {f \in Frame : f.type \notin {"call", "close"}}
    [] provider = "anthropic" -> {f \in Frame : f.type # "call"}

Profile == [provider : Providers, baseUrl : BOOLEAN, keyEnv : BOOLEAN, keySet : BOOLEAN]
NoSlot  == [used |-> FALSE, named |-> FALSE, args |-> 0]

Event(t) == [type |-> t]
Error(code) == [type |-> "error", code |-> code]
ToolCall(slot, args) == [type |-> "tool_call", slot |-> slot, args |-> args]

Init ==
  /\ profile \in Profile
  /\ phase = "ready"
  /\ sent = <<>>
  /\ slots = [i \in Slots |-> NoSlot]
  /\ usage = FALSE
  /\ events = <<>>
  /\ record = <<>>

-----------------------------------------------------------------------------
(* The reader: runRoute tees the stream and logs it when it is over.        *)

Failed(evs) == \E i \in DOMAIN evs : evs[i].type = "error"
Counted(evs) == \E i \in DOMAIN evs : evs[i].type = "usage"

\* The finally block: whatever ended the loop, one record.
LogRecord(evs) ==
  Append(record, [ok |-> ~ Failed(evs), counted |-> Counted(evs)])

Yield(evs) == events' = events \o evs

\* The generator returns after these events.
Return(evs) ==
  /\ events' = events \o evs
  /\ record' = LogRecord(events \o evs)
  /\ phase' = "done"

-----------------------------------------------------------------------------
(* Before the request.                                                      *)

\* What is wrong with a profile, found before "start".
ConfigError ==
  CASE profile.provider # "anthropic" /\ ~ profile.baseUrl -> "missing-base-url"
    [] profile.provider = "anthropic" /\ ~ profile.keyEnv  -> "missing-api-key"
    [] /\ profile.provider # "ollama"
       /\ profile.keyEnv
       /\ ~ profile.keySet                                 -> "missing-api-key"
    [] OTHER                                               -> "none"

Begin ==
  /\ phase = "ready"
  /\ IF ConfigError # "none"
       THEN Return(<<Error(ConfigError)>>)
       ELSE /\ Yield(<<Event("start")>>)
            /\ phase' = "fetch"
            /\ UNCHANGED record
  /\ UNCHANGED <<profile, sent, slots, usage>>

\* ensureUpThenFetch: a refused connection to Ollama is tried once more, after
\* an attempt to launch it.
FetchFails(refused) ==
  /\ phase \in {"fetch", "refetch"}
  /\ IF profile.provider = "ollama" /\ refused /\ phase = "fetch"
       THEN /\ phase' = "refetch"
            /\ UNCHANGED <<events, record>>
       ELSE Return(<<Error("unreachable")>>)
  /\ UNCHANGED <<profile, sent, slots, usage>>

\* Any status but success; Ollama has no credentials to reject.
BadStatus(denied) ==
  /\ phase \in {"fetch", "refetch"}
  /\ Return(<<Error(IF denied /\ profile.provider # "ollama"
                      THEN "unauthorized" ELSE "bad-status")>>)
  /\ UNCHANGED <<profile, sent, slots, usage>>

Connected ==
  /\ phase \in {"fetch", "refetch"}
  /\ phase' = "body"
  /\ UNCHANGED <<profile, sent, slots, usage, events, record>>

-----------------------------------------------------------------------------
(* The body.                                                                *)

\* Ollama: a frame holds whole calls, passed on at once.
OllamaFrame(f) ==
  CASE f.type = "text"  -> Yield(<<Event("delta")>>) /\ UNCHANGED <<slots, usage>>
    [] f.type = "call"  -> Yield(<<ToolCall("whole", 0)>>) /\ UNCHANGED <<slots, usage>>
    [] f.type = "usage" -> usage' = TRUE /\ UNCHANGED <<slots, events>>
    [] f.type = "junk"  -> UNCHANGED <<slots, usage, events>>

\* OpenAI: parts are kept by index until the stream is over.
OpenAIFrame(f) ==
  CASE f.type = "text"  -> Yield(<<Event("delta")>>) /\ UNCHANGED <<slots, usage>>
    [] f.type = "usage" -> usage' = TRUE /\ UNCHANGED <<slots, events>>
    [] f.type = "junk"  -> UNCHANGED <<slots, usage, events>>
    [] f.type = "open"  ->
         /\ slots' = [slots EXCEPT ![f.slot].used = TRUE,
                                   ![f.slot].named = slots[f.slot].named \/ f.named]
         /\ UNCHANGED <<usage, events>>
    [] f.type = "args"  ->
         /\ slots' = [slots EXCEPT ![f.slot].used = TRUE,
                                   ![f.slot].args = slots[f.slot].args + 1]
         /\ UNCHANGED <<usage, events>>

\* Mutant: a block that is opened again keeps the arguments it had.
AnthropicFrame_Keeps(f) ==
  CASE f.type = "text"  -> Yield(<<Event("delta")>>) /\ UNCHANGED <<slots, usage>>
    [] f.type = "usage" -> usage' = TRUE /\ UNCHANGED <<slots, events>>
    [] f.type = "junk"  -> UNCHANGED <<slots, usage, events>>
    [] f.type = "open"  ->
         /\ slots' = [slots EXCEPT ![f.slot].used = TRUE, ![f.slot].named = f.named]
         /\ UNCHANGED <<usage, events>>
    [] f.type = "args"  ->
         /\ slots' = [slots EXCEPT ![f.slot].args =
                        slots[f.slot].args + IF slots[f.slot].used THEN 1 ELSE 0]
         /\ UNCHANGED <<usage, events>>
    [] f.type = "close" ->
         LET block == slots[f.slot]
         IN /\ IF block.used /\ block.named
                 THEN /\ Yield(<<ToolCall(f.slot, block.args)>>)
                      /\ slots' = [slots EXCEPT ![f.slot].used = FALSE]
                 ELSE UNCHANGED <<events, slots>>
            /\ UNCHANGED usage

\* Anthropic: a block is opened, filled and closed; only an open one with a
\* name is passed on, when it closes.
AnthropicFrame(f) ==
  CASE f.type = "text"  -> Yield(<<Event("delta")>>) /\ UNCHANGED <<slots, usage>>
    [] f.type = "usage" -> usage' = TRUE /\ UNCHANGED <<slots, events>>
    [] f.type = "junk"  -> UNCHANGED <<slots, usage, events>>
    [] f.type = "open"  ->
         /\ slots' = [slots EXCEPT ![f.slot] = [used |-> TRUE, named |-> f.named, args |-> 0]]
         /\ UNCHANGED <<usage, events>>
    [] f.type = "args"  ->
         /\ slots' = [slots EXCEPT ![f.slot].args =
                        slots[f.slot].args + IF slots[f.slot].used THEN 1 ELSE 0]
         /\ UNCHANGED <<usage, events>>
    [] f.type = "close" ->
         LET block == slots[f.slot]
         IN /\ IF block.used /\ block.named
                 THEN /\ Yield(<<ToolCall(f.slot, block.args)>>)
                      /\ slots' = [slots EXCEPT ![f.slot] = NoSlot]
                 ELSE UNCHANGED <<events, slots>>
            /\ UNCHANGED usage

\* iterNDJSON, iterSSE: a frame that is no JSON is skipped.
Receive(f) ==
  /\ phase = "body"
  /\ Len(sent) < MaxFrames
  /\ sent' = Append(sent, f)
  /\ CASE profile.provider = "ollama"    -> OllamaFrame(f)
       [] profile.provider = "openai"    -> OpenAIFrame(f)
       [] profile.provider = "anthropic" -> AnthropicFrame(f)
  /\ UNCHANGED <<profile, phase, record>>

\* The calls OpenAI's parts add up to, by ascending index.
Assembled ==
  IF profile.provider # "openai" THEN <<>>
  ELSE LET named == SetToSortSeq({i \in Slots : slots[i].named}, LAMBDA a, b : a < b)
       IN [k \in DOMAIN named |-> ToolCall(named[k], slots[named[k]].args)]

\* The server closes the body in order.
BodyEnds ==
  /\ phase = "body"
  /\ Return(Assembled \o (IF usage THEN <<Event("usage")>> ELSE <<>>)
                      \o <<Event("end")>>)
  /\ UNCHANGED <<profile, sent, slots, usage>>

\* The connection breaks: neither buffered calls nor usage are passed on.
BodyBreaks ==
  /\ phase = "body"
  /\ Return(<<Error("stream-error")>>)
  /\ UNCHANGED <<profile, sent, slots, usage>>

\* The reader stops reading: the generator is closed where it yields.
ReaderLeaves ==
  /\ phase \in {"fetch", "body"}
  /\ events # <<>>
  /\ phase' = "left"
  /\ record' = LogRecord(events)
  /\ UNCHANGED <<profile, sent, slots, usage, events>>

Over ==
  /\ phase \in {"done", "left"}
  /\ UNCHANGED vars

Next ==
  \/ Begin
  \/ \E refused \in BOOLEAN : FetchFails(refused)
  \/ \E denied \in BOOLEAN : BadStatus(denied)
  \/ Connected
  \/ \E f \in FramesOf(profile.provider) : Receive(f)
  \/ BodyEnds
  \/ BodyBreaks
  \/ ReaderLeaves
  \/ Over

Spec == Init /\ [][Next]_vars

-----------------------------------------------------------------------------
Types(evs) == [i \in DOMAIN evs |-> evs[i].type]
CountOf(seq, Test(_)) == Len(SelectSeq(seq, Test))

\* The arguments a server sent for a slot since it last opened a call there.
ArgsSince(slot, upTo) ==
  LET opens == {i \in 1 .. upTo : sent[i].type = "open" /\ sent[i].slot = slot}
      from  == IF opens = {} THEN upTo + 1 ELSE CHOOSE i \in opens : \A j \in opens : j <= i
  IN Cardinality({i \in from .. upTo : sent[i].type = "args" /\ sent[i].slot = slot})

\* The places where Anthropic's server closed a call it had opened and named.
ClosedCalls ==
  {i \in DOMAIN sent :
     /\ sent[i].type = "close"
     /\ \E j \in 1 .. i - 1 :
          /\ sent[j].type = "open" /\ sent[j].slot = sent[i].slot /\ sent[j].named
          /\ \A k \in j + 1 .. i - 1 :
               sent[k].type \in {"open", "close"} => sent[k].slot # sent[i].slot}

\* The calls the frames spell out, however the client buffers them.
SpelledOut ==
  CASE profile.provider = "ollama" ->
         [i \in 1 .. CountOf(sent, LAMBDA f : f.type = "call") |-> ToolCall("whole", 0)]
    [] profile.provider = "openai" ->
         LET named == SetToSortSeq({i \in Slots : \E k \in DOMAIN sent :
                        sent[k].type = "open" /\ sent[k].slot = i /\ sent[k].named},
                        LAMBDA a, b : a < b)
         IN [k \in DOMAIN named |->
               ToolCall(named[k], CountOf(sent, LAMBDA f :
                          f.type = "args" /\ f.slot = named[k]))]
    [] profile.provider = "anthropic" ->
         LET ends == SetToSortSeq(ClosedCalls, LAMBDA a, b : a < b)
         IN [k \in DOMAIN ends |->
               ToolCall(sent[ends[k]].slot, ArgsSince(sent[ends[k]].slot, ends[k]))]

\* A stream is "start", then text and calls, then at most the usage, then one
\* "end" or "error", unless its reader left; or one error alone when the
\* profile cannot work.  A stream that ended gave every text and exactly the
\* tool calls the server spelled out, with all their arguments; OpenAI's gives
\* no call at all when it broke.  One record is logged, ok unless an error was
\* given, and it has token counts only if the stream gave them.
StreamIsSound ==
  LET t     == Types(events)
      n     == Len(events)
      over  == phase = "done"
      calls == SelectSeq(events, LAMBDA e : e.type = "tool_call")
  IN /\ \A i \in 1 .. n :
          /\ t[i] = "start" <=> i = 1 /\ ConfigError = "none"
          /\ t[i] \in {"end", "error"} => i = n /\ over
          /\ t[i] = "usage" => i = n - 1 /\ t[n] = "end"
     /\ over => t[n] \in {"end", "error"}
     /\ CountOf(t, LAMBDA x : x = "delta") = CountOf(sent, LAMBDA f : f.type = "text")
     /\ over /\ t[n] = "end" =>
          /\ calls = SpelledOut
          /\ "usage" \in {t[i] : i \in 1 .. n}
               <=> \E i \in DOMAIN sent : sent[i].type = "usage"
     /\ profile.provider = "openai" /\ calls # <<>> => over /\ t[n] = "end"
     /\ Len(record) = IF phase \in {"done", "left"} THEN 1 ELSE 0
     /\ record # <<>> =>
          /\ record[1].ok <=> n > 0 /\ t[n] # "error"
          /\ record[1].counted <=> CountOf(t, LAMBDA x : x = "usage") = 1
=============================================================================
