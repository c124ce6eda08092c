----------------------------- MODULE ChildCalls -----------------------------
(***************************************************************************)
(* One call that runs a child process: the health check, the answer and    *)
(* the streamed answer of a subscription CLI (SubscriptionCliProvider, its *)
(* Claude Code subclass), the streamed reply of POST                       *)
(* /v1/chat/completions made of it, the command tools of the agent and of  *)
(* the MCP server, and the chat of POST /v1/claude-code/chat.              *)
(*                                                                         *)
(* The child, its pipe, the timer and the reader are the actors; each      *)
(* event of theirs is one step, with the handler the code runs for it.  A  *)
(* generator's consumer writes without waiting, so what a handler queues   *)
(* is delivered before the next event of the child.                        *)
(***************************************************************************)
EXTENDS Integers, Sequences, SequencesExt, FiniteSets

CONSTANTS
  Kinds,           \* the calls under study, a subset of AllKinds
  Chunks,          \* bound: what the child writes at once
  MaxOutput,       \* bound: symbols it writes before the last chunk
  MaxStdoutBytes   \* the cap on its output

VARIABLES
  kind,    \* which call this is
  child,   \* the process, and a descendant that may hold its pipe
  wrote,   \* history: everything written to the pipe
  pipe,    \* the chunks not read yet
  call,    \* the state the code keeps for the call
  reply,   \* what a streaming reader was sent
  logged   \* the usage records of the streamed answer

vars == <<kind, child, wrote, pipe, call, reply, logged>>

AllKinds == {"probe", "chat", "stream", "execute", "run", "claude"}

(* Output is a sequence of symbols: a JSON line with assistant text, one    *)
(* whose text has two-byte characters, a result line with and without       *)
(* token counts, anything else, and the end of a line.                      *)
Symbols == {"text", "wide", "result", "bare", "noise", "nl"}
Signalled == -1     \* exit code null

-----------------------------------------------------------------------------
(* Bytes, lines and the parsers.                                            *)

Bytes(s) == Len(s) + Cardinality({i \in DOMAIN s : s[i] = "wide"})

\* chunk.toString("utf8", 0, n): a character cut in two is garbage.
Cut(chunk, n) ==
  LET k == CHOOSE j \in 0 .. Len(chunk) :
             /\ Bytes(SubSeq(chunk, 1, j)) <= n
             /\ j = Len(chunk) \/ Bytes(SubSeq(chunk, 1, j + 1)) > n
      whole == SubSeq(chunk, 1, k)
  IN IF k < Len(chunk) /\ Bytes(whole) < n THEN Append(whole, "noise") ELSE whole

\* Complete lines of a buffer, and what is left of it.
SplitLines(buffer) ==
  FoldLeft(LAMBDA a, x :
             IF x = "nl" THEN [lines |-> Append(a.lines, a.rest), rest |-> <<>>]
                         ELSE [a EXCEPT !.rest = Append(a.rest, x)],
           [lines |-> <<>>, rest |-> <<>>], buffer)
AllLines(s) == Append(SplitLines(s).lines, SplitLines(s).rest)

\* parseStreamLine: a line that is one JSON value with text.
TextOf(lines) == SelectSeq(lines, LAMBDA l : l \in {<<"text">>, <<"wide">>})

\* translateLine of the Claude chat: assistant messages and results.
TranslateLines(lines) ==
  SelectSeq(lines, LAMBDA l : l \in {<<"text">>, <<"wide">>, <<"result">>, <<"bare">>})

\* parseStdout: content is whatever is not blank, usage comes from the first result.
ParseStdout(s) ==
  LET results == SelectSeq(AllLines(s), LAMBDA l : l \in {<<"result">>, <<"bare">>})
  IN [content |-> \E i \in DOMAIN s : s[i] # "nl",
      usage |-> IF results # <<>> /\ Head(results) = <<"result">>
                  THEN "provider-reported" ELSE "estimated"]

-----------------------------------------------------------------------------
NoCall == [text |-> <<>>, count |-> 0, line |-> <<>>, deltas |-> 0,
           truncated |-> FALSE, timer |-> FALSE, timedOut |-> FALSE,
           aborted |-> FALSE, done |-> FALSE, outcome |-> "none",
           usage |-> "none", exitCode |-> 0, waits |-> FALSE]

Start(childState) ==
  /\ child = [state |-> childState, code |-> 0, held |-> FALSE, killed |-> FALSE,
              error |-> "none"]
  /\ wrote = <<>>
  /\ pipe = <<>>
  /\ call = NoCall
  /\ reply = <<>>
  /\ logged = <<>>

Init == kind \in Kinds /\ Start("none")

\* No call at all, for a composition that is about something else.
Idle == kind = "none" /\ Start("closed")

Cli == {"probe", "chat", "stream"}
Commands == {"execute", "run"}

\* The promise of the call is settled, once.
Settled(c, outcome) ==
  IF c.done THEN c ELSE [c EXCEPT !.done = TRUE, !.outcome = outcome, !.timer = FALSE]

\* Mutant: an error closes the reply without a finishing chunk.
ChunkOf_SilentError(e) == CASE e.type = "delta" -> e.text
                            [] e.type = "end"   -> "stop"
                            [] OTHER            -> "none"

\* streamSubprocessResponse: an event becomes a chunk of the reply.
ChunkOf(e) == CASE e.type = "delta" -> e.text
                [] e.type = "end"   -> "stop"
                [] e.type = "error" -> "error"
                [] OTHER            -> "none"

ChunksOf(events) == SelectSeq([i \in DOMAIN events |-> ChunkOf(events[i])],
                              LAMBDA x : x # "none")

Delta(l) == [type |-> "delta", text |-> l[1]]
Deltas(lines) == [i \in DOMAIN lines |-> Delta(lines[i])]
Event(t) == [type |-> t, text |-> t]

\* Events pushed while the generator runs; those after its end reach nobody.
Deliver(events) ==
  reply' = IF call.done THEN reply ELSE reply \o ChunksOf(events)

\* The loop over the events is over: the record is appended, the reply closed.
Finish(events, outcome) ==
  IF call.done
    THEN UNCHANGED <<reply, logged>>
    ELSE /\ reply' = reply \o ChunksOf(events) \o <<"[DONE]">>
         /\ logged' = Append(logged, [ok |-> outcome = "ok", code |-> outcome])

-----------------------------------------------------------------------------
(* The process starts, or does not.                                         *)

Spawn ==
  /\ child.state = "none"
  /\ \E held \in BOOLEAN :
       child' = [child EXCEPT !.state = "running", !.held = held]
  /\ call' = [call EXCEPT !.timer = kind # "claude"]
  /\ reply' = IF kind = "stream" THEN <<"role">> ELSE <<>>
  /\ UNCHANGED <<kind, wrote, pipe, logged>>

\* spawn throws before there is a child.
SpawnThrows ==
  /\ child.state = "none"
  /\ kind \notin Commands
  /\ child' = [child EXCEPT !.state = "closed", !.error = "thrown"]
  /\ call' = Settled(call, "threw")
  /\ CASE kind = "stream" ->
            /\ reply' = <<"role", "error", "[DONE]">>
            /\ logged' = <<[ok |-> FALSE, code |-> "stream-aborted"]>>
       [] kind = "claude" ->
            /\ reply' = <<"error", "done">>
            /\ UNCHANGED logged
       [] OTHER -> UNCHANGED <<reply, logged>>
  /\ UNCHANGED <<kind, wrote, pipe>>

SpawnFailure(error) ==
  CASE kind \in Commands         -> "spawn-failed"
    [] error = "notfound"        -> "cli-not-found"
    [] kind = "probe"            -> "cli-healthcheck-failed"
    [] kind = "chat"             -> "cli-exit-nonzero"
    [] OTHER                     -> "cli-spawn-error"

\* The 'error' event of a child that could not be started.
SpawnError(error) ==
  /\ child.state = "none"
  /\ child' = [child EXCEPT !.state = "failed", !.error = error, !.code = Signalled]
  /\ IF kind = "claude"
       THEN UNCHANGED <<call, reply, logged>>
       ELSE /\ call' = Settled(call, SpawnFailure(error))
            /\ IF kind = "stream"
                 THEN /\ reply' = <<"role", "error", "[DONE]">>
                      /\ logged' = <<[ok |-> FALSE, code |-> SpawnFailure(error)]>>
                 ELSE UNCHANGED <<reply, logged>>
  /\ UNCHANGED <<kind, wrote, pipe>>

-----------------------------------------------------------------------------
(* The child writes, and its output is read.                                *)

Write(chunk) ==
  /\ child.state = "running" \/ (child.state = "exited" /\ child.held)
  /\ Len(wrote) < MaxOutput
  /\ Len(pipe) < 2     \* bound: one chunk behind another
  /\ wrote' = wrote \o chunk
  /\ pipe' = Append(pipe, chunk)
  /\ UNCHANGED <<kind, child, call, reply, logged>>

Killed == child' = [child EXCEPT !.killed = TRUE]

\* chat, probe, execute_command, run_command: the chunk over the cap is cut
\* and the child killed; at the cap everything else is dropped.
ReadCapped(chunk) ==
  LET room == MaxStdoutBytes - call.count
  IN IF room <= 0
       THEN /\ call' = [call EXCEPT !.truncated = TRUE]
            /\ UNCHANGED child
       ELSE IF Bytes(chunk) > room
       THEN /\ call' = [call EXCEPT !.text = call.text \o Cut(chunk, room),
                                    !.count = MaxStdoutBytes, !.truncated = TRUE]
            /\ Killed
       ELSE /\ call' = [call EXCEPT !.text = call.text \o chunk,
                                    !.count = call.count + Bytes(chunk)]
            /\ UNCHANGED child

\* stream: characters are counted against a cap in bytes, and the child is
\* killed by the chunk after the one that went over it.
ReadStream(chunk) ==
  LET room  == MaxStdoutBytes - call.count
      slice == Cut(chunk, room)
      split == SplitLines(call.line \o slice)
      texts == TextOf(split.lines)
  IN IF room <= 0
       THEN /\ call' = [call EXCEPT !.truncated = TRUE]
            /\ Killed
            /\ UNCHANGED reply
       ELSE /\ call' = [call EXCEPT !.text = call.text \o slice,
                                    !.count = call.count + Len(slice),
                                    !.line = split.rest,
                                    !.deltas = call.deltas + Len(texts),
                                    !.truncated = call.truncated \/ Bytes(chunk) > room]
            /\ Deliver(Deltas(texts))
            /\ UNCHANGED child

\* The Claude chat: no cap, one event for each line it knows.
ReadClaude(chunk) ==
  LET split == SplitLines(call.line \o chunk)
  IN /\ call' = [call EXCEPT !.text = call.text \o chunk, !.line = split.rest]
     /\ Deliver(Deltas(TranslateLines(split.lines)))
     /\ UNCHANGED child

Read ==
  /\ pipe # <<>>
  /\ pipe' = Tail(pipe)
  /\ CASE kind = "stream" -> ReadStream(Head(pipe))
       [] kind = "claude" -> ReadClaude(Head(pipe))
       [] OTHER           -> ReadCapped(Head(pipe)) /\ UNCHANGED reply
  /\ UNCHANGED <<kind, wrote, logged>>

-----------------------------------------------------------------------------
(* The end of the child.                                                    *)

Exit(code) ==
  /\ child.state = "running"
  /\ child' = [child EXCEPT !.state = "exited", !.code = code]
  /\ UNCHANGED <<kind, wrote, pipe, call, reply, logged>>

\* A descendant that inherited the pipe lets go of it.
ReleasePipe ==
  /\ child.state = "exited"
  /\ child.held
  /\ child' = [child EXCEPT !.held = FALSE]
  /\ UNCHANGED <<kind, wrote, pipe, call, reply, logged>>

\* What the answer of a CLI is, once its process is closed.
Verdict(c, code) ==
  CASE c.timedOut                           -> "cli-timeout"
    [] c.truncated                          -> "cli-output-too-large"
    [] code # 0                             -> "cli-exit-nonzero"
    [] ~ ParseStdout(c.text).content        -> "cli-empty-output"
    [] OTHER                                -> "ok"

ProbeVerdict(c, code) ==
  IF c.timedOut \/ code # 0 THEN "cli-healthcheck-failed" ELSE "ok"

\* A streamed answer with text is never empty, whatever its output parses to.
StreamVerdict(c, code) ==
  IF Verdict(c, code) = "cli-empty-output" /\ c.deltas > 0 THEN "ok"
  ELSE Verdict(c, code)

CloseCli ==
  LET verdict == IF kind = "probe" THEN ProbeVerdict(call, child.code)
                                   ELSE Verdict(call, child.code)
      usage   == IF kind = "probe" THEN "none" ELSE ParseStdout(call.text).usage
  IN /\ call' = Settled([call EXCEPT !.usage = usage], verdict)
     /\ UNCHANGED <<reply, logged>>

\* Mutant: the line without an end is forgotten.
CloseStream_NoTail ==
  LET verdict == StreamVerdict(call, child.code)
      body    == IF verdict # "ok" THEN <<Event("error")>>
                 ELSE IF call.deltas > 0 THEN <<Event("usage"), Event("end")>>
                 ELSE <<[type |-> "delta", text |-> "all"], Event("usage"), Event("end")>>
  IN /\ call' = Settled([call EXCEPT !.usage = ParseStdout(call.text).usage], verdict)
     /\ Finish(body, verdict)

CloseStream ==
  LET tail    == TextOf(<<call.line>>)
      after   == [call EXCEPT !.deltas = call.deltas + Len(tail)]
      verdict == StreamVerdict(after, child.code)
      body    == IF verdict # "ok" THEN <<Event("error")>>
                 ELSE IF after.deltas > 0 THEN <<Event("usage"), Event("end")>>
                 ELSE <<[type |-> "delta", text |-> "all"], Event("usage"), Event("end")>>
  IN /\ call' = Settled([after EXCEPT !.usage = ParseStdout(call.text).usage], verdict)
     /\ Finish(Deltas(tail) \o body, verdict)

\* A command reports what it printed; a null exit code is reported as 0.
CloseCommand ==
  LET c == [call EXCEPT !.exitCode = IF child.code = Signalled THEN 0 ELSE child.code]
  IN /\ call' = IF call.done THEN call
                ELSE Settled(c, IF kind = "execute" /\ call.aborted THEN "user-aborted" ELSE "ok")
     /\ UNCHANGED <<reply, logged>>

\* The chat that waits for this event goes on; null is no failure to it.
CloseClaude ==
  /\ call' = IF call.waits THEN Settled(call, "ended") ELSE call
  /\ reply' = IF call.waits
                THEN reply \o (IF child.code \in {0, Signalled} THEN <<"done">>
                                                            ELSE <<"error", "done">>)
                ELSE reply
  /\ UNCHANGED logged

\* 'close': the process is gone and its pipes are at their end.
Close ==
  /\ child.state \in {"exited", "failed"}
  /\ pipe = <<>>
  /\ ~ child.held
  /\ child' = [child EXCEPT !.state = "closed"]
  /\ CASE kind \in {"probe", "chat"} -> CloseCli
       [] kind = "stream"            -> CloseStream
       [] kind \in Commands          -> CloseCommand
       [] kind = "claude"            -> CloseClaude
  /\ UNCHANGED <<kind, wrote, pipe>>

\* The loop over the chat's output ends; its exit code is known or awaited.
StdoutEnds ==
  /\ kind = "claude"
  /\ child.state \in {"exited", "failed", "closed"}
  /\ child.error # "thrown"
  /\ pipe = <<>>
  /\ ~ child.held
  /\ ~ call.done
  /\ ~ call.waits
  /\ LET tail  == ChunksOf(Deltas(TranslateLines(<<call.line>>)))
         known == child.error # "none" \/ child.code # Signalled
         ends  == IF child.error # "none" \/ child.code # 0 THEN <<"error", "done">>
                                                            ELSE <<"done">>
     IN /\ reply' = reply \o tail \o (IF known THEN ends ELSE <<>>)
        /\ call' = IF known THEN Settled(call, "ended") ELSE [call EXCEPT !.waits = TRUE]
  /\ UNCHANGED <<kind, child, wrote, pipe, logged>>

-----------------------------------------------------------------------------
(* The timer and a reader that gives up.                                    *)

\* Mutant: the timer of a CLI does not kill it.
Timeout_NoKill ==
  /\ call.timer
  /\ call' = IF kind \in Commands THEN Settled(call, "command-timeout")
             ELSE [call EXCEPT !.timedOut = TRUE, !.timer = FALSE]
  /\ UNCHANGED <<kind, child, wrote, pipe, reply, logged>>

\* A CLI is killed and its close waited for; a command is answered at once.
Timeout ==
  /\ call.timer
  /\ call' = IF kind \in Commands THEN Settled(call, "command-timeout")
             ELSE [call EXCEPT !.timedOut = TRUE, !.timer = FALSE]
  /\ Killed
  /\ UNCHANGED <<kind, wrote, pipe, reply, logged>>

\* SIGTERM, which the child may ignore; SIGKILL never follows, for the child
\* counts as killed as soon as a signal was sent.
Abort ==
  /\ kind \in {"execute", "claude"}
  /\ child.state = "running"
  /\ ~ call.aborted
  /\ ~ call.done
  /\ call' = [call EXCEPT !.aborted = TRUE]
  /\ UNCHANGED <<kind, child, wrote, pipe, reply, logged>>

\* Nothing is left to happen.
Stopped ==
  /\ child.state = "closed"
  /\ kind = "claude" => call.done \/ call.waits
  /\ UNCHANGED vars

Next ==
  \/ Spawn
  \/ SpawnThrows
  \/ \E error \in {"notfound", "other"} : SpawnError(error)
  \/ \E chunk \in Chunks : Write(chunk)
  \/ Read
  \/ \E code \in {0, 1, Signalled} : Exit(code)
  \/ ReleasePipe
  \/ Close
  \/ StdoutEnds
  \/ Timeout
  \/ Abort
  \/ Stopped

\* A killed process ends, timers fire, events are handled; a descendant lets
\* go of the pipe in the end.  A process nobody killed may run forever.
Fairness ==
  /\ WF_vars(Spawn)
  /\ WF_vars(Read)
  /\ WF_vars(child.killed /\ Exit(Signalled))
  /\ WF_vars(ReleasePipe)
  /\ WF_vars(Close)
  /\ WF_vars(StdoutEnds)
  /\ WF_vars(Timeout)

Spec == Init /\ [][Next]_vars /\ Fairness

-----------------------------------------------------------------------------
TypeOK ==
  /\ kind \in AllKinds \cup {"none"}
  /\ child.state \in {"none", "running", "exited", "failed", "closed"}
  /\ child.code \in {0, 1, Signalled}
  /\ wrote \in Seq(Symbols)
  /\ call.text \in Seq(Symbols)
  /\ call.count \in 0 .. MaxStdoutBytes
  /\ {call.truncated, call.timer, call.timedOut, call.done} \subseteq BOOLEAN

Answer == SelectSeq(reply, LAMBDA x : x \in Symbols \cup {"all"})
Ends   == {"stop", "error"}

\* A call that reports success read everything its child wrote, from a child
\* that exited with 0 on its own; a streamed answer is then every text line of
\* that output, in order, or all of it when no line had text; a command's
\* output is complete or marked truncated (subscriptionCli.ts,
\* executeCommand.ts, runCommand.ts).
SuccessIsComplete ==
  /\ TypeOK
  /\ call.done /\ call.outcome = "ok" =>
       /\ kind \in Cli => child.code = 0 /\ ~ call.timedOut
       /\ kind \in {"chat", "stream"} => call.text = wrote
       /\ kind \in Commands /\ ~ call.truncated => call.text = wrote
       /\ kind = "stream" =>
            Answer \in {[i \in DOMAIN t |-> t[i][1]] : t \in {TextOf(AllLines(wrote))} \ {<<>>}}
                       \cup {<<"all">>}

\* A streamed reply that is over has its role first, one finishing chunk right
\* before the one [DONE], and one usage record that says ok exactly when the
\* answer was not an error (streamSubprocessResponse).
RepliesAreClosed ==
  kind = "stream" /\ call.done =>
    LET n == Len(reply)
    IN /\ n >= 3
       /\ \A i \in 1 .. n : /\ reply[i] = "role" <=> i = 1
                            /\ reply[i] \in Ends <=> i = n - 1
                            /\ reply[i] = "[DONE]" <=> i = n
       /\ Len(logged) = 1
       /\ logged[1].ok <=> reply[n - 1] = "stop"

\* Every call with a timer ends, whatever its child does (the CLI calls and
\* the command tools).
TimedCallsEnd == (kind \in Cli \cup Commands) ~> call.done
=============================================================================
