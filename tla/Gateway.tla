------------------------------ MODULE Gateway ------------------------------
(***************************************************************************)
(* The Anthropic gateway of the daemon: POST /v1/messages (streamed or     *)
(* not) and /v1/messages/count_tokens, forwarded to the provider; the      *)
(* experimental transformation of tool results on the way; back-pressure   *)
(* from the client and its disconnection; and the gateway log, whose       *)
(* writes are serialised by a promise queue and trimmed by age and size.   *)
(*                                                                         *)
(* One event loop: an action is what runs between two awaits.  A log line  *)
(* has size 1, a chunk of a stream has size 1, and a day of the clock is   *)
(* longer than any request.                                                *)
(***************************************************************************)
EXTENDS Integers, Sequences, SequencesExt, FiniteSets

CONSTANTS
  Reqs,         \* requests, each made once
  Inputs,       \* request bodies with the configured transformation mode
  Statuses,     \* statuses the provider may answer with
  HighWater,    \* chunks buffered for a client at which write() returns false
  LogLimit,     \* GATEWAY_LOG_MAX_BYTES, in lines
  MaxAge,       \* GATEWAY_LOG_MAX_AGE_DAYS
  MinInput,     \* minInputUtf8Bytes
  HeadBytes,    \* preservedHeadUtf8Bytes
  TailBytes,    \* preservedTailUtf8Bytes
  Overhead,     \* bytes of an envelope besides what it preserves
  Escapes,      \* bytes more an envelope takes as a JSON string (line breaks)
  MaxChunks,    \* bound: chunks the provider streams to one request
  MaxDay,       \* bound: the clock
  None

BadGateway == 502

\* A tool result, of characters that are all width bytes wide, and a body.
ToolResult == [size : Nat, width : 1 .. 4, named : BOOLEAN, error : BOOLEAN,
               plain : BOOLEAN, allowed : BOOLEAN]
RequestBody == [mode : {"off", "observe", "envelope"}, json : BOOLEAN, slack : Nat,
                results : Seq(ToolResult)]

ASSUME GatewayAssumption ==
  /\ {HighWater, LogLimit} \subseteq Nat \ {0}
  /\ {MaxAge, MinInput, HeadBytes, TailBytes, Overhead, Escapes, MaxChunks, MaxDay}
       \subseteq Nat
  /\ Statuses \subseteq Nat
  /\ None \notin Nat
  /\ Inputs \subseteq RequestBody

VARIABLES
  input,       \* the body every request of this behaviour carries
  clock,       \* day
  req,         \* req[r]: the request r and the locals of its handler
  queue,       \* writeQueue: requests whose line is not yet written
  appended,    \* the head of the queue is appended, its trim is under way
  file,        \* anthropic-gateway.jsonl
  written      \* history: all lines ever appended

vars == <<input, clock, req, queue, appended, file, written>>

-----------------------------------------------------------------------------
(* The transformation of a request. *)

\* utf8Prefix, utf8Suffix: whole characters only.
Preserved(x, max) == IF x.size <= max THEN x.size ELSE (max \div x.width) * x.width

EnvelopeSize(x) == Overhead + Preserved(x, HeadBytes) + Preserved(x, TailBytes)

\* Tool results of a known call, not an error, of nothing but text.
IsCandidate(x) == x.named /\ ~x.error /\ x.plain

Replaced(x) ==
  /\ IsCandidate(x)
  /\ x.allowed
  /\ x.size >= MinInput
  /\ EnvelopeSize(x) < x.size

Total(sizes) ==
  LET sum[i \in 0 .. Len(sizes)] == IF i = 0 THEN 0 ELSE sum[i - 1] + sizes[i]
  IN  sum[Len(sizes)]

BytesBefore == input.slack + Total([i \in DOMAIN input.results |-> input.results[i].size])

SizeAfter(x) == IF Replaced(x) THEN EnvelopeSize(x) + Escapes ELSE x.size

\* JSON.stringify drops the slack, the white space of the body as received.
BytesAfter == Total([i \in DOMAIN input.results |-> SizeAfter(input.results[i])])

\* Mutant: the whole body is not compared again once results were replaced.
Gains_Always == TRUE

\* Every envelope is shorter than its result, the body they are in may not be.
Gains == BytesAfter < BytesBefore

Metric(outcome, eligible, transformed, before, after) ==
  [outcome |-> outcome, eligible |-> eligible, transformed |-> transformed,
   before |-> before, after |-> after]

\* What is forwarded, in bytes, and what the log says about it.
Transformed ==
  LET eligible == Cardinality({i \in DOMAIN input.results : IsCandidate(input.results[i])})
      changed  == Cardinality({i \in DOMAIN input.results : Replaced(input.results[i])})
      As(outcome) == [sent |-> BytesBefore,
                      metric |-> Metric(outcome, eligible, 0, BytesBefore, BytesBefore)]
  IN CASE input.mode = "off" ->
            [sent |-> BytesBefore, metric |-> Metric("disabled", 0, 0, None, None)]
       [] input.mode # "off" /\ ~input.json ->
            [sent |-> BytesBefore, metric |-> Metric("bypassed_error", 0, 0, None, None)]
       [] input.mode = "observe" /\ input.json -> As("observed")
       [] input.mode = "envelope" /\ input.json
            /\ (changed = 0 \/ ~Gains) -> As("bypassed_ineligible")
       [] OTHER ->
            [sent |-> BytesAfter,
             metric |-> Metric("transformed", eligible, changed, BytesBefore, BytesAfter)]

\* The schema of a log line: lines it refuses are not written.
Accepted(m) ==
  \/ m = None
  \/ /\ m.transformed <= m.eligible
     /\ m.outcome = "transformed" => m.transformed > 0
     /\ m.before # None => m.before - m.after >= 0

-----------------------------------------------------------------------------
(* The log. *)

Line(r) == [req |-> r, status |-> req[r].status, day |-> req[r].day]

\* The lines since a day.
Since(lines, day) ==
  LET kept[i \in 0 .. Len(lines)] ==
        IF i = 0 THEN << >>
        ELSE IF lines[i].day >= day THEN Append(kept[i - 1], lines[i]) ELSE kept[i - 1]
  IN  kept[Len(lines)]

\* Mutant: a file too long is cut at its end.
NewestOf_Oldest(lines) == SubSeq(lines, 1, Min({Len(lines), LogLimit}))

NewestOf(lines) == SubSeq(lines, Max({1, Len(lines) - LogLimit + 1}), Len(lines))

\* maybeTrim reads the whole file only if it is too long or its first line too old.
Trimmed ==
  IF Len(file) > LogLimit \/ file[1].day < clock - MaxAge
  THEN NewestOf(Since(file, clock - MaxAge))
  ELSE file

-----------------------------------------------------------------------------
Kinds == {"stream", "plain", "count"}

New == [pc |-> "new", kind |-> "plain", day |-> 0, conn |-> "there", up |-> "none",
        chunks |-> 0, buffer |-> 0, status |-> None, seen |-> None, sent |-> None,
        metric |-> None, next |-> "return", unlogged |-> FALSE]

Init ==
  /\ input \in Inputs
  /\ clock = 0
  /\ req = [r \in Reqs |-> New]
  /\ queue = <<>>
  /\ appended = FALSE
  /\ file = <<>>
  /\ written = <<>>

At(r, pc) == req[r].pc = pc

\* What the client of request q knows once status s was sent.
Seen(q, s) == IF q.conn = "there" /\ q.seen = None THEN s ELSE q.seen

\* What the handler of q does last, once logFinal has returned.
Over(q) ==
  [q EXCEPT !.pc = "done", !.status = None, !.next = "return",
            !.seen = IF q.next \in {"answer", "refuse"} THEN Seen(q, q.status) ELSE @,
            !.buffer = IF q.next = "destroy" THEN 0 ELSE @]

\* The handler of r, in state q, calls logFinal(s) and goes on with next when it
\* returns: the line joins the queue, unless the schema refuses it.
LogFinal(r, q, s, next) ==
  LET logging == [q EXCEPT !.pc = "logging", !.status = s, !.next = next, !.chunks = 0]
      refused == ~Accepted(q.metric)
  IN /\ req'   = [req EXCEPT ![r] = IF refused THEN Over(logging) ELSE logging]
     /\ queue' = IF refused THEN queue ELSE Append(queue, r)

LogUnchanged == UNCHANGED <<input, clock, appended, file, written>>
OnlyReq      == LogUnchanged /\ UNCHANGED queue

-----------------------------------------------------------------------------
(* The environment: time, clients. *)

Tick ==
  /\ clock < MaxDay
  /\ \A r \in Reqs : \/ req[r].pc \in {"new", "done"}
                     \/ At(r, "drain") /\ req[r].conn = "closed"
  /\ clock' = clock + 1
  /\ UNCHANGED <<input, req, queue, appended, file, written>>

ClientReads(r) ==
  /\ req[r].conn = "there"
  /\ req[r].buffer > 0
  /\ req' = [req EXCEPT ![r].buffer = @ - 1]
  /\ OnlyReq

ClientLeaves(r) ==
  /\ req[r].pc \notin {"new", "done"}
  /\ req[r].conn = "there"
  /\ req' = [req EXCEPT ![r].conn = "left"]
  /\ OnlyReq

\* Mutant: a signal of the caller replaces the listeners instead of joining them.
CloseEvent_CallerSignal(r) ==
  /\ req[r].conn = "left"
  /\ req' = [req EXCEPT ![r].conn = "closed"]
  /\ OnlyReq

\* The daemon learns that the client has left.  Only streamMessages listens, and
\* only while it runs; its abort reaches the provider.
CloseEvent(r) ==
  /\ req[r].conn = "left"
  /\ req' = [req EXCEPT ![r].conn = "closed",
                        ![r].up = IF /\ req[r].kind = "stream"
                                     /\ req[r].pc \in {"fetch", "read", "drain"}
                                     /\ @ = "open"
                                  THEN "aborted" ELSE @]
  /\ OnlyReq

-----------------------------------------------------------------------------
(* The handlers. *)

Refuse(r) ==
  /\ At(r, "new")
  /\ req' = [req EXCEPT ![r].pc = "done", ![r].seen = 404]
  /\ OnlyReq

Arrive(r, kind) ==
  /\ At(r, "new")
  /\ kind = "stream" => input.json
  /\ req' = [req EXCEPT ![r].pc = "body", ![r].kind = kind, ![r].day = clock]
  /\ OnlyReq

\* readRawBody throws: the client has left, or sent too much and is cut off.
BodyFails(r) ==
  /\ At(r, "body")
  /\ req' = [req EXCEPT ![r].pc = "done", ![r].conn = "closed"]
  /\ OnlyReq

BodyRead(r) ==
  /\ At(r, "body")
  /\ req[r].conn # "closed"
  /\ LET t == IF req[r].kind = "count" THEN [sent |-> BytesBefore, metric |-> None]
                                       ELSE Transformed
     IN req' = [req EXCEPT ![r].pc = "fetch", ![r].up = "open",
                           ![r].sent = t.sent, ![r].metric = t.metric]
  /\ OnlyReq

\* fetch rejects: no answer, or aborted.
FetchFails(r) ==
  /\ At(r, "fetch")
  /\ LogFinal(r, [req[r] EXCEPT !.up = IF @ = "open" THEN "over" ELSE @],
              BadGateway, "refuse")
  /\ LogUnchanged

\* forwardMessages: the whole answer, logged before it is sent on.
PlainAnswer(r, s) ==
  /\ At(r, "fetch")
  /\ req[r].kind = "plain"
  /\ LogFinal(r, [req[r] EXCEPT !.up = "over"], s, "answer")
  /\ LogUnchanged

\* forwardCountTokens, the same but for the transformation.
CountAnswer(r, s) ==
  /\ At(r, "fetch")
  /\ req[r].kind = "count"
  /\ LogFinal(r, [req[r] EXCEPT !.up = "over"], s, "answer")
  /\ LogUnchanged

StreamHeaders(r, s) ==
  /\ At(r, "fetch")
  /\ req[r].kind = "stream"
  /\ req[r].up = "open"
  /\ req' = [req EXCEPT ![r].pc = "read", ![r].status = s]
  /\ OnlyReq

\* Mutant: what write() returns is not looked at.
Chunk_NoWait(r) ==
  /\ At(r, "read")
  /\ req[r].up = "open"
  /\ req[r].chunks < MaxChunks
  /\ req' = [req EXCEPT ![r].chunks = @ + 1, ![r].buffer = @ + 1,
                        ![r].seen = Seen(req[r], req[r].status)]
  /\ OnlyReq

\* A chunk is written on; a full buffer makes the handler wait before it reads again.
Chunk(r) ==
  /\ At(r, "read")
  /\ req[r].up = "open"
  /\ req[r].chunks < MaxChunks
  /\ req' = [req EXCEPT ![r].chunks = @ + 1, ![r].buffer = @ + 1,
                        ![r].seen = Seen(req[r], req[r].status),
                        ![r].pc = IF req[r].buffer + 1 < HighWater THEN "read" ELSE "drain"]
  /\ OnlyReq

\* Mutant: waits for the close of the response.
Drain_Close(r) ==
  /\ At(r, "drain")
  /\ req[r].conn = "closed"
  /\ req' = [req EXCEPT ![r].pc = "read"]
  /\ OnlyReq

\* once(res, "drain"); a connection that has closed never drains.
Drain(r) ==
  /\ At(r, "drain")
  /\ req[r].buffer = 0
  /\ req[r].conn # "closed"
  /\ req' = [req EXCEPT ![r].pc = "read"]
  /\ OnlyReq

StreamEnds(r) ==
  /\ At(r, "read")
  /\ req[r].up = "open"
  /\ LogFinal(r, [req[r] EXCEPT !.up = "over", !.seen = Seen(req[r], req[r].status)],
              req[r].status, "return")
  /\ LogUnchanged

\* Mutant: whatever fails is logged as a bad gateway.
StreamFails_BadGateway(r) ==
  /\ At(r, "read")
  /\ LogFinal(r, [req[r] EXCEPT !.up = IF @ = "open" THEN "over" ELSE @,
                                !.seen = Seen(req[r], req[r].status)],
              BadGateway, "destroy")
  /\ LogUnchanged

\* read() rejects.  The finally block ends the response as after a complete stream,
\* so the headers are out whenever the handler catches the error.
StreamFails(r) ==
  /\ At(r, "read")
  /\ LogFinal(r, [req[r] EXCEPT !.up = IF @ = "open" THEN "over" ELSE @,
                                !.seen = Seen(req[r], req[r].status)],
              req[r].status, "destroy")
  /\ LogUnchanged

-----------------------------------------------------------------------------
(* appendImpl for the head of the queue; its handler goes on at once when it is done. *)

AppendLine ==
  /\ queue # <<>>
  /\ ~appended
  /\ appended' = TRUE
  /\ file' = Append(file, Line(Head(queue)))
  /\ written' = Append(written, Line(Head(queue)))
  /\ UNCHANGED <<input, clock, req, queue>>

MaybeTrim ==
  /\ appended
  /\ file' = Trimmed
  /\ appended' = FALSE
  /\ queue' = Tail(queue)
  /\ req' = [req EXCEPT ![Head(queue)] = Over(@)]
  /\ UNCHANGED <<input, clock, written>>

\* mkdir or appendFile throws: the queue goes on, and so does the handler.
AppendFails ==
  /\ queue # <<>>
  /\ ~appended
  /\ queue' = Tail(queue)
  /\ req' = [req EXCEPT ![Head(queue)] = Over([@ EXCEPT !.unlogged = TRUE])]
  /\ LogUnchanged

-----------------------------------------------------------------------------
Upstream(r) ==
  \/ FetchFails(r)
  \/ \E s \in Statuses : PlainAnswer(r, s) \/ CountAnswer(r, s) \/ StreamHeaders(r, s)
  \/ Chunk(r)
  \/ StreamEnds(r)
  \/ StreamFails(r)

Body(r) == BodyFails(r) \/ BodyRead(r)

Next ==
  \/ Tick
  \/ AppendLine
  \/ MaybeTrim
  \/ AppendFails
  \/ \E r \in Reqs :
       \/ Refuse(r)
       \/ \E kind \in Kinds : Arrive(r, kind)
       \/ ClientReads(r)
       \/ ClientLeaves(r)
       \/ CloseEvent(r)
       \/ Body(r)
       \/ Upstream(r)
       \/ Drain(r)

Spec == Init /\ [][Next]_vars

\* Bodies and fetches end or time out, close events arrive, a client that stays reads.
FairSpec ==
  /\ Spec
  /\ WF_vars(AppendLine \/ AppendFails)
  /\ WF_vars(MaybeTrim)
  /\ \A r \in Reqs :
       /\ WF_vars(Body(r))
       /\ WF_vars(Upstream(r))
       /\ WF_vars(Drain(r))
       /\ WF_vars(CloseEvent(r))
       /\ WF_vars(ClientReads(r))

-----------------------------------------------------------------------------
(* Properties. *)

\* State and locals have their types.
TypeOK ==
  /\ input \in Inputs
  /\ clock \in 0 .. MaxDay
  /\ \A r \in Reqs :
       LET q == req[r]
       IN /\ q.pc \in {"new", "body", "fetch", "read", "drain", "logging", "done"}
          /\ q.kind \in Kinds
          /\ q.day \in 0 .. clock
          /\ q.conn \in {"there", "left", "closed"}
          /\ q.up \in {"none", "open", "over", "aborted"}
          /\ q.chunks \in 0 .. MaxChunks
          /\ q.buffer \in 0 .. HighWater
          /\ {q.status, q.seen} \subseteq Statuses \cup {BadGateway, 404, None}
          /\ q.sent \in Nat \cup {None}
          /\ q.next \in {"return", "answer", "refuse", "destroy"}
          /\ q.unlogged \in BOOLEAN
  /\ queue \in Seq(Reqs)
  /\ appended \in BOOLEAN

\* Every request that was forwarded and is over has exactly one line in the log,
\* unless writing it failed, with the status its client saw, if it saw one
\* (docs: the observed status, never a 502 after a 200). No client's buffer holds
\* more than the high-water mark meanwhile, however slowly it reads (TypeOK).
LoggedOnceAsSeen ==
  /\ TypeOK
  /\ \A r \in Reqs :
       LET lines == {i \in 1 .. Len(written) : written[i].req = r}
       IN At(r, "done") /\ req[r].sent # None /\ ~req[r].unlogged =>
            /\ \E i \in lines : /\ lines = {i}
                                /\ req[r].seen \in {None, written[i].status}
                                /\ req[r].seen = None => req[r].conn # "there"

\* The log can be believed. Between writes the file holds exactly the newest lines
\* that fit, of those that were recent when the last one was written: nothing newer
\* is lost to keep an older line. The saving a line claims is the one that was made,
\* and one the schema takes: the body forwarded is shorter than the body received
\* by just that, or as received.
LogIsTrue ==
  /\ ~appended =>
       LET recent == Since(written, Last(written).day - MaxAge)
       IN IsSuffix(file, recent) /\ Len(file) = Min({LogLimit, Len(recent)})
  /\ \A r \in Reqs :
       LET m == req[r].metric
       IN m # None =>
            /\ Accepted(m)
            /\ IF m.outcome = "transformed"
               THEN BytesBefore = m.before /\ req[r].sent = m.after /\ m.after < m.before
               ELSE req[r].sent = BytesBefore

\* Every forwarded request comes to its end, with the client told, unless it left;
\* and a client that leaves a stream stops the provider, wherever the stream is.
RequestsEnd ==
  \A r \in Reqs :
    /\ At(r, "fetch") ~> (At(r, "done") \/ req[r].conn # "there")
    /\ req[r].kind = "stream" /\ req[r].conn # "there" ~> req[r].up # "open"
=============================================================================
