--------------------------- MODULE PageTransport ---------------------------
(***************************************************************************)
(* The web page in the VS Code sidebar and the extension host that calls   *)
(* the daemon for it: the page's numbered requests and streams             *)
(* (createVsCodeTransport), the host's router with its table of requests   *)
(* in flight (createMessageRouter), the two message queues between them,   *)
(* and the host's habit of loading the page anew into the same view        *)
(* (TierkitSidebarProvider.render) while the router lives on.              *)
(***************************************************************************)
EXTENDS Naturals, Sequences

CONSTANTS
  MaxId,      \* bound: requests and streams of one page
  MaxPages,   \* bound: pages loaded into the view
  MaxChunks,  \* bound: chunks of one stream
  MaxQueue    \* bound: messages on the way when another call, abort or chunk is sent

VARIABLES
  page,       \* which page is loaded; 0 when the view is disposed
  nextId,     \* the page's counter
  entry,      \* the page's table of pending requests, by id
  toHost,     \* messages from pages to the host
  job,        \* the host's handlers: job[<<p, i>>] for request i of page p
  inflight,   \* the host's table of controllers, by id
  toPage,     \* messages from the host to whatever page is loaded
  got,        \* history: what request i of page p was given
  overlapped  \* history: a page was replaced before all its calls were over

vars == <<page, nextId, entry, toHost, job, inflight, toPage, got, overlapped>>

Ids    == 1 .. MaxId
Tokens == (1 .. MaxPages) \X Ids
Nobody == <<0, 0>>
NoJob  == [kind |-> "none", state |-> "none", chunks |-> 0]

Init ==
  /\ page = 1
  /\ nextId = 1
  /\ entry = [i \in Ids |-> "none"]
  /\ toHost = <<>>
  /\ job = [t \in Tokens |-> NoJob]
  /\ inflight = [i \in Ids |-> Nobody]
  /\ toPage = <<>>
  /\ got = [t \in Tokens |-> <<>>]
  /\ overlapped = FALSE

Page == <<page, nextId, entry, got, overlapped>>
Host == <<job, inflight>>

-----------------------------------------------------------------------------
(* The page.                                                                *)

\* request or stream: a fresh id, an entry, a message.
Call(kind) ==
  /\ page # 0
  /\ nextId <= MaxId
  /\ Len(toHost) < MaxQueue
  /\ nextId' = nextId + 1
  /\ entry' = [entry EXCEPT ![nextId] = kind]
  /\ toHost' = Append(toHost, [type |-> kind, id |-> nextId, page |-> page])
  /\ UNCHANGED <<page, Host, toPage, got, overlapped>>

\* The caller's signal: a request is given up at once, a stream waits for the
\* host to confirm.
Abort(i) ==
  /\ page # 0
  /\ entry[i] \in {"request", "stream"}
  /\ Len(toHost) < MaxQueue
  /\ toHost' = Append(toHost, [type |-> "abort", id |-> i, page |-> page])
  /\ entry' = [entry EXCEPT ![i] = IF entry[i] = "request" THEN "none" ELSE "aborting"]
  /\ UNCHANGED <<page, nextId, Host, toPage, got, overlapped>>

\* The loop over a stream is left: the host is not told.
LeaveStream(i) ==
  /\ page # 0
  /\ entry[i] \in {"stream", "aborting"}
  /\ entry' = [entry EXCEPT ![i] = "none"]
  /\ UNCHANGED <<page, nextId, toHost, Host, toPage, got, overlapped>>

Give(i, m) ==
  got' = [got EXCEPT ![<<page, i>>] = Append(@, [type |-> m.type, from |-> m.from, n |-> m.n])]

\* The listener: what a message does depends on its type and on the entry
\* its id finds, not on the request it answers.
Listen(m) ==
  LET kind == entry[m.id]
  IN CASE m.type \in {"res", "err"} ->
            /\ entry' = [entry EXCEPT ![m.id] = "none"]
            /\ IF kind = "request" \/ m.type = "err" THEN Give(m.id, m) ELSE UNCHANGED got
       [] m.type = "chunk" ->
            /\ IF kind # "request" THEN Give(m.id, m) ELSE UNCHANGED got
            /\ UNCHANGED entry
       [] m.type = "done" ->
            /\ entry' = [entry EXCEPT ![m.id] = "none"]
            /\ IF kind # "request" THEN Give(m.id, m) ELSE UNCHANGED got

PageReceives ==
  /\ toPage # <<>>
  /\ toPage' = Tail(toPage)
  /\ IF page # 0 /\ entry[Head(toPage).id] # "none"
       THEN Listen(Head(toPage))
       ELSE UNCHANGED <<entry, got>>
  /\ UNCHANGED <<page, nextId, toHost, Host, overlapped>>

-----------------------------------------------------------------------------
(* The host.                                                                *)

\* handle: a call gets a controller under its id, an abort finds the
\* controller that is there now.
HostReceives ==
  /\ toHost # <<>>
  /\ toHost' = Tail(toHost)
  /\ LET m == Head(toHost)
         t == <<m.page, m.id>>
     IN IF m.type = "abort"
          THEN /\ job' = IF inflight[m.id] # Nobody
                           THEN [job EXCEPT ![inflight[m.id]].state = "aborted"] ELSE job
               /\ UNCHANGED inflight
          ELSE /\ job' = [job EXCEPT ![t].kind = m.type, ![t].state = "open"]
               /\ inflight' = [inflight EXCEPT ![m.id] = t]
  /\ UNCHANGED <<Page, toPage>>

Post(type, t, n) ==
  toPage' = Append(toPage, [type |-> type, id |-> t[2], from |-> t, n |-> n])

\* Mutant: a call that is over keeps its place in the table.
OverWith_Kept(t) ==
  /\ job' = [job EXCEPT ![t].state = "over"]
  /\ UNCHANGED inflight

\* The finally blocks: the table forgets the id, whoever holds it now.
OverWith(t) ==
  /\ job' = [job EXCEPT ![t].state = "over"]
  /\ inflight' = [inflight EXCEPT ![t[2]] = Nobody]

\* handleReq: the daemon answers, perhaps just before the abort.
RequestAnswered(t) ==
  /\ job[t].kind = "request"
  /\ job[t].state \in {"open", "aborted"}
  /\ OverWith(t)
  /\ Post("res", t, 0)
  /\ UNCHANGED <<Page, toHost>>

\* The call fails; an aborted one is not reported.
RequestFails(t) ==
  /\ job[t].kind = "request"
  /\ job[t].state \in {"open", "aborted"}
  /\ OverWith(t)
  /\ IF job[t].state = "open" THEN Post("err", t, 0) ELSE UNCHANGED toPage
  /\ UNCHANGED <<Page, toHost>>

\* handleStream: a chunk is passed on.
StreamChunk(t) ==
  /\ job[t].kind = "stream"
  /\ job[t].state = "open"
  /\ job[t].chunks < MaxChunks
  /\ Len(toPage) < MaxQueue
  /\ job' = [job EXCEPT ![t].chunks = job[t].chunks + 1]
  /\ Post("chunk", t, job[t].chunks + 1)
  /\ UNCHANGED <<Page, toHost, inflight>>

\* However it ends, the page is told once.
StreamEnds(t) ==
  /\ job[t].kind = "stream"
  /\ job[t].state \in {"open", "aborted"}
  /\ OverWith(t)
  /\ Post("done", t, 0)
  /\ UNCHANGED <<Page, toHost>>

-----------------------------------------------------------------------------
(* The view.                                                                *)

Busy ==
  \/ toHost # <<>>
  \/ toPage # <<>>
  \/ \E t \in Tokens : job[t].state \in {"open", "aborted"}

\* render: the same page is loaded anew; its ids start over, the router stays.
Render ==
  /\ page \in 1 .. MaxPages - 1
  /\ page' = page + 1
  /\ nextId' = 1
  /\ entry' = [i \in Ids |-> "none"]
  /\ overlapped' = (overlapped \/ Busy)
  /\ UNCHANGED <<toHost, Host, toPage, got>>

\* The view is gone: disposeAll.
Dispose ==
  /\ page # 0
  /\ page' = 0
  /\ job' = [t \in Tokens |->
               IF job[t].state = "open" /\ inflight[t[2]] = t
                 THEN [job[t] EXCEPT !.state = "aborted"] ELSE job[t]]
  /\ inflight' = [i \in Ids |-> Nobody]
  /\ UNCHANGED <<nextId, entry, toHost, toPage, got, overlapped>>

\* Nothing is left to happen, or to be claimed.
Ended ==
  /\ overlapped \/ (page = 0 /\ ~ Busy)
  /\ UNCHANGED vars

\* Nothing is claimed of what follows an overlap, so no run goes on from one.
Next ==
  \/ /\ ~ overlapped
     /\ \/ \E kind \in {"request", "stream"} : Call(kind)
        \/ \E i \in Ids : Abort(i) \/ LeaveStream(i)
        \/ PageReceives
        \/ HostReceives
        \/ \E t \in Tokens : \/ RequestAnswered(t) \/ RequestFails(t)
                             \/ StreamChunk(t) \/ StreamEnds(t)
        \/ Render
        \/ Dispose
  \/ Ended

Spec == Init /\ [][Next]_vars

-----------------------------------------------------------------------------
\* While no page was replaced with calls of it under way: a request is given
\* one answer, its own; a stream its own chunks, in order and without gaps,
\* and then one end; and the host's table never mixes up two calls
\* (createVsCodeTransport, createMessageRouter).
AnswersAreOwn ==
  ~ overlapped =>
    /\ \A t \in Tokens :
         LET g == got[t]
         IN \A k \in DOMAIN g :
              /\ g[k].from = t
              /\ g[k].type \in {"res", "err"} => Len(g) = 1 /\ job[t].kind = "request"
              /\ g[k].type = "chunk" => g[k].n = k
              /\ g[k].type = "done" => k = Len(g)
    /\ \A i \in Ids : inflight[i] # Nobody =>
         inflight[i][2] = i /\ job[inflight[i]].state \in {"open", "aborted"}
=============================================================================
