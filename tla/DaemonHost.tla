----------------------------- MODULE DaemonHost -----------------------------
(***************************************************************************)
(* The daemon inside the VS Code extension: starting, adopting and         *)
(* restarting it, the closing of its HTTP server, the hub that pushes the  *)
(* savings snapshot over SSE, and the page in the web view that subscribes *)
(* to it through the extension's message router.                           *)
(*                                                                         *)
(* Extension, server and hub share one event loop and one set of module    *)
(* variables: what happens between two awaits is one action, and the hub   *)
(* of a server that goes is the hub of the one that comes.  A snapshot is  *)
(* the number of activity records it was computed from.                    *)
(***************************************************************************)
EXTENDS Naturals, FiniteSets

CONSTANTS
  Ops,          \* the starts and restarts that may be under way at once; with
                \* one, commands do not overlap
  MaxServers,   \* bound: HTTP servers that exist at once
  MaxStreams,   \* bound: responses of the savings endpoint that exist at once
  MaxBuilds,    \* bound: snapshots being computed at once for all subscribers
  MaxSaved,     \* bound: activity records
  None,         \* no server, no stream
  Outside       \* the daemon of another process at the configured port

Servers == 1 .. MaxServers
Streams == 1 .. MaxStreams
Builds  == 1 .. MaxBuilds

ASSUME HostAssumption ==
  /\ {MaxServers, MaxStreams, MaxBuilds, MaxSaved} \subseteq Nat
  /\ None # Outside
  /\ {None, Outside} \cap (Servers \cup Streams) = {}

VARIABLES
  outside,     \* what another process runs at the configured port
  server,      \* server[s]: the HTTP server s
  onPort,      \* the server of this process that has the configured port
  handle,      \* serverHandle
  base,        \* effectiveBaseUrl: a server of this process, Outside or None
  op,          \* op[o]: the start or restart o
  started,     \* the hub has its options, its heartbeat and its listener
  cached,      \* cachedFrame
  subs,        \* subscribers
  build,       \* build[b]: a snapshot being computed for all
  push,        \* push[r]: the activity records when r's first one was begun
  saved,       \* activity records on disk
  res,         \* res[r]: the response r of the savings endpoint
  page,        \* the web view is open
  cur,         \* the stream the page reads
  ctl,         \* the streams whose AbortController the router holds
  shown        \* the snapshot the page shows

lifecycle == <<outside, server, onPort, handle, base, op>>
hub       == <<started, cached, subs, build, push, saved>>
view      == <<res, page, cur, ctl, shown>>
vars      == <<lifecycle, hub, view>>

-----------------------------------------------------------------------------
Response == [st : {"none", "headers", "open", "abandoned"}, server : Servers \cup {None}]
Gone     == [st |-> "none", server |-> None]

Build   == [kind : {"none", "broadcast", "refresh"}, from : 0 .. MaxSaved]
NoBuild == [kind |-> "none", from |-> 0]

Idle == [pc |-> "idle", target |-> None]
Busy == {o \in Ops : op[o].pc # "idle"}

Connections(s) == {r \in Streams : res[r].st \in {"headers", "open"} /\ res[r].server = s}

\* Slots that nothing refers to any more.
FreeServers == {s \in Servers : /\ server[s] = "down"
                                /\ \A r \in Streams : res[r].server # s
                                /\ \A o \in Ops : op[o].target # s
                                /\ s \notin {handle, base}}
FreeStreams == {r \in Streams : /\ res[r] = Gone
                                /\ r \notin subs
                                /\ push[r] = None}
FreeBuilds  == {b \in Builds : build[b] = NoBuild}
First(S)    == CHOOSE x \in S : \A y \in S : x <= y

Init ==
  /\ outside \in {"none", "same", "other"}
  /\ server = [s \in Servers |-> "down"]
  /\ onPort = None /\ handle = None /\ base = None
  /\ \E activation \in Ops :
       op = [o \in Ops |-> IF o = activation THEN [Idle EXCEPT !.pc = "probe"] ELSE Idle]
  /\ started = FALSE /\ cached = None /\ subs = {}
  /\ build = [b \in Builds |-> NoBuild]
  /\ push = [r \in Streams |-> None]
  /\ saved = 0
  /\ res = [r \in Streams |-> Gone]
  /\ page = FALSE /\ cur = None /\ ctl = {} /\ shown = None

-----------------------------------------------------------------------------
(* The extension starts, adopts and restarts the daemon.                    *)

\* Mutant: the port stays taken.
StartClosing_KeepPort(s) ==
  /\ server' = [server EXCEPT ![s] = IF @ = "listening" THEN "closing" ELSE @]
  /\ UNCHANGED onPort

\* server.close: no new connections; the port is free at once.
StartClosing(s) ==
  /\ server' = [server EXCEPT ![s] = IF @ = "listening" THEN "closing" ELSE @]
  /\ onPort' = IF onPort = s THEN None ELSE onPort

\* stop(): end what is still subscribed and forget everything.  (An old stream
\* of a page that was reloaded may carry the number of the page's new one,
\* which the router and the page then take to have ended.)
StopHub ==
  LET ended == {r \in subs : res[r].st = "open"} IN
  /\ started' = FALSE /\ cached' = None /\ subs' = {}
  /\ res' = [r \in Streams |-> IF r \in ended THEN Gone ELSE res[r]]
  /\ \E told \in {ended} \cup (IF ended = {} \/ cur = None THEN {} ELSE {ended \cup {cur}}) :
       /\ ctl' = ctl \ told
       /\ cur' = None
  /\ UNCHANGED <<build, push, saved, page, shown>>

\* Mutant: the hub is stopped before the server closes.
RestartDaemon_StopFirst(o) ==
  /\ op[o].pc = "idle"
  /\ handle # None
  /\ StartClosing(handle)
  /\ op' = [op EXCEPT ![o] = [pc |-> "close", target |-> handle]]
  /\ StopHub
  /\ UNCHANGED <<outside, handle, base>>

\* Mutant: the restart does not wait for the old server to close.
RestartDaemon_NoWait(o) ==
  /\ op[o].pc = "idle"
  /\ Cardinality({s \in Servers : server[s] # "down"} \ {handle}) + Cardinality(Busy) < MaxServers
  /\ IF handle # None THEN StartClosing(handle) ELSE UNCHANGED <<server, onPort>>
  /\ op' = [op EXCEPT ![o] = [pc |-> "probe", target |-> None]]
  /\ base' = None
  /\ cur' = None
  /\ UNCHANGED <<outside, handle, hub, res, page, ctl, shown>>

RestartDaemon(o) ==
  /\ op[o].pc = "idle"
  /\ Cardinality({s \in Servers : server[s] # "down"} \ {handle}) + Cardinality(Busy) < MaxServers
  /\ IF handle # None
       THEN /\ StartClosing(handle)
            /\ op' = [op EXCEPT ![o] = [pc |-> "close", target |-> handle]]
            /\ UNCHANGED <<base, cur>>
       ELSE /\ op' = [op EXCEPT ![o] = [pc |-> "probe", target |-> None]]
            /\ base' = None
            /\ cur' = None
            /\ UNCHANGED <<server, onPort>>
  /\ UNCHANGED <<outside, handle, hub, res, page, ctl, shown>>

\* The close callback runs once the requests have drained; the page is
\* rendered anew.
CloseDone(o) ==
  LET s == op[o].target IN
  /\ op[o].pc = "close"
  /\ Connections(s) = {}
  /\ server' = [server EXCEPT ![s] = "down"]
  /\ StopHub
  /\ handle' = None /\ base' = None
  /\ op' = [op EXCEPT ![o] = [pc |-> "probe", target |-> None]]
  /\ UNCHANGED <<outside, onPort>>

\* A daemon of this very version at the configured port is adopted; without a
\* workspace, or with autoStartDaemon off, nothing more is done.
Probe(o) ==
  /\ op[o].pc = "probe"
  /\ \/ /\ outside = "same" \/ onPort # None
        /\ base' = IF onPort # None THEN onPort ELSE Outside
        /\ op' = [op EXCEPT ![o] = Idle]
        /\ cur' = None
     \/ /\ op' = [op EXCEPT ![o] = Idle]
        /\ cur' = None
        /\ UNCHANGED base
     \/ /\ ~ (outside = "same" \/ onPort # None)
        /\ op' = [op EXCEPT ![o].pc = "listen"]
        /\ UNCHANGED <<base, cur>>
  /\ UNCHANGED <<outside, server, onPort, handle, hub, res, page, ctl, shown>>

\* startServer starts the hub, then listens: on the configured port if nobody
\* has it, else, in a second attempt, on any port.
Listen(o) ==
  LET s    == First(FreeServers)
      free == outside = "none" /\ onPort = None
  IN
  /\ op[o].pc \in {"listen", "listenAny"}
  /\ FreeServers # {}
  /\ started' = TRUE
  /\ \/ /\ op[o].pc = "listenAny" \/ free
        /\ server' = [server EXCEPT ![s] = "listening"]
        /\ onPort' = IF op[o].pc = "listen" THEN s ELSE onPort
        /\ op' = [op EXCEPT ![o] = [pc |-> "ready", target |-> s]]
     \/ /\ op[o].pc = "listen" /\ ~ free
        /\ op' = [op EXCEPT ![o].pc = "listenAny"]
        /\ UNCHANGED <<server, onPort>>
  /\ UNCHANGED <<outside, handle, base, cached, subs, build, push, saved, view>>

\* startServer has returned: the handle is kept and the page rendered anew.
Ready(o) ==
  /\ op[o].pc = "ready"
  /\ handle' = op[o].target /\ base' = op[o].target
  /\ op' = [op EXCEPT ![o] = Idle]
  /\ cur' = None
  /\ UNCHANGED <<outside, server, onPort, hub, res, page, ctl, shown>>

OutsideLeaves ==
  /\ outside # "none"
  /\ outside' = "none"
  /\ UNCHANGED <<server, onPort, handle, base, op, hub, view>>

-----------------------------------------------------------------------------
(* The hub of the savings stream.                                           *)

StartBuild(kind) ==
  /\ FreeBuilds # {}
  /\ build' = [build EXCEPT ![First(FreeBuilds)] = [kind |-> kind, from |-> saved']]

\* The frame goes to the responses in to; those that are gone are dropped.
Write(frame, to) ==
  /\ subs' = {r \in subs : r \in to => res[r].st = "open"}
  /\ shown' = IF cur \in to /\ res[cur].st = "open" THEN frame ELSE shown

\* An MCP tool call was logged: by another process, or by this one, whose
\* listener broadcasts.
Activity(here) ==
  /\ saved < MaxSaved
  /\ saved' = saved + 1
  /\ IF here /\ started THEN StartBuild("broadcast") ELSE UNCHANGED build
  /\ UNCHANGED <<lifecycle, started, cached, subs, push, view>>

\* Mutant: the heartbeat does not refresh the frame it keeps sending.
Heartbeat_NoRefresh ==
  /\ started
  /\ IF cached = None THEN UNCHANGED <<subs, shown>> ELSE Write(cached, subs)
  /\ UNCHANGED <<lifecycle, started, cached, saved, build, push, res, page, cur, ctl>>

\* Every 30 s: the cached frame is written, then refreshed.
Heartbeat ==
  /\ started
  /\ IF cached = None THEN UNCHANGED <<subs, shown>> ELSE Write(cached, subs)
  /\ UNCHANGED saved
  /\ StartBuild("refresh")
  /\ UNCHANGED <<lifecycle, started, cached, push, res, page, cur, ctl>>

\* The snapshot counts the records of some moment since the build began.
FinishBuild(b) ==
  /\ build[b] # NoBuild
  /\ build' = [build EXCEPT ![b] = NoBuild]
  /\ \E frame \in build[b].from .. saved :
       /\ cached' = frame
       /\ IF build[b].kind = "broadcast" THEN Write(frame, subs) ELSE UNCHANGED <<subs, shown>>
  /\ UNCHANGED <<lifecycle, started, push, saved, res, page, cur, ctl>>

\* The snapshot for one subscriber; it becomes the cached frame, too.
FinishPush(r) ==
  /\ push[r] # None
  /\ push' = [push EXCEPT ![r] = None]
  /\ \E frame \in push[r] .. saved : cached' = frame /\ Write(frame, {r})
  /\ UNCHANGED <<lifecycle, started, build, saved, res, page, cur, ctl>>

-----------------------------------------------------------------------------
(* The page, the router and the endpoint.                                   *)

\* The client of the streams in R hangs up: those whose handler has not
\* subscribed yet are only abandoned.
HangUp(R) ==
  res' = [r \in Streams |->
            IF r \notin R THEN res[r]
            ELSE IF res[r].st = "headers" THEN [res[r] EXCEPT !.st = "abandoned"]
            ELSE IF res[r].st = "open" THEN Gone ELSE res[r]]

OpenView ==
  /\ ~page
  /\ page' = TRUE
  /\ UNCHANGED <<lifecycle, hub, res, cur, ctl, shown>>

\* disposeAll aborts what the router holds.
CloseView ==
  /\ page
  /\ page' = FALSE /\ cur' = None /\ ctl' = {} /\ shown' = None
  /\ HangUp(ctl)
  /\ UNCHANGED <<lifecycle, hub>>

Target == IF base # None THEN base ELSE IF onPort # None THEN onPort ELSE Outside

\* subscribeSavings connects again whenever its stream has ended.  A stream
\* of an earlier page may lose its controller to a request with its number.
Connect ==
  LET r == First(FreeStreams) IN
  /\ page /\ cur = None
  /\ Target \in Servers /\ server[Target] = "listening"
  /\ FreeStreams # {}
  /\ res' = [res EXCEPT ![r] = [st |-> "headers", server |-> Target]]
  /\ cur' = r
  /\ \E displaced \in SUBSET ctl : ctl' = (ctl \ displaced) \cup {r}
  /\ UNCHANGED <<lifecycle, hub, page, shown>>

\* The handler has loaded the configuration: subscribe, then push a snapshot.
Subscribe(r) ==
  /\ res[r].st \in {"headers", "abandoned"}
  /\ res' = [res EXCEPT ![r] = IF res[r].st = "headers" THEN [res[r] EXCEPT !.st = "open"] ELSE Gone]
  /\ subs' = subs \cup {r}
  /\ push' = IF started THEN [push EXCEPT ![r] = saved] ELSE push
  /\ UNCHANGED <<lifecycle, started, cached, build, saved, page, cur, ctl, shown>>

-----------------------------------------------------------------------------
Extension(o) == CloseDone(o) \/ Probe(o) \/ Listen(o) \/ Ready(o)

Next ==
  \/ \E o \in Ops : RestartDaemon(o) \/ Extension(o)
  \/ OutsideLeaves
  \/ \E here \in BOOLEAN : Activity(here)
  \/ Heartbeat
  \/ \E b \in Builds : FinishBuild(b)
  \/ OpenView
  \/ CloseView
  \/ Connect
  \/ \E r \in Streams : Subscribe(r) \/ FinishPush(r)

\* The event loop runs what is ready; nobody has to open or close the view,
\* to restart or to log anything.
Fairness ==
  /\ \A o \in Ops : WF_vars(Extension(o))
  /\ \A b \in Builds : WF_vars(FinishBuild(b))
  /\ \A r \in Streams : WF_vars(Subscribe(r)) /\ WF_vars(FinishPush(r))
  /\ WF_vars(Heartbeat)
  /\ WF_vars(Connect)

Spec     == Init /\ [][Next]_vars
FairSpec == Spec /\ Fairness

-----------------------------------------------------------------------------
(* Properties *)

\* The type of every variable; only listening servers have the port.
TypeOK ==
  /\ outside \in {"none", "same", "other"}
  /\ server \in [Servers -> {"down", "listening", "closing"}]
  /\ onPort \in Servers \cup {None}
  /\ onPort # None => server[onPort] = "listening"
  /\ handle \in Servers \cup {None}
  /\ base \in Servers \cup {None, Outside}
  /\ op \in [Ops -> [pc : {"idle", "close", "probe", "listen", "listenAny", "ready"},
                     target : Servers \cup {None}]]
  /\ {started, page} \subseteq BOOLEAN
  /\ {cached, shown} \subseteq 0 .. MaxSaved \cup {None}
  /\ subs \subseteq Streams
  /\ build \in [Builds -> Build]
  /\ push \in [Streams -> 0 .. MaxSaved \cup {None}]
  /\ saved \in 0 .. MaxSaved
  /\ res \in [Streams -> Response]
  /\ cur \in Streams \cup {None}
  /\ ctl \subseteq Streams

\* Commands that do not overlap leave one daemon, and a whole one. Between them
\* every server that is not down is the one that serverHandle names, and its hub
\* runs. At any time an open response is a subscriber of a hub that runs: the
\* hub is stopped only after the requests have drained, so that no handler
\* registers its response with a hub that has forgotten the others.
OneDaemon ==
  /\ TypeOK
  /\ Busy = {} =>
       /\ \A s \in Servers : server[s] # "down" <=> s = handle
       /\ handle # None => started
  /\ \A r \in Streams : res[r].st = "open" => r \in subs /\ started

Serving ==
  /\ Busy = {} /\ page
  /\ handle # None /\ base = handle

\* A page that stays open on a daemon that stays up shows the latest snapshot
\* in the end, whichever snapshots overtook each other and whoever logged the
\* activity, through reloads and reconnections.
EventuallyCurrent == <>[]Serving => <>[](shown = saved)

\* A restart comes to its end.
RestartEnds == \A o \in Ops : op[o].pc = "close" ~> op[o].pc # "close"
=============================================================================
