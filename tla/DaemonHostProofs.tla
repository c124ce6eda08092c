-------------------------- MODULE DaemonHostProofs --------------------------
(***************************************************************************)
(* Theorems about DaemonHost, for any number of servers, streams, builds   *)
(* and activity records: the variables keep their types, whatever starts   *)
(* and restarts overlap; and commands that do not overlap leave one        *)
(* daemon, whose hub runs and knows every open response.                   *)
(***************************************************************************)
EXTENDS DaemonHost, WellFoundedInduction, TLAPS

-----------------------------------------------------------------------------
(* The slots that First picks. *)

\* A non-empty set of natural numbers has a least element.
LEMMA Least ==
  ASSUME NEW T, T \subseteq Nat, T # {}
  PROVE  \E x \in T : \A y \in T : x <= y
<1> DEFINE R == {pair \in Nat \X Nat : pair[1] < pair[2]}
<1>1. IsWellFoundedOn(R, Nat)
  <2>1. R = OpToRel(<, Nat)
    BY DEF OpToRel
  <2>2. QED
    BY <2>1, NatLessThanWellFounded
<1>2. \A x, y \in T : y < x => <<y, x>> \in R
  OBVIOUS
<1> HIDE DEF R
<1>3. PICK x \in T : \A y \in T : ~ (<<y, x>> \in R)
  BY <1>1, WFMin
<1>4. x \in Nat /\ \A y \in T : ~ (y < x) /\ y \in Nat
  BY <1>2, <1>3
<1>5. \A y \in T : x <= y
  BY <1>4
<1>6. QED
  BY <1>5

LEMMA FirstType ==
  ASSUME NEW S, S \subseteq Nat, S # {}
  PROVE  First(S) \in S
BY Least DEF First

-----------------------------------------------------------------------------
(* Types. *)

\* The server a closing command waits for takes no connections any more.
ClosersClose ==
  \A o \in Ops :
    /\ op[o].pc = "close" => op[o].target \in Servers /\ server[op[o].target] # "listening"
    /\ op[o].pc = "ready" => op[o].target \in Servers

TypeInv == TypeOK /\ ClosersClose

\* What a start or restart may be.
Commands == [pc : {"idle", "close", "probe", "listen", "listenAny", "ready"},
             target : Servers \cup {None}]

\* The types of the extension's variables, of the hub's and of the view's.
LifecycleTyped ==
  /\ outside \in {"none", "same", "other"}
  /\ server \in [Servers -> {"down", "listening", "closing"}]
  /\ onPort \in Servers \cup {None}
  /\ onPort # None => server[onPort] = "listening"
  /\ handle \in Servers \cup {None}
  /\ base \in Servers \cup {None, Outside}
  /\ op \in [Ops -> Commands]

HubTyped ==
  /\ started \in BOOLEAN
  /\ cached \in 0 .. MaxSaved \cup {None}
  /\ subs \subseteq Streams
  /\ build \in [Builds -> Build]
  /\ push \in [Streams -> 0 .. MaxSaved \cup {None}]
  /\ saved \in 0 .. MaxSaved

ViewTyped ==
  /\ page \in BOOLEAN
  /\ shown \in 0 .. MaxSaved \cup {None}
  /\ res \in [Streams -> Response]
  /\ cur \in Streams \cup {None}
  /\ ctl \subseteq Streams

LEMMA TypesByPart ==
  /\ TypeOK <=> LifecycleTyped /\ HubTyped /\ ViewTyped
  /\ TypeOK' <=> LifecycleTyped' /\ HubTyped' /\ ViewTyped'
BY DEF TypeOK, LifecycleTyped, HubTyped, ViewTyped, Commands

LEMMA IdleHasType ==
  /\ Idle \in Commands /\ Idle.pc = "idle"
  /\ Gone \in Response /\ NoBuild \in Build
BY HostAssumption DEF Idle, Commands, Gone, Response, NoBuild, Build

\* A command takes a step: those that wait for a server to close, or have
\* started one, still name it.
LEMMA CommandStep ==
  ASSUME LifecycleTyped, ClosersClose, NEW o \in Ops, NEW e \in Commands,
         op' = [op EXCEPT ![o] = e],
         e.pc = "close" => e.target \in Servers /\ server'[e.target] # "listening",
         e.pc = "ready" => e.target \in Servers,
         \A x \in Ops : op[x].target \in Servers /\ server[op[x].target] # "listening"
                          => server'[op[x].target] # "listening"
  PROVE  ClosersClose' /\ op' \in [Ops -> Commands]
<1>1. op'[o] = e /\ \A x \in Ops \ {o} : op'[x] = op[x]
  BY DEF LifecycleTyped
<1>2. ClosersClose'
  BY <1>1 DEF ClosersClose
<1>3. QED
  BY <1>2 DEF LifecycleTyped

LEMMA InitTyped == Init => TypeInv
<1> SUFFICES ASSUME Init PROVE TypeInv
  OBVIOUS
<1>1. 0 \in 0 .. MaxSaved
  BY HostAssumption
<1>2. \A o \in Ops : op[o].pc \in {"idle", "probe"}
  BY DEF Init, Idle
<1>3. op \in [Ops -> Commands]
  BY IdleHasType DEF Init, Commands, Idle
<1>4. ClosersClose
  BY <1>2 DEF ClosersClose
<1>5. LifecycleTyped /\ HubTyped /\ ViewTyped
  BY <1>1, <1>3, IdleHasType DEF Init, LifecycleTyped, HubTyped, ViewTyped
<1>6. QED
  BY <1>4, <1>5, TypesByPart DEF TypeInv

\* Closing a server leaves the port to nobody.
LEMMA ClosingTyped ==
  ASSUME LifecycleTyped, NEW s \in Servers, StartClosing(s)
  PROVE  /\ server' \in [Servers -> {"down", "listening", "closing"}]
         /\ server'[s] # "listening"
         /\ \A t \in Servers \ {s} : server'[t] = server[t]
         /\ onPort' \in Servers \cup {None}
         /\ onPort' # None => server'[onPort'] = "listening"
         /\ server[s] # "down" => server'[s] # "down"
<1>1. server[s] \in {"down", "listening", "closing"}
  BY DEF LifecycleTyped
<1>2. \A t \in Servers : server'[t] = IF t # s THEN server[t]
                                      ELSE IF server[s] = "listening" THEN "closing"
                                      ELSE server[s]
  BY DEF StartClosing, LifecycleTyped
<1>3. server' \in [Servers -> {"down", "listening", "closing"}]
  BY DEF StartClosing, LifecycleTyped
<1>4. QED
  BY <1>1, <1>2, <1>3 DEF StartClosing, LifecycleTyped

\* The hub stops: its types stay, and no open response of it is left.
LEMMA StopHubTyped ==
  ASSUME HubTyped, ViewTyped, StopHub
  PROVE  HubTyped' /\ ViewTyped' /\ started' = FALSE
BY IdleHasType DEF StopHub, HubTyped, ViewTyped

LEMMA TypeInvariance ==
  ASSUME TypeInv, [Next]_vars
  PROVE  TypeInv'
<1> USE DEF TypeInv
<1>0. LifecycleTyped /\ HubTyped /\ ViewTyped /\ ClosersClose
  BY TypesByPart
<1>1. ASSUME NEW o \in Ops, RestartDaemon(o)
      PROVE  TypeInv'
  <2>1. (HubTyped /\ ViewTyped)'
    BY <1>0, <1>1 DEF RestartDaemon, hub, HubTyped, ViewTyped
  <2>2. CASE handle # None
    <3>1. handle \in Servers /\ StartClosing(handle) /\ UNCHANGED <<outside, handle, base>>
          /\ op' = [op EXCEPT ![o] = [pc |-> "close", target |-> handle]]
      BY <1>0, <1>1, <2>2 DEF RestartDaemon, LifecycleTyped
    <3>2. /\ server' \in [Servers -> {"down", "listening", "closing"}]
          /\ server'[handle] # "listening"
          /\ \A t \in Servers \ {handle} : server'[t] = server[t]
          /\ onPort' \in Servers \cup {None}
          /\ onPort' # None => server'[onPort'] = "listening"
      BY <1>0, <3>1, ClosingTyped
    <3>3. [pc |-> "close", target |-> handle] \in Commands
      BY <3>1 DEF Commands
    <3>4. ClosersClose' /\ op' \in [Ops -> Commands]
      BY <1>0, <3>1, <3>2, <3>3, CommandStep
    <3>5. LifecycleTyped'
      BY <1>0, <3>1, <3>2, <3>4 DEF LifecycleTyped
    <3>6. QED
      BY <2>1, <3>4, <3>5, TypesByPart
  <2>3. CASE handle = None
    <3>1. UNCHANGED <<outside, handle, server, onPort>> /\ base' = None
          /\ op' = [op EXCEPT ![o] = [pc |-> "probe", target |-> None]]
      BY <1>1, <2>3 DEF RestartDaemon
    <3>2. ClosersClose' /\ op' \in [Ops -> Commands]
      BY <1>0, <3>1, CommandStep DEF Commands
    <3>3. LifecycleTyped'
      BY <1>0, <3>1, <3>2 DEF LifecycleTyped
    <3>4. QED
      BY <2>1, <3>2, <3>3, TypesByPart
  <2>4. QED
    BY <2>2, <2>3
<1>2. ASSUME NEW o \in Ops, CloseDone(o)
      PROVE  TypeInv'
  <2>1. HubTyped' /\ ViewTyped'
    BY <1>0, <1>2, StopHubTyped DEF CloseDone
  <2> DEFINE s == op[o].target
  <2>2. s \in Servers /\ server[s] # "listening" /\ server' = [server EXCEPT ![s] = "down"]
        /\ UNCHANGED <<outside, onPort>> /\ handle' = None /\ base' = None
        /\ op' = [op EXCEPT ![o] = [pc |-> "probe", target |-> None]]
    BY <1>0, <1>2 DEF CloseDone, ClosersClose
  <2>3. /\ server' \in [Servers -> {"down", "listening", "closing"}]
        /\ \A t \in Servers : server[t] # "listening" => server'[t] # "listening"
        /\ onPort # None => server'[onPort] = "listening"
    BY <1>0, <2>2 DEF LifecycleTyped
  <2> HIDE DEF s
  <2>4. ClosersClose' /\ op' \in [Ops -> Commands]
    BY <1>0, <2>2, <2>3, CommandStep DEF Commands
  <2>5. LifecycleTyped'
    BY <1>0, <2>2, <2>3, <2>4 DEF LifecycleTyped
  <2>6. QED
    BY <2>1, <2>4, <2>5, TypesByPart
<1>3. ASSUME NEW o \in Ops, Probe(o)
      PROVE  TypeInv'
  <2>1. (HubTyped /\ ViewTyped)'
    BY <1>0, <1>3 DEF Probe, hub, HubTyped, ViewTyped
  <2>2. /\ UNCHANGED <<outside, server, onPort, handle>>
        /\ base' \in {base, onPort, Outside, None}
        /\ op' = [op EXCEPT ![o] = Idle] \/ op' = [op EXCEPT ![o].pc = "listen"]
        /\ base' # None \/ base' = base
    BY <1>3, HostAssumption DEF Probe
  <2>3. op[o] \in Commands /\ [op[o] EXCEPT !.pc = "listen"] \in Commands
        /\ [op[o] EXCEPT !.pc = "listen"].pc = "listen"
    BY <1>0 DEF LifecycleTyped, Commands
  <2>4. ClosersClose' /\ op' \in [Ops -> Commands]
    BY <1>0, <2>2, <2>3, CommandStep, IdleHasType
  <2>5. LifecycleTyped'
    BY <1>0, <2>2, <2>4 DEF LifecycleTyped
  <2>6. QED
    BY <2>1, <2>4, <2>5, TypesByPart
<1>4. ASSUME NEW o \in Ops, Listen(o)
      PROVE  TypeInv'
  <2> DEFINE s == First(FreeServers)
  <2>1. HubTyped' /\ ViewTyped'
    BY <1>0, <1>4 DEF Listen, view, HubTyped, ViewTyped
  <2>2. s \in FreeServers /\ s \in Servers /\ \A x \in Ops : op[x].target # s
    BY <1>4, FirstType DEF Listen, FreeServers, Servers
  <2>3. UNCHANGED <<outside, handle, base>>
    BY <1>4 DEF Listen
  <2>4. \/ /\ server' = [server EXCEPT ![s] = "listening"]
           /\ onPort' \in {s, onPort}
           /\ op' = [op EXCEPT ![o] = [pc |-> "ready", target |-> s]]
        \/ /\ op' = [op EXCEPT ![o].pc = "listenAny"]
           /\ UNCHANGED <<server, onPort>>
    BY <1>4 DEF Listen
  <2> HIDE DEF s
  <2>5. [op[o] EXCEPT !.pc = "listenAny"] \in Commands
        /\ [op[o] EXCEPT !.pc = "listenAny"].pc = "listenAny"
        /\ [pc |-> "ready", target |-> s] \in Commands
    BY <1>0, <2>2 DEF LifecycleTyped, Commands
  <2>6. /\ server' \in [Servers -> {"down", "listening", "closing"}]
        /\ \A t \in Servers \ {s} : server'[t] = server[t]
        /\ onPort' \in Servers \cup {None}
        /\ onPort' # None => server'[onPort'] = "listening"
    BY <1>0, <2>2, <2>4 DEF LifecycleTyped
  <2>7. ClosersClose' /\ op' \in [Ops -> Commands]
    <3>1. \A x \in Ops : op[x].target \in Servers /\ server[op[x].target] # "listening"
                           => server'[op[x].target] # "listening"
      BY <2>2, <2>6
    <3>2. PICK e \in Commands :
            /\ op' = [op EXCEPT ![o] = e]
            /\ e.pc # "close"
            /\ e.pc = "ready" => e.target \in Servers
      BY <2>2, <2>4, <2>5
    <3>3. QED
      BY <1>0, <3>1, <3>2, CommandStep
  <2>8. LifecycleTyped'
    BY <1>0, <2>3, <2>6, <2>7 DEF LifecycleTyped
  <2>9. QED
    BY <2>1, <2>7, <2>8, TypesByPart
<1>5. ASSUME NEW o \in Ops, Ready(o)
      PROVE  TypeInv'
  <2>1. (HubTyped /\ ViewTyped)'
    BY <1>0, <1>5 DEF Ready, hub, HubTyped, ViewTyped
  <2>2. /\ UNCHANGED <<outside, server, onPort>> /\ op' = [op EXCEPT ![o] = Idle]
        /\ handle' = op[o].target /\ base' = op[o].target /\ op[o].target \in Servers
    BY <1>0, <1>5 DEF Ready, ClosersClose
  <2>3. ClosersClose' /\ op' \in [Ops -> Commands]
    BY <1>0, <2>2, CommandStep, IdleHasType
  <2>4. LifecycleTyped'
    BY <1>0, <2>2, <2>3 DEF LifecycleTyped
  <2>5. QED
    BY <2>1, <2>3, <2>4, TypesByPart
<1>6. CASE OutsideLeaves
  BY <1>6 DEF OutsideLeaves, hub, view, TypeOK, ClosersClose
<1>7. ASSUME UNCHANGED lifecycle, HubTyped', ViewTyped'
      PROVE  TypeInv'
  <2>1. UNCHANGED <<outside, server, onPort, handle, base, op>>
    BY <1>7 DEF lifecycle
  <2>2. LifecycleTyped' /\ ClosersClose'
    BY <1>0, <2>1 DEF LifecycleTyped, ClosersClose
  <2>3. QED
    BY <1>7, <2>2, TypesByPart
<1>8. ASSUME NEW here \in BOOLEAN, Activity(here)
      PROVE  TypeInv'
  <2>1. saved + 1 \in 0 .. MaxSaved /\ saved' = saved + 1
    BY <1>0, <1>8, HostAssumption DEF Activity, HubTyped
  <2>2. ASSUME StartBuild("broadcast")
        PROVE  build' \in [Builds -> Build]
    BY <1>0, <2>1, <2>2, FirstType DEF StartBuild, FreeBuilds, Builds, HubTyped, Build
  <2>3. HubTyped' /\ ViewTyped'
    BY <1>0, <1>8, <2>1, <2>2 DEF Activity, view, HubTyped, ViewTyped
  <2>4. QED
    BY <1>7, <1>8, <2>3 DEF Activity
<1>9. CASE Heartbeat
  <2>1. StartBuild("refresh") /\ saved' = saved
    BY <1>9 DEF Heartbeat
  <2>2. build' \in [Builds -> Build]
    BY <1>0, <2>1, FirstType DEF StartBuild, FreeBuilds, Builds, HubTyped, Build
  <2>3. HubTyped' /\ ViewTyped'
    BY <1>0, <1>9, <2>2 DEF Heartbeat, Write, HubTyped, ViewTyped
  <2>4. QED
    BY <1>7, <1>9, <2>3 DEF Heartbeat
<1>10. ASSUME NEW b \in Builds, FinishBuild(b)
       PROVE  TypeInv'
  <2>1. PICK frame \in build[b].from .. saved :
          /\ cached' = frame
          /\ IF build[b].kind = "broadcast" THEN Write(frame, subs) ELSE UNCHANGED <<subs, shown>>
    BY <1>10 DEF FinishBuild
  <2>2. frame \in 0 .. MaxSaved
    BY <1>0, HostAssumption DEF HubTyped, Build
  <2>3. build' \in [Builds -> Build]
    BY <1>0, <1>10, IdleHasType DEF FinishBuild, HubTyped
  <2>4. HubTyped' /\ ViewTyped'
    BY <1>0, <1>10, <2>1, <2>2, <2>3 DEF FinishBuild, Write, HubTyped, ViewTyped
  <2>5. QED
    BY <1>7, <1>10, <2>4 DEF FinishBuild
<1>11. ASSUME NEW r \in Streams, FinishPush(r)
       PROVE  TypeInv'
  <2>1. PICK frame \in push[r] .. saved : cached' = frame /\ Write(frame, {r})
    BY <1>11 DEF FinishPush
  <2>2. push[r] \in 0 .. MaxSaved
    BY <1>0, <1>11 DEF FinishPush, HubTyped
  <2>3. frame \in 0 .. MaxSaved
    BY <1>0, <2>2, HostAssumption DEF HubTyped
  <2>4. HubTyped' /\ ViewTyped'
    BY <1>0, <1>11, <2>1, <2>3 DEF FinishPush, Write, HubTyped, ViewTyped
  <2>5. QED
    BY <1>7, <1>11, <2>4 DEF FinishPush
<1>12. CASE OpenView
  BY <1>0, <1>7, <1>12 DEF OpenView, hub, HubTyped, ViewTyped
<1>13. CASE CloseView
  <2>1. res' \in [Streams -> Response]
    BY <1>0, <1>13, IdleHasType DEF CloseView, HangUp, ViewTyped, Response
  <2>2. HubTyped' /\ ViewTyped'
    BY <1>0, <1>13, <2>1 DEF CloseView, hub, HubTyped, ViewTyped
  <2>3. QED
    BY <1>7, <1>13, <2>2 DEF CloseView
<1>14. CASE Connect
  <2>1. First(FreeStreams) \in Streams
    BY <1>14, FirstType DEF Connect, FreeStreams, Streams
  <2>2. res' \in [Streams -> Response]
    BY <1>0, <1>14, <2>1 DEF Connect, ViewTyped, Response
  <2>3. HubTyped' /\ ViewTyped'
    BY <1>0, <1>14, <2>1, <2>2 DEF Connect, hub, HubTyped, ViewTyped
  <2>4. QED
    BY <1>7, <1>14, <2>3 DEF Connect
<1>15. ASSUME NEW r \in Streams, Subscribe(r)
       PROVE  TypeInv'
  <2>1. res' \in [Streams -> Response]
    BY <1>0, <1>15, IdleHasType DEF Subscribe, ViewTyped, Response
  <2>2. HubTyped' /\ ViewTyped'
    BY <1>0, <1>15, <2>1 DEF Subscribe, HubTyped, ViewTyped
  <2>3. QED
    BY <1>7, <1>15, <2>2 DEF Subscribe
<1>16. CASE UNCHANGED vars
  BY <1>16 DEF vars, lifecycle, hub, view, TypeOK, ClosersClose
<1>17. QED
  BY <1>1, <1>2, <1>3, <1>4, <1>5, <1>6, <1>8, <1>9, <1>10, <1>11, <1>12, <1>13, <1>14,
     <1>15, <1>16
  DEF Next, Extension

\* The variables keep their types, also while starts and restarts overlap, and
\* only a listening server has the configured port.
THEOREM HostTypeCorrect == Spec => []TypeOK
<1>1. TypeInv /\ [Next]_vars => TypeInv'
  BY TypeInvariance
<1>2. TypeInv => TypeOK
  BY DEF TypeInv
<1>3. QED
  BY <1>1, <1>2, InitTyped, PTL DEF Spec

-----------------------------------------------------------------------------
(* One daemon.  With one command at a time, a server that is not down is the *)
(* one serverHandle names, or the one the command has just started.          *)

LEMMA NoServer == None \notin Servers /\ None \notin Streams
BY HostAssumption

\* The command o agrees with the handle and the hub.
CommandInv(o) ==
  /\ op[o].pc \in {"probe", "listen", "listenAny", "ready"} => handle = None
  /\ op[o].pc = "close" => handle # None /\ op[o].target = handle
  /\ op[o].pc = "ready" => server[op[o].target] # "down" /\ started

ServersKnown ==
  /\ \A s \in Servers :
       server[s] # "down" => s = handle \/ \E o \in Ops : op[o].pc = "ready" /\ op[o].target = s
  /\ handle # None => server[handle] # "down" /\ started

\* A response that its handler works on has a server, and an open one is a
\* subscriber.
ResponsesServed ==
  \A r \in Streams :
    /\ res[r].st \in {"headers", "open"} =>
         res[r].server \in Servers /\ server[res[r].server] # "down"
    /\ res[r].st = "open" => r \in subs

HostInv == (\A o \in Ops : CommandInv(o)) /\ ServersKnown /\ ResponsesServed

\* What leaves the extension's variables, and started, alone.
LEMMA HubStep ==
  ASSUME HostInv, UNCHANGED lifecycle, started' = started,
         \A r \in Streams :
           /\ res'[r].st \in {"headers", "open"} =>
                res'[r].server \in Servers /\ server[res'[r].server] # "down"
           /\ res'[r].st = "open" => r \in subs'
  PROVE  HostInv'
BY DEF HostInv, CommandInv, ServersKnown, ResponsesServed, lifecycle

\* Dropping the responses that are gone drops no open one.
LEMMA WriteKeeps ==
  ASSUME ResponsesServed, NEW frame, NEW to, Write(frame, to)
  PROVE  \A r \in Streams : res[r].st = "open" => r \in subs'
BY DEF Write, ResponsesServed

LEMMA HostInvariance ==
  ASSUME \A o1, o2 \in Ops : o1 = o2, TypeInv, HostInv, [Next]_vars
  PROVE  HostInv'
<1>0. LifecycleTyped /\ HubTyped /\ ViewTyped /\ ClosersClose
  BY TypesByPart DEF TypeInv
<1>1. ASSUME NEW o \in Ops, RestartDaemon(o)
      PROVE  HostInv'
  <2>1. op[o].pc = "idle" /\ \A x \in Ops : x = o
    BY <1>1 DEF RestartDaemon
  <2>2. UNCHANGED <<handle, started, subs, res>>
    BY <1>1 DEF RestartDaemon, hub
  <2>3. CASE handle # None
    <3>1. handle \in Servers /\ StartClosing(handle)
          /\ op' = [op EXCEPT ![o] = [pc |-> "close", target |-> handle]]
      BY <1>0, <1>1, <2>3 DEF RestartDaemon, LifecycleTyped
    <3>2. /\ server'[handle] # "down"
          /\ \A t \in Servers \ {handle} : server'[t] = server[t]
      BY <1>0, <2>3, <3>1, ClosingTyped DEF HostInv, ServersKnown
    <3>3. op'[o] = [pc |-> "close", target |-> handle]
      BY <1>0, <3>1 DEF LifecycleTyped
    <3>4. \A x \in Ops : CommandInv(x)'
      BY <2>1, <2>2, <2>3, <3>3 DEF CommandInv
    <3>5. ServersKnown' /\ ResponsesServed'
      BY <2>1, <2>2, <3>1, <3>2 DEF HostInv, ServersKnown, ResponsesServed
    <3>6. QED
      BY <3>4, <3>5 DEF HostInv
  <2>4. CASE handle = None
    <3>1. server' = server /\ op' = [op EXCEPT ![o] = [pc |-> "probe", target |-> None]]
      BY <1>1, <2>4 DEF RestartDaemon
    <3>2. op'[o] = [pc |-> "probe", target |-> None]
      BY <1>0, <3>1 DEF LifecycleTyped
    <3>3. QED
      BY <2>1, <2>2, <2>4, <3>1, <3>2
      DEF HostInv, CommandInv, ServersKnown, ResponsesServed
  <2>5. QED
    BY <2>3, <2>4
<1>2. ASSUME NEW o \in Ops, CloseDone(o)
      PROVE  HostInv'
  <2>1. \A x \in Ops : x = o
    BY <1>2
  <2>2. /\ op[o].pc = "close" /\ op[o].target = handle /\ handle \in Servers
        /\ Connections(handle) = {} /\ server' = [server EXCEPT ![handle] = "down"]
        /\ StopHub /\ handle' = None
        /\ op' = [op EXCEPT ![o] = [pc |-> "probe", target |-> None]]
    BY <1>0, <1>2 DEF CloseDone, HostInv, CommandInv, ClosersClose
  <2>3. \A s \in Servers : server[s] # "down" => s = handle
    BY <2>1, <2>2 DEF HostInv, ServersKnown
  <2>4. \A s \in Servers : server'[s] = "down"
    BY <1>0, <2>2, <2>3 DEF LifecycleTyped
  <2>5. \A r \in Streams : res[r].st \notin {"headers", "open"}
    BY <2>2, <2>3 DEF HostInv, ResponsesServed, Connections
  <2>6. \A r \in Streams : res'[r].st \notin {"headers", "open"}
    BY <2>2, <2>5 DEF StopHub, Gone
  <2>7. op'[o] = [pc |-> "probe", target |-> None]
    BY <1>0, <2>2 DEF LifecycleTyped
  <2>8. QED
    BY <2>1, <2>2, <2>4, <2>6, <2>7 DEF HostInv, CommandInv, ServersKnown, ResponsesServed
<1>3. ASSUME NEW o \in Ops, Probe(o)
      PROVE  HostInv'
  <2>1. op[o].pc = "probe" /\ handle = None /\ \A x \in Ops : x = o
    BY <1>3 DEF Probe, HostInv, CommandInv
  <2>2. UNCHANGED <<server, handle, started, subs, res>>
    BY <1>3 DEF Probe, hub
  <2>3. op' = [op EXCEPT ![o] = Idle] \/ op' = [op EXCEPT ![o].pc = "listen"]
    BY <1>3 DEF Probe
  <2>4. op[o] \in Commands
    BY <1>0 DEF LifecycleTyped
  <2>5. op'[o].pc \in {"idle", "listen"}
    BY <1>0, <2>3, <2>4 DEF LifecycleTyped, Idle, Commands
  <2>6. QED
    BY <2>1, <2>2, <2>5 DEF HostInv, CommandInv, ServersKnown, ResponsesServed
<1>4. ASSUME NEW o \in Ops, Listen(o)
      PROVE  HostInv'
  <2> DEFINE s == First(FreeServers)
  <2>1. op[o].pc \in {"listen", "listenAny"} /\ handle = None /\ \A x \in Ops : x = o
    BY <1>4 DEF Listen, HostInv, CommandInv
  <2>2. s \in Servers /\ \A r \in Streams : res[r].server # s
    BY <1>4, FirstType DEF Listen, FreeServers, Servers
  <2>3. UNCHANGED <<handle, subs, res>> /\ started' = TRUE
    BY <1>4 DEF Listen, view
  <2>4. \A t \in Servers : server[t] = "down"
    BY <2>1, NoServer DEF HostInv, ServersKnown
  <2>5. \/ /\ server' = [server EXCEPT ![s] = "listening"]
           /\ op' = [op EXCEPT ![o] = [pc |-> "ready", target |-> s]]
        \/ /\ op' = [op EXCEPT ![o].pc = "listenAny"]
           /\ server' = server
    BY <1>4 DEF Listen
  <2> HIDE DEF s
  <2>6. CASE /\ server' = [server EXCEPT ![s] = "listening"]
             /\ op' = [op EXCEPT ![o] = [pc |-> "ready", target |-> s]]
    <3>1. op'[o] = [pc |-> "ready", target |-> s] /\ server'[s] = "listening"
          /\ \A t \in Servers \ {s} : server'[t] = "down"
      BY <1>0, <2>2, <2>4, <2>6 DEF LifecycleTyped
    <3>2. QED
      BY <2>1, <2>2, <2>3, <2>4, <3>1 DEF HostInv, CommandInv, ServersKnown, ResponsesServed
  <2>7. CASE op' = [op EXCEPT ![o].pc = "listenAny"] /\ server' = server
    <3>1. op[o] \in Commands
      BY <1>0 DEF LifecycleTyped
    <3>2. op'[o].pc = "listenAny"
      BY <1>0, <2>7, <3>1 DEF LifecycleTyped, Commands
    <3>3. QED
      BY <2>1, <2>3, <2>4, <2>7, <3>2 DEF HostInv, CommandInv, ServersKnown, ResponsesServed
  <2>8. QED
    BY <2>5, <2>6, <2>7
<1>5. ASSUME NEW o \in Ops, Ready(o)
      PROVE  HostInv'
  <2>1. /\ op[o].pc = "ready" /\ op[o].target \in Servers /\ \A x \in Ops : x = o
        /\ server[op[o].target] # "down" /\ started /\ handle = None
    BY <1>0, <1>5 DEF Ready, HostInv, CommandInv, ClosersClose
  <2>2. UNCHANGED <<server, started, subs, res>> /\ handle' = op[o].target
        /\ op' = [op EXCEPT ![o] = Idle]
    BY <1>5 DEF Ready, hub
  <2>3. op'[o] = Idle
    BY <1>0, <2>2 DEF LifecycleTyped
  <2>4. \A t \in Servers : server[t] # "down" => t = op[o].target
    BY <2>1, NoServer DEF HostInv, ServersKnown
  <2>5. QED
    BY <2>1, <2>2, <2>3, <2>4 DEF HostInv, CommandInv, ServersKnown, ResponsesServed, Idle
<1>6. CASE OutsideLeaves
  BY <1>6 DEF OutsideLeaves, hub, view, HostInv, CommandInv, ServersKnown, ResponsesServed
<1>7. ASSUME NEW here \in BOOLEAN, Activity(here)
      PROVE  HostInv'
  BY <1>7, HubStep DEF Activity, view, HostInv, ResponsesServed
<1>8. CASE Heartbeat
  <2>1. \A r \in Streams : res[r].st = "open" => r \in subs'
    BY <1>8, WriteKeeps DEF Heartbeat, HostInv, ResponsesServed
  <2>2. QED
    BY <1>8, <2>1, HubStep DEF Heartbeat, HostInv, ResponsesServed
<1>9. ASSUME NEW b \in Builds, FinishBuild(b)
      PROVE  HostInv'
  <2>1. \A r \in Streams : res[r].st = "open" => r \in subs'
    BY <1>9, WriteKeeps DEF FinishBuild, HostInv, ResponsesServed
  <2>2. QED
    BY <1>9, <2>1, HubStep DEF FinishBuild, HostInv, ResponsesServed
<1>10. ASSUME NEW r \in Streams, FinishPush(r)
       PROVE  HostInv'
  <2>1. \A x \in Streams : res[x].st = "open" => x \in subs'
    BY <1>10, WriteKeeps DEF FinishPush, HostInv
  <2>2. QED
    BY <1>10, <2>1, HubStep DEF FinishPush, HostInv, ResponsesServed
<1>11. CASE OpenView
  BY <1>11, HubStep DEF OpenView, hub, HostInv, ResponsesServed
<1>12. CASE CloseView
  <2>1. \A r \in Streams : res[r] \in Response
    BY <1>0 DEF ViewTyped
  <2>2. \A r \in Streams : res'[r].st \in {"headers", "open"} => res'[r] = res[r]
    BY <1>12, <2>1 DEF CloseView, HangUp, Gone, Response
  <2>3. QED
    BY <1>12, <2>2, HubStep DEF CloseView, hub, HostInv, ResponsesServed
<1>13. CASE Connect
  <2>1. /\ Target \in Servers /\ server[Target] = "listening"
        /\ res' = [res EXCEPT ![First(FreeStreams)] = [st |-> "headers", server |-> Target]]
        /\ UNCHANGED <<started, subs>> /\ UNCHANGED lifecycle
    BY <1>13 DEF Connect, hub
  <2>2. \A r \in Streams : \/ res'[r] = res[r]
                           \/ res'[r] = [st |-> "headers", server |-> Target]
    BY <1>0, <2>1 DEF ViewTyped
  <2>3. QED
    BY <2>1, <2>2, HubStep DEF HostInv, ResponsesServed
<1>14. ASSUME NEW r \in Streams, Subscribe(r)
       PROVE  HostInv'
  <2>1. res[r] \in Response
    BY <1>0 DEF ViewTyped
  <2>2. /\ \A x \in Streams \ {r} : res'[x] = res[x]
        /\ res'[r].st = "open" => res[r].st = "headers" /\ res'[r].server = res[r].server
        /\ res'[r].st # "headers"
        /\ subs' = subs \cup {r}
    BY <1>0, <1>14, <2>1 DEF Subscribe, ViewTyped, Gone, Response
  <2>3. QED
    BY <1>14, <2>2, HubStep DEF Subscribe, HostInv, ResponsesServed
<1>15. CASE UNCHANGED vars
  BY <1>15 DEF vars, lifecycle, hub, view, HostInv, CommandInv, ServersKnown, ResponsesServed
<1>16. QED
  BY <1>1, <1>2, <1>3, <1>4, <1>5, <1>6, <1>7, <1>8, <1>9, <1>10, <1>11, <1>12, <1>13,
     <1>14, <1>15
  DEF Next, Extension

\* Starts and restarts that do not overlap leave one daemon, and a whole one:
\* between them a server that is not down is the one serverHandle names, and
\* its hub runs; and no open response is ever unknown to the hub.
THEOREM OneDaemonAtATime ==
  ASSUME \A o1, o2 \in Ops : o1 = o2
  PROVE  Spec => []OneDaemon
<1>1. Init => HostInv
  BY DEF Init, HostInv, CommandInv, ServersKnown, ResponsesServed, Idle, Gone
<1>2. TypeInv /\ HostInv /\ [Next]_vars => TypeInv' /\ HostInv'
  BY TypeInvariance, HostInvariance
<1>3. TypeInv /\ HostInv => OneDaemon
  <2> SUFFICES ASSUME TypeInv, HostInv PROVE OneDaemon
    OBVIOUS
  <2>1. TypeOK
    BY DEF TypeInv
  <2>2. ASSUME NEW r \in Streams, res[r].st = "open"
        PROVE  r \in subs /\ started
    <3>1. r \in subs /\ res[r].server \in Servers /\ server[res[r].server] # "down"
      BY <2>2 DEF HostInv, ResponsesServed
    <3>2. CASE res[r].server = handle
      BY <3>1, <3>2, NoServer DEF HostInv, ServersKnown
    <3>3. CASE \E o \in Ops : op[o].pc = "ready" /\ op[o].target = res[r].server
      BY <3>1, <3>3 DEF HostInv, CommandInv
    <3>4. QED
      BY <3>1, <3>2, <3>3 DEF HostInv, ServersKnown
  <2>3. ASSUME Busy = {}
        PROVE  /\ \A s \in Servers : server[s] # "down" <=> s = handle
               /\ handle # None => started
    <3>1. \A o \in Ops : op[o].pc # "ready"
      BY <2>3 DEF Busy
    <3>2. QED
      BY <3>1, NoServer DEF HostInv, ServersKnown
  <2>4. QED
    BY <2>1, <2>2, <2>3 DEF OneDaemon
<1>4. QED
  BY <1>1, <1>2, <1>3, InitTyped, PTL DEF Spec
=============================================================================
