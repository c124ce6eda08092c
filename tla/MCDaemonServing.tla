--------------------------- MODULE MCDaemonServing ---------------------------
(* The daemon and its page, in one run: DaemonHost (the daemon in the VS Code *)
(* extension and its savings stream) and Dashboard (a card of the page). The  *)
(* components are side by side: part says which of them a behaviour is about, *)
(* and the other stays as it begins; fairness is for the one that moves.      *)
EXTENDS DaemonHost, Naturals, TLC

VARIABLES
  part,
  card, daemon, outages, store, health, wasOffline, asks, onCard, stuck, stream, button, unseen

dashVars == <<card, daemon, outages, store, health, wasOffline, asks, onCard, stuck, stream,
              button, unseen>>

Dash == INSTANCE Dashboard
          WITH MaxEdits <- 1, MaxOutages <- 2, MaxPending <- 2, shown <- onCard, op <- button

ServingInit ==
  /\ part \in {"host", "page"}
  /\ Init /\ (part # "host" => outside = "none")
  /\ Dash!Init /\ (part # "page" => card = "freedom" /\ daemon = "down")

HostStep == part = "host" /\ Next /\ UNCHANGED <<part, dashVars>>
PageStep == part = "page" /\ Dash!Next /\ UNCHANGED <<part, vars>>

\* The fairness of DaemonHost and that of Dashboard, each for its own part.
OfHost(A) == part = "host" /\ A
OfPage(A) == part = "page" /\ A

ServingSpec ==
  /\ ServingInit
  /\ [][HostStep \/ PageStep]_<<part, vars, dashVars>>
  /\ \A o \in Ops : WF_vars(OfHost(Extension(o)))
  /\ \A b \in Builds : WF_vars(OfHost(FinishBuild(b)))
  /\ \A r \in Streams : WF_vars(OfHost(Subscribe(r))) /\ WF_vars(OfHost(FinishPush(r)))
  /\ WF_vars(OfHost(Heartbeat))
  /\ WF_vars(OfHost(Connect))
  /\ WF_dashVars(OfPage(Dash!PollHealth))
  /\ WF_dashVars(OfPage(Dash!PollCard))
  /\ WF_dashVars(OfPage(Dash!refreshHealth))
  /\ WF_dashVars(OfPage(Dash!HealthFails))
  /\ \A s \in Dash!Slots :
       WF_dashVars(OfPage(Dash!Renders(s) \/ Dash!Fails(s) \/ Dash!Reads(s)))
  /\ WF_dashVars(OfPage(Dash!Subscribe \/ Dash!Snapshot))
  /\ WF_dashVars(OfPage(Dash!PostDone \/ Dash!PostRefused \/ Dash!PostFails))

\* A card of the page shows what the daemon has: it recovers after an outage, and
\* shows the effect of its button (Dashboard).
CardIsCurrent == Dash!SelfRecovers /\ Dash!EffectIsShown
=============================================================================
