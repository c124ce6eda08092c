--------------------------- MODULE ContextCompare ---------------------------
(***************************************************************************)
(* The comparison of a context artifact's baseline prompt with its         *)
(* compressed one: the card of the web UI that builds, compares and judges *)
(* artifacts, the daemon that runs the comparison and streams it, the      *)
(* command line that runs it beside the daemon, and the files both write.  *)
(***************************************************************************)
EXTENDS Naturals, FiniteSets

CONSTANTS
  MaxArtifacts,  \* bound: artifacts built
  MaxRuns,       \* bound: comparisons started
  MaxLoads       \* bound: artifacts asked for at a time

VARIABLES
  artifacts,  \* artifact -> the runs its comparison and its verdict are of
  runs,       \* the comparisons
  running,    \* runningCompares of the daemon
  card,       \* what the card shows
  call,       \* what the card has under way for a comparison
  loads,      \* artifacts asked for, with what the daemon has read for them
  saving      \* the verdict under way

vars == <<artifacts, runs, running, card, call, loads, saving>>

Runs   == 1 .. MaxRuns
Artifacts == 1 .. MaxArtifacts
Active == {"baseline", "compressed", "storing"}
Built  == DOMAIN artifacts
Unrun  == [compare |-> 0, verdict |-> 0]
Nothing == [art |-> 0, run |-> 0]
Idle   == [st |-> "none", art |-> 0, run |-> 0]

\* The card's four parts: the selected artifact, the one whose numbers are
\* shown, the result (with its run), and the verdict block.
Blank == [selected |-> 0, shown |-> 0, button |-> "gone", building |-> FALSE,
          result |-> Nothing, verdict |-> Nothing]

Init ==
  /\ artifacts = << >>
  /\ runs = [r \in Runs |-> [st |-> "none", art |-> 0, by |-> "daemon", whole |-> FALSE]]
  /\ running = {}
  /\ card = Blank
  /\ call = Idle
  /\ loads = {}
  /\ saving = Nothing

Fresh == CHOOSE r \in Runs : runs[r].st = "none"
CanRun == \E r \in Runs : runs[r].st = "none"

\* The card without a result or a verdict; with those of run r of artifact a.
Picker(c, a)    == [c EXCEPT !.shown = a, !.button = "on", !.result = Nothing, !.verdict = Nothing]
Result(c, a, r) == [c EXCEPT !.result = [art |-> a, run |-> r], !.verdict = [art |-> a, run |-> r]]

c122RenderArtifact(c, a, r) ==
  IF r = 0 THEN Picker(c, a) ELSE [Result(c, a, r) EXCEPT !.shown = a, !.button = "gone"]

-----------------------------------------------------------------------------
(* The daemon and the command line.                                         *)

\* A comparison reads the artifact and asks for its baseline.
Begin(r, a, by) ==
  runs' = [runs EXCEPT ![r] = [st |-> "baseline", art |-> a, by |-> by, whole |-> FALSE]]

cliCompare(a) ==
  /\ CanRun
  /\ Begin(Fresh, a, "cli")
  /\ UNCHANGED <<artifacts, running, card, call, loads, saving>>

\* What the end of run r changes: the daemon's lock, and the card that listens.
Ended(r, shown) ==
  /\ running' = IF runs[r].by = "daemon" THEN running \ {runs[r].art} ELSE running
  /\ IF call = [st |-> "stream", art |-> runs[r].art, run |-> r]
       THEN call' = Idle /\ card' = shown
       ELSE UNCHANGED <<call, card>>

Failed(a) == [card EXCEPT !.result = [art |-> a, run |-> 0]]

\* A side is answered, or it fails and the run ends.
runOneSide(r) ==
  /\ runs[r].st \in {"baseline", "compressed"}
  /\ \/ /\ runs' = IF runs[r].st = "baseline"
                      THEN [runs EXCEPT ![r].st = "compressed"]
                      ELSE [runs EXCEPT ![r].st = "storing", ![r].whole = TRUE]
        /\ UNCHANGED <<running, card, call>>
     \/ /\ runs' = [runs EXCEPT ![r].st = "failed"]
        /\ Ended(r, Failed(runs[r].art))
  /\ UNCHANGED <<artifacts, loads, saving>>

\* The artifact is written again with the comparison in it.
mutateArtifact(r) ==
  /\ runs[r].st = "storing"
  /\ artifacts' = [artifacts EXCEPT ![runs[r].art].compare = r]
  /\ runs' = [runs EXCEPT ![r].st = "done"]
  /\ Ended(r, Result(card, runs[r].art, r))
  /\ UNCHANGED <<loads, saving>>

-----------------------------------------------------------------------------
(* The card.                                                                *)

c122Build ==
  /\ ~card.building
  /\ Built # Artifacts
  /\ card' = [card EXCEPT !.building = TRUE]
  /\ UNCHANGED <<artifacts, runs, running, call, loads, saving>>

\* The daemon stores the new artifact, and the card shows it.
writeArtifact ==
  /\ card.building
  /\ LET a == CHOOSE b \in Artifacts : b \notin Built
     IN /\ artifacts' = [b \in Built \cup {a} |-> IF b = a THEN Unrun ELSE artifacts[b]]
        /\ card' = Picker([card EXCEPT !.building = FALSE, !.selected = a], a)
  /\ UNCHANGED <<runs, running, call, loads, saving>>

\* Another artifact is selected, or the one that failed is loaded again.
c122LoadArtifact(a) ==
  /\ Cardinality(loads) < MaxLoads
  /\ \A l \in loads : l.art # a
  /\ \/ a # card.selected
     \/ card.result = [art |-> a, run |-> 0]
  /\ card' = [card EXCEPT !.selected = a, !.shown = 0]
  /\ loads' = loads \cup {[art |-> a, read |-> FALSE, run |-> 0]}
  /\ UNCHANGED <<artifacts, runs, running, call, saving>>

readArtifact(l) ==
  /\ ~l.read
  /\ loads' = (loads \ {l}) \cup {[l EXCEPT !.read = TRUE, !.run = artifacts[l.art].compare]}
  /\ UNCHANGED <<artifacts, runs, running, card, call, saving>>

Loaded(l) ==
  /\ l.read
  /\ loads' = loads \ {l}
  /\ card' = c122RenderArtifact(card, l.art, l.run)
  /\ UNCHANGED <<artifacts, runs, running, call, saving>>

\* The first request has no confirmation: the daemon answers what it would cost.
c122StartCompare ==
  /\ card.button = "on" /\ card.shown # 0
  /\ call.st = "none"
  /\ card' = [card EXCEPT !.button = "off"]
  /\ call' = [st |-> "modal", art |-> card.shown, run |-> 0]
  /\ UNCHANGED <<artifacts, runs, running, loads, saving>>

ModalCancel ==
  /\ call.st = "modal"
  /\ call' = Idle
  /\ card' = [card EXCEPT !.button = IF @ = "off" THEN "on" ELSE @]
  /\ UNCHANGED <<artifacts, runs, running, loads, saving>>

\* The confirmed request: refused while the daemon compares this artifact.
c122RunCompare ==
  /\ call.st = "modal"
  /\ CanRun
  /\ IF call.art \in running
       THEN /\ call' = Idle
            /\ card' = Failed(call.art)
            /\ UNCHANGED <<runs, running>>
       ELSE /\ call' = [call EXCEPT !.st = "stream", !.run = Fresh]
            /\ running' = running \cup {call.art}
            /\ Begin(Fresh, call.art, "daemon")
            /\ card' = [card EXCEPT !.result = Nothing]
  /\ UNCHANGED <<artifacts, loads, saving>>

\* Mutant: the daemon gives the lock back when its reader leaves.
c122CancelCompare_Frees ==
  /\ call.st = "stream" /\ card.result = Nothing
  /\ call' = Idle
  /\ running' = running \ {call.art}
  /\ UNCHANGED <<artifacts, runs, card, loads, saving>>

\* Cancel, while its button is there: the card stops listening, and the daemon
\* goes on. The reader's rejection is nobody's, so the button stays off.
c122CancelCompare ==
  /\ call.st = "stream" /\ card.result = Nothing
  /\ call' = Idle
  /\ UNCHANGED <<artifacts, runs, running, card, loads, saving>>

c122SaveVerdict ==
  /\ card.verdict # Nothing
  /\ saving = Nothing
  /\ saving' = card.verdict
  /\ UNCHANGED <<artifacts, runs, running, card, call, loads>>

\* The daemon refuses a verdict of an artifact that was not compared.
writeVerdict ==
  /\ saving # Nothing
  /\ artifacts' = IF artifacts[saving.art].compare # 0
                    THEN [artifacts EXCEPT ![saving.art].verdict = saving.run]
                    ELSE artifacts
  /\ card' = IF artifacts[saving.art].compare # 0 THEN [card EXCEPT !.verdict = saving] ELSE card
  /\ saving' = Nothing
  /\ UNCHANGED <<runs, running, call, loads>>

-----------------------------------------------------------------------------
Finished ==
  /\ ~CanRun /\ \A r \in Runs : runs[r].st \notin Active
  /\ UNCHANGED vars

Next ==
  \/ \E a \in Built : cliCompare(a) \/ c122LoadArtifact(a)
  \/ \E r \in Runs : runOneSide(r) \/ mutateArtifact(r)
  \/ c122Build \/ writeArtifact
  \/ \E l \in loads : readArtifact(l) \/ Loaded(l)
  \/ c122StartCompare \/ ModalCancel \/ c122RunCompare \/ c122CancelCompare
  \/ c122SaveVerdict \/ writeVerdict
  \/ Finished

Spec == Init /\ [][Next]_vars

-----------------------------------------------------------------------------
WholeRunOf(r, a) == runs[r].art = a /\ runs[r].whole
OfDaemon(a) == {r \in Runs : runs[r].st \in Active /\ runs[r].by = "daemon" /\ runs[r].art = a}

\* The comparison kept in an artifact is one run of it whose two sides were
\* both answered; a verdict is kept only beside a comparison, and is of such a
\* run too; and the daemon runs one comparison of an artifact at a time,
\* which is what its lock says, also when the card that asked has left
\* (compareCompressedContext, writeVerdict and the compare route).
ComparesAreWhole ==
  \A a \in Built :
    /\ artifacts[a].compare # 0 => WholeRunOf(artifacts[a].compare, a)
    /\ artifacts[a].verdict # 0 => /\ artifacts[a].compare # 0
                                   /\ WholeRunOf(artifacts[a].verdict, a)
    /\ a \in running <=> OfDaemon(a) # {}
    /\ \A r, q \in OfDaemon(a) : r = q
=============================================================================
