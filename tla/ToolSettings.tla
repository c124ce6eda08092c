---------------------------- MODULE ToolSettings ----------------------------
(***************************************************************************)
(* connectTool: routing Roo, Cline or Continue through the daemon, by keys *)
(* in .vscode/settings.json (both Roo and Cline, through one temporary     *)
(* file) or by an entry in .continue/config.yaml (in place).  Requests     *)
(* interleave at their file accesses, and processes die.                   *)
(***************************************************************************)
EXTENDS Naturals, FiniteSets

CONSTANTS
  Missing,      \* no file
  Torn,         \* a settings file cut off while it was written
  MaxRequests   \* bound: requests

VARIABLES
  req,       \* the requests, numbered as they begin
  settings,  \* .vscode/settings.json
  tmp,       \* .vscode/settings.json.tmp
  yaml,      \* .continue/config.yaml
  had,       \* history: what the two files held of the user's at first
  mixed      \* history: two requests overlapped, or one died

vars == <<req, settings, tmp, yaml, had, mixed>>

Requests == 1 .. MaxRequests
Keyed    == {"roo", "cline"}
Tools    == Keyed \cup {"continue"}

\* The user's own settings: none, some, some with glob patterns in them, or
\* what is left of those when their slash-stars are taken for comments.
Settings(user, routed)  == [user |-> user, routed |-> routed]
Yaml(user, entries)     == [user |-> user, entries |-> entries]
Emptied                 == Yaml(FALSE, 0)
Unborn == [tool |-> "none", st |-> "unborn", held |-> Missing, at |-> "none"]

Active(q) == req[q].st \notin {"unborn", "done", "failed", "dead"}

Init ==
  /\ req = [q \in Requests |-> Unborn]
  /\ had \in [settings : {"none", "plain", "globs"}, yaml : BOOLEAN]
  /\ settings = IF had.settings = "none" THEN Missing ELSE Settings(had.settings, {})
  /\ yaml = IF had.yaml THEN Yaml(TRUE, 0) ELSE Missing
  /\ tmp = Missing
  /\ mixed = FALSE

-----------------------------------------------------------------------------
Go(q, st) == req' = [req EXCEPT ![q].st = st]

connectTool(q, tool) ==
  /\ req[q].st = "unborn" /\ \A p \in Requests : p < q => req[p].st # "unborn"
  /\ req' = [req EXCEPT ![q].tool = tool, ![q].st = "read"]
  /\ mixed' = (mixed \/ \E p \in Requests : Active(p))
  /\ UNCHANGED <<settings, tmp, yaml, had>>

\* What JSON.parse makes of the text without its comments.
stripJsonComments(s) == IF s.user = "globs" THEN [s EXCEPT !.user = "cut"] ELSE s

\* Mutant: any file that cannot be read is taken for an empty one.
readJsonMaybeWithComments_Empty(q) ==
  /\ req[q].st = "read" /\ req[q].tool \in Keyed
  /\ LET s == IF settings \in {Missing, Torn} THEN Settings("none", {}) ELSE stripJsonComments(settings)
     IN req' = [req EXCEPT ![q].held = [s EXCEPT !.routed = @ \cup {req[q].tool}], ![q].st = "open"]
  /\ UNCHANGED <<settings, tmp, yaml, had, mixed>>

\* The file is read, an absent one as empty; one that does not parse is an error.
readJsonMaybeWithComments(q) ==
  /\ req[q].st = "read" /\ req[q].tool \in Keyed
  /\ IF settings = Torn THEN Go(q, "failed")
     ELSE LET s == IF settings = Missing THEN Settings("none", {}) ELSE stripJsonComments(settings)
          IN \/ req' = [req EXCEPT ![q].held = [s EXCEPT !.routed = @ \cup {req[q].tool}],
                                   ![q].st = "open"]
             \/ s.user = "cut" /\ Go(q, "failed")
  /\ UNCHANGED <<settings, tmp, yaml, had, mixed>>

\* writeJson opens the temporary file, which empties it, fills and renames it.
OpenTemp(q) ==
  /\ req[q].st = "open"
  /\ req' = [req EXCEPT ![q].st = "fill", ![q].at = "tmp"]
  /\ tmp' = Torn
  /\ UNCHANGED <<settings, yaml, had, mixed>>

FillTemp(q) ==
  /\ req[q].st = "fill"
  /\ tmp' = IF req[q].at = "tmp" THEN req[q].held ELSE tmp
  /\ settings' = IF req[q].at = "settings" THEN req[q].held ELSE settings
  /\ req' = [req EXCEPT ![q].st = "rename", ![q].at = "none"]
  /\ UNCHANGED <<yaml, had, mixed>>

\* A file another request has open is written on under its new name.
writeJson(q) ==
  /\ req[q].st = "rename"
  /\ IF tmp = Missing
       THEN Go(q, "failed") /\ UNCHANGED <<settings, tmp>>
       ELSE /\ settings' = tmp
            /\ tmp' = Missing
            /\ req' = [p \in Requests |->
                 IF p = q THEN [req[p] EXCEPT !.st = "done"]
                 ELSE [req[p] EXCEPT !.at = IF @ = "tmp" THEN "settings"
                                            ELSE IF @ = "settings" THEN "none" ELSE @]]
  /\ UNCHANGED <<yaml, had, mixed>>

\* Continue: nothing to do where the marker is; else one entry is added.
connectContinue(q) ==
  /\ req[q].st = "read" /\ req[q].tool = "continue"
  /\ LET y == IF yaml = Missing THEN Emptied ELSE yaml
     IN IF y.entries > 0 THEN Go(q, "done")
        ELSE req' = [req EXCEPT ![q].held = [y EXCEPT !.entries = 1], ![q].st = "openYaml"]
  /\ UNCHANGED <<settings, tmp, yaml, had, mixed>>

OpenYaml(q) ==
  /\ req[q].st = "openYaml"
  /\ yaml' = Emptied
  /\ Go(q, "fillYaml")
  /\ UNCHANGED <<settings, tmp, had, mixed>>

FillYaml(q) ==
  /\ req[q].st = "fillYaml"
  /\ yaml' = req[q].held
  /\ Go(q, "done")
  /\ UNCHANGED <<settings, tmp, had, mixed>>

Crash(q) ==
  /\ Active(q)
  /\ req' = [req EXCEPT ![q].st = "dead", ![q].at = "none"]
  /\ mixed' = TRUE
  /\ UNCHANGED <<settings, tmp, yaml, had>>

AllDone == (\A q \in Requests : ~Active(q)) /\ UNCHANGED vars

Next ==
  \/ \E q \in Requests :
       \/ \E tool \in Tools : connectTool(q, tool)
       \/ readJsonMaybeWithComments(q) \/ OpenTemp(q) \/ FillTemp(q) \/ writeJson(q)
       \/ connectContinue(q) \/ OpenYaml(q) \/ FillYaml(q) \/ Crash(q)
  \/ AllDone

Spec == Init /\ [][Next]_vars

-----------------------------------------------------------------------------
\* statusForVsCodeKey and statusForContinue.
routed(tool) == IF tool \in Keyed THEN settings # Missing /\ tool \in settings.routed
                ELSE yaml # Missing /\ yaml.entries > 0

\* Settings that can be read still hold the user's, whatever overlapped or
\* died, but for glob patterns, which a connect cuts; and when nothing
\* overlapped or died, every tool connected so far is routed, one more
\* connected takes no other's route away, and Continue has one entry beside
\* the user's (connectTool: "files are read, mutated, then written back").
RoutesAddUp ==
  /\ settings \notin {Missing, Torn} =>
       settings.user = had.settings \/ (had.settings = "globs" /\ settings.user = "cut")
  /\ ~mixed /\ (\A q \in Requests : ~Active(q)) =>
       /\ \A q \in Requests : req[q].st = "done" => routed(req[q].tool)
       /\ yaml # Missing => yaml.user = had.yaml /\ yaml.entries <= 1
=============================================================================
