---------------------------- MODULE ConfigEdits ----------------------------
(***************************************************************************)
(* Edits of the workspace's tierkit.config.json that run at the same time: *)
(* the daemon's routes and the command line each read the whole file,      *)
(* change one section and write the whole file back, through a temporary   *)
(* file they share, through one of their own, or in place, with no lock.   *)
(* A section is the number of the edit that wrote it last (0: absent).     *)
(***************************************************************************)
EXTENDS Naturals, FiniteSets

CONSTANTS
  Missing,     \* no file
  Torn,        \* a file that does not parse
  MaxEdits,    \* bound: edits
  MaxCrashes   \* bound: edits whose process dies

VARIABLES
  edits,    \* the edits, numbered as they begin
  config,   \* the file: its sections, Missing or Torn
  tmp,      \* tierkit.config.json.tmp: likewise
  crashes,  \* processes that died
  beside    \* history: edit -> the edits under way at the same time

vars == <<edits, config, tmp, crashes, beside>>

Edits    == 1 .. MaxEdits
Sections == {"profile", "disabled", "routing", "runtime"}
Blank    == [s \in Sections |-> 0]

\* What each operation writes, and how it gets there.
Of == [add |-> {"profile"}, remove |-> {"profile"}, fields |-> {"profile"},
       toggle |-> {"disabled"}, preset |-> {"routing"}, routing |-> {"routing"},
       runtime |-> {"runtime"}, init |-> Sections]
Kinds   == DOMAIN Of
Shared  == {"add", "remove", "fields", "toggle", "preset"}
InPlace == {"routing", "init"}
Own     == {"runtime"}

\* An edit: how far it is, what it will write, the place its open file is at,
\* and whether it leaves an entry the schema refuses (null, or hints only).
Unborn == [kind |-> "none", st |-> "unborn", held |-> Missing, at |-> "none", bad |-> FALSE]

Active == {e \in Edits : edits[e].st \in {"began", "read", "open", "written"}}

Init ==
  /\ edits = [e \in Edits |-> Unborn]
  /\ config \in {Missing, Blank}
  /\ tmp = Missing
  /\ crashes = 0
  /\ beside = [e \in Edits |-> {}]

-----------------------------------------------------------------------------
Begin(e, k) ==
  /\ edits[e].st = "unborn" /\ \A f \in Edits : f < e => edits[f].st # "unborn"
  /\ edits' = [edits EXCEPT ![e] = [Unborn EXCEPT !.kind = k, !.st = "began"]]
  /\ beside' = [f \in Edits |-> IF f = e THEN Active
                                ELSE IF f \in Active THEN beside[f] \cup {e} ELSE beside[f]]
  /\ UNCHANGED <<config, tmp, crashes>>

End(e, st) == edits' = [edits EXCEPT ![e].st = st, ![e].at = "none"]

\* Profile entries the schema refuses.
Unfit(c) == c["profile"] # 0 /\ edits[c["profile"]].bad

Change(e, c) == [s \in Sections |-> IF s \in Of[edits[e].kind] THEN e ELSE c[s]]

LeavesBad(k, c) ==
  \/ k = "remove"
  \/ k = "fields" /\ (c["profile"] = 0 \/ Unfit(c))

\* Mutant: a file that does not parse is taken for a new one.
readConfigOrInit_NewOnError(e) ==
  /\ edits[e].st = "began"
  /\ LET k == edits[e].kind
         c == IF config \in {Missing, Torn} \/ k = "init" THEN Blank ELSE config
     IN CASE k = "runtime" /\ Unfit(c) -> End(e, "refused")
          [] OTHER ->
               \/ edits' = [edits EXCEPT ![e].held = Change(e, c), ![e].st = "read",
                                         ![e].bad = LeavesBad(k, c)]
               \/ k = "init" /\ config # Missing /\ End(e, "refused")
  /\ UNCHANGED <<config, tmp, crashes, beside>>

\* The file is read and parsed, and the change made to the copy. A file that
\* does not parse is an error, one that is not there a new one; the runtime
\* settings are refused when the whole does not fit the schema; init leaves a
\* file that is there alone, unless told to, and reads nothing.
readConfigOrInit(e) ==
  /\ edits[e].st = "began"
  /\ LET k == edits[e].kind
         c == IF config = Missing \/ k = "init" THEN Blank ELSE config
     IN CASE k # "init" /\ config = Torn -> End(e, "refused")
          [] k = "runtime" /\ config # Torn /\ Unfit(c) -> End(e, "refused")
          [] OTHER ->
               \/ edits' = [edits EXCEPT ![e].held = Change(e, c), ![e].st = "read",
                                         ![e].bad = LeavesBad(k, c)]
               \/ k = "init" /\ config # Missing /\ End(e, "refused")
  /\ UNCHANGED <<config, tmp, crashes, beside>>

\* fs.writeFile opens its file empty, writes, and closes it.
OpenTemp(e) ==
  /\ edits[e].st = "read" /\ edits[e].kind \in Shared
  /\ edits' = [edits EXCEPT ![e].st = "open", ![e].at = "tmp"]
  /\ tmp' = Torn
  /\ UNCHANGED <<config, crashes, beside>>

OpenInPlace(e) ==
  /\ edits[e].st = "read" /\ edits[e].kind \in InPlace
  /\ edits' = [edits EXCEPT ![e].st = "open", ![e].at = "config"]
  /\ config' = Torn
  /\ UNCHANGED <<tmp, crashes, beside>>

\* An open file keeps being written where it has been renamed to.
Fill(e) ==
  /\ edits[e].st = "open"
  /\ config' = IF edits[e].at = "config" THEN edits[e].held ELSE config
  /\ tmp' = IF edits[e].at = "tmp" THEN edits[e].held ELSE tmp
  /\ IF edits[e].kind \in InPlace
       THEN End(e, "done")
       ELSE edits' = [edits EXCEPT ![e].st = "written", ![e].at = "none"]
  /\ UNCHANGED <<crashes, beside>>

\* The rename puts the temporary file, whatever is in it, in the place of the
\* configuration; it fails when another edit has renamed it already.
rename(e) ==
  /\ edits[e].st = "written"
  /\ IF tmp = Missing
       THEN End(e, "refused") /\ UNCHANGED <<config, tmp>>
       ELSE /\ edits' = [f \in Edits |->
                  IF f = e THEN [edits[f] EXCEPT !.st = "done"]
                  ELSE IF edits[f].at = "tmp" THEN [edits[f] EXCEPT !.at = "config"]
                  ELSE IF edits[f].at = "config" THEN [edits[f] EXCEPT !.at = "none"]
                  ELSE edits[f]]
            /\ config' = tmp
            /\ tmp' = Missing
  /\ UNCHANGED <<crashes, beside>>

\* The runtime settings have a temporary file of their own.
WriteOwn(e) ==
  /\ edits[e].st = "read" /\ edits[e].kind \in Own
  /\ edits' = [f \in Edits |->
       IF f = e THEN [edits[f] EXCEPT !.st = "done"]
       ELSE IF edits[f].at = "config" THEN [edits[f] EXCEPT !.at = "none"]
       ELSE edits[f]]
  /\ config' = edits[e].held
  /\ UNCHANGED <<tmp, crashes, beside>>

Crash(e) ==
  /\ e \in Active
  /\ crashes < MaxCrashes
  /\ crashes' = crashes + 1
  /\ End(e, "dead")
  /\ UNCHANGED <<config, tmp, beside>>

-----------------------------------------------------------------------------
AllEnded == /\ \A e \in Edits : edits[e].st \in {"done", "refused", "dead"}
            /\ UNCHANGED vars

Next ==
  \/ \E e \in Edits :
       \/ \E k \in Kinds : Begin(e, k)
       \/ readConfigOrInit(e) \/ OpenTemp(e) \/ OpenInPlace(e) \/ Fill(e)
       \/ rename(e) \/ WriteOwn(e) \/ Crash(e)
  \/ AllEnded

Spec == Init /\ [][Next]_vars

-----------------------------------------------------------------------------
Writes(e) == Of[edits[e].kind]
Alone(e)  == beside[e] = {}

\* An edit that ran beside no other and was acknowledged is in the file until
\* an edit of the same section that began after it (profileCrud, the preset,
\* routing and runtime routes), however those after it overlap, fail or die;
\* and the file is whole ("so the file isn't half-written on crash"), unless an
\* edit wrote in place or two were in the shared temporary file together.
EditsStick ==
  IF config = Torn
    THEN \E e \in Edits :
           \/ edits[e].kind \in InPlace
           \/ edits[e].kind \in Shared /\ \E f \in beside[e] : edits[f].kind \in Shared
    ELSE \A e \in Edits : edits[e].st = "done" /\ Alone(e) =>
           \A s \in Writes(e) : \E f \in Edits : f >= e /\ s \in Writes(f) /\ config[s] = f
=============================================================================
