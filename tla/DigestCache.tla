------------------------------ MODULE DigestCache ------------------------------
(***************************************************************************)
(* getFileDigestCached: digests of files, kept under a hash of path and    *)
(* content in .tierkit/runtime/file-digests, asked for by the daemon, the  *)
(* MCP server and the command line while the user edits the files and any  *)
(* of them clears the cache.                                               *)
(***************************************************************************)
EXTENDS Naturals, FiniteSets

CONSTANTS
  Files,      \* the files, by path
  Contents,   \* what a file may contain
  Missing,    \* a file that does not exist, a digest that says so, no entry
  Torn,       \* an entry that is opened and not yet written
  MaxCalls,   \* bound: digests asked for
  MaxEdits,   \* bound: edits of the user
  MaxClears,  \* bound: clears
  MaxCrashes  \* bound: processes that end in the middle

VARIABLES
  file,    \* the content of each file
  entry,   \* the entries of the cache, by hash
  asks,    \* the calls of getFileDigestCached
  clear,   \* a clear: the entries it has listed and not removed
  edits, clears, crashes

vars == <<file, entry, asks, clear, edits, clears, crashes>>

Asks == 1 .. MaxCalls

\* Mutant: the content alone is hashed.
hashContent_Content(f, c) == [path |-> Missing, content |-> c]

\* sha256 over schema version, path and content: equal only for equal ones.
hashContent(f, c) == [path |-> f, content |-> c]

Hashes == {hashContent(f, c) : f \in Files, c \in Contents}

\* What getFileDigest says of a file: its skeleton, symbols, risks and text
\* are functions of path and content; of a missing file it says just that.
Digest(f, c) ==
  [path |-> f, content |-> c,
   hash |-> IF c = Missing THEN Missing ELSE hashContent(f, c)]

-----------------------------------------------------------------------------
NoAsk == [st |-> "unborn", path |-> Missing, force |-> FALSE, key |-> Missing,
          digest |-> Missing, linked |-> FALSE, hit |-> FALSE, had |-> {}]

Init ==
  /\ file \in [Files -> Contents \cup {Missing}]
  /\ entry = [h \in Hashes |-> Missing]
  /\ asks = [a \in Asks |-> NoAsk]
  /\ clear = {}
  /\ edits = 0 /\ clears = 0 /\ crashes = 0

Idle(a) == asks[a].st \in {"unborn", "done", "dead"}

Set(a, call) == asks' = [asks EXCEPT ![a] = call]

\* The user saves, creates or deletes a file.
Edit(f, c) ==
  /\ edits < MaxEdits /\ c # file[f]
  /\ edits' = edits + 1
  /\ file' = [file EXCEPT ![f] = c]
  /\ asks' = [a \in Asks |-> IF ~Idle(a) /\ asks[a].path = f
                               THEN [asks[a] EXCEPT !.had = @ \cup {c}] ELSE asks[a]]
  /\ UNCHANGED <<entry, clear, clears, crashes>>

\* A request begins: what the file holds is not known to it yet.
Ask(a, f, force) ==
  /\ asks[a].st = "unborn" /\ \A b \in Asks : b < a => asks[b].st # "unborn"
  /\ Set(a, [NoAsk EXCEPT !.st = "hash", !.path = f, !.force = force, !.had = {file[f]}])
  /\ UNCHANGED <<file, entry, clear, edits, clears, crashes>>

\* The file is read for its hash; one that cannot be read has no entry.
HashFile(a) ==
  /\ asks[a].st = "hash"
  /\ LET c == file[asks[a].path]
     IN Set(a, IF c = Missing \/ asks[a].force
                 THEN [asks[a] EXCEPT !.st = "digest"]
                 ELSE [asks[a] EXCEPT !.st = "cache", !.key = hashContent(asks[a].path, c)])
  /\ UNCHANGED <<file, entry, clear, edits, clears, crashes>>

\* An entry that does not parse, or is none, is a miss.
readCache(a) ==
  /\ asks[a].st = "cache"
  /\ LET found == entry[asks[a].key]
     IN Set(a, IF found \in {Missing, Torn}
                 THEN [asks[a] EXCEPT !.st = "digest"]
                 ELSE [asks[a] EXCEPT !.st = "done", !.digest = found, !.hit = TRUE])
  /\ UNCHANGED <<file, entry, clear, edits, clears, crashes>>

\* getFileDigest reads the file again; a digest without a hash is not kept.
getFileDigest(a) ==
  /\ asks[a].st = "digest"
  /\ LET d == Digest(asks[a].path, file[asks[a].path])
     IN Set(a, [asks[a] EXCEPT !.digest = d,
                               !.st = IF d.hash = Missing THEN "done" ELSE "open"])
  /\ UNCHANGED <<file, entry, clear, edits, clears, crashes>>

\* writeCache: the entry is emptied, then filled.
OpenEntry(a) ==
  /\ asks[a].st = "open"
  /\ entry' = [entry EXCEPT ![asks[a].digest.hash] = Torn]
  /\ Set(a, [asks[a] EXCEPT !.st = "fill", !.linked = TRUE])
  /\ UNCHANGED <<file, clear, edits, clears, crashes>>

\* What is written after the entry was removed is written to no entry.
FillEntry(a) ==
  /\ asks[a].st = "fill"
  /\ entry' = IF asks[a].linked THEN [entry EXCEPT ![asks[a].digest.hash] = asks[a].digest]
                                ELSE entry
  /\ Set(a, [asks[a] EXCEPT !.st = "done"])
  /\ UNCHANGED <<file, clear, edits, clears, crashes>>

\* clearFileDigestCache lists the entries and removes them one by one.
clearFileDigestCache ==
  /\ clear = {} /\ clears < MaxClears
  /\ clears' = clears + 1
  /\ clear' = {h \in Hashes : entry[h] # Missing}
  /\ UNCHANGED <<file, entry, asks, edits, crashes>>

RemoveEntry(h) ==
  /\ h \in clear
  /\ clear' = clear \ {h}
  /\ entry' = [entry EXCEPT ![h] = Missing]
  /\ asks' = [a \in Asks |-> IF asks[a].st = "fill" /\ asks[a].digest.hash = h
                               THEN [asks[a] EXCEPT !.linked = FALSE] ELSE asks[a]]
  /\ UNCHANGED <<file, edits, clears, crashes>>

\* The process that asks ends in the middle: a half-written entry stays.
Crash(a) ==
  /\ ~Idle(a) /\ crashes < MaxCrashes
  /\ crashes' = crashes + 1
  /\ Set(a, [asks[a] EXCEPT !.st = "dead"])
  /\ UNCHANGED <<file, entry, clear, edits, clears>>

Rest == (\A a \in Asks : asks[a].st \in {"done", "dead"}) /\ clear = {} /\ UNCHANGED vars

Next ==
  \/ \E f \in Files, c \in Contents \cup {Missing} : Edit(f, c)
  \/ \E a \in Asks, f \in Files, force \in BOOLEAN : Ask(a, f, force)
  \/ \E a \in Asks : \/ HashFile(a) \/ readCache(a) \/ getFileDigest(a)
                     \/ OpenEntry(a) \/ FillEntry(a) \/ Crash(a)
  \/ clearFileDigestCache
  \/ \E h \in Hashes : RemoveEntry(h)
  \/ Rest

Spec == Init /\ [][Next]_vars

-----------------------------------------------------------------------------
\* A digest is never of another file, nor of a content the file no longer had
\* when the request began (fileDigest.ts:22-38: "cached by content hash"): what a
\* request is given is of the file it asked for, with a content, or an absence,
\* that the file had at some moment of the request, whatever edits, clears,
\* other writers of the same entry and torn entries do; and a request that
\* forces a fresh digest is not given a kept one.
DigestIsOfTheFile ==
  \A a \in Asks : asks[a].st = "done" =>
    /\ asks[a].digest.path = asks[a].path
    /\ asks[a].digest.content \in asks[a].had
    /\ asks[a].hit => ~asks[a].force
=============================================================================
