------------------------------ MODULE ChunkedReads ------------------------------
(***************************************************************************)
(* read_file and list_files (search_files pages as list_files does), of    *)
(* the agent and of the MCP server: what does not fit one answer is read   *)
(* on with a cursor, while the user edits the file and the directory.      *)
(* Each await of a read is a step.                                         *)
(***************************************************************************)
EXTENDS Naturals, Sequences, FiniteSets

CONSTANTS
  Contents,   \* what the file may hold: records [id, lines]
  Gone,       \* a file or a directory that does not exist, no cursor
  HardMax,    \* HARD_MAX_LINES, HARD_MAX_ENTRIES
  MaxAsked,   \* bound: the largest size of an answer that is asked for
  Entries,    \* the names a directory may have, numbers in their order
  MaxEdits,   \* bound: edits of file or directory
  MaxCalls    \* bound: calls of a chain

VARIABLES
  file,     \* what the file holds
  dir,      \* the entries of the directory
  read,     \* the chain of read_file calls under way
  list,     \* the chain of list_files calls under way
  edits

vars == <<file, dir, read, list, edits>>

Clamped(asked) == IF asked > HardMax THEN HardMax ELSE asked
Least(a, b)    == IF a < b THEN a ELSE b

-----------------------------------------------------------------------------
(* read_file.  "at" is the next line, "body" what was read, "torn" whether  *)
(* the file was edited during the call, "chunks" what was answered.         *)

NoRead == [st |-> "none", at |-> 1, max |-> 1, hash |-> Gone, body |-> Gone,
           torn |-> FALSE, chunks |-> <<>>]

\* The first call, and one that reads on with the cursor of the last.
readFile(at, asked) ==
  /\ read.st = "none"
  /\ read' = [NoRead EXCEPT !.st = "stat", !.at = at, !.max = Clamped(asked)]
  /\ UNCHANGED <<file, dir, list, edits>>

ReadOn ==
  /\ read.st = "more" /\ Len(read.chunks) < MaxCalls
  /\ read' = [read EXCEPT !.st = "check", !.torn = FALSE, !.body = Gone]
  /\ UNCHANGED <<file, dir, list, edits>>

\* Mutant: that the file exists is enough.
SameHash_Exists(hash) == file # Gone

SameHash(hash) == file = hash

\* The cursor is refused if the file was edited or deleted since.
CheckHash ==
  /\ read.st = "check"
  /\ read' = [read EXCEPT !.st = IF SameHash(read.hash) THEN "stat" ELSE "stale"]
  /\ UNCHANGED <<file, dir, list, edits>>

Stat ==
  /\ read.st = "stat"
  /\ read' = [read EXCEPT !.st = IF file = Gone THEN "not-found" ELSE "body"]
  /\ UNCHANGED <<file, dir, list, edits>>

ReadBody ==
  /\ read.st = "body"
  /\ read' = [read EXCEPT !.st = IF file = Gone THEN "read-error" ELSE "hash", !.body = file]
  /\ UNCHANGED <<file, dir, list, edits>>

\* The hash for the next cursor is of the file as it is by now; where it is gone
\* the call throws, whatever it has read.
HashNow ==
  /\ read.st = "hash"
  /\ LET end  == Least(read.at + read.max - 1, read.body.lines)
         new  == [from |-> read.at, to |-> end, of |-> read.body, torn |-> read.torn,
                  truncated |-> end < read.body.lines]
     IN read' = IF file = Gone THEN [read EXCEPT !.st = "thrown"]
                ELSE [read EXCEPT !.st = IF new.truncated THEN "more" ELSE "done",
                                  !.hash = file, !.at = end + 1,
                                  !.chunks = Append(@, new)]
  /\ UNCHANGED <<file, dir, list, edits>>

Reading == read.st \in {"check", "stat", "body", "hash"}

EditFile(c) ==
  /\ edits < MaxEdits /\ c # file
  /\ edits' = edits + 1
  /\ file' = c
  /\ read' = [read EXCEPT !.torn = @ \/ Reading]
  /\ UNCHANGED <<dir, list>>

-----------------------------------------------------------------------------
(* list_files: the cursor is a place in the listing, and nothing else.      *)

NoList == [st |-> "none", by |-> "agent", at |-> 0, max |-> 1, given |-> [e \in Entries |-> 0],
           added |-> {}, removed |-> {}, stayed |-> {}]

\* The agent looks first whether the directory exists, the MCP server does not.
FirstStep(by) == IF by = "agent" THEN "stat" ELSE "collect"

listFiles(by, asked) ==
  /\ list.st = "none"
  /\ list' = [NoList EXCEPT !.st = FirstStep(by), !.by = by, !.max = Clamped(asked),
                            !.stayed = IF dir = Gone THEN {} ELSE dir]
  /\ UNCHANGED <<file, dir, read, edits>>

ListOn ==
  /\ list.st = "more"
  /\ list' = [list EXCEPT !.st = FirstStep(list.by)]
  /\ UNCHANGED <<file, dir, read, edits>>

StatDir ==
  /\ list.st = "stat"
  /\ list' = [list EXCEPT !.st = IF dir = Gone THEN "not-found" ELSE "collect"]
  /\ UNCHANGED <<file, dir, read, edits>>

\* The place of an entry in the sorted listing.
Place(all, e) == Cardinality({x \in all : x < e})

\* A directory that is gone by now is listed as an empty one.
collectEntries ==
  /\ list.st = "collect"
  /\ LET all   == IF dir = Gone THEN {} ELSE dir
         end   == Least(list.at + list.max, Cardinality(all))
         slice == {e \in all : list.at <= Place(all, e) /\ Place(all, e) < end}
         next  == IF list.at < end THEN end ELSE list.at
     IN list' = [list EXCEPT !.st = IF next < Cardinality(all) THEN "more" ELSE "done",
                             !.at = next,
                             !.given = [e \in Entries |-> IF e \in slice THEN @[e] + 1 ELSE @[e]]]
  /\ UNCHANGED <<file, dir, read, edits>>

Listing == list.st \in {"stat", "collect", "more"}

EditDir(new) ==
  /\ edits < MaxEdits /\ new # dir
  /\ edits' = edits + 1
  /\ dir' = new
  /\ LET old == IF dir = Gone THEN {} ELSE dir
         now == IF new = Gone THEN {} ELSE new
     IN list' = IF ~Listing THEN list
                ELSE [list EXCEPT !.added = @ \cup (now \ old),
                                  !.removed = @ \cup (old \ now), !.stayed = @ \cap now]
  /\ UNCHANGED <<file, read>>

-----------------------------------------------------------------------------
Init ==
  /\ \/ file \in Contents /\ dir = Gone
     \/ file = Gone /\ dir \in SUBSET Entries
  /\ read = NoRead /\ list = NoList
  /\ edits = 0

Over ==
  /\ ~Reading /\ ~Listing
  /\ read.st # "none" \/ list.st # "none"
  /\ UNCHANGED vars

Next ==
  \/ \E at \in 1 .. 2, asked \in 1 .. MaxAsked : readFile(at, asked)
  \/ ReadOn \/ CheckHash \/ Stat \/ ReadBody \/ HashNow
  \/ dir = Gone /\ \E c \in Contents \cup {Gone} : EditFile(c)
  \/ \E by \in {"agent", "mcp"}, asked \in 1 .. MaxAsked : listFiles(by, asked)
  \/ ListOn \/ StatDir \/ collectEntries
  \/ file = Gone /\ \E new \in (SUBSET Entries) \cup {Gone} : EditDir(new)
  \/ Over

Spec == Init /\ [][Next]_vars

-----------------------------------------------------------------------------
\* An edit between two calls is always found out, and nothing is left out
\* (readFile.ts: "fileHash changed", "was deleted since cursor was issued"): the
\* chunks of a chain join without gap or overlap and the last ends with the file;
\* two chunks of different contents are answered only where the file was edited
\* while one of the two calls was reading it, for the three reads of a call are
\* not one.
ChunksAreOfOneFile ==
  LET c == read.chunks
  IN /\ \A k \in DOMAIN c : k > 1 =>
          /\ c[k].from = c[k - 1].to + 1
          /\ c[k].of # c[k - 1].of => c[k].torn \/ c[k - 1].torn
     /\ \A k \in DOMAIN c : c[k].truncated \/ c[k].to = c[k].of.lines
     /\ read.st = "done" /\ (\A k \in DOMAIN c : ~c[k].torn) =>
          \A k \in DOMAIN c : c[k].of = c[Len(c)].of

\* A listing misses or repeats an entry only for a change of the directory: an
\* entry that was there all the time is listed, unless an earlier one was removed
\* between the calls, and listed once, unless an earlier one was added.
PagesListAll ==
  list.st = "done" =>
    \A e \in list.stayed :
      /\ list.given[e] = 0 => \E r \in list.removed : r < e
      /\ list.given[e] > 1 => \E a \in list.added : a < e

\* Both kinds of chain are true to what they read.
ChainsAreWhole == ChunksAreOfOneFile /\ PagesListAll
=============================================================================
