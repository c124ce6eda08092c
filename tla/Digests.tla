-------------------------------- MODULE Digests --------------------------------
(***************************************************************************)
(* The rule-based digests: compressTestOutput, compressErrorLog,           *)
(* summarizeGitDiff and cleanContext, each a loop over the lines of its    *)
(* input.  A line is what the regular expressions take it for, with its    *)
(* place in the input standing for its text.  A step is one turn of the    *)
(* loop; every input up to MaxLines is digested, for what follows the loop *)
(* is a function of the loop's variables.                                  *)
(***************************************************************************)
EXTENDS Naturals, Sequences, SequencesExt, FiniteSets

CONSTANTS
  MaxLines,  \* bound: lines of an input
  MaxItems,  \* budget.maxItems
  FrameCap,  \* the frames that a failed case keeps (5)
  Absent     \* a value that no line gave

VARIABLES
  tool,      \* which digest is asked for
  input,     \* the lines the loop has been through
  state      \* the variables of the loop

vars == <<tool, input, state>>

FirstItems(s) == SubSeq(s, 1, IF Len(s) < MaxItems THEN Len(s) ELSE MaxItems)

Pushed(s, x) == IF x \in ToSet(s) THEN s ELSE Append(s, x)

Total(s) ==
  LET sum[k \in 0 .. Len(s)] == IF k = 0 THEN 0 ELSE sum[k - 1] + s[k]
  IN sum[Len(s)]

-----------------------------------------------------------------------------
(* compressTestOutput: "keep what failed, drop what passed".                *)

TestLines == {[kind |-> k, file |-> Absent] : k \in {"pass", "fail", "expected", "received", "other"}}
             \cup [kind : {"pytest"}, file : {"a"}] \cup [kind : {"frame"}, file : {"a", "vendor"}]

Failure(l, i) ==
  [at |-> i, expected |-> Absent, received |-> Absent, frames |-> <<>>,
   files |-> IF l.kind = "pytest" THEN <<l.file>> ELSE <<>>]

\* What a line adds to the failure whose heading it stands under.
InCase(f, l, i) ==
  CASE l.kind = "expected" -> [f EXCEPT !.expected = i]
    [] l.kind = "received" -> [f EXCEPT !.received = i]
    [] l.kind = "frame" /\ l.file # "vendor" ->
         [f EXCEPT !.frames = Append(@, i), !.files = Pushed(@, l.file)]
    [] OTHER -> f

\* What a line adds, where cur is that failure's number.
Under(st, l, i, cur) ==
  CASE l.kind = "pass" -> [st EXCEPT !.passed = @ + 1]
    [] l.kind \in {"fail", "pytest"} ->
         [st EXCEPT !.failures = Append(@, Failure(l, i)), !.failed = @ + 1]
    [] OTHER ->
         IF st.failures = <<>> THEN st ELSE [st EXCEPT !.failures[cur] = InCase(@, l, i)]

\* Mutant: what follows belongs to the first failure.
TestLine_First(st, l, i) == Under(st, l, i, 1)

\* What follows a heading belongs to its failure, passing tests between or not.
TestLine(st, l, i) == Under(st, l, i, Len(st.failures))

NoTests == [passed |-> 0, failed |-> 0, failures |-> <<>>]

compressTestOutput(st) ==
  LET listed == FirstItems(st.failures)
      lacks(f) == f.expected = Absent \/ f.received = Absent
  IN [cases |-> [k \in DOMAIN listed |->
                   [listed[k] EXCEPT !.frames =
                      SubSeq(@, 1, IF Len(@) < FrameCap THEN Len(@) ELSE FrameCap)]],
      files |-> UNION {ToSet(listed[k].files) : k \in DOMAIN listed},
      passed |-> st.passed,
      failed |-> st.failed,
      uncertainty |->
        {u \in {"nothing", "truncated", "inferred"} :
           \/ u = "nothing" /\ st.failed = 0 /\ st.passed = 0
           \/ u = "truncated" /\ Len(st.failures) > MaxItems
           \/ u = "inferred" /\ \E k \in DOMAIN listed : lacks(listed[k])}]

-----------------------------------------------------------------------------
(* compressErrorLog: "keep error LOCATIONS, drop everything else".          *)

ErrorLines == [kind : {"error", "frame"}, what : {"x", "y"}, file : {"a", "vendor"}]
              \cup [kind : {"other"}, what : {"x"}, file : {"a"}]

\* Of errors and of frames each is kept once and counted; those of a vendor's
\* files are dropped, errors too.
ErrorLine(st, l, i) ==
  IF l.kind = "other" \/ l.file = "vendor" THEN st
  ELSE [st EXCEPT ![l.kind] = Pushed(@, l), !.counts[l] = @ + 1]

NoErrors == [error |-> <<>>, frame |-> <<>>, counts |-> [l \in ErrorLines |-> 0]]

compressErrorLog(st) ==
  LET ranked == FirstItems(st.error \o st.frame)
  IN [errors |-> [k \in DOMAIN ranked |->
                    [line |-> ranked[k], repeated |-> st.counts[ranked[k]]]],
      uncertainty |->
        {u \in {"nothing", "inferred", "truncated"} :
           \/ u = "nothing" /\ st.error \o st.frame = <<>>
           \/ u = "inferred" /\ st.error = <<>> /\ st.frame # <<>>
           \/ u = "truncated" /\ Len(ranked) = MaxItems}]

-----------------------------------------------------------------------------
(* summarizeGitDiff.                                                        *)

\* "twice" is an added line whose text begins with "++": "+++..." in the diff.
DiffLines == {"header", "moved", "new", "deleted", "from", "to", "hunk", "plus", "minus", "twice"}

Headers == {"header", "moved"}

\* git writes a header, says what became of the file, then its hunks.
Follows(l, before) ==
  IF before = <<>> THEN l \in Headers
  ELSE LET last == Last(before)
       IN CASE l \in Headers -> last \notin {"moved", "from"}
            [] l \in {"new", "deleted"} -> last = "header"
            [] l = "from" -> last = "moved"
            [] l = "to"   -> last = "from"
            [] l = "hunk" -> last \notin {"moved", "from", "hunk"}
            [] OTHER      -> last \in {"hunk", "plus", "minus", "twice"}

DiffFile(l, i) ==
  [at |-> i, status |-> IF l = "moved" THEN "renamed" ELSE "modified",
   plus |-> 0, minus |-> 0, symbols |-> {}]

\* What a line tells of the file under whose header it stands.
InFile(f, l, i) ==
  CASE l = "new" -> [f EXCEPT !.status = "added"]
    [] l = "deleted" -> [f EXCEPT !.status = "deleted"]
    [] l \in {"from", "to"} -> [f EXCEPT !.status = "renamed"]
    [] l = "hunk" -> [f EXCEPT !.symbols = @ \cup {i}]
    [] l = "plus" -> [f EXCEPT !.symbols = @ \cup {i}, !.plus = @ + 1]
    [] l = "minus" -> [f EXCEPT !.symbols = @ \cup {i}, !.minus = @ + 1]
    [] OTHER -> f

DiffLine(st, l, i) ==
  IF l \in Headers THEN Append(st, DiffFile(l, i))
  ELSE IF st = <<>> THEN st
  ELSE [st EXCEPT ![Len(st)] = InFile(@, l, i)]

\* The files of a status, by the line of their header.
summarizeGitDiff(files) ==
  LET listed == FirstItems(files)
      Of(status) == {listed[k].at : k \in {n \in DOMAIN listed : listed[n].status = status}}
  IN [changed |-> [k \in DOMAIN listed |-> listed[k].at],
      added |-> Of("added"), deleted |-> Of("deleted"),
      renamed |-> Of("renamed"), modified |-> Of("modified"),
      symbols |-> UNION {listed[k].symbols : k \in DOMAIN listed},
      insertions |-> Total([k \in DOMAIN listed |-> listed[k].plus]),
      deletions |-> Total([k \in DOMAIN listed |-> listed[k].minus]),
      breakages |-> {s \in {"deleted", "renamed"} : Of(s) # {}},
      uncertainty |-> {u \in {"truncated", "empty"} :
                         \/ u = "truncated" /\ Len(files) > MaxItems
                         \/ u = "empty" /\ files = <<>>}]

-----------------------------------------------------------------------------
(* cleanContext.                                                            *)

\* A line of noise, one of text, and whether it speaks of a warning.
CleanLines == [text : {"noise", "x", "y"}, warns : BOOLEAN] \cup [text : {"blank"}, warns : {FALSE}]

\* Noise is dropped first, warnings in it too; of equal lines two are kept, the
\* third marked, the others dropped.
CleanLine(st, l, i) ==
  LET before == st.seen[l]
      text == l.text \notin {"noise", "blank"}
      counted == IF text THEN [st EXCEPT !.seen[l] = @ + 1] ELSE st
  IN CASE l.text = "noise" -> [st EXCEPT !.noise = @ + 1]
       [] text /\ before > 2 -> [counted EXCEPT !.repeated = @ + 1]
       [] text /\ before = 2 ->
            [counted EXCEPT !.kept = Append(@, [line |-> l, marked |-> TRUE])]
       [] OTHER ->
            [counted EXCEPT !.kept = Append(@, [line |-> l, marked |-> FALSE]),
                            !.warnings = IF l.warns /\ Len(@) < MaxItems THEN Append(@, i) ELSE @]

NothingKept == [kept |-> <<>>, noise |-> 0, repeated |-> 0, warnings |-> <<>>,
                seen |-> [l \in CleanLines |-> 0]]

-----------------------------------------------------------------------------
DigestTools == {"test", "error", "diff", "clean"}

LinesOf(t) ==
  CASE t = "test"  -> TestLines
    [] t = "error" -> ErrorLines
    [] t = "diff"  -> {l \in DiffLines : Follows(l, input)}
    [] t = "clean" -> CleanLines

\* The loop of each tool, before its first line and from line to line.
Begun(t) ==
  CASE t = "test"  -> NoTests
    [] t = "error" -> NoErrors
    [] t = "diff"  -> <<>>
    [] t = "clean" -> NothingKept

Turn(t, l, i) ==
  CASE t = "test"  -> TestLine(state, l, i)
    [] t = "error" -> ErrorLine(state, l, i)
    [] t = "diff"  -> DiffLine(state, l, i)
    [] t = "clean" -> CleanLine(state, l, i)

Init == tool \in DigestTools /\ input = <<>> /\ state = Begun(tool)

Read(l) ==
  /\ Len(input) < MaxLines
  /\ input' = Append(input, l)
  /\ state' = Turn(tool, l, Len(input) + 1)
  /\ UNCHANGED tool

Whole == Len(input) = MaxLines /\ UNCHANGED vars

Next ==
  \/ \E l \in LinesOf(tool) : Read(l)
  \/ Whole

Spec == Init /\ [][Next]_vars

-----------------------------------------------------------------------------
TestHeads == {i \in DOMAIN input : input[i].kind \in {"fail", "pytest"}}
Passing   == {i \in DOMAIN input : input[i].kind = "pass"}
OwnErrors == {i \in DOMAIN input : input[i].kind # "other" /\ input[i].file # "vendor"}
DiffHeads == {i \in DOMAIN input : input[i] \in Headers}
OwnLines  == {i \in DOMAIN input : input[i].text # "noise"}

\* The lines of the stretch that a heading at i begins, up to the next one.
Stretch(headings, i) == {j \in DOMAIN input : j > i /\ \A h \in headings : ~(i < h /\ h <= j)}

LastOf(S) == IF S = {} THEN Absent ELSE CHOOSE i \in S : \A j \in S : j <= i

InOrder(s) == \A j, k \in DOMAIN s : j < k => s[j] < s[k]

\* The lines of a kind that stand under the heading at h.
Below(h, kind) == {j \in Stretch(TestHeads, h) : input[j].kind = kind}

\* A digest of test output keeps what failed: the first failures of the log, in
\* order, each with the last expected and received value and the first frames of
\* the user's own files that stand under its own heading, never under another's;
\* the counts are of all the log, and what is left out or not known is said.
KeepsFailures(d) ==
  LET cases == {d.cases[k].at : k \in DOMAIN d.cases}
  IN /\ cases \subseteq TestHeads /\ InOrder([k \in DOMAIN d.cases |-> d.cases[k].at])
     /\ \A h \in TestHeads \ cases : Cardinality(cases) = MaxItems /\ \A c \in cases : c < h
     /\ \A k \in DOMAIN d.cases : LET c == d.cases[k] IN
          /\ c.expected = LastOf(Below(c.at, "expected"))
          /\ c.received = LastOf(Below(c.at, "received"))
          /\ InOrder(c.frames)
          /\ \A j \in ToSet(c.frames) : j \in Below(c.at, "frame") /\ input[j].file # "vendor"
          /\ \A j \in Below(c.at, "frame") \ ToSet(c.frames) :
               input[j].file # "vendor" =>
                 Len(c.frames) = FrameCap /\ \A f \in ToSet(c.frames) : f < j
     /\ d.failed = Cardinality(TestHeads)
     /\ d.passed = Cardinality(Passing)
     /\ "vendor" \notin d.files
     /\ "truncated" \in d.uncertainty <=> TestHeads \ cases # {}
     /\ "nothing" \in d.uncertainty <=> d.failed + d.passed = 0
     /\ "inferred" \in d.uncertainty <=>
          \E c \in cases : Below(c, "expected") = {} \/ Below(c, "received") = {}

TestDigestKeepsFailures == tool = "test" => KeepsFailures(compressTestOutput(state))

\* A digest of an error log keeps what is to be read first: no item twice, each
\* with the number of its lines, errors before stack frames, nothing of a
\* vendor's; and where something of the user's is left out, it says so.
CountsErrors(d) ==
  LET items == {d.errors[k].line : k \in DOMAIN d.errors}
      left == {i \in OwnErrors : input[i] \notin items}
  IN /\ \A j, k \in DOMAIN d.errors : d.errors[j].line = d.errors[k].line => j = k
     /\ items \subseteq {input[i] : i \in OwnErrors}
     /\ \A k \in DOMAIN d.errors :
          d.errors[k].repeated = Cardinality({i \in OwnErrors : input[i] = d.errors[k].line})
     /\ \A l \in items, i \in left : l.kind = "frame" => input[i].kind = "frame"
     /\ left # {} => "truncated" \in d.uncertainty
     /\ "nothing" \in d.uncertainty <=> OwnErrors = {}

ErrorDigestCounts == tool = "error" => CountsErrors(compressErrorLog(state))

\* A summary of a diff places each file: every file it lists is in exactly one of
\* added, deleted, renamed and modified, the one git said; its counts are of the
\* listed files, except for lines whose own text begins with "++"; a deleted or
\* renamed file is warned of; and files that are left out are said to be.
Places(d) ==
  LET files == ToSet(d.changed)
      Body(kind) == {j \in UNION {Stretch(DiffHeads, h) : h \in files} : input[j] = kind}
      Said(h, kind) == \E j \in Stretch(DiffHeads, h) : input[j] = kind
  IN /\ InOrder(d.changed) /\ files \subseteq DiffHeads
     /\ \A h \in files :
          /\ h \in d.added <=> Said(h, "new")
          /\ h \in d.deleted <=> Said(h, "deleted")
          /\ h \in d.renamed <=> input[h] = "moved"
          /\ h \in d.modified <=> h \notin d.added \cup d.deleted \cup d.renamed
     /\ d.insertions = Cardinality(Body("plus"))
     /\ d.deletions = Cardinality(Body("minus"))
     /\ d.breakages # {} <=> d.deleted \cup d.renamed # {}
     /\ d.symbols \subseteq UNION {Stretch(DiffHeads, h) : h \in files}
     /\ "truncated" \in d.uncertainty <=> DiffHeads # files

DiffSummaryPlaces == tool = "diff" => Places(summarizeGitDiff(state))

\* Cleaning loses nothing silently: every line is kept, counted as noise or
\* counted as repeated; every text is kept, at most three times; and the warnings
\* shown are the first of the warning lines that are kept and not marked.
Accounts(c) ==
  LET Kept(l) == {k \in DOMAIN c.kept : c.kept[k].line = l}
      Earlier(i) == {j \in OwnLines : j < i /\ input[j] = input[i]}
      warned == {i \in OwnLines : input[i].warns /\ Cardinality(Earlier(i)) < 2}
  IN /\ Len(c.kept) + c.noise + c.repeated = Len(input)
     /\ \A i \in OwnLines :
          /\ Kept(input[i]) # {}
          /\ input[i].text # "blank" => Cardinality(Kept(input[i])) <= 3
          /\ \A k \in Kept(input[i]) : c.kept[k].marked => \A j \in Kept(input[i]) : j <= k
     /\ InOrder(c.warnings) /\ ToSet(c.warnings) \subseteq warned
     /\ \A i \in warned \ ToSet(c.warnings) :
          Len(c.warnings) = MaxItems /\ \A w \in ToSet(c.warnings) : w < i

CleanContextAccounts == tool = "clean" => Accounts(state)

\* Every digest is true to its input, and says what it leaves out.
DigestsAreTrue ==
  /\ TestDigestKeepsFailures
  /\ ErrorDigestCounts
  /\ DiffSummaryPlaces
  /\ CleanContextAccounts
=============================================================================
