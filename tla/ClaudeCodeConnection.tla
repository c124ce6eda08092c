------------------------ MODULE ClaudeCodeConnection ------------------------
(***************************************************************************)
(* Wiring Claude Code to Tierkit's MCP server: the entry in .mcp.json or   *)
(* ~/.claude.json and the marked block in CLAUDE.md, which connect writes, *)
(* disconnect takes out, and the host-info route of a newly updated        *)
(* extension heals where an entry is already there.  Operations interleave *)
(* at their file accesses, the user edits CLAUDE.md, processes die.        *)
(***************************************************************************)
EXTENDS Naturals, Sequences, SequencesExt

CONSTANTS
  Missing,      \* no file
  Torn,         \* a JSON file cut off while it was written
  MaxOps,       \* bound: operations
  MaxCli,       \* bound: versions of the command an entry can name
  MaxUserEdits  \* bound: edits of CLAUDE.md by the user

VARIABLES
  ops,    \* the operations, numbered as they begin
  mcp,    \* scope -> the MCP configuration file
  md,     \* CLAUDE.md, as a sequence of pieces
  cli,    \* hostInfo: the version of the bundled command line, 1 if none
  had,    \* history: the scopes whose file had servers of the user's
  typed,  \* history: the user's own text
  cut,    \* history: the user took an end marker out
  asked,  \* history: the scopes a connect began for
  mixed   \* history: two operations overlapped, or one died

vars == <<ops, mcp, md, cli, had, typed, cut, asked, mixed>>

-----------------------------------------------------------------------------
Ops    == 1 .. MaxOps
Scopes == {"workspace", "global"}
Levels == {"none", "light", "full"}

\* Pieces of CLAUDE.md: the user's text, the markers, the instructions.
Text == {"text", "more"}
buildInstructionsBlock(level) == <<"BEGIN", level, "END">>

NoEntry == 0
File(servers, entry) == [servers |-> servers, entry |-> entry]
readJson(f) == IF f = Missing THEN File(FALSE, NoEntry) ELSE f

\* An operation: what was asked, how far it is, and what it holds to write.
Unborn == [kind |-> "none", scope |-> "workspace", level |-> "none", entry |-> NoEntry,
           st |-> "unborn", cfg |-> Missing, text |-> Missing]

Active(o) == ops[o].st \notin {"unborn", "done", "failed", "dead"}
Others(o) == \E p \in Ops \ {o} : Active(p)

Init ==
  /\ ops = [o \in Ops |-> Unborn]
  /\ had \in SUBSET Scopes
  /\ mcp = [s \in Scopes |-> IF s \in had THEN File(TRUE, NoEntry) ELSE Missing]
  /\ typed \in {<< >>, <<"text">>}
  /\ md = IF typed = << >> THEN Missing ELSE typed
  /\ cli = 1
  /\ cut = FALSE /\ mixed = FALSE
  /\ asked = {}

-----------------------------------------------------------------------------
Position(s, x, from) ==
  LET at == {i \in from .. Len(s) : s[i] = x}
  IN IF at = {} THEN 0 ELSE CHOOSE i \in at : \A j \in at : i <= j

\* The first block, markers included; a begin without an end is left alone.
HasBlock(s) == Position(s, "BEGIN", 1) # 0 /\ Position(s, "END", Position(s, "BEGIN", 1)) # 0

stripExistingBlock(s) ==
  IF HasBlock(s)
    THEN LET b == Position(s, "BEGIN", 1)
         IN SubSeq(s, 1, b - 1) \o SubSeq(s, Position(s, "END", b) + 1, Len(s))
    ELSE s

Pieces == IF md = Missing THEN << >> ELSE md

-----------------------------------------------------------------------------
(* The operations, one step per file access.                                *)

Go(o, st) == ops' = [ops EXCEPT ![o].st = st]

Begin(o, op) ==
  /\ ops[o].st = "unborn" /\ \A p \in Ops : p < o => ops[p].st # "unborn"
  /\ ops' = [ops EXCEPT ![o] = op]
  /\ mixed' = (mixed \/ Others(o))
  /\ UNCHANGED <<mcp, md, had, typed, cut>>

\* The entry names the bundled command the extension registered, or else the
\* global binary, by its path if it is found and by its name if not.
resolveBinaryPath == cli

connectClaudeCode(o, s, level) ==
  /\ Begin(o, [Unborn EXCEPT !.kind = "connect", !.scope = s, !.level = level,
                             !.entry = resolveBinaryPath, !.st = "readCfg"])
  /\ asked' = asked \cup {s}
  /\ UNCHANGED cli

disconnectClaudeCode(o, s) ==
  /\ Begin(o, [Unborn EXCEPT !.kind = "disconnect", !.scope = s, !.st = "readCfg"])
  /\ UNCHANGED <<cli, asked>>

\* POST /v1/claude-code/host-info of an extension that may have been updated:
\* both files are healed, the workspace's first, CLAUDE.md is not touched.
HostInfo(o, v) ==
  /\ v > 1 /\ v >= cli
  /\ Begin(o, [Unborn EXCEPT !.kind = "heal", !.entry = v, !.st = "readCfg"])
  /\ cli' = v
  /\ UNCHANGED asked

\* After a scope's entry: a heal goes on to the next scope, others to CLAUDE.md.
AfterEntry(o) ==
  IF ops[o].kind # "heal" THEN Go(o, IF ops[o].kind = "connect" /\ ops[o].level = "none"
                                       THEN "verify" ELSE "readMd")
  ELSE IF ops[o].scope = "workspace"
         THEN ops' = [ops EXCEPT ![o].scope = "global", ![o].st = "readCfg"]
         ELSE Go(o, "done")

\* Mutant: a file that does not parse is taken for one that is not there.
ReadCfg_TornIsMissing(o) ==
  /\ ops[o].st = "readCfg"
  /\ LET op == ops[o]
         f  == mcp[op.scope]
         c  == IF f = Torn THEN File(FALSE, NoEntry) ELSE readJson(f)
     IN IF c.entry = op.entry \/ (op.kind = "heal" /\ c.entry = NoEntry)
          THEN AfterEntry(o)
          ELSE ops' = [ops EXCEPT ![o].cfg = File(c.servers, op.entry), ![o].st = "openCfg"]
  /\ UNCHANGED <<mcp, md, cli, had, typed, cut, asked, mixed>>

\* A file that does not parse is an error: the request fails, a heal logs it.
ReadCfg(o) ==
  /\ ops[o].st = "readCfg"
  /\ LET op == ops[o]
         f  == mcp[op.scope]
     IN IF f = Torn THEN IF op.kind = "heal" THEN AfterEntry(o) ELSE Go(o, "failed")
        ELSE LET c == readJson(f)
             IN IF c.entry = op.entry \/ (op.kind = "heal" /\ c.entry = NoEntry)
                THEN AfterEntry(o)
                ELSE ops' = [ops EXCEPT ![o].cfg = File(c.servers, op.entry), ![o].st = "openCfg"]
  /\ UNCHANGED <<mcp, md, cli, had, typed, cut, asked, mixed>>

\* fs.writeFile: the file is emptied, then filled.
OpenCfg(o) ==
  /\ ops[o].st = "openCfg"
  /\ mcp' = [mcp EXCEPT ![ops[o].scope] = Torn]
  /\ Go(o, "fillCfg")
  /\ UNCHANGED <<md, cli, had, typed, cut, asked, mixed>>

FillCfg(o) ==
  /\ ops[o].st = "fillCfg"
  /\ mcp' = [mcp EXCEPT ![ops[o].scope] = ops[o].cfg]
  /\ AfterEntry(o)
  /\ UNCHANGED <<md, cli, had, typed, cut, asked, mixed>>

\* CLAUDE.md is read; an emptied one reads as empty. Connect puts its block at
\* the end, without the one that was there; disconnect only takes that out.
writeClaudeMd(o) ==
  /\ ops[o].st = "readMd"
  /\ IF ops[o].kind = "disconnect"
       THEN IF HasBlock(Pieces)
              THEN ops' = [ops EXCEPT ![o].text = stripExistingBlock(Pieces), ![o].st = "openMd"]
              ELSE Go(o, "done")
       ELSE ops' = [ops EXCEPT ![o].text = stripExistingBlock(Pieces)
                                             \o buildInstructionsBlock(ops[o].level),
                               ![o].st = "openMd"]
  /\ UNCHANGED <<mcp, md, cli, had, typed, cut, asked, mixed>>

\* A file with nothing left in it is deleted rather than written.
OpenMd(o) ==
  /\ ops[o].st = "openMd"
  /\ IF ops[o].text = << >>
       THEN md' = Missing /\ Go(o, "done")
       ELSE md' = << >> /\ Go(o, "fillMd")
  /\ UNCHANGED <<mcp, cli, had, typed, cut, asked, mixed>>

FillMd(o) ==
  /\ ops[o].st = "fillMd"
  /\ md' = ops[o].text
  /\ Go(o, IF ops[o].kind = "connect" THEN "verify" ELSE "done")
  /\ UNCHANGED <<mcp, cli, had, typed, cut, asked, mixed>>

\* The entry is read back and its command started; what they find is reported.
verifyConnect(o) ==
  /\ ops[o].st = "verify"
  /\ Go(o, "done")
  /\ UNCHANGED <<mcp, md, cli, had, typed, cut, asked, mixed>>

Crash(o) ==
  /\ Active(o)
  /\ Go(o, "dead")
  /\ mixed' = TRUE
  /\ UNCHANGED <<mcp, md, cli, had, typed, cut, asked>>

-----------------------------------------------------------------------------
(* The user's editor, between operations.                                   *)

Quiet == \A o \in Ops : ~Active(o)

UserWrites ==
  /\ Quiet
  /\ Len(typed) < MaxUserEdits
  /\ typed' = Append(typed, "more")
  /\ md' = Append(Pieces, "more")
  /\ UNCHANGED <<ops, mcp, cli, had, cut, asked, mixed>>

UserCutsEnd ==
  /\ Quiet /\ ~cut
  /\ Position(Pieces, "END", 1) # 0
  /\ cut' = TRUE
  /\ md' = RemoveAt(md, Position(md, "END", 1))
  /\ UNCHANGED <<ops, mcp, cli, had, typed, asked, mixed>>

AllDone == Quiet /\ UNCHANGED vars

Next ==
  \/ \E o \in Ops :
       \/ \E s \in Scopes, level \in Levels : connectClaudeCode(o, s, level)
       \/ \E s \in Scopes : disconnectClaudeCode(o, s)
       \/ \E v \in 1 .. MaxCli : HostInfo(o, v)
       \/ ReadCfg(o) \/ OpenCfg(o) \/ FillCfg(o)
       \/ writeClaudeMd(o) \/ OpenMd(o) \/ FillMd(o) \/ verifyConnect(o) \/ Crash(o)
  \/ UserWrites \/ UserCutsEnd \/ AllDone

Spec == Init /\ [][Next]_vars

-----------------------------------------------------------------------------
\* claudeCodeStatus.
connected(s) == mcp[s] \notin {Missing, Torn} /\ mcp[s].entry # NoEntry

\* The user's text is whole, and block, or nothing, stands at one place in it.
Holds(block) ==
  \E i \in 0 .. Len(typed) :
    Pieces = SubSeq(typed, 1, i) \o block \o SubSeq(typed, i + 1, Len(typed))

Blocks == {buildInstructionsBlock(level) : level \in Levels \ {"none"}}

\* What connect and disconnect leave alone, and what they leave behind ("safe
\* merge ... we never touch the user's own MCP servers or CLAUDE.md content",
\* connectClaudeCode's header).  A file that can be read holds the user's
\* servers as they were, whatever overlapped or died; nothing is connected
\* that no connect was asked for, so a heal opts nobody in; and as long as no
\* two operations overlapped, none died and the user took no marker out, the
\* user's text is whole, with one unbroken block at most, and the last
\* operation, once it is done, has had its effect on its entry and on the block.
ConnectionAsAsked ==
  /\ \A s \in Scopes :
       /\ mcp[s] \notin {Missing, Torn} => mcp[s].servers = (s \in had)
       /\ connected(s) => s \in asked
  /\ Quiet /\ ~mixed /\ ~cut =>
       /\ \E block \in Blocks \cup {<< >>} : Holds(block)
       /\ \A o \in Ops : ops[o].st = "done" /\ (\A p \in Ops : p > o => ops[p].st = "unborn") =>
            CASE ops[o].kind = "connect" ->
                   /\ mcp[ops[o].scope].entry = ops[o].entry
                   /\ ops[o].level # "none" => Holds(buildInstructionsBlock(ops[o].level))
              [] ops[o].kind = "disconnect" -> ~connected(ops[o].scope) /\ Holds(<< >>)
              [] OTHER -> \A s \in Scopes : connected(s) => mcp[s].entry = ops[o].entry
=============================================================================
