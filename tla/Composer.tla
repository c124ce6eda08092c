------------------------------ MODULE Composer ------------------------------
(***************************************************************************)
(* The thread of the web UI, which two conversations share: the run of the *)
(* Tierkit agent (Send) and the chat turns of the claude CLI (Enter), with *)
(* the Stop buttons, the approval buttons in the thread, the attached      *)
(* images, the conversations that are imported, and the list of chat       *)
(* sessions.                                                               *)
(***************************************************************************)
EXTENDS Naturals, FiniteSets

CONSTANTS
  MAX_ATTACHMENTS,
  MaxTurns,     \* bound: chat turns
  MaxMessages,  \* bound: chat turns and agent runs
  MaxFiles      \* bound: images that are read or attached

VARIABLES
  run,          \* the agent run: state, and what it waits for
  runs,         \* runs so far
  suppress,     \* suppressNextTaskStart
  bubbles,      \* history: how often the task of the run, and the imported one, is shown
  remembered,   \* sessionApprovedTools holds the tool
  card,         \* the tool's card: "none", "plain" or with "buttons"
  importing,    \* a conversation file is being read
  images,       \* images being read, attached; the most that were read at a time
  turn,         \* the chat turns
  ctrl,         \* tkChatAbortCtrl: whose controller it is, 0 for none
  session,      \* tkChatSessionId, 0 for none
  view,         \* history: the session whose messages are on screen
  loading,      \* sessions asked for
  excused       \* history: what went another way; see the properties

vars == <<run, runs, suppress, bubbles, remembered, card, importing, images, turn, ctrl,
          session, view, loading, excused>>

Turns    == 1 .. MaxTurns
\* Turn t that continues no session is given session t.
ChatSessions == Turns
Cleared  == MaxTurns + 1

Agent == <<run, runs, suppress, bubbles, remembered, card, importing, images>>
Chat  == <<turn, ctrl, session, view, loading>>

Idle == [st |-> "idle", waits |-> "no"]

Init ==
  /\ run = Idle
  /\ runs = 0
  /\ suppress = FALSE
  /\ bubbles = [task |-> 0, imported |-> 0]
  /\ remembered = FALSE
  /\ card = "none"
  /\ importing = FALSE
  /\ images = [reading |-> 0, pending |-> 0, most |-> 1]
  /\ turn = [t \in Turns |-> [st |-> "none", session |-> 0, left |-> FALSE]]
  /\ ctrl = 0
  /\ session = 0
  /\ view = 0
  /\ loading = {}
  /\ excused = {}

CanSend == runs + Cardinality({t \in Turns : turn[t].st # "none"}) < MaxMessages

Excuse(why, case) == excused' = IF case THEN excused \cup {why} ELSE excused

-----------------------------------------------------------------------------
(* Images.                                                                  *)

\* Each file is checked against the limit, then read.
attachFile ==
  /\ images.reading + images.pending < MaxFiles
  /\ images' = IF images.pending >= MAX_ATTACHMENTS
                 THEN images
                 ELSE [images EXCEPT !.reading = images.reading + 1,
                                     !.most = IF images.reading + 1 > images.most
                                                THEN images.reading + 1 ELSE images.most]
  /\ UNCHANGED <<run, runs, suppress, bubbles, remembered, card, importing, Chat, excused>>

FileRead ==
  /\ images.reading > 0
  /\ images' = [images EXCEPT !.reading = images.reading - 1, !.pending = images.pending + 1]
  /\ UNCHANGED <<run, runs, suppress, bubbles, remembered, card, importing, Chat, excused>>

removeAttachment ==
  /\ images.pending > 0
  /\ images' = [images EXCEPT !.pending = images.pending - 1]
  /\ UNCHANGED <<run, runs, suppress, bubbles, remembered, card, importing, Chat, excused>>

-----------------------------------------------------------------------------
(* The agent run.                                                           *)

\* Mutant: the server's echo of the task is shown as well.
submitAgentTask_Twice ==
  /\ run.st = "idle"
  /\ CanSend
  /\ runs' = runs + 1
  /\ run' = [st |-> "open", waits |-> "no"]
  /\ card' = "none"
  /\ bubbles' = [bubbles EXCEPT !.task = 1]
  /\ suppress' = FALSE
  /\ images' = [images EXCEPT !.pending = 0]
  /\ UNCHANGED <<remembered, importing, Chat, excused>>

\* The bubble is drawn here; the images go with the task.
submitAgentTask ==
  /\ run.st = "idle"
  /\ CanSend
  /\ runs' = runs + 1
  /\ run' = [st |-> "open", waits |-> "no"]
  /\ card' = "none"
  /\ bubbles' = [bubbles EXCEPT !.task = 1]
  /\ suppress' = TRUE
  /\ images' = [images EXCEPT !.pending = 0]
  /\ UNCHANGED <<remembered, importing, Chat, excused>>

\* The server's echo.
TaskStart ==
  /\ run.st = "open"
  /\ run' = [run EXCEPT !.st = "started"]
  /\ suppress' = FALSE
  /\ bubbles' = [bubbles EXCEPT !.task = IF suppress THEN bubbles.task ELSE bubbles.task + 1]
  /\ UNCHANGED <<runs, remembered, card, importing, images, Chat, excused>>

ToolCall ==
  /\ run.st = "started"
  /\ run.waits = "no"
  /\ run' = [run EXCEPT !.waits = "soon"]
  /\ card' = "plain"
  /\ UNCHANGED <<runs, suppress, bubbles, remembered, importing, images, Chat, excused>>

\* A remembered tool is approved at once; otherwise the card, if it is still
\* known, gets its buttons.
ApprovalPending ==
  /\ run.waits = "soon"
  /\ IF remembered
       THEN run' = [run EXCEPT !.waits = "approved"] /\ UNCHANGED card
       ELSE run' = [run EXCEPT !.waits = "user"]
            /\ card' = IF card = "none" THEN "none" ELSE "buttons"
  /\ UNCHANGED <<runs, suppress, bubbles, remembered, importing, images, Chat, excused>>

Approve(remember) ==
  /\ card = "buttons"
  /\ run.waits = "user"
  /\ run' = [run EXCEPT !.waits = "approved"]
  /\ remembered' = (remembered \/ remember)
  /\ UNCHANGED <<runs, suppress, bubbles, card, importing, images, Chat, excused>>

ApprovalResolved ==
  /\ run.waits = "approved"
  /\ run' = [run EXCEPT !.waits = "no"]
  /\ card' = IF card = "none" THEN "none" ELSE "plain"
  /\ UNCHANGED <<runs, suppress, bubbles, remembered, importing, images, Chat, excused>>

\* Done, failed or stopped; perhaps before the echo of the task.
RunEnds ==
  /\ run.st # "idle"
  /\ run' = Idle
  /\ Excuse("echo", suppress)
  /\ UNCHANGED <<runs, suppress, bubbles, remembered, card, importing, images, Chat>>

\* resetAgentSession; view is what the chat would say of the same thread.
Reset ==
  /\ remembered' = FALSE
  /\ card' = "none"
  /\ images' = [images EXCEPT !.pending = 0]
  /\ view' = Cleared

clearAgent ==
  /\ run.st = "idle"
  /\ Reset
  /\ bubbles' = [task |-> 0, imported |-> 0]
  /\ UNCHANGED <<run, runs, suppress, importing, turn, ctrl, session, loading, excused>>

\* No run when the button is pressed ...
importAgent ==
  /\ run.st = "idle"
  /\ ~ importing
  /\ importing' = TRUE
  /\ UNCHANGED <<run, runs, suppress, bubbles, remembered, card, images, Chat, excused>>

\* ... but perhaps one when the file has been read.
Imported ==
  /\ importing
  /\ importing' = FALSE
  /\ Reset
  /\ bubbles' = [task |-> 0, imported |-> IF suppress THEN 0 ELSE 1]
  /\ suppress' = FALSE
  /\ Excuse("import", run.st # "idle")
  /\ UNCHANGED <<run, runs, turn, ctrl, session, loading>>

-----------------------------------------------------------------------------
(* The chat turns.                                                          *)

\* Mutant: the turn before goes on.
streamChat_Beside(t) ==
  /\ turn[t].st = "none" /\ CanSend
  /\ \A u \in Turns : u < t => turn[u].st # "none"
  /\ turn' = [turn EXCEPT ![t] = [st |-> "streaming", session |-> session, left |-> FALSE]]
  /\ ctrl' = t
  /\ UNCHANGED <<Agent, session, view, loading, excused>>

\* A turn before it that still streams is aborted.
streamChat(t) ==
  /\ turn[t].st = "none" /\ CanSend
  /\ \A u \in Turns : u < t => turn[u].st # "none"
  /\ turn' = [u \in Turns |->
                CASE u = t    -> [st |-> "streaming", session |-> session, left |-> FALSE]
                  [] u = ctrl -> [turn[u] EXCEPT !.st = "aborted"]
                  [] OTHER    -> turn[u]]
  /\ ctrl' = t
  /\ UNCHANGED <<Agent, session, view, loading, excused>>

Live(t) == turn[t].st \in {"streaming", "aborted"}
SessionOf(t) == IF turn[t].session = 0 THEN t ELSE turn[t].session

\* The CLI names the session, at the start and with the result; what was sent
\* before an abort is still handled.
SessionEvent(t) ==
  /\ Live(t)
  /\ ~ turn[t].left
  /\ session' = SessionOf(t)
  /\ view' = IF view = Cleared THEN Cleared ELSE SessionOf(t)
  /\ turn' = [turn EXCEPT ![t].session = SessionOf(t)]
  /\ UNCHANGED <<Agent, ctrl, loading, excused>>

\* The same, of a turn whose thread has been left: the screen does not change.
LateSessionEvent(t) ==
  /\ Live(t)
  /\ turn[t].left
  /\ session' = SessionOf(t)
  /\ turn' = [turn EXCEPT ![t].session = SessionOf(t)]
  /\ Excuse("left", TRUE)
  /\ UNCHANGED <<Agent, ctrl, view, loading>>

\* The finally block: the controller is forgotten, whosever it is.
TurnEnds(t) ==
  /\ Live(t)
  /\ turn' = [turn EXCEPT ![t].st = "over"]
  /\ ctrl' = 0
  /\ Excuse("overtaken", \E u \in Turns \ {t} : turn[u].st = "streaming")
  /\ UNCHANGED <<Agent, session, view, loading>>

stopChat ==
  /\ ctrl # 0
  /\ turn' = [turn EXCEPT ![ctrl].st = "aborted"]
  /\ UNCHANGED <<Agent, ctrl, session, view, loading, excused>>

-----------------------------------------------------------------------------
(* The sessions.  Each of these empties the thread, the agent's card too.   *)

Leave == Excuse("wiped", run.waits # "no")

\* History: the turns under way are of a thread that is no longer on screen.
LeaveTurns == turn' = [t \in Turns |-> [turn[t] EXCEPT !.left = Live(t)]]

clearChatThread ==
  /\ view' = Cleared
  /\ card' = "none"
  /\ bubbles' = [task |-> 0, imported |-> 0]
  /\ Leave
  /\ UNCHANGED <<run, runs, suppress, remembered, importing, images, turn, ctrl, session, loading>>

newChatSession ==
  /\ session' = 0
  /\ view' = 0
  /\ card' = "none"
  /\ bubbles' = [task |-> 0, imported |-> 0]
  /\ LeaveTurns
  /\ Leave
  /\ UNCHANGED <<run, runs, suppress, remembered, importing, images, ctrl, loading>>

\* Mutant: the session is the current one before its messages are there.
openSession_AtOnce(s) ==
  /\ s \notin loading
  /\ \E t \in Turns : turn[t].session = s
  /\ loading' = loading \cup {s}
  /\ session' = s
  /\ UNCHANGED <<Agent, turn, ctrl, view, excused>>

\* A row of the list is clicked.
openSession(s) ==
  /\ s \notin loading
  /\ \E t \in Turns : turn[t].session = s
  /\ loading' = loading \cup {s}
  /\ UNCHANGED <<Agent, turn, ctrl, session, view, excused>>

loadChatSessionMessages(s) ==
  /\ s \in loading
  /\ loading' = loading \ {s}
  /\ session' = s
  /\ view' = s
  /\ card' = "none"
  /\ bubbles' = [task |-> 0, imported |-> 0]
  /\ LeaveTurns
  /\ Leave
  /\ UNCHANGED <<run, runs, suppress, remembered, importing, images, ctrl>>

\* It is gone: a toast.
SessionVanished(s) ==
  /\ s \in loading
  /\ loading' = loading \ {s}
  /\ UNCHANGED <<Agent, turn, ctrl, session, view, excused>>

\* Nothing is claimed of what follows an excuse, so no run goes on from one.
\* A thread that went another way is not followed further.
Settled == excused # {} /\ UNCHANGED vars

Next ==
  \/ /\ excused = {}
     /\ \/ attachFile \/ FileRead \/ removeAttachment
        \/ submitAgentTask \/ TaskStart \/ ToolCall \/ ApprovalPending \/ ApprovalResolved
        \/ \E remember \in BOOLEAN : Approve(remember)
        \/ RunEnds \/ clearAgent \/ importAgent \/ Imported
        \/ \E t \in Turns : \/ streamChat(t) \/ TurnEnds(t)
                            \/ SessionEvent(t) \/ LateSessionEvent(t)
        \/ stopChat
        \/ clearChatThread \/ newChatSession
        \/ \E s \in ChatSessions : \/ openSession(s) \/ loadChatSessionMessages(s)
                               \/ SessionVanished(s)
  \/ Settled

Spec == Init /\ [][Next]_vars

-----------------------------------------------------------------------------
\* A chat turn that streams is the one Stop and the next message would abort,
\* unless it was started over another that ended after that (streamChat).
StopStops ==
  "overtaken" \notin excused =>
    \A t \in Turns : turn[t].st = "streaming" => ctrl = t

\* The next message continues the session whose messages are on screen, also
\* when the session asked for is gone or answers after another one; unless a
\* turn of a thread that was left names its session after that (loadChatSessionMessages).
ThreadIsSession ==
  "left" \notin excused => view \in {session, Cleared}

\* A task, typed or imported, is drawn once; an approval the run waits for has
\* its buttons on screen; and no more images are attached than the limit and
\* those read at the same time as the last.  Unless a run ended before its
\* echo, an import overtook a run, or the chat emptied the thread
\* (renderAgentEvent, submitAgentTask, attachFile).
AgentThreadIsTrue ==
  /\ excused \cap {"echo", "import"} = {} =>
       /\ bubbles.task <= 1
       /\ bubbles.imported <= 1
  /\ excused \cap {"import", "wiped"} = {} =>
       (run.waits = "user" => card = "buttons")
  /\ images.pending + 1 <= MAX_ATTACHMENTS + images.most
=============================================================================
