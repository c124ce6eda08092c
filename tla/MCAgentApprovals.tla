-------------------------- MODULE MCAgentApprovals --------------------------
(* Agent runs and the processes that tools and CLI calls start, in one run:  *)
(* AgentApprovals and ChildCalls side by side; part says which of them a     *)
(* behaviour is about, and the other stays as it begins.                     *)
EXTENDS AgentApprovals, TLC

Interactive == [interactive |-> TRUE, edit |-> TRUE, singleShot |-> FALSE]
Automatic   == [interactive |-> FALSE, edit |-> FALSE, singleShot |-> FALSE]
OneShot     == [interactive |-> TRUE, edit |-> FALSE, singleShot |-> TRUE]

ThreeModes == {Interactive, Automatic, OneShot}

-----------------------------------------------------------------------------
VARIABLES part, kind, child, wrote, pipe, call, reply, logged

childVars == <<kind, child, wrote, pipe, call, reply, logged>>

Child == INSTANCE ChildCalls
           WITH Kinds <- {"probe", "chat", "stream", "execute", "run", "claude"},
                Chunks <- {<<"text", "nl">>, <<"wide", "nl">>, <<"text">>, <<"nl", "result">>},
                MaxOutput <- 4, MaxStdoutBytes <- 4

AgentInit ==
  /\ part \in {"approvals", "child"}
  /\ Init
  /\ IF part = "child" THEN Child!Init ELSE Child!Idle

ApprovalStep == part = "approvals" /\ Next /\ UNCHANGED <<part, childVars>>
ChildStep    == part = "child" /\ Child!Next /\ UNCHANGED <<part, vars>>

AgentSpec ==
  /\ AgentInit
  /\ [][ApprovalStep \/ ChildStep]_<<part, vars, childVars>>
  /\ Fairness
  /\ Child!Fairness

\* What a call says its child wrote is what it wrote, and a streamed reply and
\* its record are closed once (ChildCalls).
ChildIsReported == Child!SuccessIsComplete /\ Child!RepliesAreClosed

\* Calls with a timer end (ChildCalls).
TimedCallsEnd == Child!TimedCallsEnd
=============================================================================
