----------------------------- MODULE Dashboard -----------------------------
(***************************************************************************)
(* The settings page of the web UI: its cards, what each does when the     *)
(* daemon does not answer, who asks for it again, the buttons that change  *)
(* something on the daemon and then refresh cards, the health poll and the *)
(* refresh of everything when the daemon is back.                          *)
(*                                                                         *)
(* The model follows one card at a time, chosen at the start, together     *)
(* with the health poll and one button.  What a card shows is the number   *)
(* of changes its data had seen when the daemon read it.                   *)
(***************************************************************************)
EXTENDS Naturals

CONSTANTS
  MaxEdits,    \* bound: changes to what the card shows
  MaxOutages,  \* bound: times the daemon goes away
  MaxPending   \* bound: requests of the card under way

VARIABLES
  card,        \* the card followed
  daemon,      \* "up" or "down"
  outages,     \* how often it went down
  store,       \* changes made so far
  health,      \* the health request under way
  wasOffline,  \* the page's note that the last health request failed
  asks,        \* the card's requests under way
  shown,       \* what the card shows
  stuck,       \* an empty environment is cached
  stream,      \* the savings stream
  op,          \* the button whose handler runs
  unseen       \* history: the card was hurt and no health request failed since

vars == <<card, daemon, outages, store, health, wasOffline, asks, shown, stuck,
          stream, op, unseen>>

Slots == 1 .. MaxPending

-----------------------------------------------------------------------------
(* The cards.  fails: what a request that fails leaves: "error" in place of *)
(* the data, "partial" data as if there were none, or the card "kept" as it *)
(* was.  asked: by whom: when the page "open"s, by "all" (refreshAll), by a *)
(* "poll" every five seconds, or "push"ed by the savings stream.            *)

Card(fails, asked) == [fails |-> fails, asked |-> asked]

refreshFreedom             == Card({"error"}, {"all"})
refreshTools               == Card({"error"}, {"all"})
refreshPlugins             == Card({"error"}, {"all"})
refreshActivity            == Card({"error"}, {"all", "poll"})
refreshUsage               == Card({"error"}, {"all", "poll"})
refreshSavings             == Card({"kept"}, {"all", "push"})
refreshModels              == Card({"error", "partial"}, {"all"})
refreshAutoCeiling         == Card({"kept"}, {"all"})
loadAgentModesAndCommands  == Card({"kept"}, {"all"})
refreshSettings            == Card({"error"}, {"all"})
refreshTkRefineProfiles    == Card({"partial"}, {"all"})
refreshTkCacheStats        == Card({"error"}, {"all"})
refreshTkClaudeStatus      == Card({"error"}, {"all"})
refreshSecretsCard         == Card({"partial"}, {"all"})
renderOnboardingCard       == Card({"partial"}, {"all"})
renderMcpPatches           == Card({"error"}, {"open", "poll"})
refreshGatewayToggle       == Card({"error"}, {"open"})
refreshGatewayDiagnostics  == Card({"error"}, {"open"})
c122RefreshRecent          == Card({"kept"}, {"open"})

CardOf ==
  [freedom |-> refreshFreedom, tools |-> refreshTools, plugins |-> refreshPlugins,
   activity |-> refreshActivity, usage |-> refreshUsage, savings |-> refreshSavings,
   models |-> refreshModels, ceiling |-> refreshAutoCeiling,
   modes |-> loadAgentModesAndCommands, settings |-> refreshSettings,
   refine |-> refreshTkRefineProfiles, cache |-> refreshTkCacheStats,
   claude |-> refreshTkClaudeStatus, secrets |-> refreshSecretsCard,
   onboarding |-> renderOnboardingCard, patches |-> renderMcpPatches,
   gateway |-> refreshGatewayToggle, diagnostics |-> refreshGatewayDiagnostics,
   recent |-> c122RefreshRecent]

-----------------------------------------------------------------------------
(* The buttons: how many posts one makes, and the cards it then refreshes.  *)
(* anyway: they are refreshed even when a post after the first is refused.  *)

Op(posts, cards) == [posts |-> posts, cards |-> cards, anyway |-> FALSE]

\* refreshModels goes on to the two cards hooked into it.
ModelCards == {"models", "secrets", "onboarding"}

connect           == Op(1, {"tools"})
installAndEnable  == [Op(2, {"plugins", "tools"}) EXCEPT !.anyway = TRUE]
togglePlugin      == Op(1, {"plugins", "tools"})
removePlugin      == Op(1, {"plugins", "tools"})
pluginNew         == Op(1, {"plugins"})
installDraft      == Op(1, {"plugins"})
sync              == Op(1, {"tools"})
setKeyDialog      == Op(1, ModelCards)
preset            == Op(1, ModelCards \cup {"ceiling"})
deleteProfile     == Op(1, ModelCards)
toggleEnabled     == Op(1, ModelCards)
discover          == Op(1, ModelCards)
profileAdd        == Op(2, ModelCards)
profileEditor     == Op(1, ModelCards)
cacheClear        == Op(1, {"cache"})
doConnect         == Op(1, {"claude"})
doDisconnect      == Op(2, {"claude"})
secretSave        == Op(1, {"secrets", "onboarding"})
secretRemove      == Op(1, {"secrets", "onboarding"})
enableClaude      == Op(1, {"onboarding"})
decidePatch       == Op(1, {"patches"})

OpOf ==
  [connect |-> connect, install |-> installAndEnable, toggle |-> togglePlugin,
   remove |-> removePlugin, new |-> pluginNew, draft |-> installDraft, sync |-> sync,
   setKey |-> setKeyDialog, preset |-> preset, delete |-> deleteProfile,
   enabled |-> toggleEnabled, discover |-> discover, add |-> profileAdd,
   edit |-> profileEditor, clear |-> cacheClear, doConnect |-> doConnect,
   doDisconnect |-> doDisconnect, secret |-> secretSave, unset |-> secretRemove,
   claude |-> enableClaude, patch |-> decidePatch]

-----------------------------------------------------------------------------
(* Requests.                                                                *)

NoAsk == [st |-> "none", v |-> 0, own |-> FALSE]
NoOp  == [name |-> "none", phase |-> "none", left |-> 0, at |-> 0]

Free == {s \in Slots : asks[s].st = "none"}

\* A request to a daemon that is away fails.
Sent == IF daemon = "up" THEN "sent" ELSE "cut"

Asked(own) ==
  LET s == CHOOSE x \in Free : \A y \in Free : x <= y
  IN [asks EXCEPT ![s] = [st |-> Sent, v |-> 0, own |-> own]]

\* refreshAll, as far as the card goes.
AskAll ==
  IF "all" \in CardOf[card].asked THEN asks' = Asked(FALSE) ELSE UNCHANGED asks

\* A broken connection is noticed at once: before an answer that comes later.
NothingCut == health # "cut" /\ \A s \in Slots : asks[s].st # "cut"

Init ==
  /\ card \in DOMAIN CardOf
  /\ daemon \in {"up", "down"}
  /\ outages = 0
  /\ store = 0
  /\ health = Sent
  /\ wasOffline = FALSE
  /\ asks = [s \in Slots |-> IF s = 1 THEN [NoAsk EXCEPT !.st = Sent] ELSE NoAsk]
  /\ shown = [kind |-> "blank", v |-> 0]
  /\ stuck = FALSE
  /\ stream = "off"
  /\ op = NoOp
  /\ unseen = FALSE

-----------------------------------------------------------------------------
(* The page.                                                                *)

\* Every five seconds.
PollHealth ==
  /\ health = "none"
  /\ health' = Sent
  /\ UNCHANGED <<card, daemon, outages, store, wasOffline, asks, shown, stuck, stream, op, unseen>>

PollCard ==
  /\ "poll" \in CardOf[card].asked
  /\ Free # {}
  /\ asks' = Asked(FALSE)
  /\ UNCHANGED <<card, daemon, outages, store, health, wasOffline, shown, stuck, stream, op, unseen>>

\* Mutant: the daemon's return is shown in the pill and nowhere else.
refreshHealth_PillOnly ==
  /\ health = "sent"
  /\ NothingCut
  /\ wasOffline' = FALSE
  /\ health' = "none"
  /\ UNCHANGED <<card, daemon, outages, store, asks, shown, stuck, stream, op, unseen>>

\* The daemon answers; if it did not the last time, everything is refreshed.
refreshHealth ==
  /\ health = "sent"
  /\ NothingCut
  /\ Free # {}
  /\ wasOffline' = FALSE
  /\ IF wasOffline
       THEN health' = Sent /\ AskAll
       ELSE health' = "none" /\ UNCHANGED asks
  /\ UNCHANGED <<card, daemon, outages, store, shown, stuck, stream, op, unseen>>

HealthFails ==
  /\ health = "cut"
  /\ health' = "none"
  /\ wasOffline' = TRUE
  /\ unseen' = FALSE
  /\ UNCHANGED <<card, daemon, outages, store, asks, shown, stuck, stream, op>>

\* The button at the top.
refreshAll ==
  /\ health = "none"
  /\ Free # {}
  /\ health' = Sent
  /\ AskAll
  /\ UNCHANGED <<card, daemon, outages, store, wasOffline, shown, stuck, stream, op, unseen>>

\* The handler of a button ends with the refresh it awaits.
Over(s) == op' = IF asks[s].own THEN NoOp ELSE op

\* The environment once found empty is not asked for again (getEnvData).
Renders(s) ==
  /\ asks[s].st = "read"
  /\ NothingCut
  /\ asks' = [asks EXCEPT ![s] = NoAsk]
  /\ shown' = IF stuck THEN [kind |-> "partial", v |-> asks[s].v]
                       ELSE [kind |-> "ok", v |-> asks[s].v]
  /\ unseen' = FALSE
  /\ Over(s)
  /\ UNCHANGED <<card, daemon, outages, store, health, wasOffline, stuck, stream>>

Fails(s) ==
  /\ asks[s].st = "cut"
  /\ asks' = [asks EXCEPT ![s] = NoAsk]
  /\ \E how \in CardOf[card].fails :
       shown' = IF how = "kept" THEN shown ELSE [kind |-> how, v |-> 0]
  /\ stuck' \in IF card = "onboarding" THEN {stuck, TRUE} ELSE {stuck}
  /\ unseen' = (unseen \/ ~ wasOffline)
  /\ Over(s)
  /\ UNCHANGED <<card, daemon, outages, store, health, wasOffline, stream>>

\* subscribeSavings: connect, again and again; the first message is a snapshot.
Subscribe ==
  /\ "push" \in CardOf[card].asked
  /\ stream = "off"
  /\ daemon = "up"
  /\ stream' = "open"
  /\ shown' = [kind |-> "ok", v |-> store]
  /\ unseen' = FALSE
  /\ UNCHANGED <<card, daemon, outages, store, health, wasOffline, asks, stuck, op>>

Snapshot ==
  /\ stream = "open"
  /\ shown # [kind |-> "ok", v |-> store]
  /\ shown' = [kind |-> "ok", v |-> store]
  /\ unseen' = FALSE
  /\ UNCHANGED <<card, daemon, outages, store, health, wasOffline, asks, stuck, stream, op>>

-----------------------------------------------------------------------------
(* A button.                                                                *)

Click(name) ==
  /\ op = NoOp
  /\ card \in OpOf[name].cards
  /\ store + OpOf[name].posts <= MaxEdits
  /\ op' = [name |-> name, phase |-> Sent, left |-> OpOf[name].posts, at |-> store]
  /\ UNCHANGED <<card, daemon, outages, store, health, wasOffline, asks, shown, stuck,
                 stream, unseen>>

\* Mutant: the card is asked for while the last post is still under way.
PostDone_TooEarly ==
  /\ op.phase = "sent"
  /\ store < MaxEdits
  /\ store' = store + 1
  /\ op' = [op EXCEPT !.left = op.left - 1, !.at = store',
                      !.phase = IF op.left = 1 THEN "refresh" ELSE "sent"]
  /\ IF op.left = 1
       THEN /\ Free # {}
            /\ asks' = [Asked(TRUE) EXCEPT ![CHOOSE x \in Free : \A y \in Free : x <= y] =
                          [st |-> "read", v |-> store, own |-> TRUE]]
            /\ stuck' = FALSE
       ELSE UNCHANGED <<asks, stuck>>
  /\ UNCHANGED <<card, daemon, outages, health, wasOffline, shown, stream, unseen>>

\* A post is carried out; after the last the cards are refreshed.
PostDone ==
  /\ op.phase = "sent"
  /\ store < MaxEdits
  /\ store' = store + 1
  /\ op' = [op EXCEPT !.left = op.left - 1, !.at = store',
                      !.phase = IF op.left = 1 THEN "refresh" ELSE "sent"]
  /\ IF op.left = 1
       THEN /\ Free # {}
            /\ asks' = Asked(TRUE)
            /\ stuck' = (stuck /\ op.name \notin {"secret", "unset"})
       ELSE UNCHANGED <<asks, stuck>>
  /\ UNCHANGED <<card, daemon, outages, health, wasOffline, shown, stream, unseen>>

\* The daemon refuses one: a toast, and nothing else, although an earlier one
\* may have been carried out.
PostRefused ==
  /\ op.phase = "sent"
  /\ IF OpOf[op.name].anyway /\ op.left < OpOf[op.name].posts
       THEN /\ Free # {}
            /\ asks' = Asked(TRUE)
            /\ op' = [op EXCEPT !.phase = "refresh"]
       ELSE op' = NoOp /\ UNCHANGED asks
  /\ UNCHANGED <<card, daemon, outages, store, health, wasOffline, shown, stuck, stream, unseen>>

\* It fails: the handler is left by an exception.
PostFails ==
  /\ op.phase = "cut"
  /\ op' = NoOp
  /\ UNCHANGED <<card, daemon, outages, store, health, wasOffline, asks, shown, stuck,
                 stream, unseen>>

-----------------------------------------------------------------------------
(* The daemon.                                                              *)

Reads(s) ==
  /\ asks[s].st = "sent"
  /\ asks' = [asks EXCEPT ![s].st = "read", ![s].v = store]
  /\ UNCHANGED <<card, daemon, outages, store, health, wasOffline, shown, stuck, stream,
                 op, unseen>>

\* Somebody else changes what the card shows.
Edit ==
  /\ store < MaxEdits
  /\ daemon = "up"
  /\ op = NoOp
  /\ store' = store + 1
  /\ UNCHANGED <<card, daemon, outages, health, wasOffline, asks, shown, stuck, stream,
                 op, unseen>>

GoDown ==
  /\ daemon = "up"
  /\ outages < MaxOutages
  /\ daemon' = "down"
  /\ outages' = outages + 1
  /\ health' = IF health = "sent" THEN "cut" ELSE health
  /\ asks' = [s \in Slots |-> IF asks[s].st = "sent" THEN [asks[s] EXCEPT !.st = "cut"]
                                                     ELSE asks[s]]
  /\ op' = IF op.phase = "sent" THEN [op EXCEPT !.phase = "cut"] ELSE op
  /\ stream' = "off"
  /\ UNCHANGED <<card, store, wasOffline, shown, stuck, unseen>>

GoUp ==
  /\ daemon = "down"
  /\ daemon' = "up"
  /\ UNCHANGED <<card, outages, store, health, wasOffline, asks, shown, stuck, stream, op,
                 unseen>>

Next ==
  \/ PollHealth \/ PollCard \/ refreshHealth \/ HealthFails \/ refreshAll
  \/ \E s \in Slots : Renders(s) \/ Fails(s) \/ Reads(s)
  \/ Subscribe \/ Snapshot
  \/ \E name \in DOMAIN OpOf : Click(name)
  \/ PostDone \/ PostRefused \/ PostFails
  \/ Edit \/ GoDown \/ GoUp

\* Timers fire, requests end one way or the other, the stream is reopened.
Fairness ==
  /\ WF_vars(PollHealth)
  /\ WF_vars(PollCard)
  /\ WF_vars(refreshHealth)
  /\ WF_vars(HealthFails)
  /\ \A s \in Slots : WF_vars(Renders(s) \/ Fails(s) \/ Reads(s))
  /\ WF_vars(Subscribe \/ Snapshot)
  /\ WF_vars(PostDone \/ PostRefused \/ PostFails)

Spec == Init /\ [][Next]_vars /\ Fairness

-----------------------------------------------------------------------------
\* The card lacks its data although somebody would ask for it again.
Hurt ==
  /\ shown.kind # "ok"
  /\ CardOf[card].asked # {"open"}
  /\ ~ stuck

\* Once the daemon stays up, every card that is asked for more than once has
\* its data, without the user doing anything, unless the outage that hurt it
\* fell between two health requests (refreshHealth, the offline-online edge).
SelfRecovers == <>[](daemon = "up") => <>[](Hurt => unseen)

\* When a button's handler has ended with the refresh it awaits, the card
\* shows the change the button made, a later one, or that there was an error,
\* and not what it showed before (the buttons' handlers, jpost then refresh).
EffectIsShown ==
  [][op.phase = "refresh" /\ op' = NoOp
       => \/ shown'.kind = "ok" => shown'.v >= op.at
          \/ shown' = shown /\ "kept" \in CardOf[card].fails]_vars
=============================================================================
