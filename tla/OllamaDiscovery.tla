--------------------------- MODULE OllamaDiscovery ---------------------------
(***************************************************************************)
(* discoverOllamaProfiles: the profiles of the models an Ollama has        *)
(* installed, found by probing several addresses at once, kept for a       *)
(* while, with one probe for all who ask at the same time; and what the    *)
(* name of a model is taken to say about its use.                          *)
(***************************************************************************)
EXTENDS Naturals

CONSTANTS
  Hosts,        \* the addresses that are probed
  Installs,     \* the sets of models a host may have, by what their names say
  ProbeTime,    \* the longest a probe takes to settle, in ticks
  CacheTtl,     \* CACHE_TTL_MS
  NegativeTtl,  \* NEGATIVE_CACHE_TTL_MS
  MaxCalls,     \* bound: calls
  MaxClock,     \* bound: ticks
  None          \* no probe, nothing cached

VARIABLES
  clock,
  cache,     \* what was found last, and when
  inflight,  \* the probe that callers join
  probe,     \* the probes, each the number of the call that began it
  call       \* the calls

vars == <<clock, cache, inflight, probe, call>>

Calls == 1 .. MaxCalls

-----------------------------------------------------------------------------
(* What a name says.                                                        *)

Coding == {"code-generation", "refactor", "code-review"}
Light  == {"summarize", "translate"}

isUsableForChat(m) == ~m.embed

inferCapabilities(m) ==
  [good |-> (CASE m.coder /\ m.large  -> Coding \cup {"plan"}
               [] m.coder /\ ~m.large /\ ~m.small -> {"code-generation", "refactor"}
               [] ~m.coder /\ m.large -> {"plan"}
               [] ~m.coder /\ ~m.large /\ ~m.small -> Light
               [] OTHER -> {})
              \cup (IF m.small THEN Light ELSE {})
              \cup (IF m.korean THEN {"korean"} ELSE {}),
   bad  |-> CASE m.small -> Coding \cup {"plan"}
              [] m.coder /\ ~m.large -> {"code-review"}
              [] ~m.coder /\ ~m.large -> Coding \cup {"plan"}
              [] OTHER -> {}]

ProfilesOf(installed) ==
  {[model |-> m, tags |-> inferCapabilities(m)] : m \in {n \in installed : isUsableForChat(n)}}

-----------------------------------------------------------------------------
NoProbe == [pending |-> {}, began |-> 0]
NoCall  == [st |-> "unborn", force |-> FALSE, asked |-> 0, since |-> 0, at |-> 0,
            on |-> None, profiles |-> {}]

Init ==
  /\ clock = 0
  /\ cache = None
  /\ inflight = None
  /\ probe = [c \in Calls |-> NoProbe]
  /\ call = [c \in Calls |-> NoCall]

\* Mutant: that nothing was found is kept for good.
Fresh_Negative ==
  cache # None /\ (cache.profiles = {} \/ clock - cache.at < CacheTtl)

Fresh ==
  /\ cache # None
  /\ clock - cache.at < (IF cache.profiles # {} THEN CacheTtl ELSE NegativeTtl)

\* What is kept is given; a probe under way is joined; else, or by force, all
\* addresses are asked, and later callers join this probe.
discoverOllamaProfiles(c, force) ==
  /\ call[c].st = "unborn" /\ \A d \in Calls : d < c => call[d].st # "unborn"
  /\ LET new == [NoCall EXCEPT !.force = force, !.asked = clock]
     IN IF Fresh /\ ~force
          THEN /\ call' = [call EXCEPT ![c] =
                    [new EXCEPT !.st = "done", !.at = clock, !.since = cache.since,
                                !.profiles = cache.profiles]]
               /\ UNCHANGED <<inflight, probe>>
        ELSE IF inflight # None /\ ~force
          THEN /\ call' = [call EXCEPT ![c] = [new EXCEPT !.st = "waits", !.on = inflight]]
               /\ UNCHANGED <<inflight, probe>>
        ELSE /\ call' = [call EXCEPT ![c] = [new EXCEPT !.st = "waits", !.on = c]]
             /\ inflight' = c
             /\ probe' = [probe EXCEPT ![c] = [pending |-> Hosts, began |-> clock]]
  /\ UNCHANGED <<clock, cache>>

\* probeOne ends: with the models of h, or with none where h does not answer.
\* The first address with a model, or the last without, settles the probe.
probeOne(p, h, installed) ==
  /\ h \in probe[p].pending
  /\ LET profiles == ProfilesOf(installed)
         since    == probe[p].began
     IN IF profiles = {} /\ probe[p].pending # {h}
          THEN /\ probe' = [probe EXCEPT ![p].pending = @ \ {h}]
               /\ UNCHANGED <<cache, inflight, call>>
          ELSE /\ probe' = [probe EXCEPT ![p].pending = {}]
               /\ cache' = [at |-> clock, since |-> since, profiles |-> profiles]
               /\ inflight' = IF inflight = p THEN None ELSE inflight
               /\ call' = [c \in Calls |->
                    IF call[c].st = "waits" /\ call[c].on = p
                      THEN [call[c] EXCEPT !.st = "done", !.at = clock, !.since = since,
                                           !.profiles = profiles]
                      ELSE call[c]]
  /\ UNCHANGED clock

Probing == {p \in Calls : probe[p].pending # {}}

Tick ==
  /\ clock < MaxClock
  /\ \A p \in Probing : clock < probe[p].began + ProbeTime
  /\ clock' = clock + 1
  /\ UNCHANGED <<cache, inflight, probe, call>>

Rest == clock = MaxClock /\ Probing = {} /\ UNCHANGED vars

Next ==
  \/ \E c \in Calls, force \in BOOLEAN : discoverOllamaProfiles(c, force)
  \/ \E p \in Calls, h \in Hosts, installed \in Installs : probeOne(p, h, installed)
  \/ Tick
  \/ Rest

Spec == Init /\ [][Next]_vars

-----------------------------------------------------------------------------
\* Whoever asks is told of the present, and one probe is enough
\* (discoverOllama.test: 14 concurrent calls, one probe; comment of the cache).
\* What a call is given was found by a probe that began no longer ago than what
\* is kept may be old and a probe may take, and since the call if it was forced;
\* of the calls that force nothing, at most one has a probe under way, although
\* a forced one takes its place as the one to join; a probe that callers join
\* has not settled; and no model is at once good and bad at something, unless
\* its name says that it is large and small.
DiscoveryIsCurrent ==
  /\ \A c \in Calls : call[c].st = "done" =>
       /\ call[c].at <= call[c].since + ProbeTime
                          + (IF call[c].profiles # {} THEN CacheTtl ELSE NegativeTtl)
       /\ call[c].force => call[c].since >= call[c].asked
       /\ \A p \in call[c].profiles :
            p.tags.good \cap p.tags.bad # {} => p.model.large /\ p.model.small
  /\ \A p, q \in Probing : ~call[p].force /\ ~call[q].force => p = q
  /\ inflight # None => inflight \in Probing
=============================================================================
