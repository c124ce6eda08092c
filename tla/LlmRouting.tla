----------------------------- MODULE LlmRouting -----------------------------
(***************************************************************************)
(* From a request to a provider and back: the risk score and the           *)
(* escalation chain of auto requests, the viability probe, the walk over   *)
(* the candidates, the budget gates and the usage log they read.           *)
(*                                                                         *)
(* Three ways in: "call" is POST /v1/llm-call, "chat" and "stream" the     *)
(* OpenAI endpoint, "route" is runRoute.  The configuration stands still;  *)
(* all requests fall into one day.  Tokens are folded into their cost, and *)
(* prompts, redaction, tool shim and wire formats are left out.            *)
(***************************************************************************)
EXTENDS Naturals, Sequences, SequencesExt, FiniteSets, FiniteSetsExt

CONSTANTS
  Callers,      \* concurrent requests
  Declared,     \* the profile ids in the order the configuration lists them
  Tier,         \* Tier[p]: 0 local-device, 1 private-remote, 2 public-cloud
  Payment,      \* Payment[p]: the paymentModel of p, or None
  GoodAt,       \* GoodAt[p], NotGoodAt[p]: sets of task types
  NotGoodAt,
  Disabled,     \* profiles with enabled = false
  Keyless,      \* remote profiles whose API key is not set
  Probed,       \* local and subprocess profiles, for which a probe decides
  Served,       \* profiles whose provider has a client
  Native,       \* subprocess profiles that stream natively
  Cost,         \* Cost[p]: what one answered call costs
  Estimate,     \* Estimate[p]: the cost of its input alone
  Cap,          \* Cap[p]: the daily limit of p's own budget, or None
  Limit,        \* dailyUsdLimit
  BlockAt,      \* Limit * blockAtPercent
  Downgrade,    \* budgetAwareDowngrade
  Quality,      \* responseQualityCheck
  Ceiling,      \* autoEscalationCeiling
  LocalMax,     \* riskThresholds.localStrongMax
  PrivateMax,   \* riskThresholds.privateRemoteMax
  Tasks,        \* the tasks asked for
  Trigger,      \* records beyond which the usage log is trimmed
  Target,       \* records a trim keeps
  MaxRequests,  \* bound: requests in one behaviour
  None          \* no profile, limit or result

Profiles == Range(Declared)
AutoModel == "auto"

TaskTypes == {"code-review", "refactor", "summarize", "translate", "plan",
              "code-generation", "general"}
Task == [type : TaskTypes, high : BOOLEAN, medium : BOOLEAN, files : Nat,
         secrets : BOOLEAN, infra : BOOLEAN]
Payments == {"free", "flat-rate", "per-token"}

ASSUME RoutingAssumption ==
  /\ IsFiniteSet(Callers)
  /\ Declared \in Seq(Profiles) /\ IsInjective(Declared)
  /\ Tier \in [Profiles -> 0 .. 2]
  /\ Payment \in [Profiles -> Payments \cup {None}]
  /\ \A p \in Profiles : GoodAt[p] \subseteq TaskTypes /\ NotGoodAt[p] \subseteq TaskTypes
  /\ Disabled \cup Keyless \cup Probed \cup Served \cup Native \subseteq Profiles
  /\ Cost \in [Profiles -> Nat] /\ Estimate \in [Profiles -> Nat]
  /\ \A p \in Profiles : Cap[p] \in Nat \cup {None}
  /\ Limit \in Nat \ {0} /\ BlockAt \in 1 .. Limit
  /\ Downgrade \in BOOLEAN /\ Quality \in BOOLEAN /\ Ceiling \in 0 .. 2
  /\ \A t \in Tasks : t \in Task
  /\ Trigger \in Nat /\ Target \in 1 .. Trigger /\ MaxRequests \in Nat

VARIABLES
  req,         \* req[c]: the request of c
  log,         \* the usage log
  requests,    \* requests so far
  made,        \* history: provider calls that came back
  spent,       \* history: what they cost
  ungated,     \* history: the part of spent that met no budget check
  dropped,     \* history: records that trims removed
  forgotten    \* history: by how much trims lowered the cost of the log

vars == <<req, log, requests, made, spent, ungated, dropped, forgotten>>

-----------------------------------------------------------------------------
(* The risk score and the escalation chain.                                 *)

Points(condition, n) == IF condition THEN n ELSE 0

ScoreRisk(t) ==
  Min({100, 10
    + Points(t.high, 30)
    + Points(t.medium, 15)
    + Points(t.type = "code-review", 20)
    + Points(t.type \in {"plan", "refactor"}, 15)
    + (CASE t.files >= 10 -> 20 [] t.files \in 3 .. 9 -> 10 [] OTHER -> 0)
    + Points(t.secrets, 25)
    + Points(t.infra, 25)})

TierForScore(score) ==
  CASE score <= LocalMax -> 0 [] score > LocalMax /\ score <= PrivateMax -> 1 [] OTHER -> 2

Primary(t) == TierForScore(ScoreRisk(t))

EffectivePaymentModel(p) ==
  CASE Payment[p] # None -> Payment[p]
    [] Payment[p] = None /\ Tier[p] < 2 -> "free"
    [] OTHER -> "per-token"

PaymentRank(p) ==
  CASE EffectivePaymentModel(p) = "free" -> 0
    [] EffectivePaymentModel(p) = "flat-rate" -> 1
    [] OTHER -> 2

GoodAtRank(p, t) ==
  CASE t.type \in GoodAt[p] -> 0 [] GoodAt[p] = {} -> 1 [] OTHER -> 2

Position(p) == CHOOSE i \in DOMAIN Declared : Declared[i] = p

\* Mutant: the fit of a profile outweighs what it costs.
Before_FitFirst(p, q, t) ==
  \/ GoodAtRank(p, t) < GoodAtRank(q, t)
  \/ GoodAtRank(p, t) = GoodAtRank(q, t) /\ PaymentRank(p) < PaymentRank(q)
  \/ /\ GoodAtRank(p, t) = GoodAtRank(q, t)
     /\ PaymentRank(p) = PaymentRank(q)
     /\ Position(p) < Position(q)

Before(p, q, t) ==
  \/ PaymentRank(p) < PaymentRank(q)
  \/ PaymentRank(p) = PaymentRank(q) /\ GoodAtRank(p, t) < GoodAtRank(q, t)
  \/ /\ PaymentRank(p) = PaymentRank(q)
     /\ GoodAtRank(p, t) = GoodAtRank(q, t)
     /\ Position(p) < Position(q)

\* What remains of a sequence when only the members of a set are kept.
Only(seq, keep) ==
  LET kept[i \in 0 .. Len(seq)] ==
        IF i = 0 THEN << >>
        ELSE IF seq[i] \in keep THEN Append(kept[i - 1], seq[i]) ELSE kept[i - 1]
  IN  kept[Len(seq)]

Usable(p, t) == p \notin Disabled /\ t.type \notin NotGoodAt[p]

SortProfilesForTier(k, t) ==
  LET S == {p \in Profiles : Tier[p] = k /\ Usable(p, t)}
  IN  CHOOSE s \in [1 .. Cardinality(S) -> S] :
        \A i, j \in DOMAIN s : i < j => Before(s[i], s[j], t)

\* Mutant: no tail below the primary tier.
BuildEscalationChain_NoTail(primary, t) ==
  FlattenSeq([i \in 1 .. 3 - primary |->
    IF primary + i - 1 <= Ceiling THEN SortProfilesForTier(primary + i - 1, t) ELSE << >>])

\* From the primary tier up to the ceiling, then down from the primary tier.
BuildEscalationChain(primary, t) ==
  FlattenSeq([i \in 1 .. 3 - primary |->
    IF primary + i - 1 <= Ceiling THEN SortProfilesForTier(primary + i - 1, t) ELSE << >>])
  \o FlattenSeq([i \in 1 .. primary |-> SortProfilesForTier(primary - i, t)])

-----------------------------------------------------------------------------
(* The usage log and the budget gates.                                      *)

Record == [profile : Profiles, cost : Nat, ok : BOOLEAN]

CostOf(records) ==
  LET sum[i \in 0 .. Len(records)] == IF i = 0 THEN 0 ELSE sum[i - 1] + records[i].cost
  IN  sum[Len(records)]

\* The most that one call costs.
Dearest == Max({0} \cup Range(Cost))

\* Mutant: the limit itself still passes.
BudgetBlocks_Above(records) == CostOf(records) > BlockAt

\* checkBudget: every record counts, failed or not.
BudgetBlocks(records) == CostOf(records) >= BlockAt

\* checkPerProfileBudget, on the profile's successful records: the limit binds
\* where a call has a price.
CapBlocks(p, records) ==
  /\ Cap[p] # None
  /\ EffectivePaymentModel(p) = "per-token"
  /\ CostOf(Only(records, [profile : {p}, cost : Nat, ok : {TRUE}])) + Estimate[p] > Cap[p]

Kept(records) == SubSeq(records, Len(records) - Target + 1, Len(records))

-----------------------------------------------------------------------------
Kinds    == {"call", "chat", "stream", "route"}
Stages   == {"idle", "resolve", "precheck", "caps", "gate", "provider", "stat",
             "trim", "append", "done"}
Outcomes == {"good", "poor", "transient", "hard"}
Results  == Outcomes \cup {"no-candidates", "disabled", "not-viable", "budget-exceeded"}

Idle == [pc |-> "idle", kind |-> None, auto |-> FALSE, task |-> None, at |-> None,
         left |-> << >>, tried |-> {}, up |-> {}, outcome |-> None, cost |-> 0,
         kept |-> << >>]

Init ==
  /\ req = [c \in Callers |-> Idle]
  /\ log = << >>
  /\ requests = 0
  /\ made = 0 /\ spent = 0 /\ ungated = 0
  /\ dropped = 0 /\ forgotten = 0

Set(c, r) == req' = [req EXCEPT ![c] = r]
Done(c, result) == Set(c, [req[c] EXCEPT !.pc = "done", !.outcome = result])

Calls == <<made, spent, ungated>>
Trims == <<dropped, forgotten>>
Quiet == UNCHANGED <<log, requests, made, spent, ungated, dropped, forgotten>>

\* The walk goes on over several candidates only here.
Walks(r) == r.auto /\ r.kind \in {"call", "chat"}

-----------------------------------------------------------------------------
(* A request arrives.                                                       *)

Submit(c, r) ==
  /\ req[c].pc \in {"idle", "done"}
  /\ requests < MaxRequests
  /\ requests' = requests + 1
  /\ Set(c, r)
  /\ UNCHANGED <<log, Calls, Trims>>

\* An explicit profile is called as it is; "auto" is resolved first.
LlmCall(c, m, t) ==
  Submit(c, [Idle EXCEPT !.kind = "call", !.auto = m = AutoModel, !.task = t,
                         !.pc = IF m = AutoModel THEN "resolve" ELSE "gate",
                         !.at = IF m = AutoModel THEN None ELSE m])

ChatCompletion(c, m, t, stream) ==
  Submit(c, [Idle EXCEPT !.kind = IF stream THEN "stream" ELSE "chat",
                         !.auto = m = AutoModel, !.task = t,
                         !.pc = IF m = AutoModel THEN "resolve" ELSE "precheck",
                         !.at = IF m = AutoModel THEN None ELSE m])

\* The first profile of the tier, in the order of the configuration.
FirstOfTier(k) ==
  LET inTier == Only(Declared, {p \in Profiles : Tier[p] = k})
  IN  IF inTier = << >> THEN None ELSE Head(inTier)

Constrained(k, constraint) ==
  CASE constraint = "local-only" -> 0
    [] constraint = "private" /\ k = 2 -> 1
    [] OTHER -> k

\* runRoute: a forced profile, or the first of the (constrained) tier.
RunRoute(c, m, t, constraint) ==
  LET p == IF m = AutoModel THEN FirstOfTier(Constrained(Primary(t), constraint)) ELSE m
  IN Submit(c, [Idle EXCEPT !.kind = "route", !.auto = m = AutoModel, !.task = t, !.at = p,
                            !.pc = IF p = None THEN "done" ELSE "caps",
                            !.outcome = IF p = None THEN "no-candidates" ELSE None])

-----------------------------------------------------------------------------
(* Which profiles are tried.                                                *)

Viable(p, up) == p \notin Keyless /\ (p \in Probed => p \in up)

\* The candidates a request starts with; a stream tries the first one only,
\* and a natively streaming one is called on the spot.
StartWith(c, ids, up) ==
  LET r == [req[c] EXCEPT !.at = Head(ids),
                          !.up   = IF Walks(req[c]) THEN up ELSE {},
                          !.left = IF Walks(req[c]) THEN Tail(ids) ELSE << >>]
  IN Set(c, [r EXCEPT !.pc = IF r.kind = "stream" /\ r.at \in Native THEN "provider" ELSE "gate"])

\* A pinned profile must be enabled and viable.
Precheck(c, up) ==
  /\ req[c].pc = "precheck"
  /\ CASE req[c].at \in Disabled        -> Done(c, "disabled")
       [] req[c].at \in Profiles \ Disabled /\ ~Viable(req[c].at, up) -> Done(c, "not-viable")
       [] OTHER                         -> StartWith(c, <<req[c].at>>, up)
  /\ Quiet

\* Near the daily limit the walk starts a tier lower, if that leaves anyone;
\* at the limit the public cloud is left out.
AffordableChain(t, records) ==
  LET primary  == Primary(t)
      chain    == BuildEscalationChain(primary, t)
      lower    == IF primary = 0 THEN << >> ELSE BuildEscalationChain(primary - 1, t)
      near     == Downgrade /\ CostOf(records) * 100 >= Limit * 80
      over     == Downgrade /\ CostOf(records) >= Limit
      afforded == IF near /\ lower # << >> THEN lower ELSE chain
  IN  IF over THEN Only(afforded, {p \in Profiles : Tier[p] # 2}) ELSE afforded

\* Candidates that are not viable are tried only when no other is left.
CandidateIds(t, records, up) ==
  LET chain  == AffordableChain(t, records)
      viable == Only(chain, {p \in Profiles : Viable(p, up)})
  IN  IF viable # << >> THEN viable ELSE chain

ResolveAutoCandidates(c, up) ==
  LET ids == CandidateIds(req[c].task, log, up) IN
  /\ req[c].pc = "resolve"
  /\ IF ids = << >> THEN Done(c, "no-candidates") ELSE StartWith(c, ids, up)
  /\ Quiet

-----------------------------------------------------------------------------
(* One candidate: the gates, the provider, the usage record.                *)

\* The call is over: its outcome is the answer, or the walk goes on.
Continue(c, r) ==
  LET again == \/ r.outcome = "poor" /\ Quality
               \/ r.outcome = "transient"
  IN IF Walks(r) /\ again /\ r.left # << >>
       THEN Set(c, [r EXCEPT !.pc = "gate", !.at = Head(r.left), !.left = Tail(r.left),
                             !.tried = r.tried \cup {r.at}, !.outcome = None, !.cost = 0])
       ELSE Set(c, [r EXCEPT !.pc = "done", !.tried = r.tried \cup {r.at}, !.cost = 0])

CheckCap(c) ==
  /\ req[c].pc = "caps"
  /\ IF CapBlocks(req[c].at, log) THEN Done(c, "budget-exceeded")
     ELSE Set(c, [req[c] EXCEPT !.pc = "gate"])
  /\ Quiet

\* A refusal ends the walk; a provider without a client counts as transient
\* and is not logged.
CheckBudget(c) ==
  /\ req[c].pc = "gate"
  /\ CASE BudgetBlocks(log) -> Done(c, "budget-exceeded")
       [] ~BudgetBlocks(log) /\ req[c].at \notin Served ->
            Continue(c, [req[c] EXCEPT !.outcome = "transient"])
       [] OTHER -> Set(c, [req[c] EXCEPT !.pc = "provider"])
  /\ Quiet

Gated(r) == ~(r.kind = "stream" /\ r.at \in Native)

\* A failed call costs nothing, except what a native stream had reported; a
\* reader of a route's stream may stop before the usage is known.
CostsOf(r, outcome) ==
  IF outcome \in {"good", "poor"}
    THEN {Cost[r.at]} \cup (IF r.kind = "route" THEN {0} ELSE {})
    ELSE {0} \cup (IF Gated(r) THEN {} ELSE {Cost[r.at]})

ProviderAnswers(c, outcome, cost) ==
  /\ req[c].pc = "provider"
  /\ cost \in CostsOf(req[c], outcome)
  /\ made' = made + 1
  /\ spent' = spent + cost
  /\ ungated' = IF Gated(req[c]) THEN ungated ELSE ungated + cost
  /\ Set(c, [req[c] EXCEPT !.pc = "stat", !.outcome = outcome, !.cost = cost])
  /\ UNCHANGED <<log, requests, Trims>>

\* Mutant: only what succeeded is logged.
StatUsage_OkOnly(c) ==
  /\ req[c].pc = "stat"
  /\ IF req[c].outcome \in {"good", "poor"}
       THEN Set(c, [req[c] EXCEPT !.pc = "append"]) ELSE Continue(c, req[c])
  /\ Quiet

\* Mutant: the log is never trimmed.
StatUsage_NoTrim(c) ==
  /\ req[c].pc = "stat"
  /\ Set(c, [req[c] EXCEPT !.pc = "append"])
  /\ Quiet

\* A log that grew too long is read for trimming.
StatUsage(c) ==
  /\ req[c].pc = "stat"
  /\ Set(c, IF Len(log) > Trigger
              THEN [req[c] EXCEPT !.pc = "trim", !.kept = Kept(log)]
              ELSE [req[c] EXCEPT !.pc = "append"])
  /\ Quiet

\* The trimmed copy replaces the log, with whatever was appended since.
TrimUsageLog(c) ==
  /\ req[c].pc = "trim"
  /\ log' = req[c].kept
  /\ dropped' = dropped + Len(log) - Len(req[c].kept)
  /\ forgotten' = forgotten + Max({0, CostOf(log) - CostOf(req[c].kept)})
  /\ Set(c, [req[c] EXCEPT !.pc = "append", !.kept = << >>])
  /\ UNCHANGED <<requests, Calls>>

AppendUsage(c) ==
  LET r == req[c] IN
  /\ r.pc = "append"
  /\ log' = Append(log, [profile |-> r.at, cost |-> r.cost, ok |-> r.outcome \in {"good", "poor"}])
  /\ Continue(c, r)
  /\ UNCHANGED <<requests, Calls, Trims>>

-----------------------------------------------------------------------------
Models == Profiles \cup {AutoModel}

Arrive(c) ==
  \E m \in Models, t \in Tasks :
    \/ LlmCall(c, m, t)
    \/ \E stream \in BOOLEAN : ChatCompletion(c, m, t, stream)
    \/ \E constraint \in {"none", "local-only", "private"} : RunRoute(c, m, t, constraint)

Choose(c) ==
  \E up \in SUBSET Probed : Precheck(c, up) \/ ResolveAutoCandidates(c, up)

Serve(c) ==
  \/ CheckCap(c)
  \/ CheckBudget(c)
  \/ \E outcome \in Outcomes, cost \in {0} \cup Range(Cost) : ProviderAnswers(c, outcome, cost)

LogUsage(c) ==
  \/ StatUsage(c)
  \/ TrimUsageLog(c)
  \/ AppendUsage(c)

Next == \E c \in Callers : Arrive(c) \/ Choose(c) \/ Serve(c) \/ LogUsage(c)

Spec == Init /\ [][Next]_vars

-----------------------------------------------------------------------------
(* Properties *)

\* The type of every variable, and the size of the log.
TypeOK ==
  /\ req \in [Callers ->
       [pc : Stages, kind : Kinds \cup {None}, auto : BOOLEAN, task : Tasks \cup {None},
        at : Profiles \cup {None}, left : Seq(Profiles), tried : SUBSET Profiles,
        up : SUBSET Probed, outcome : Results \cup {None}, cost : Nat, kept : Seq(Record)]]
  /\ log \in Seq(Record) /\ Len(log) <= Trigger + Cardinality(Callers)
  /\ requests \in 0 .. MaxRequests
  /\ {made, spent, ungated, dropped, forgotten} \subseteq Nat

Logging == {c \in Callers : req[c].pc \in {"stat", "trim", "append"}}

\* Every provider call that came back is in the usage log, or about to be, or
\* was removed by a trim; failed calls and rejected answers too. The log itself
\* outgrows the trigger by no more than the records under way (TypeOK).
CallsAreLogged == TypeOK /\ made = Len(log) + Cardinality(Logging) + dropped

\* The budget may be overrun, but only by one call for each request under
\* way: every gated call was checked against a log that lacks at most those.
\* (What trims forgot and native streams spent is counted apart.)
OverrunIsBounded ==
  spent < BlockAt + Cardinality(Callers) * Dearest + forgotten + ungated

\* An auto request takes the candidates in the promised order to the end. It
\* does not give up on a transient failure while a local profile that was up
\* could do the task: without any API key it still falls through to the local
\* models. Within a tier it turns to a profile that costs more only after all
\* that cost less, and it tries no profile twice.
WalkIsInOrder ==
  \A c \in Callers :
    LET r == req[c] IN
    /\ (Walks(r) /\ r.pc = "done" /\ r.outcome = "transient") =>
         \A p \in Profiles :
           Tier[p] = 0 /\ Usable(p, r.task) /\ Viable(p, r.up) => p \in r.tried
    /\ (Walks(r) /\ r.pc \in {"gate", "provider"}) =>
         /\ \A i \in DOMAIN r.left :
              Tier[r.left[i]] = Tier[r.at] => PaymentRank(r.at) <= PaymentRank(r.left[i])
         /\ r.at \notin r.tried
         /\ Range(r.left) \cap (r.tried \cup {r.at}) = {}
=============================================================================
