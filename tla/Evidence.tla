------------------------------ MODULE Evidence ------------------------------
(***************************************************************************)
(* What is observed, remembered and decided upon: the evidence of models   *)
(* and of costs, the ledger of evaluations, the receipt of a dispatch, the *)
(* cache of rule files, and the decisions made from such evidence: routes, *)
(* fragments of routes, plans, and when a session ends.  They share no     *)
(* state: a behavior is one of the parts named in Parts, and the variables *)
(* of the others keep one value.                                           *)
(***************************************************************************)
EXTENDS EvidenceStore

CONSTANTS
    Parts,             \* the parts that are explored
    \* EvaluationLedger
    Candidates, Incumbent, Classes, Asked, Limit, Needed, Costs, ArmCost, DayLength,
    MaxClock, MaxPairs,
    \* CostEvidence
    Remote, Refresh, CostValidity, CostEndings, MaxNow,
    \* DispatchEvidence
    Dispatched, Trusted, Other, HandoffValidity, MaxDispatch, MaxRuns, MaxHandoffs,
    \* RuleCache
    Paths, Directories, Processes, Command, Options, Versions, Scenarios, Faults,
    \* ModelRouter
    Hours, Days, Catalogs, Routings, MaxHour,
    \* FragmentRouting
    Providers, BoundaryOf, Aggregations, Qualities, CatalogLives, HealthLives,
    EvidenceLives, Aggregators, Malformed, MaxFragment, MaxAggregations,
    \* WorkPlanner
    Descriptors, Orders, PlanTime, MaxPlan,
    \* SessionLifecycle
    Window, Soft, Hard, CheckpointDelta

VARIABLES
    part,
    \* EvaluationLedger
    ledgerClock, ledgerCalls, ledger, ledgerLock, ledgerAt,
    \* CostEvidence
    costNow, costCalls, costRecord, costLock, costAt, costContacts,
    \* DispatchEvidence
    dispatchNow, handoffs, ran, verdict,
    \* RuleCache
    edits, version, gitIndex, head, history, cache, cacheLock, cacheAt,
    \* ModelRouter
    routerClock, catalog, request, session, routed,
    \* FragmentRouting
    fragmentNow, fragmentCalls, stored, index, fragmentAt, published, decision,
    \* WorkPlanner
    planNow, plan,
    \* SessionLifecycle
    context, delta, asked, action

storeVars == vars
ledgerVars == <<ledgerClock, ledgerCalls, ledger, ledgerLock, ledgerAt>>
costVars == <<costNow, costCalls, costRecord, costLock, costAt, costContacts>>
dispatchVars == <<dispatchNow, handoffs, ran, verdict>>
cacheVars == <<edits, version, gitIndex, head, history, cache, cacheLock, cacheAt>>
routerVars == <<routerClock, catalog, request, session, routed>>
fragmentVars == <<fragmentNow, fragmentCalls, stored, index, fragmentAt, published, decision>>
planVars == <<planNow, plan>>
lifecycleVars == <<context, delta, asked, action>>
allVars == <<part, storeVars, ledgerVars, costVars, dispatchVars, cacheVars, routerVars,
             fragmentVars, planVars, lifecycleVars>>

-----------------------------------------------------------------------------
(* The parts.  "now", "at" and the like are variables of each part's own.    *)
Ledger == INSTANCE EvaluationLedger WITH
    NoIncumbent <- None, clock <- ledgerClock, calls <- ledgerCalls, file <- ledger,
    lock <- ledgerLock, at <- ledgerAt
Cost == INSTANCE CostEvidence WITH
    Validity <- CostValidity, Endings <- CostEndings, now <- costNow, calls <- costCalls,
    record <- costRecord, lock <- costLock, at <- costAt, contacts <- costContacts
Dispatch == INSTANCE DispatchEvidence WITH
    Models <- Dispatched, Unknown <- None, Validity <- HandoffValidity,
    MaxNow <- MaxDispatch, now <- dispatchNow
Rules == INSTANCE RuleCache WITH
    index <- gitIndex, lock <- cacheLock, at <- cacheAt
Router == INSTANCE ModelRouter WITH
    Requests <- Routings, MaxClock <- MaxHour, clock <- routerClock, decision <- routed
Fragments == INSTANCE FragmentRouting WITH
    Requests <- Aggregations, Profiles <- Qualities, Callers <- Aggregators,
    MaxTime <- MaxFragment, MaxCalls <- MaxAggregations, now <- fragmentNow,
    calls <- fragmentCalls, at <- fragmentAt
Planner == INSTANCE WorkPlanner WITH
    Catalogs <- Descriptors, Requests <- Orders, MaxTime <- MaxPlan, now <- planNow
Lifecycle == INSTANCE SessionLifecycle WITH Unknown <- None

ASSUME LedgerAssumption == Ledger!LedgerAssumption
ASSUME CostAssumption == Cost!CostAssumption
ASSUME DispatchAssumption == Dispatch!DispatchAssumption
ASSUME CacheAssumption == Rules!CacheAssumption
ASSUME RecordAssumption == Rules!RecordAssumption
ASSUME RouterAssumption == Router!RouterAssumption
ASSUME FragmentAssumption == Fragments!FragmentAssumption
ASSUME PlannerAssumption == Planner!PlannerAssumption
ASSUME LifecycleAssumption == Lifecycle!LifecycleAssumption

-----------------------------------------------------------------------------
OneScenario == CHOOSE s \in Scenarios : TRUE

PartInit ==
    /\ part \in Parts
    /\ Init /\ Ledger!Init /\ Cost!Init /\ Dispatch!Init /\ Rules!Init /\ Router!Init
    /\ Fragments!Init /\ Planner!Init /\ Lifecycle!Init
    /\ part # "rules" =>
          version = OneScenario.start /\ edits = OneScenario.edits /\ cache = Rules!NoRecord
    /\ part # "router" =>
          /\ catalog = CHOOSE c \in Catalogs : TRUE
          /\ request = CHOOSE r \in Routings : TRUE

StoreStep ==
    /\ part = "store" /\ Next
    /\ UNCHANGED <<part, ledgerVars, costVars, dispatchVars, cacheVars, routerVars,
                   fragmentVars, planVars, lifecycleVars>>
LedgerStep ==
    /\ part = "ledger" /\ Ledger!Next
    /\ UNCHANGED <<part, storeVars, costVars, dispatchVars, cacheVars, routerVars,
                   fragmentVars, planVars, lifecycleVars>>
CostStep ==
    /\ part = "cost" /\ Cost!Next
    /\ UNCHANGED <<part, storeVars, ledgerVars, dispatchVars, cacheVars, routerVars,
                   fragmentVars, planVars, lifecycleVars>>
DispatchStep ==
    /\ part = "dispatch" /\ Dispatch!Next
    /\ UNCHANGED <<part, storeVars, ledgerVars, costVars, cacheVars, routerVars,
                   fragmentVars, planVars, lifecycleVars>>
RulesStep ==
    /\ part = "rules" /\ Rules!Next
    /\ UNCHANGED <<part, storeVars, ledgerVars, costVars, dispatchVars, routerVars,
                   fragmentVars, planVars, lifecycleVars>>
RouterStep ==
    /\ part = "router" /\ Router!Next
    /\ UNCHANGED <<part, storeVars, ledgerVars, costVars, dispatchVars, cacheVars,
                   fragmentVars, planVars, lifecycleVars>>
FragmentStep ==
    /\ part = "fragments" /\ Fragments!Next
    /\ UNCHANGED <<part, storeVars, ledgerVars, costVars, dispatchVars, cacheVars,
                   routerVars, planVars, lifecycleVars>>
PlannerStep ==
    /\ part = "planner" /\ Planner!Next
    /\ UNCHANGED <<part, storeVars, ledgerVars, costVars, dispatchVars, cacheVars,
                   routerVars, fragmentVars, lifecycleVars>>
LifecycleStep ==
    /\ part = "lifecycle" /\ Lifecycle!Next
    /\ UNCHANGED <<part, storeVars, ledgerVars, costVars, dispatchVars, cacheVars,
                   routerVars, fragmentVars, planVars>>

PartNext ==
    \/ StoreStep \/ LedgerStep \/ CostStep \/ DispatchStep \/ RulesStep \/ RouterStep
    \/ FragmentStep \/ PlannerStep \/ LifecycleStep

PartSpec == PartInit /\ [][PartNext]_allVars

-----------------------------------------------------------------------------
(* The properties of the parts, stated and explained in their modules        *)

\* Nobody's update of the router's state is lost (model_router._update_state).
NoLostUpdate == Ledger!NoLostUpdate
\* An observation is evidence of a whole pair (record_outcome).
EvidenceIsPaired == Ledger!EvidenceIsPaired
\* A source of costs is contacted once per refresh period (refresh_cost_evidence).
ContactsAreSpaced == Cost!ContactsAreSpaced
\* What is attested did run (verify_dispatch_receipt).
AttestedDidRun == Dispatch!AttestedDidRun
\* A recorded snapshot is one worktree that existed (capture_snapshot).
SnapshotIsOneWorktree == Rules!SnapshotIsOneWorktree
\* A reused analysis has the key it would have now (build_plan).
ReuseIsFresh == Rules!ReuseIsFresh
\* Until a decision expires the router would decide the same, as long as the session
\* lives (route).
DecisionIsCurrent == Router!DecisionIsCurrent
\* A stored fragment that holds is found (router_v2).
StoredIsFound == Fragments!StoredIsFound
\* Nothing is routed on evidence that is over (ai_orchestrator, router_v2).
RoutesOnFreshEvidence == Fragments!RoutesOnFreshEvidence
\* An executable plan stays one until it expires (ai_work.plan).
PlanHoldsUntilItExpires == Planner!PlanHoldsUntilItExpires
\* A session that goes on is not told less afterwards (ai_work.session_lifecycle).
LifecycleNeverWeakens == Lifecycle!LifecycleNeverWeakens
=============================================================================
