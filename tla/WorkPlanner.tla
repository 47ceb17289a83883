---------------------------- MODULE WorkPlanner ----------------------------
(***************************************************************************)
(* The planner of ai_work: from a request and a catalog of capability      *)
(* descriptors it makes a plan that is valid for a while.  It keeps no     *)
(* state itself: what changes is the time and the plan the caller holds.   *)
(***************************************************************************)
EXTENDS Integers, Sequences, SequencesExt

CONSTANTS
    Catalogs,    \* the catalogs of descriptors that may be given
    Requests,    \* the work requests that may be made
    None,        \* no plan, no limit, no deadline, no known cost
    PlanTime,    \* five minutes, in ticks
    MaxTime      \* bound: ticks

\* What validate_request lets through names at least one function and one place.
ValidRequest(req) == req.needs # {} /\ req.classes # {}

PlannerAssumption ==
    /\ PlanTime \in Nat \ {0} /\ MaxTime \in Nat
    /\ \A req \in Requests : ValidRequest(req)
    /\ \A req \in Requests : req.deadline = None \/ req.deadline \in Nat
    /\ \A given \in Catalogs : \A c \in ToSet(given) :
          /\ {c.id, c.checked, c.expires} \subseteq Nat
          /\ c.cost = None \/ c.cost \in Nat
          /\ c.deterministic \in BOOLEAN
    /\ None \notin Nat

VARIABLES
    now,       \* time
    plan       \* the plan that was made last, with what it was made from

vars == <<now, plan>>

-----------------------------------------------------------------------------
(* Eligibility and rank of one descriptor *)

\* Forbidden for this request: boundary, data class, remote data, authority.
Barred(req, c) == c.class \notin req.classes \/ ~(c.authorities \subseteq req.granted)

\* A cost that is not known counts as over the limit.
OverLimit(req, c) == req.maxCost # None /\ (c.cost = None \/ c.cost > req.maxCost)

\* Unhealthy, expired, or observed in the future.
Unusable(c, at) == c.state \notin {"HEALTHY", "DEGRADED"} \/ c.expires <= at \/ c.checked > at

Eligible(req, c, at) == ~Barred(req, c) /\ ~OverLimit(req, c) /\ ~Unusable(c, at)

Cheaper(c, d) == c.cost # None /\ (d.cost = None \/ c.cost < d.cost)

\* Deterministic capabilities first, then the cheaper one, an unknown cost
\* last; identities decide what remains.
Before(c, d) ==
    \/ c.deterministic /\ ~d.deterministic
    \/ /\ c.deterministic = d.deterministic
       /\ Cheaper(c, d) \/ (c.cost = d.cost /\ c.id < d.id)

\* validate_capability: it can do something, and its evidence does not end
\* before it begins.
Valid(c) == c.functions # {} /\ c.checked <= c.expires

\* A malformed descriptor is left out, and so is every descriptor whose
\* identity occurs twice.
WellFormed(given) ==
    {c \in ToSet(given) :
        Valid(c) /\ \A i, j \in DOMAIN given :
            Valid(given[i]) /\ Valid(given[j]) /\ given[i].id = c.id /\ given[j].id = c.id
                => i = j}

\* The first of the sorted list, which gets the step; the others of S are its
\* alternatives.
Best(S) == CHOOSE c \in S : \A d \in S \ {c} : Before(c, d)
Chosen(S) == IF S = {} THEN {} ELSE {Best(S)}

-----------------------------------------------------------------------------
(* plan() *)

Workers(req, given, at) ==
    {c \in WellFormed(given) :
        req.needs \subseteq c.functions /\ Eligible(req, c, at) /\ c.kind # "HUMAN"}

\* With independence required, the chosen worker is not among them.
Validators(req, given, at, workers) ==
    {c \in WellFormed(given) :
        /\ req.validation # {}
        /\ c.kind = "VALIDATOR" /\ req.validation \subseteq c.functions
        /\ Eligible(req, c, at)
        /\ req.independent => c \notin Chosen(workers)}

Forbidden(req, given) ==
    \E c \in WellFormed(given) : req.needs \subseteq c.functions /\ Barred(req, c)

Unmet(req) == IF req.human THEN "MANUAL_REQUIRED" ELSE "UNAVAILABLE"

\* The first reason that keeps the plan from being executed.
Status(req, given, at, workers, validators) ==
    IF req.deadline # None /\ req.deadline <= at THEN "BLOCKED"
    ELSE IF ~(req.effects \subseteq req.granted) THEN "BLOCKED"
    ELSE IF workers = {} THEN IF Forbidden(req, given) THEN "BLOCKED" ELSE Unmet(req)
    ELSE IF req.validation # {} /\ validators = {} THEN Unmet(req)
    ELSE IF req.gated THEN "MANUAL_REQUIRED"
    ELSE "EXECUTABLE"

Least(S) == CHOOSE t \in S : \A u \in S : t <= u

\* Mutation: the evidence about the validator does not limit the plan.
ValidUntilWorker(req, at, workers, validators) ==
    Least({at + PlanTime} \union {c.expires : c \in Chosen(workers)}
          \union (IF req.deadline = None THEN {} ELSE {req.deadline}))
ValidUntil(req, at, workers, validators) ==
    Least({at + PlanTime} \union {c.expires : c \in Chosen(workers) \union Chosen(validators)}
          \union (IF req.deadline = None THEN {} ELSE {req.deadline}))

Plan(req, given, at) ==
    LET workers == Workers(req, given, at)
        validators == Validators(req, given, at, workers)
    IN [status |-> Status(req, given, at, workers, validators),
        workers |-> workers, validators |-> validators,
        request |-> req, given |-> given, madeAt |-> at,
        until |-> ValidUntil(req, at, workers, validators)]

-----------------------------------------------------------------------------
Init == now = 0 /\ plan = None

MakePlan(req, given) ==
    /\ plan' = Plan(req, given, now)
    /\ UNCHANGED now

Tick ==
    /\ now < MaxTime /\ now' = now + 1
    /\ UNCHANGED plan

Next == Tick \/ \E req \in Requests, given \in Catalogs : MakePlan(req, given)

Spec == Init /\ [][Next]_vars

-----------------------------------------------------------------------------
\* As long as an executable plan has not expired, the deadline has not passed
\* and the evidence for both of its steps is still good; nothing about the
\* plan needs to be looked up again.  (ai_work.py, valid_until.)
PlanHoldsUntilItExpires ==
    plan # None /\ plan.status = "EXECUTABLE" /\ now < plan.until =>
        /\ plan.request.deadline # None => now < plan.request.deadline
        /\ \A c \in Chosen(plan.workers) \union Chosen(plan.validators) : ~Unusable(c, now)
=============================================================================
