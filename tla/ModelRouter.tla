---------------------------- MODULE ModelRouter ----------------------------
(***************************************************************************)
(* ModelRouter.route of model_router.py: which model a request gets, with  *)
(* which fallbacks, and until when the decision holds.  Money is counted   *)
(* in units, a probability in quarters, so that the expected values of a   *)
(* chain of at most three attempts are exact integers once multiplied by   *)
(* Scale.  Hours make days and days make a week, as many as the constants  *)
(* say.                                                                    *)
(***************************************************************************)
EXTENDS Integers, Sequences, FiniteSets, FiniteSetsExt, SequencesExt

CONSTANTS
    Hours, Days,        \* of a day, of a week
    Catalogs, Requests, \* what the router may be given
    MaxClock            \* bound

Quarter == 4
Scale == Quarter * Quarter * Quarter
Tiers == {"ECONOMICAL", "BALANCED", "FRONTIER"}

\* A tariff window: the days it begins on, its hours (an end at or before the start is
\* on the next day), and the price of the request in it.
Schedule == [id : Nat, priority : Nat, days : SUBSET (0..Days - 1),
             start : 0..Hours - 1, end : 0..Hours - 1, price : Nat]
\* validate_catalog; id orders the models as provider and name do.  The price is what
\* the tokens of the request cost, cached the part of it a live session saves.
Model == [id : Nat, remote : BOOLEAN, available : BOOLEAN, disabled : BOOLEAN,
          capable : BOOLEAN, fits : BOOLEAN, tiers : SUBSET Tiers,
          assessed : BOOLEAN, success : 0..Quarter, price : Nat, cached : Nat,
          schedules : SUBSET Schedule, fixed : Nat, pressure : Nat]
\* validate_request
Request == [tier : Tiers \cup {"LOCAL"}, remote : BOOLEAN, failed : SUBSET Nat,
            floor : 0..Quarter, most : Nat, failure : Nat, switching : Nat,
            fallbacks : 0..2, current : Nat]

RouterAssumption ==
    /\ Hours \in Nat \ {0} /\ Days \in Nat \ {0} /\ MaxClock \in Nat
    /\ \A c \in Catalogs : /\ c.expires \in Nat
                           /\ \A m \in c.models : m \in Model
    /\ Requests \subseteq Request

-----------------------------------------------------------------------------
(* Tariffs                                                                  *)

Hour(t) == t % Hours
Weekday(t) == (t \div Hours) % Days

\* schedule_active
Active(s, t) ==
    IF s.start < s.end
      THEN Weekday(t) \in s.days /\ s.start <= Hour(t) /\ Hour(t) < s.end
    ELSE \/ Weekday(t) \in s.days /\ Hour(t) >= s.start
         \/ Hour(t) < s.end /\ (Weekday(t) + Days - 1) % Days \in s.days

\* next_schedule_boundary: the first start or end after t, looked for from the day
\* before to the same weekday of next week; Never when there is none.
Never == -1
BoundaryUpTo(schedules, t, last) ==
    LET today == t \div Hours
        windows == {w \in schedules \X ((today - 1)..(today + last)) :
                      w[2] % Days \in w[1].days}
        start(w) == w[2] * Hours + w[1].start
        end(w) == (IF w[1].end <= w[1].start THEN w[2] + 1 ELSE w[2]) * Hours + w[1].end
        next == {b \in {start(w) : w \in windows} \cup {end(w) : w \in windows} : b > t}
    IN  IF next = {} THEN Never ELSE Min(next)
\* Mutation: only windows of today are looked at.
BoundaryToday(schedules, t) ==
    BoundaryUpTo({s \in schedules : Weekday(t) \in s.days}, t, 0)
NextBoundary(schedules, t) == BoundaryUpTo(schedules, t, Days + 1)

\* effective_rates: the active window of the highest priority, then of the highest id.
Tariff(m, t) ==
    LET active == {s \in m.schedules : Active(s, t)}
        best == CHOOSE s \in active : \A o \in active :
                  o.priority < s.priority \/ (o.priority = s.priority /\ o.id <= s.id)
    IN  IF active = {} THEN [epoch |-> 0, price |-> m.price]
        ELSE [epoch |-> best.id, price |-> best.price]

-----------------------------------------------------------------------------
(* Candidates                                                               *)

\* A session is affine to the model it used, in the price epoch it used it in.
NoSession == [model |-> 0, epoch |-> 0, expires |-> 0]
Live(session, t) == t < session.expires
Affine(session, m, t) ==
    Live(session, t) /\ session.model = m.id /\ session.epoch = Tariff(m, t).epoch

UsageCost(m, session, t) ==
    LET price == Tariff(m, t).price
    IN  (IF Affine(session, m, t) /\ price > m.cached THEN price - m.cached
         ELSE IF Affine(session, m, t) THEN 0 ELSE price) + m.fixed
SwitchCost(request, m, session, t) ==
    IF request.current = m.id \/ Affine(session, m, t)
         \/ (request.current = 0 /\ ~Live(session, t)) THEN 0
    ELSE request.switching

\* _candidates, in the order of its checks: why a model is rejected before its price
\* is known, and after.
RejectedUnpriced(catalog, request, m, t) ==
    \/ m.id \in request.failed \/ ~m.available \/ m.disabled
    \/ m.remote /\ ~request.remote
    \/ t >= catalog.expires
    \/ ~m.capable \/ ~m.fits \/ request.tier \notin m.tiers \/ ~m.assessed
    \/ m.success < request.floor
Priced(catalog, request, t) ==
    {m \in catalog.models : ~RejectedUnpriced(catalog, request, m, t)}
Eligible(catalog, request, session, t) ==
    {m \in Priced(catalog, request, t) : UsageCost(m, session, t) <= request.most}

\* reevaluation_boundaries: of every priced model, whether it is chosen or not.
Boundaries(catalog, models, t) ==
    {LET boundary == NextBoundary(m.schedules, t)
     IN  IF boundary = Never THEN catalog.expires ELSE Min({boundary, catalog.expires}) : m \in models}

-----------------------------------------------------------------------------
(* Chains                                                                   *)

\* chain_economics: what the attempts of a chain cost when each is made only after the
\* ones before it failed.  reach is the chance to get there; all values times Scale.
Economics(chain, request, session, t) ==
    LET next(e, m) ==
            [spend |-> e.spend + e.reach * UsageCost(m, session, t),
             switching |-> e.switching + e.reach * SwitchCost(request, m, session, t),
             pressure |-> e.pressure + e.reach * m.pressure,
             reach |-> (e.reach * (Quarter - m.success)) \div Quarter]
        upTo[n \in 0..Len(chain)] ==
            IF n = 0 THEN [spend |-> 0, switching |-> 0, pressure |-> 0, reach |-> Scale]
            ELSE next(upTo[n - 1], chain[n])
    IN  upTo[Len(chain)]

\* cost_of_success, a fraction; a chain that cannot succeed counts as one in hundred.
CostOfSuccess(e, request) ==
    LET total == e.spend + e.switching + e.reach * request.failure
        success == Scale - e.reach
    IN  IF success = 0 THEN <<100 * total, Scale>> ELSE <<total, success>>
Less(a, b) == a[1] * b[2] < b[1] * a[2]
\* The improvement is positive and at least a thousandth of the preceding cost.
Material(before, after) ==
    /\ Less(after, before)
    /\ 1000 * (before[1] * after[2] - after[1] * before[2]) >= before[1] * after[2]

Attempts(models, length) ==
    {c \in [1..length -> models] : \A i, j \in 1..length : c[i] = c[j] => i = j}

\* Which chains the exhaustive search of route keeps.
Kept(chain, request, session, t) ==
    LET all == Economics(chain, request, session, t)
        before == Economics(Front(chain), request, session, t)
    IN  /\ all.spend <= Scale * request.most
        /\ Len(chain) > 1 => Material(CostOfSuccess(before, request),
                                      CostOfSuccess(all, request))

\* evaluated.sort: cost of success, then pressure, length, and the order of the ids.
IdsBefore(a, b) ==
    \E k \in 1..Len(a) : a[k].id < b[k].id /\ \A j \in 1..k - 1 : a[j].id = b[j].id
Better(a, b, request, session, t) ==
    LET ea == Economics(a, request, session, t)
        eb == Economics(b, request, session, t)
        ca == CostOfSuccess(ea, request)
        cb == CostOfSuccess(eb, request)
    IN  \/ Less(ca, cb)
        \/ ~Less(cb, ca) /\ \/ ea.pressure < eb.pressure
                            \/ ea.pressure = eb.pressure /\ Len(a) < Len(b)
                            \/ ea.pressure = eb.pressure /\ Len(a) = Len(b) /\ IdsBefore(a, b)

-----------------------------------------------------------------------------
(* The decision                                                             *)

NoRoute(until) == [status |-> "NO_ROUTE", chain |-> <<>>, until |-> until]

\* route; validUntil is the earliest change of any priced model's tariff.
Route(catalog, request, session, t) ==
    LET eligible == Eligible(catalog, request, session, t)
        priced == Priced(catalog, request, t)
        until == IF priced = {} THEN catalog.expires ELSE Min(Boundaries(catalog, priced, t))
        lengths == 1..Min({Cardinality(eligible), request.fallbacks + 1})
        kept == {c \in UNION {Attempts(eligible, n) : n \in lengths} :
                   Kept(c, request, session, t)}
        best == CHOOSE c \in kept : \A o \in kept \ {c} : Better(c, o, request, session, t)
    IN  IF request.tier = "LOCAL"
          THEN [status |-> "LOCAL_ONLY", chain |-> <<>>, until |-> t + 1]
        ELSE IF kept = {} THEN NoRoute(until)
        ELSE [status |-> "ROUTED", chain |-> best, until |-> until]

\* A client asks once and uses the decision until it expires; its session is extended
\* to the model it uses (record_outcome), and runs out by itself.
VARIABLES clock, catalog, request, session, decision

vars == <<clock, catalog, request, session, decision>>

NoDecision == [status |-> "none", chain |-> <<>>, until |-> 0]

Init ==
    /\ catalog \in Catalogs /\ request \in Requests
    /\ clock = 0 /\ session = NoSession /\ decision = NoDecision
Ask ==
    /\ decision' = Route(catalog, request, session, clock)
    /\ UNCHANGED <<clock, catalog, request, session>>
\* A successful outcome of the routed model is recorded for the session.
Use ==
    /\ decision.status = "ROUTED" /\ clock < decision.until
    /\ session' = [model |-> Head(decision.chain).id,
                   epoch |-> Tariff(Head(decision.chain), clock).epoch,
                   expires |-> clock + (Hours \div 2)]
    /\ decision' = NoDecision
    /\ UNCHANGED <<clock, catalog, request>>
Tick == clock < MaxClock /\ clock' = clock + 1
          /\ UNCHANGED <<catalog, request, session, decision>>
Next == Ask \/ Use \/ Tick
Spec == Init /\ [][Next]_vars

-----------------------------------------------------------------------------
(* Properties                                                               *)

\* A decision that has not expired is the one the router would make now: no tariff of
\* any model that could win has changed since (MODEL_ROUTING_POLICY.md:54).  This is
\* said of a session that still lives, or of none: valid_until takes no account of the
\* session's own end, after which the router would decide without its warm cache.
DecisionIsCurrent ==
    decision.status \in {"ROUTED", "NO_ROUTE"} /\ clock < decision.until
        /\ (Live(session, clock) \/ session = NoSession)
      => Route(catalog, request, session, clock).chain = decision.chain
=============================================================================
