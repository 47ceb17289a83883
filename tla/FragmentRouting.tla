--------------------------- MODULE FragmentRouting ---------------------------
(***************************************************************************)
(* router_v2: every provider sends a fragment of the catalog of its own.   *)
(* The last good fragment of each is kept in a file, an index lists the    *)
(* providers that have one, and no lock covers the two.  The orchestrator  *)
(* lays the evidence it holds over the fragments before it hands them in.  *)
(* One model per provider; what ModelRouter picks among the models that    *)
(* are left is left open here.                                             *)
(***************************************************************************)
EXTENDS Integers, Sequences, SequencesExt

CONSTANTS
    Providers,     \* a sequence, in the order of their names
    BoundaryOf,    \* per provider its execution boundary
    Requests,      \* the requests that are made
    Profiles,      \* what evidence may say of a model: [estimate, known, cost]
    CatalogLives, HealthLives, EvidenceLives,   \* how long each may hold
    Callers,
    None,          \* no fragment, no evidence, no limit, no cost
    Malformed,     \* a fragment that is not one
    MaxTime, MaxCalls

Boundaries == {"PROCESS", "HOST", "LOCAL_NETWORK", "REMOTE", "UNKNOWN"}
RemoteBoundaries == {"LOCAL_NETWORK", "REMOTE", "UNKNOWN"}
DataClasses == {"PUBLIC", "INTERNAL", "CONFIDENTIAL", "RESTRICTED"}
Provider == ToSet(Providers)

\* What validate_v2_request lets through.
ValidRequest(req) ==
    /\ req.boundaries # {} /\ req.boundaries \subseteq Boundaries
    /\ req.class \in DataClasses /\ req.remote \subseteq DataClasses
    /\ req.limit = None \/ req.limit \in Nat

FragmentAssumption ==
    /\ Providers \in Seq(Provider)
    /\ CatalogLives \union HealthLives \union EvidenceLives \subseteq Nat \ {0}
    /\ \A p \in Provider : BoundaryOf[p] \in Boundaries
    /\ \A req \in Requests : ValidRequest(req)

VARIABLES now, calls,
    stored,        \* per provider the last good fragment, or None
    index,         \* the providers the index lists
    at,
    published,     \* history: the providers whose store has been completed
    decision       \* the last one: [provider, fragment, at], or None

vars == <<now, calls, stored, index, at, published, decision>>

Idle == [pc |-> "idle"]

-----------------------------------------------------------------------------
(* Fragments *)

\* Evidence that holds now, laid over what the catalog knows: without it
\* nothing is known of the model's quality.
Overlaid ==
    {[until |-> now + d, profile |-> p] : d \in EvidenceLives, p \in Profiles} \union {None}

\* A catalog's answer passes validate_fragment: it ends after it began.  Health
\* that is neither HEALTHY nor DEGRADED counts as over.
Answers ==
    {[until |-> now + d, healthUntil |-> now + e, evidence |-> o] :
        d \in CatalogLives, e \in HealthLives \union {0}, o \in Overlaid}

Usable(f, t) == f \notin {None, Malformed} /\ f.healthUntil > t /\ f.until > t

-----------------------------------------------------------------------------
(* aggregate_fragments *)

\* Those that are left are positions in the order of the names.
Turn(c) == Providers[Min(at[c].todo)]
Left(c) == at[c].todo \ {Min(at[c].todo)}
Given(c) == at[c].given[Turn(c)]
Select(c, f) == [at[c].selected EXCEPT ![Turn(c)] = f]

\* Those with a fragment, a malformed one included, and those the index lists.
Begin(c) ==
    /\ at[c] = Idle /\ calls < MaxCalls /\ calls' = calls + 1
    /\ \E req \in Requests, given \in [Provider -> Answers \union {None, Malformed}] :
          at' = [at EXCEPT ![c] =
              [pc |-> "turn", req |-> req, given |-> given, read |-> {},
               todo |-> {i \in DOMAIN Providers :
                            given[Providers[i]] # None \/ Providers[i] \in index},
               selected |-> [p \in Provider |-> None]]]
    /\ UNCHANGED <<now, stored, index, published, decision>>

\* A usable fragment is selected and written; the index is still to come.
TakeCurrent(c) ==
    /\ at[c].pc = "turn" /\ at[c].todo # {} /\ Usable(Given(c), now)
    /\ stored' = [stored EXCEPT ![Turn(c)] = Given(c)]
    /\ at' = [at EXCEPT ![c].pc = "list", ![c].selected = Select(c, Given(c))]
    /\ UNCHANGED <<now, calls, index, published, decision>>
ReadIndex(c) ==
    /\ at[c].pc = "list"
    /\ at' = [at EXCEPT ![c].pc = "publish", ![c].read = index]
    /\ UNCHANGED <<now, calls, stored, index, published, decision>>
\* Mutation: the index names the provider that was written last.
ListedAlone(c) == {Turn(c)}
Listed(c) == at[c].read \union {Turn(c)}
WriteIndex(c) ==
    /\ at[c].pc = "publish" /\ index' = Listed(c)
    /\ published' = published \union {Turn(c)}
    /\ at' = [at EXCEPT ![c].pc = "turn", ![c].todo = Left(c)]
    /\ UNCHANGED <<now, calls, stored, decision>>

\* Whatever is wrong with the provider's fragment, its stored one may do.
FallBack(c) ==
    /\ at[c].pc = "turn" /\ at[c].todo # {} /\ ~Usable(Given(c), now)
    /\ at' = [at EXCEPT ![c].todo = Left(c),
                        ![c].selected = IF Usable(stored[Turn(c)], now)
                                        THEN Select(c, stored[Turn(c)])
                                        ELSE at[c].selected]
    /\ UNCHANGED <<now, calls, stored, index, published, decision>>

-----------------------------------------------------------------------------
(* route_v2 *)

Permits(req, p) ==
    /\ BoundaryOf[p] \in req.boundaries
    /\ BoundaryOf[p] \in RemoteBoundaries => req.class \in req.remote

\* A limit only admits estimates that are known, and measured or configured.
WithinLimit(req, profile) ==
    req.limit # None => profile.known /\ profile.estimate <= req.limit

\* Evidence of a cost that has expired takes the model out.
CostHolds(profile) == profile.cost = None \/ profile.cost > now

Routable(req, p, f) ==
    /\ f # None /\ Permits(req, p)
    /\ f.evidence # None
    /\ WithinLimit(req, f.evidence.profile) /\ CostHolds(f.evidence.profile)

Route(c) ==
    /\ at[c].pc = "turn" /\ at[c].todo = {}
    /\ LET routable == {p \in Provider : Routable(at[c].req, p, at[c].selected[p])}
       IN  \/ /\ routable = {} /\ decision' = None
           \/ \E p \in routable :
                decision' = [provider |-> p, fragment |-> at[c].selected[p], at |-> now]
    /\ at' = [at EXCEPT ![c] = Idle]
    /\ UNCHANGED <<now, calls, stored, index, published>>

-----------------------------------------------------------------------------
Crash(c) ==
    /\ at[c] # Idle /\ at' = [at EXCEPT ![c] = Idle]
    /\ UNCHANGED <<now, calls, stored, index, published, decision>>

\* A call is over before the time moves on.
Tick ==
    /\ now < MaxTime /\ now' = now + 1 /\ \A c \in Callers : at[c] = Idle
    /\ UNCHANGED <<calls, stored, index, at, published, decision>>

Init ==
    /\ now = 0 /\ calls = 0 /\ stored = [p \in Provider |-> None] /\ index = {}
    /\ at = [c \in Callers |-> Idle] /\ published = {} /\ decision = None
Aggregates(c) ==
    Begin(c) \/ TakeCurrent(c) \/ ReadIndex(c) \/ WriteIndex(c) \/ FallBack(c) \/ Route(c) \/ Crash(c)
Next == Tick \/ \E c \in Callers : Aggregates(c)
Spec == Init /\ [][Next]_vars

-----------------------------------------------------------------------------
\* MODEL_ROUTER.md: a malformed, unhealthy, expired or silent provider does not
\* hide a good fragment stored before, and neither does a store that another
\* provider's caller did not finish.
StoredIsFound ==
    [][\A c \in Callers : Route(c) =>
          \A p \in published : Usable(stored[p], now) => at[c].selected[p] # None]_vars

\* AI_ORCHESTRATOR.md: evidence overlays a model only while the record is fresh.
RoutesOnFreshEvidence ==
    decision # None => decision.fragment.evidence.until > decision.at
=============================================================================
