-------------------------- MODULE DispatchEvidence --------------------------
(***************************************************************************)
(* Manual dispatch in client_integration.py: a handoff asks a person to    *)
(* give work to a model, and a receipt says which model did it.  The host  *)
(* that runs models is outside; an issuer that is not trusted may write    *)
(* anything into a receipt.  Time is counted in parts of a validity.       *)
(***************************************************************************)
EXTENDS Naturals, FiniteSets

CONSTANTS
    Models,        \* what a request may recommend: [name, boundary, observed, expires]
    Unknown,       \* a request, or a receipt, that names no model
    Trusted, Other,   \* issuers
    Validity,      \* valid_for_seconds
    MaxNow, MaxRuns, MaxHandoffs

DispatchAssumption == Validity \in Nat \ {0} /\ {MaxNow, MaxRuns, MaxHandoffs} \subseteq Nat

Names == {m.name : m \in Models}
Requests ==
    [model : Models \cup {Unknown}, open : BOOLEAN, \* the data is public, or may go out
     tier : {"LOCAL", "LOW"}, supported : BOOLEAN, attested : BOOLEAN]

VARIABLES
    now,
    handoffs,      \* those made
    ran,           \* what the host really executed: [handoff, name, at]
    verdict        \* what verify_dispatch_receipt answered last

vars == <<now, handoffs, ran, verdict>>

-----------------------------------------------------------------------------
(* create_manual_handoff                                                    *)

\* validate_manual_request: deterministic work has no model, and attestation needs dispatch.
ValidRequest(r) ==
    /\ r.attested => r.supported
    /\ r.tier = "LOCAL" => r.model = Unknown
Fresh(model, at) == model.observed <= at /\ model.expires > at
Inside(model, open) == model.boundary = "HOST" \/ open
\* A model that may not be used, or not any more, is left out of the handoff.
Recommended(r) ==
    IF r.model # Unknown /\ Fresh(r.model, now) /\ Inside(r.model, r.open)
    THEN r.model ELSE Unknown
\* Handoffs that differ are of different work, so that the record also stands for its
\* handoff_id, the digest of the work, the prompt, the time, the tier and the model.
Handoff(r) ==
    [model |-> Recommended(r), open |-> r.open, created |-> now, until |-> now + Validity]
\* There is nothing to hand over where dispatch attests itself.
Create(r) ==
    /\ ValidRequest(r) /\ ~(r.supported /\ r.attested)
    /\ Cardinality(handoffs) < MaxHandoffs /\ handoffs' = handoffs \cup {Handoff(r)}
    /\ UNCHANGED <<now, ran, verdict>>

-----------------------------------------------------------------------------
(* verify_dispatch_receipt                                                  *)

\* validate_manual_handoff: the handoff's own time, and that of its model's evidence.
Accepted(h) ==
    /\ h.created <= now /\ h.until > now
    /\ h.model # Unknown => /\ h.model.observed <= h.created /\ h.model.expires > now
                            /\ Inside(h.model, h.open)

\* A trusted issuer reports what ran, or that nothing did; another one says anything.
Reported(receipt) ==
    [handoff |-> receipt.handoff, name |-> receipt.actual, at |-> receipt.observed]
Honest(receipt) == receipt.status = "ATTESTED" => Reported(receipt) \in ran
Receipts ==
    {r \in [issuer : {Trusted, Other}, handoff : handoffs, requested : Names \cup {Unknown},
            actual : Names \cup {Unknown}, observed : 0..now,
            kind : {"HOST", "USER"}, status : {"ATTESTED", "REQUESTED_NOT_ATTESTED", "FAILED"}] :
        r.issuer = Trusted => Honest(r)}
\* Mutation: any issuer will do.
AttestsAnyone(r) ==
    /\ r.status = "ATTESTED" /\ r.kind = "HOST"
    /\ r.requested # Unknown /\ r.actual = r.requested
Attests(r) ==
    /\ r.status = "ATTESTED" /\ r.kind = "HOST" /\ r.issuer = Trusted
    /\ r.requested # Unknown /\ r.actual = r.requested
Verdict(r) ==
    IF Attests(r) THEN "ATTESTED" ELSE IF r.status = "FAILED" THEN "FAILED"
    ELSE "REQUESTED_NOT_ATTESTED"
\* A receipt of another handoff, or from before it, is refused.
\* Mutation: the handoff_id of the receipt is not looked at.
ConcernsAny(h, r) == r.observed >= h.created
Concerns(h, r) == r.handoff = h /\ r.observed >= h.created
Verify(h, r) ==
    /\ Accepted(h) /\ Concerns(h, r)
    /\ verdict' = [handoff |-> h, name |-> r.actual, at |-> r.observed, status |-> Verdict(r)]
    /\ UNCHANGED <<now, handoffs, ran>>

\* The host runs a model for a handoff, whether or not it is the recommended one.
Run(h, name) ==
    /\ Cardinality(ran) < MaxRuns
    /\ ran' = ran \cup {[handoff |-> h, name |-> name, at |-> now]}
    /\ UNCHANGED <<now, handoffs, verdict>>
Tick == now < MaxNow /\ now' = now + 1 /\ UNCHANGED <<handoffs, ran, verdict>>

Init == now = 0 /\ handoffs = {} /\ ran = {} /\ verdict = [status |-> "none"]
Next ==
    \/ \E r \in Requests : Create(r)
    \/ \E h \in handoffs, r \in Receipts : Verify(h, r)
    \/ \E h \in handoffs, name \in Names : Run(h, name)
    \/ Tick
Spec == Init /\ [][Next]_vars

-----------------------------------------------------------------------------
\* Whatever is attested did run for this handoff, after it was made and while it was
\* valid, however many receipts others make up, and although receipts of other
\* handoffs arrive, for the same model and from the same time.
AttestedDidRun ==
    verdict.status = "ATTESTED" =>
        /\ [handoff |-> verdict.handoff, name |-> verdict.name, at |-> verdict.at] \in ran
        /\ verdict.at >= verdict.handoff.created /\ verdict.at < verdict.handoff.until
=============================================================================
