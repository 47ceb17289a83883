----------------------------- MODULE WorkExecutor -----------------------------
(***************************************************************************)
(* Executor.execute of ai_executor.py: one plan of one or two steps, an    *)
(* integrity-checked checkpoint that is saved before and after every       *)
(* adapter call, and processes that may die anywhere and start again.  The *)
(* file lock admits one call at a time and is freed by a dying process, so *)
(* there is one call; a cancellation marker is written beside it without   *)
(* the lock.                                                               *)
(*                                                                         *)
(* Costs and resources are abstracted to "some limit is exceeded" when the *)
(* request has limits, time to a deadline that passes and to capabilities  *)
(* whose health evidence expires.                                          *)
(***************************************************************************)
EXTENDS Integers, Sequences

CONSTANTS
    Workers,         \* capability ids of step "work": the chosen one, then alternatives
    Validators,      \* the same for step "validate"; empty without that step
    Bound,           \* capabilities that have an adapter binding
    Idempotent,      \* capabilities that attest IDEMPOTENT_REPLAY
    Expiring,        \* capabilities whose health evidence runs out in the meantime
    External,        \* the request has external effects
    Scopes,          \* request["validation"]["required_capabilities"]
    Independent,     \* request["validation"]["independent_required"]
    Gated,           \* the plan has an approval point before step "work"
    Limited,         \* the request has cost or resource limits
    MaxAttempts      \* request["limits"]["max_attempts"]

NoDoubles(s) == \A i, k \in DOMAIN s : s[i] = s[k] => i = k
Capabilities == {Workers[i] : i \in DOMAIN Workers}
                    \cup {Validators[i] : i \in DOMAIN Validators}

PlanAssumption ==
    /\ Workers \in Seq(Capabilities) /\ Workers # <<>> /\ NoDoubles(Workers)
    /\ Validators \in Seq(Capabilities) /\ NoDoubles(Validators)
    /\ Validators = <<>> <=> Scopes = {}
    /\ Independent /\ Validators # <<>> =>
          \A i \in DOMAIN Validators : Validators[i] # Workers[1]
    /\ {External, Independent, Gated, Limited} \subseteq BOOLEAN
    /\ MaxAttempts \in Nat \ {0}

VARIABLES
    state,        \* state of the checkpoint; "ACTIVE" before the first save
    attempts,     \* attempts of the checkpoint
    evidence,     \* validation evidence of the checkpoint
    cancel,       \* the cancellation marker exists
    late,         \* the deadline of the request has passed
    stale,        \* capabilities that are no longer eligible
    call,         \* the call that holds the lock
    lost          \* history: attempts whose caller died before the outcome was saved

checkpointVars == <<state, attempts, evidence>>
outsideVars == <<cancel, late, stale>>
vars == <<checkpointVars, outsideVars, call, lost>>

Steps == IF Validators = <<>> THEN <<"work">> ELSE <<"work", "validate">>
Candidates(step) == IF step = "work" THEN Workers ELSE Validators

Terminal == {"COMPLETED", "BLOCKED", "UNAVAILABLE", "FAILED", "CANCELLED"}
Results == {"PASSED", "FAILED", "INCONCLUSIVE"}

Outside == [pc |-> "out", step |-> 1, position |-> 1, approved |-> FALSE,
            resumed |-> FALSE, warned |-> FALSE]

Init ==
    /\ state = "ACTIVE" /\ attempts = <<>> /\ evidence = {}
    /\ cancel = FALSE /\ late = FALSE /\ stale = {}
    /\ call = Outside
    /\ lost = {}

-----------------------------------------------------------------------------
(* Reading and writing the checkpoint                                       *)

Step == Steps[call.step]
Of(step) == {k \in DOMAIN attempts : attempts[k].step = step}
With(status) == {k \in DOMAIN attempts : attempts[k].status = status}
Successful(step) == Of(step) \cap With("SUCCEEDED") # {}
Tried(capability) ==
    \E k \in Of(Step) \ With("PREPARED") : attempts[k].capability = capability
Candidate == Candidates(Step)[call.position]

RoomLeft == Len(attempts) < MaxAttempts

\* Mutation: what an earlier call prepared is forgotten.
PreparedEarlierNever == FALSE
PreparedEarlier == Of(Step) \cap With("PREPARED") # {}

\* The attempt that is prepared or in progress; there is at most one.
Active == CHOOSE k \in With("PREPARED") \cup With("IN_PROGRESS") : TRUE
Mark(k, status) == attempts' = [attempts EXCEPT ![k].status = status]

Goto(pc) == call' = [call EXCEPT !.pc = pc]

\* The state is saved and reported; the lock is released.
Finish(status) == state' = status /\ call' = Outside
Stop(status) == Finish(status) /\ UNCHANGED <<attempts, evidence>>

-----------------------------------------------------------------------------
(* The call                                                                 *)

\* Mutation: an interrupted external effect is prepared again.
AmbiguousNever(k) == FALSE
Ambiguous(k) == External /\ attempts[k].capability \notin Idempotent

\* A verdict and an unknown outcome are reported again, whatever is requested.
Settled == state \in Terminal \/ With("UNKNOWN") # {}

\* The lock is taken, the checkpoint loaded, and an interrupted attempt recovered.
Enter(approved) ==
    /\ call.pc = "out" /\ ~Settled
    /\ IF cancel THEN Stop("CANCELLED")
       ELSE IF With("IN_PROGRESS") = {}
         THEN /\ call' = [Outside EXCEPT !.pc = "steps", !.approved = approved]
              /\ UNCHANGED checkpointVars
       ELSE IF Ambiguous(Active)
         THEN /\ Mark(Active, "UNKNOWN") /\ Finish("MANUAL_REQUIRED")
              /\ UNCHANGED evidence
       ELSE /\ Mark(Active, "PREPARED")
            /\ call' = [Outside EXCEPT !.pc = "steps", !.approved = approved]
            /\ UNCHANGED <<state, evidence>>
    /\ UNCHANGED <<outsideVars, lost>>

StepDone ==
    /\ call.pc = "steps" /\ call.step <= Len(Steps) /\ Successful(Step)
    /\ call' = [call EXCEPT !.step = @ + 1]
    /\ UNCHANGED <<checkpointVars, outsideVars, lost>>

ApprovalMissing == Gated /\ Step = "work" /\ ~call.approved
Open == call.pc = "steps" /\ call.step <= Len(Steps) /\ ~Successful(Step)

\* The approval, then the deadline, before anything of the step is tried
StopBeforeStep ==
    /\ Open
    /\ \/ ApprovalMissing /\ Stop("MANUAL_REQUIRED")
       \/ ~ApprovalMissing /\ late /\ Stop("BLOCKED")
    /\ UNCHANGED <<outsideVars, lost>>

StartStep ==
    /\ Open /\ ~ApprovalMissing /\ ~late
    /\ IF PreparedEarlier
         THEN Goto("pending")
         ELSE call' = [call EXCEPT !.pc = "try", !.position = 1]
    /\ UNCHANGED <<checkpointVars, outsideVars, lost>>

\* An attempt prepared by an earlier call: dropped, over budget, or made now.
Pending ==
    /\ call.pc = "pending"
    /\ \/ /\ attempts[Active].capability \in stale
          /\ Mark(Active, "FAILED")
          /\ call' = [call EXCEPT !.pc = "try", !.position = 1]
          /\ UNCHANGED <<state, evidence>>
       \/ /\ attempts[Active].capability \notin stale
          /\ Limited /\ Stop("BLOCKED")
       \/ /\ attempts[Active].capability \notin stale
          /\ call' = [call EXCEPT !.pc = "send", !.resumed = TRUE]
          /\ UNCHANGED checkpointVars
    /\ UNCHANGED <<outsideVars, lost>>

MoreCandidates ==
    call.pc = "try" /\ call.position <= Len(Candidates(Step))

Skipped == Tried(Candidate) \/ Candidate \in stale

\* Mutation: the loop looks at the same candidate again.
SkipCandidateStays ==
    /\ MoreCandidates /\ Skipped
    /\ call' = [call EXCEPT !.position = 1]
    /\ UNCHANGED <<checkpointVars, outsideVars, lost>>

SkipCandidate ==
    /\ MoreCandidates /\ Skipped
    /\ Tried(Candidate) \/ RoomLeft
    /\ call' = [call EXCEPT !.position = @ + 1]
    /\ UNCHANGED <<checkpointVars, outsideVars, lost>>

\* The attempt is saved before its adapter is called.
Prepare ==
    /\ MoreCandidates /\ ~Skipped /\ RoomLeft
    /\ \/ Limited /\ Stop("BLOCKED")
       \/ /\ attempts' = Append(attempts, [step |-> Step, capability |-> Candidate,
                                           status |-> "PREPARED"])
          /\ call' = [call EXCEPT !.pc = "send", !.resumed = FALSE]
          /\ UNCHANGED <<state, evidence>>
    /\ UNCHANGED <<outsideVars, lost>>

GiveUp ==
    /\ call.pc = "try"
    /\ \/ ~MoreCandidates
       \/ MoreCandidates /\ ~Tried(Candidate) /\ ~RoomLeft
    /\ Stop("UNAVAILABLE")
    /\ UNCHANGED <<outsideVars, lost>>

-----------------------------------------------------------------------------
(* _invoke_attempt                                                          *)

\* IN_PROGRESS is saved before the adapter starts; without a binding it never does.
Announce ==
    /\ call.pc = "send"
    /\ IF attempts[Active].capability \in Bound
         THEN Mark(Active, "IN_PROGRESS") /\ Goto("invoke")
         ELSE Mark(Active, "FAILED") /\ Goto("failed")
    /\ UNCHANGED <<state, evidence, outsideVars, lost>>

DeadlineExpired ==
    /\ call.pc = "invoke" /\ late
    /\ Mark(Active, "FAILED") /\ Goto("failed")
    /\ UNCHANGED <<state, evidence, outsideVars, lost>>

Send ==
    /\ call.pc = "invoke" /\ ~late
    /\ Goto("wait")
    /\ UNCHANGED <<checkpointVars, outsideVars, lost>>

\* What one validator call may add
Batches(k) ==
    SUBSET {[scope |-> c, result |-> r, by |-> attempts[k].capability] :
              c \in Scopes, r \in Results}

\* Mutation: the validator is compared with the planned worker.
IndependentOfPlan(k) == Independent => attempts[k].capability # Workers[1]
IndependentOf(k) ==
    Independent => \A i \in Of("work") \cap With("SUCCEEDED") :
                       attempts[i].capability # attempts[k].capability

\* The result is accepted; a validator must have returned usable evidence.
Succeeds ==
    /\ call.pc = "wait"
    /\ Mark(Active, "SUCCEEDED")
    /\ IF Step = "work" THEN UNCHANGED evidence
       ELSE /\ IndependentOf(Active)
            /\ \E batch \in Batches(Active) \ {{}} : evidence' = evidence \cup batch
    /\ call' = [call EXCEPT !.pc = "succeeded", !.warned = cancel]
    /\ UNCHANGED <<state, outsideVars, lost>>

\* An error, a timeout or an unusable result; evidence before it is kept.
Fails ==
    /\ call.pc = "wait"
    /\ Mark(Active, "FAILED")
    /\ IF Step = "work" \/ ~IndependentOf(Active) THEN UNCHANGED evidence
       ELSE \E batch \in Batches(Active) : evidence' = evidence \cup batch
    /\ call' = [call EXCEPT !.pc = "failed", !.warned = cancel]
    /\ UNCHANGED <<state, outsideVars, lost>>

\* The marker is looked at after a failure and after a resumed attempt.
LooksForMarker == call.pc = "failed" \/ (call.pc = "succeeded" /\ call.resumed)

AfterSuccess ==
    /\ call.pc = "succeeded"
    /\ \/ LooksForMarker /\ cancel /\ Stop("CANCELLED")
       \/ /\ ~(LooksForMarker /\ cancel)
          /\ \/ Limited /\ Stop("BLOCKED")
             \/ /\ call' = [call EXCEPT !.pc = "steps", !.step = @ + 1]
                /\ UNCHANGED checkpointVars
    /\ UNCHANGED <<outsideVars, lost>>

AfterFailure ==
    /\ call.pc = "failed"
    /\ IF cancel THEN Stop("CANCELLED")
       ELSE /\ call' = [call EXCEPT !.pc = "try",
                           !.position = IF call.resumed THEN 1 ELSE @ + 1]
            /\ UNCHANGED checkpointVars
    /\ UNCHANGED <<outsideVars, lost>>

Found(result) == {e.scope : e \in {x \in evidence : x.result = result}}

\* _validation_status
Validation ==
    IF Found("FAILED") # {} THEN "FAILED"
    ELSE IF Scopes \subseteq Found("PASSED") THEN "COMPLETED" ELSE "MANUAL_REQUIRED"

Conclude ==
    /\ call.pc = "steps" /\ call.step > Len(Steps)
    /\ Stop(Validation)
    /\ UNCHANGED <<outsideVars, lost>>

-----------------------------------------------------------------------------
\* The process dies.  An adapter that was called may have had its effect.
Crash ==
    /\ call.pc # "out"
    /\ lost' = IF call.pc \in {"invoke", "wait"} THEN lost \cup {Active} ELSE lost
    /\ call' = Outside
    /\ UNCHANGED <<checkpointVars, outsideVars>>

RequestCancel ==
    /\ ~cancel /\ cancel' = TRUE
    /\ UNCHANGED <<checkpointVars, late, stale, call, lost>>
DeadlinePasses ==
    /\ ~late /\ late' = TRUE
    /\ UNCHANGED <<checkpointVars, cancel, stale, call, lost>>
HealthExpires ==
    /\ \E c \in Expiring \ stale : stale' = stale \cup {c}
    /\ UNCHANGED <<checkpointVars, cancel, late, call, lost>>

Executor ==
    \/ StepDone \/ StopBeforeStep \/ StartStep \/ Pending \/ SkipCandidate
    \/ Prepare \/ GiveUp \/ Announce \/ DeadlineExpired \/ Send \/ Succeeds
    \/ Fails \/ AfterSuccess \/ AfterFailure \/ Conclude

Next ==
    \/ Executor
    \/ \E approved \in BOOLEAN : Enter(approved)
    \/ Crash \/ RequestCancel \/ DeadlinePasses \/ HealthExpires

Spec == Init /\ [][Next]_vars

\* A call that is under way goes on: the adapter's subprocess has a timeout.
FairSpec == Spec /\ WF_vars(Executor)

-----------------------------------------------------------------------------
(* Properties                                                               *)

\* However often a call dies, the checkpoint never holds two open attempts:
\* validate_checkpoint would reject it on every later load.
CheckpointStaysLoadable ==
    \A i, k \in DOMAIN attempts :
        {attempts[i].status, attempts[k].status} \subseteq {"PREPARED", "IN_PROGRESS"}
            => i = k

\* While the outcome of an interrupted attempt is open, nothing else is sent, and
\* the attempt itself is sent again only if a repetition is harmless.
Sending == call.pc = "invoke" /\ call'.pc = "wait"
OutcomeOpen(k) == attempts[k].status \notin {"SUCCEEDED", "FAILED"}
NoBlindRepeat ==
    [][Sending => \A k \in lost :
          OutcomeOpen(k) =>
              k = Active /\ (External => attempts[k].capability \in Idempotent)]_vars

\* COMPLETED: every step has a successful attempt, every required scope passed and
\* none failed, and nobody validated what it produced if independence is required,
\* also when the work fell back to a validator of the plan.
CompletedIsValidated ==
    state = "COMPLETED" =>
        /\ \A i \in DOMAIN Steps : Successful(Steps[i])
        /\ \A c \in Scopes : \E e \in evidence : e.scope = c /\ e.result = "PASSED"
        /\ \A e \in evidence : e.result # "FAILED"
        /\ Independent => \A e \in evidence : \A k \in Of("work") :
              attempts[k].status = "SUCCEEDED" => e.by # attempts[k].capability

\* A call ends, with a report or by dying.
EveryCallReturns == call.pc # "out" ~> call.pc = "out"

\* AI_EXECUTOR.md: cancellation "is observed before invocation and between bounded
\* adapter calls": no adapter is called after one that ended under the marker.
CancellationObserved == [][call.warned => ~Sending]_vars
=============================================================================
