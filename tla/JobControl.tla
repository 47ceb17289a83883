----------------------------- MODULE JobControl -----------------------------
(***************************************************************************)
(* The deterministic job controller, orchestration_control.control.  Every *)
(* call runs under the state lock, reads one host snapshot, and writes the *)
(* whole state back atomically, so one call is one step.  A call reserves  *)
(* actions (start, resume, research, handoff, ...); effects happen at the  *)
(* host, which reports them back in a later snapshot.  All jobs share one  *)
(* budget ledger.                                                          *)
(*                                                                         *)
(* Times are abstracted: a snapshot is fresh or not, a pending action is   *)
(* expired or not, a heartbeat is due or not; the client configuration     *)
(* outlives the run.                                                       *)
(***************************************************************************)
EXTENDS Integers, FiniteSets

CONSTANTS
    Jobs,            \* jobs that share the budget
    Capabilities,    \* client capabilities of the configuration
    Autonomy,        \* cfg["autonomy"]
    MaxDispatches,   \* cfg["max_dispatches"], the shared dispatch bound
    MaxSequence,     \* bound of the model: actions emitted per job
    NoRef            \* Python's None

ASSUME ControlAssumption ==
    /\ Autonomy \in BOOLEAN
    /\ MaxDispatches \in Nat \ {0}
    /\ MaxSequence \in Nat
    /\ Capabilities \subseteq {"STATUS", "PRE_MODEL_CHECK", "START_SESSION",
          "RESUME_SESSION", "SUCCESSOR_SESSION", "NOTIFY", "RESEARCH"}
    /\ NoRef \notin Nat /\ NoRef \notin Nat \X Nat

VARIABLES
    jobs,      \* jobs[j]: the stored job record
    used,      \* ledger["used"] of the shared budget
    grants,    \* history: every START, RESUME and RESEARCH ever emitted
    held       \* history: jobs paused or cancelled by the operator and not resumed

controlVars == <<jobs, used, grants, held>>

Counted == {"START_SESSION", "RESUME_SESSION", "RESEARCH"}

NewJob ==
    [known |-> FALSE, state |-> "READY", owner |-> NoRef, generation |-> 0,
     checkpoint |-> NoRef, pending |-> {}, resumeKey |-> NoRef,
     resumeCheckpoint |-> NoRef, progressRef |-> NoRef, quiescent |-> FALSE,
     notifications |-> {}, researchKeys |-> {}, lifecycleKey |-> NoRef,
     sequence |-> 0]

ControlInit ==
    /\ jobs = [j \in Jobs |-> NewJob]
    /\ used = 0
    /\ grants = {}
    /\ held = {}

-----------------------------------------------------------------------------
(* The helpers of control().  w is the state of one call: the job, the      *)
(* shared counter, and whether an exception ended the try block.            *)

Has(cap) == cap \in Capabilities
Effects(job) == {a \in job.pending : a.kind # "NOTIFY"}

\* Mutation: an expired effect no longer blocks.
ActiveWhileFresh(job) == \E a \in Effects(job) : ~a.expired
\* An effect is outstanding until it is acknowledged, also after its deadline.
Active(job) == Effects(job) # {}

Emit(job, kind) ==
    [job EXCEPT
        !.sequence = @ + 1,
        !.pending = @ \cup {[id |-> job.sequence + 1, kind |-> kind,
                             generation |-> job.generation, expired |-> FALSE]}]

\* notify(): once per state, reason and checkpoint
Notify(job, reason) ==
    LET key == <<job.state, reason, job.checkpoint>>
    IN  IF key \in job.notifications \/ ~Has("NOTIFY") THEN job
        ELSE [Emit(job, "NOTIFY") EXCEPT !.notifications = @ \cup {key}]

NeedsInput(job, reason) == Notify([job EXCEPT !.state = "NEEDS_INPUT"], reason)

\* manual(): the call goes on.  Raise: an exception ends it with manual().
Manual(w, reason) == [w EXCEPT !.job = NeedsInput(@, reason)]
Raise(w, reason) == [Manual(w, reason) EXCEPT !.raised = TRUE]

\* reserve(): grants are counted against the shared bound.
Bounded(w) == w.used >= MaxDispatches
Reserve(w, kind) ==
    IF Bounded(w) THEN Manual(w, "DISPATCH_BOUND_REACHED")
    ELSE [w EXCEPT !.job = Emit(@, kind), !.used = @ + 1]
Granted(w, kind) == Reserve(w, kind).used > w.used

\* route_start(): the host's models and the router plan must allow it.
RouteStart(w, snap, successor) ==
    IF \/ ~Has("START_SESSION")
       \/ successor /\ ~Has("SUCCESSOR_SESSION")
       \/ ~snap.routable
      THEN Manual(w, "START_MODEL_SELECTION_REQUIRED")
    ELSE IF Granted(w, "START_SESSION")
      THEN [Reserve(w, "START_SESSION") EXCEPT !.job.state = "RUNNING"]
      ELSE Reserve(w, "START_SESSION")

\* The evidence a second continuation needs
ProgressShown(job, snap) ==
    /\ snap.progress # NoRef
    /\ snap.progress.checkpoint = job.checkpoint
    /\ snap.progress.previous = job.resumeCheckpoint
    /\ snap.progress.ref # job.progressRef

ResumeKey(job) == <<job.generation, job.checkpoint>>

\* Mutation: the continuation key is not stored.
ContinuedKeepsKey(job, snap) ==
    [job EXCEPT !.resumeCheckpoint = job.checkpoint, !.state = "RUNNING",
        !.progressRef = IF snap.progress = NoRef THEN NoRef ELSE snap.progress.ref]
\* The record after a granted continuation
Continued(job, snap) ==
    [job EXCEPT
        !.resumeKey = ResumeKey(job),
        !.resumeCheckpoint = job.checkpoint,
        !.progressRef = IF snap.progress = NoRef THEN NoRef ELSE snap.progress.ref,
        !.state = "RUNNING"]

\* resume_or_start(): one continuation per generation and checkpoint
ResumeOrStart(w, snap) ==
    LET job == w.job
        reserved == Reserve(w, "RESUME_SESSION")
    IN  IF job.owner = NoRef THEN RouteStart(w, snap, FALSE)
        ELSE IF ~Has("RESUME_SESSION")
          THEN Manual(w, "MANUAL_CONTINUATION_REQUIRED")
        ELSE IF job.resumeKey = ResumeKey(job)
          THEN [w EXCEPT !.job.state = "READY"]
        ELSE IF job.resumeKey # NoRef /\ ~ProgressShown(job, snap)
          THEN Raise(w, "PROGRESS_EVIDENCE_REQUIRED")
        ELSE IF ~Granted(w, "RESUME_SESSION") THEN reserved
        ELSE [reserved EXCEPT !.job = Continued(@, snap)]

-----------------------------------------------------------------------------
(* acknowledge(): the host reports the outcome of a pending action          *)

Drop(w, action) == [w EXCEPT !.job.pending = @ \ {action}]

StartAcknowledged(w, action, snap) ==
    IF ~snap.attested THEN Manual(w, "ACTUAL_MODEL_NOT_ATTESTED")
    ELSE IF \/ snap.owner # snap.ack.session
            \/ snap.generation # action.generation + 1
      THEN Raise(w, "SUCCESSOR_ACK_MISMATCH")
    ELSE Drop([w EXCEPT
                  !.job.owner = snap.ack.session,
                  !.job.generation = action.generation + 1,
                  !.job.resumeKey = <<action.generation + 1, snap.checkpoint>>,
                  !.job.resumeCheckpoint = snap.checkpoint,
                  !.job.quiescent = FALSE], action)

\* Mutation: an idle predecessor counts as retired.
HandoffAcknowledgedIdle(w, action, snap) ==
    IF snap.execution # "IDLE" THEN Manual(w, "PREDECESSOR_NOT_QUIESCENT")
    ELSE Drop([w EXCEPT !.job.checkpoint = snap.checkpoint,
                        !.job.quiescent = TRUE], action)
\* Mutation: the predecessor is not marked quiescent.
HandoffAcknowledgedSilently(w, action, snap) ==
    IF ~snap.ack.retired \/ snap.execution # "IDLE"
      THEN Manual(w, "PREDECESSOR_NOT_QUIESCENT")
    ELSE Drop([w EXCEPT !.job.checkpoint = snap.checkpoint], action)
HandoffAcknowledged(w, action, snap) ==
    IF \/ ~snap.ack.retired \/ snap.execution # "IDLE"
       \/ snap.checkpoint # snap.ack.checkpoint
      THEN Manual(w, "PREDECESSOR_NOT_QUIESCENT")
    ELSE IF ~snap.handoffValid
      THEN Raise(w, "HANDOFF_SCOPE_MISMATCH")
    ELSE Drop([w EXCEPT !.job.checkpoint = snap.checkpoint,
                        !.job.quiescent = TRUE], action)

Acknowledge(w, snap) ==
    IF snap.ack = NoRef \/ ~\E a \in w.job.pending : a.id = snap.ack.id THEN w
    ELSE LET action == CHOOSE a \in w.job.pending : a.id = snap.ack.id
         IN  IF action.kind = "NOTIFY" THEN Drop(w, action)
             ELSE IF snap.ack.outcome = "NOT_STARTED" /\ snap.operatorResume
               THEN Drop(w, action)
             ELSE IF snap.ack.outcome # "SUCCEEDED"
               THEN Manual(w, IF snap.ack.outcome = "UNKNOWN"
                                THEN "AMBIGUOUS_ACTION"
                                ELSE "CLIENT_ACTION_FAILED")
             ELSE IF action.kind = "START_SESSION"
               THEN StartAcknowledged(w, action, snap)
             ELSE IF action.kind = "PREPARE_HANDOFF"
               THEN HandoffAcknowledged(w, action, snap)
             ELSE Drop(w, action)

-----------------------------------------------------------------------------
(* The decision over an observed, acknowledged snapshot                     *)

Finished(snap) ==
    snap.completed /\ ~snap.workRemaining /\ snap.execution = "IDLE"

\* The digest of a lifecycle request, which a session makes at a checkpoint
LifecycleKey(snap) == <<snap.owner, snap.checkpoint>>

\* ROTATE, a lifecycle request or a quiescent predecessor.  A request names the
\* session that makes it, so it never fits a job without an owner.
Rotate(w, snap) ==
    IF w.job.quiescent THEN RouteStart(w, snap, TRUE)
    ELSE IF snap.lifecycle = NoRef THEN Manual(w, "LIFECYCLE_METADATA_REQUIRED")
    ELSE IF w.job.owner = NoRef \/ w.job.owner # snap.owner
      THEN Raise(w, "LIFECYCLE_OWNER_MISMATCH")
    ELSE IF snap.lifecycle = "ROTATE" THEN
        IF ~Has("SUCCESSOR_SESSION") THEN Manual(w, "MANUAL_SUCCESSOR_REQUIRED")
        ELSE [w EXCEPT !.job = [Emit(@, "PREPARE_HANDOFF") EXCEPT
                                   !.state = "RUNNING"]]
    ELSE IF snap.lifecycle = "CHECKPOINT" THEN
        IF w.job.lifecycleKey = LifecycleKey(snap) THEN w
        ELSE [w EXCEPT !.job = [Emit(@, "CHECKPOINT") EXCEPT
                                   !.lifecycleKey = LifecycleKey(snap)]]
    ELSE ResumeOrStart(w, snap)

Research(w, snap) ==
    IF snap.failure = NoRef THEN Raise(w, "INVALID_CONTROL_FIELDS")
    ELSE IF snap.failure \in w.job.researchKeys THEN w
    ELSE IF ~Has("RESEARCH") THEN Manual(w, "SOURCE_RESEARCH_UNAVAILABLE")
    ELSE IF ~Granted(w, "RESEARCH") THEN Reserve(w, "RESEARCH")
    ELSE [Reserve(w, "RESEARCH") EXCEPT
             !.job.researchKeys = @ \cup {snap.failure}]

Decide(w, event, snap) ==
    IF Finished(snap)
      THEN [w EXCEPT !.job =
               Notify([w.job EXCEPT !.state = "COMPLETED"], "COMPLETED")]
    ELSE IF w.job.state = "NEEDS_INPUT"
            /\ event \notin {"SOURCE_FAILED", "ACCEPT_EVIDENCE"} THEN w
    ELSE IF snap.execution = "UNKNOWN" THEN Manual(w, "EXECUTION_UNKNOWN")
    ELSE IF snap.execution \in {"RUNNING", "WAITING"}
      THEN [w EXCEPT !.job.state = snap.execution]
    ELSE IF ~snap.workRemaining \/ ~snap.executable
      THEN Manual(w, "COMPLETION_OR_NEXT_STEP_REQUIRED")
    ELSE IF ~Autonomy THEN [w EXCEPT !.job.state = "READY"]
    ELSE IF event = "SOURCE_FAILED" THEN Research(w, snap)
    ELSE IF event = "ACCEPT_EVIDENCE" THEN
        IF snap.verified THEN w
        ELSE Raise(w, "INDEPENDENT_SOURCE_VERIFICATION_REQUIRED")
    ELSE IF event = "ROTATE" \/ snap.lifecycle # NoRef \/ w.job.quiescent
      THEN Rotate(w, snap)
    ELSE ResumeOrStart(w, snap)

\* The owner and the checkpoint follow the snapshot unless the job is stopped.
Adopt(job, event, snap) ==
    IF job.state \in {"PAUSED", "NEEDS_INPUT"} THEN job
    ELSE LET owns == /\ event = "REGISTER" /\ job.owner = NoRef
                     /\ snap.owner # NoRef
         IN [job EXCEPT
                !.owner = IF owns THEN snap.owner ELSE @,
                !.generation = IF owns THEN snap.generation ELSE @,
                !.checkpoint = snap.checkpoint]

Resumable(job, snap) == snap.operatorResume /\ ~Active(job)

Late(job) == \E a \in Effects(job) : a.expired

\* Mutation: a paused job is decided about.
WaitsForEffect(job) == Active(job)
\* No decision is taken for a paused job or beside an outstanding effect.
Waits(job) == job.state = "PAUSED" \/ Active(job)

\* Everything control() does after acknowledge()
AfterAck(w, event, snap) ==
    LET job == Adopt(w.job, event, snap)
        resumed == IF event = "RESUME"
                     THEN [job EXCEPT !.state = "READY",
                                      !.checkpoint = snap.checkpoint]
                     ELSE job
        late == IF Late(resumed) THEN NeedsInput(resumed, "ACTION_ACK_TIMEOUT")
                ELSE resumed
    IN  IF /\ w.job.quiescent /\ snap.generation = w.job.generation
           /\ snap.execution # "IDLE"
          THEN Raise(w, "PREDECESSOR_REACTIVATED")
        ELSE IF event = "RESUME" /\ ~Resumable(job, snap)
          THEN Raise([w EXCEPT !.job = job], "OPERATOR_RECONCILIATION_REQUIRED")
        ELSE IF Waits(late)
          THEN [w EXCEPT !.job = late]
        ELSE Decide([w EXCEPT !.job = late], event, snap)

Observe(w, event, snap) ==
    LET acked == Acknowledge(w, snap)
    IN  IF acked.raised THEN acked ELSE AfterAck(acked, event, snap)

\* Mutation: the generation of a snapshot is not compared.
StaleOwnerOnly(job, event, snap) ==
    /\ snap.generation = job.generation
    /\ job.owner # NoRef /\ snap.owner # job.owner
\* STALE_OWNER_OBSERVATION: another generation, or another owner of this one
Stale(job, event, snap) ==
    LET adopting == event = "REGISTER" /\ job.owner = NoRef /\ job.pending = {}
        generations == {job.generation} \cup
            {a.generation + 1 : a \in {b \in job.pending : b.kind = "START_SESSION"}}
    IN  /\ ~adopting
        /\ \/ snap.generation \notin generations
           \/ /\ snap.generation = job.generation
              /\ job.owner # NoRef /\ snap.owner # job.owner

-----------------------------------------------------------------------------
(* One call per event                                                       *)

Registered(j) == jobs[j].known
Room(j) == jobs[j].sequence < MaxSequence
Terminal(job) == job.state \in {"COMPLETED", "CANCELLED"}

\* What a grant must not be repeated for
About(job, snap, action) ==
    CASE action.kind = "RESUME_SESSION" -> {ResumeKey(job)}
      [] action.kind = "RESEARCH" -> {snap.failure}
      [] OTHER -> {}

\* The new counter, record and the history of grants after a call
Commit(j, w, snap) ==
    LET job == [w.job EXCEPT !.known = TRUE]
        new == {a \in job.pending \ jobs[j].pending : a.kind \in Counted}
    IN  /\ jobs' = [jobs EXCEPT ![j] = job]
        /\ used' = w.used
        /\ grants' = grants \cup
              {[job |-> j, id |-> a.id, kind |-> a.kind,
                about |-> About(job, snap, a),
                whileHeld |-> j \in held'] : a \in new}

Start(j) == [job |-> jobs[j], used |-> used, raised |-> FALSE]

\* STATUS asks the client for a check, once and only if nothing is pending.
Status(j) ==
    /\ Registered(j) /\ Room(j)
    /\ Has("STATUS") /\ jobs[j].pending = {}
    /\ jobs[j].state \notin {"PAUSED", "COMPLETED", "CANCELLED"}
    /\ held' = held
    /\ Commit(j, [Start(j) EXCEPT !.job = Emit(@, "CHECK_STATUS")], NoRef)

\* PAUSE and CANCEL are decided before anything else about the job.
PauseOrCancel(j, event) ==
    /\ Registered(j) /\ event \in {"PAUSE", "CANCEL"}
    /\ held' = held \cup {j}
    /\ Commit(j, [Start(j) EXCEPT !.job.state =
                     IF event = "PAUSE" THEN "PAUSED" ELSE "CANCELLED"], NoRef)

\* Heartbeats are skipped while disabled or stopped.  One that is not due yet
\* changes nothing either: it is a stuttering step.
HeartbeatRuns(job) ==
    /\ Autonomy /\ Has("PRE_MODEL_CHECK")
    /\ job.state \notin {"PAUSED", "NEEDS_INPUT"}

Observed(j, event) ==
    /\ Room(j)
    /\ event = "REGISTER" \/ Registered(j)
    /\ ~Terminal(jobs[j])
    /\ event = "HEARTBEAT" => HeartbeatRuns(jobs[j])

\* The client or its snapshot is not valid: the except clause of control()
ObservationUnavailable(j, event) ==
    /\ Observed(j, event)
    /\ held' = held
    /\ Commit(j, Raise(Start(j), "CLIENT_OBSERVATION_EXPIRED"), NoRef)

\* A snapshot of a predecessor or of a foreign owner changes nothing.
ObservationRejected(j, event, snap) ==
    /\ Observed(j, event)
    /\ Registered(j)
    /\ Stale(jobs[j], event, snap)
    /\ UNCHANGED controlVars

ObservationUsed(j, event, snap) ==
    /\ Observed(j, event)
    /\ ~Stale(jobs[j], event, snap)
    /\ LET w == Observe(Start(j), event, snap)
       IN  /\ held' = IF event = "RESUME" /\ ~w.raised THEN held \ {j} ELSE held
           /\ Commit(j, w, snap)
=============================================================================
