------------------------- MODULE HostedJobs_proofs -------------------------
(***************************************************************************)
(* For any number of jobs, every configuration, host and report: a job has *)
(* at most one outstanding effect, no continuation and no research is      *)
(* granted twice, a pause holds, the snapshot of a predecessor changes     *)
(* nothing, a successor follows the retirement of its predecessor, and a   *)
(* retired chat is never continued.                                        *)
(*                                                                         *)
(* The proofs never expand a whole call.  Each helper of control() has a   *)
(* lemma that says what it does to the record: it either leaves alone what *)
(* the grants are decided from ("quiet"), or it emits one effect under the *)
(* condition that belongs to the effect's kind ("emits").  IInv is about   *)
(* the records and the grants; OwnersInv relates the record of a job to    *)
(* the chats, the acknowledgements and the snapshots of the host.          *)
(***************************************************************************)
EXTENDS HostedJobs, FiniteSetTheorems, SequenceTheorems, TLAPS

Refs == Nat \cup {NoRef}
Keys == Nat \X Nat
States == {"READY", "RUNNING", "WAITING", "NEEDS_INPUT", "PAUSED", "COMPLETED",
           "CANCELLED"}
EffectKinds == {"START_SESSION", "RESUME_SESSION", "RESEARCH", "PREPARE_HANDOFF",
                "CHECKPOINT", "CHECK_STATUS"}
Actions == [id : Nat, kind : EffectKinds \cup {"NOTIFY"}, generation : Nat,
            expired : BOOLEAN]
Reasons ==
    {"ACTION_ACK_TIMEOUT", "ACTUAL_MODEL_NOT_ATTESTED", "AMBIGUOUS_ACTION",
     "CLIENT_ACTION_FAILED", "CLIENT_OBSERVATION_EXPIRED", "COMPLETED",
     "COMPLETION_OR_NEXT_STEP_REQUIRED", "DISPATCH_BOUND_REACHED",
     "EXECUTION_UNKNOWN", "HANDOFF_SCOPE_MISMATCH",
     "INDEPENDENT_SOURCE_VERIFICATION_REQUIRED", "INVALID_CONTROL_FIELDS",
     "LIFECYCLE_METADATA_REQUIRED", "LIFECYCLE_OWNER_MISMATCH",
     "MANUAL_CONTINUATION_REQUIRED", "MANUAL_SUCCESSOR_REQUIRED",
     "OPERATOR_RECONCILIATION_REQUIRED", "PREDECESSOR_NOT_QUIESCENT",
     "PREDECESSOR_REACTIVATED", "PROGRESS_EVIDENCE_REQUIRED",
     "SOURCE_RESEARCH_UNAVAILABLE", "START_MODEL_SELECTION_REQUIRED",
     "SUCCESSOR_ACK_MISMATCH"}
Failures == {report.failure : report \in Reports}

Records ==
    [known : BOOLEAN, state : States, owner : Refs, generation : Nat,
     checkpoint : Refs, pending : SUBSET Actions, resumeKey : Keys \cup {NoRef},
     resumeCheckpoint : Refs, progressRef : Refs, quiescent : BOOLEAN,
     notifications : SUBSET (States \X Reasons \X Refs),
     researchKeys : SUBSET Failures, lifecycleKey : (Refs \X Nat) \cup {NoRef},
     sequence : Nat]
Calls == [job : Records, used : Nat, raised : BOOLEAN]

Acks == [id : Nat, outcome : {"SUCCEEDED", "UNKNOWN", "FAILED", "NOT_STARTED"}, retired : BOOLEAN,
         session : Nat, checkpoint : Nat]
Snapshots == [generation : Nat, owner : Refs, running : BOOLEAN, checkpoint : Nat,
              base : Nat, ack : Acks \cup {NoRef}]
Hosts == [generation : Nat, checkpoint : Nat, base : Nat, ack : Acks \cup {NoRef},
          late : Snapshots \cup {NoRef}, settled : SUBSET Nat]
Grants == [job : Jobs, id : Nat, kind : Counted, about : SUBSET (Keys \cup Failures),
           whileHeld : BOOLEAN]

HostTypeOK ==
    /\ tray \in [Jobs -> SUBSET Nat]
    /\ chats \in [Jobs -> Seq({"idle", "running", "retired"})]
    /\ host \in [Jobs -> Hosts]
    /\ view \in [Jobs -> Snapshots]
TypeOK ==
    /\ jobs \in [Jobs -> Records]
    /\ used \in Nat
    /\ grants \subseteq Grants
    /\ held \subseteq Jobs
    /\ HostTypeOK

-----------------------------------------------------------------------------
(* What one helper does to the record                                       *)

\* What the grants are decided from, besides the state and the effects
SameBasis(job, new) ==
    /\ new.owner = job.owner
    /\ new.generation = job.generation
    /\ new.checkpoint = job.checkpoint
    /\ new.resumeKey = job.resumeKey
    /\ new.resumeCheckpoint = job.resumeCheckpoint
    /\ new.researchKeys = job.researchKeys
    /\ new.quiescent = job.quiescent

Quiet(job, new) == SameBasis(job, new) /\ Effects(new) = Effects(job)

\* One more action of the record's generation
Adds(job, new, kind) ==
    \E a \in Actions :
        /\ a.kind = kind /\ a.generation = job.generation /\ ~a.expired
        /\ new.pending = job.pending \cup {a}

LEMMA EmitAdds ==
    ASSUME NEW job \in Records, NEW kind \in EffectKinds \cup {"NOTIFY"}
    PROVE  /\ Emit(job, kind) \in Records
           /\ SameBasis(job, Emit(job, kind))
           /\ Emit(job, kind).state = job.state
           /\ Adds(job, Emit(job, kind), kind)
<1> DEFINE a == [id |-> job.sequence + 1, kind |-> kind,
                 generation |-> job.generation, expired |-> FALSE]
<1>1. a \in Actions
    BY DEF Records, Actions
<1>2. /\ Emit(job, kind).pending = job.pending \cup {a}
      /\ Emit(job, kind).state = job.state
      /\ SameBasis(job, Emit(job, kind))
    BY DEF Emit, Records, SameBasis
<1> HIDE DEF a
<1>3. job.pending \cup {a} \in SUBSET Actions /\ job.sequence + 1 \in Nat
    BY <1>1 DEF Records
<1>4. [job EXCEPT !.sequence = job.sequence + 1, !.pending = job.pending \cup {a}]
          \in Records
    BY <1>3 DEF Records
<1>5. Emit(job, kind) \in Records
    BY <1>4 DEF Emit, a
<1> QED BY <1>1, <1>2, <1>5 DEF Adds, a

\* A notification is no effect.
LEMMA NotifyQuiet ==
    ASSUME NEW job \in Records, NEW reason \in Reasons
    PROVE  /\ Notify(job, reason) \in Records
           /\ Quiet(job, Notify(job, reason))
           /\ Notify(job, reason).state = job.state
<1> DEFINE key == <<job.state, reason, job.checkpoint>>
           new == Emit(job, "NOTIFY")
<1>1. CASE key \in job.notifications \/ ~Has("NOTIFY")
    BY <1>1 DEF Notify, Quiet, SameBasis
<1>2. CASE ~(key \in job.notifications \/ ~Has("NOTIFY"))
  <2>1. Notify(job, reason) = [new EXCEPT !.notifications = @ \cup {key}]
      BY <1>2 DEF Notify
  <2>2. /\ new \in Records /\ SameBasis(job, new) /\ new.state = job.state
        /\ Adds(job, new, "NOTIFY")
      BY EmitAdds
  <2>3. key \in States \X Reasons \X Refs
      BY DEF Records
  <2>4. Notify(job, reason) \in Records
      BY <2>1, <2>2, <2>3 DEF Records
  <2>5. /\ Notify(job, reason).state = job.state
        /\ SameBasis(job, Notify(job, reason))
        /\ Notify(job, reason).pending = new.pending
      BY <2>1, <2>2 DEF Records, SameBasis
  <2>6. Effects(new) = Effects(job)
      BY <2>2 DEF Adds, Effects
  <2> QED BY <2>4, <2>5, <2>6 DEF Quiet, Effects
<1> QED BY <1>1, <1>2

LEMMA NeedsInputQuiet ==
    ASSUME NEW job \in Records, NEW reason \in Reasons
    PROVE  /\ NeedsInput(job, reason) \in Records
           /\ Quiet(job, NeedsInput(job, reason))
           /\ NeedsInput(job, reason).state = "NEEDS_INPUT"
<1> DEFINE asked == [job EXCEPT !.state = "NEEDS_INPUT"]
<1>1. /\ asked \in Records /\ Quiet(job, asked) /\ asked.state = "NEEDS_INPUT"
    BY DEF Records, States, Quiet, SameBasis, Effects
<1>2. /\ Notify(asked, reason) \in Records
      /\ Quiet(asked, Notify(asked, reason))
      /\ Notify(asked, reason).state = asked.state
    BY <1>1, NotifyQuiet
<1> QED BY <1>1, <1>2 DEF NeedsInput, Quiet, SameBasis

\* manual() and an exception leave what the grants are decided from.
LEMMA ManualQuiet ==
    ASSUME NEW w \in Calls, NEW reason \in Reasons
    PROVE  /\ Manual(w, reason) \in Calls /\ Raise(w, reason) \in Calls
           /\ Quiet(w.job, Manual(w, reason).job)
           /\ Quiet(w.job, Raise(w, reason).job)
           /\ Manual(w, reason).raised = w.raised /\ Raise(w, reason).raised
           /\ Manual(w, reason).used = w.used
<1>1. w.job \in Records
    BY DEF Calls
<1>2. /\ NeedsInput(w.job, reason) \in Records
      /\ Quiet(w.job, NeedsInput(w.job, reason))
    BY <1>1, NeedsInputQuiet
<1> QED BY <1>2 DEF Manual, Raise, Calls

-----------------------------------------------------------------------------
(* What a decision does                                                     *)

\* What control() may rely on in a snapshot: the progress it names is progress.
Observation(snap) ==
    /\ snap.generation \in Nat /\ snap.owner \in Refs /\ snap.checkpoint \in Nat
    /\ snap.ack \in Acks \cup {NoRef}
    /\ snap.failure \in Failures
    /\ snap.progress # NoRef =>
          /\ snap.progress.ref \in Nat
          /\ snap.progress.checkpoint \in Nat /\ snap.progress.previous \in Nat
          /\ snap.progress.previous < snap.progress.checkpoint

\* A continuation is new for the generation and checkpoint, and stored.
Continues(job, snap, new) ==
    /\ job.owner # NoRef /\ ~job.quiescent /\ job.checkpoint \in Nat
    /\ job.resumeKey # ResumeKey(job)
    /\ job.resumeKey # NoRef => ProgressShown(job, snap)
    /\ new.resumeKey = ResumeKey(job) /\ new.resumeCheckpoint = job.checkpoint
    /\ new.researchKeys = job.researchKeys
\* A research is new for the failure, and stored.
Researches(job, snap, new) ==
    /\ snap.failure \notin job.researchKeys
    /\ new.researchKeys = job.researchKeys \cup {snap.failure}
    /\ new.resumeKey = job.resumeKey
    /\ new.resumeCheckpoint = job.resumeCheckpoint
\* A start has no predecessor, or one that is quiescent.
Succeeds(job, new) == SameBasis(job, new) /\ (job.owner = NoRef \/ job.quiescent)

\* A handoff has an owner that is not quiescent yet.
HandsOver(job, new) == SameBasis(job, new) /\ job.owner # NoRef /\ ~job.quiescent

Justified(a, job, snap, new) ==
    \/ a.kind = "RESUME_SESSION" /\ Continues(job, snap, new)
    \/ a.kind = "RESEARCH" /\ Researches(job, snap, new)
    \/ a.kind = "START_SESSION" /\ Succeeds(job, new)
    \/ a.kind = "PREPARE_HANDOFF" /\ HandsOver(job, new)
    \/ a.kind = "CHECKPOINT" /\ SameBasis(job, new)

\* One effect is emitted, and it is justified.
Emits(job, snap, new) ==
    \E a \in Actions :
        /\ a.generation = job.generation /\ ~a.expired
        /\ Effects(new) = Effects(job) \cup {a}
        /\ new.owner = job.owner /\ new.generation = job.generation
        /\ new.checkpoint = job.checkpoint /\ new.quiescent = job.quiescent
        /\ Justified(a, job, snap, new)

Decided(w, snap, new) ==
    /\ new \in Calls
    /\ \/ Quiet(w.job, new.job)
       \/ Emits(w.job, snap, new.job) /\ new.raised = w.raised

\* reserve() is quiet at the bound and adds the action below it.
LEMMA ReserveAdds ==
    ASSUME NEW w \in Calls, NEW kind \in EffectKinds
    PROVE  /\ Reserve(w, kind) \in Calls
           /\ Reserve(w, kind).raised = w.raised
           /\ ~Granted(w, kind) => Quiet(w.job, Reserve(w, kind).job)
           /\ Granted(w, kind) => /\ SameBasis(w.job, Reserve(w, kind).job)
                                  /\ Adds(w.job, Reserve(w, kind).job, kind)
<1>1. w.job \in Records /\ w.used \in Nat
    BY DEF Calls
<1>2. CASE Bounded(w)
  <2>1. Reserve(w, kind) = Manual(w, "DISPATCH_BOUND_REACHED")
      BY <1>2 DEF Reserve
  <2>2. /\ Reserve(w, kind) \in Calls /\ Reserve(w, kind).raised = w.raised
        /\ Reserve(w, kind).used = w.used
        /\ Quiet(w.job, Reserve(w, kind).job)
      BY <2>1, ManualQuiet DEF Reasons
  <2>3. ~Granted(w, kind)
      BY <1>1, <2>2 DEF Granted
  <2> QED BY <2>2, <2>3
<1>3. CASE ~Bounded(w)
  <2>1. Reserve(w, kind) = [w EXCEPT !.job = Emit(w.job, kind), !.used = w.used + 1]
      BY <1>3 DEF Reserve
  <2>2. /\ Emit(w.job, kind) \in Records /\ SameBasis(w.job, Emit(w.job, kind))
        /\ Adds(w.job, Emit(w.job, kind), kind)
      BY <1>1, EmitAdds
  <2> DEFINE emitted == Emit(w.job, kind)
  <2> HIDE DEF emitted
  <2>3. emitted \in Records /\ w.used + 1 \in Nat
      BY <2>2, <1>1 DEF emitted
  <2>4. Reserve(w, kind) = [w EXCEPT !.job = emitted, !.used = w.used + 1]
      BY <2>1 DEF emitted
  <2>5. /\ Reserve(w, kind) \in Calls /\ Reserve(w, kind).raised = w.raised
        /\ Reserve(w, kind).used = w.used + 1
        /\ Reserve(w, kind).job = Emit(w.job, kind)
      BY <2>3, <2>4 DEF Calls, emitted
  <2>6. Granted(w, kind)
      BY <1>1, <2>5 DEF Granted
  <2> QED BY <2>2, <2>5, <2>6
<1> QED BY <1>2, <1>3

\* An added action of another kind than NOTIFY is an added effect.
LEMMA AddsEffect ==
    ASSUME NEW job, NEW new, NEW kind \in EffectKinds, Adds(job, new, kind)
    PROVE  \E a \in Actions :
              /\ a.kind = kind /\ a.generation = job.generation /\ ~a.expired
              /\ Effects(new) = Effects(job) \cup {a}
<1>1. PICK a \in Actions :
          /\ a.kind = kind /\ a.generation = job.generation /\ ~a.expired
          /\ new.pending = job.pending \cup {a}
    BY DEF Adds
<1>2. a.kind # "NOTIFY"
    BY <1>1 DEF EffectKinds
<1>3. Effects(new) = Effects(job) \cup {a}
    BY <1>1, <1>2 DEF Effects
<1> QED BY <1>1, <1>3

LEMMA RouteStartDecided ==
    ASSUME NEW w \in Calls, NEW snap, NEW successor \in BOOLEAN,
           w.job.owner = NoRef \/ w.job.quiescent
    PROVE  Decided(w, snap, RouteStart(w, snap, successor))
<1> DEFINE reserved == Reserve(w, "START_SESSION")
<1>1. CASE RouteStart(w, snap, successor) = Manual(w, "START_MODEL_SELECTION_REQUIRED")
    BY <1>1, ManualQuiet DEF Decided, Reasons
<1>2. CASE ~Granted(w, "START_SESSION") /\ RouteStart(w, snap, successor) = reserved
    BY <1>2, ReserveAdds DEF Decided, EffectKinds
<1>3. CASE /\ Granted(w, "START_SESSION")
           /\ RouteStart(w, snap, successor) = [reserved EXCEPT !.job.state = "RUNNING"]
  <2> DEFINE new == RouteStart(w, snap, successor)
  <2>1. /\ reserved \in Calls /\ reserved.raised = w.raised
        /\ SameBasis(w.job, reserved.job) /\ Adds(w.job, reserved.job, "START_SESSION")
      BY <1>3, ReserveAdds DEF EffectKinds
  <2>2. reserved.job \in Records
      BY <2>1 DEF Calls
  <2> HIDE DEF reserved
  <2>3. new = [reserved EXCEPT !.job = [reserved.job EXCEPT !.state = "RUNNING"]]
      BY <1>3
  <2> HIDE DEF new
  <2>4. [reserved.job EXCEPT !.state = "RUNNING"] \in Records
      BY <2>2 DEF Records, States
  <2>5. /\ new \in Calls /\ new.raised = w.raised
        /\ new.job = [reserved.job EXCEPT !.state = "RUNNING"]
      BY <2>1, <2>3, <2>4 DEF Calls
  <2>6. SameBasis(w.job, new.job) /\ new.job.pending = reserved.job.pending
      BY <2>1, <2>2, <2>5 DEF SameBasis, Records
  <2>7. Adds(w.job, new.job, "START_SESSION")
      BY <2>1, <2>6 DEF Adds
  <2>8. Emits(w.job, snap, new.job)
      BY <2>6, <2>7, AddsEffect
         DEF Emits, Justified, Succeeds, SameBasis, EffectKinds
  <2> QED BY <2>5, <2>8 DEF Decided, new
<1> QED BY <1>1, <1>2, <1>3 DEF RouteStart

\* A state change and the keys of a continuation do not touch the effects.
LEMMA ContinuedRecord ==
    ASSUME NEW job \in Records, NEW snap, Observation(snap), job.checkpoint \in Nat
    PROVE  /\ Continued(job, snap) \in Records
           /\ Continued(job, snap).pending = job.pending
           /\ Continued(job, snap).resumeKey = ResumeKey(job)
           /\ Continued(job, snap).resumeCheckpoint = job.checkpoint
           /\ Continued(job, snap).owner = job.owner
           /\ Continued(job, snap).generation = job.generation
           /\ Continued(job, snap).checkpoint = job.checkpoint
           /\ Continued(job, snap).quiescent = job.quiescent
           /\ Continued(job, snap).researchKeys = job.researchKeys
<1> DEFINE ref == IF snap.progress = NoRef THEN NoRef ELSE snap.progress.ref
<1>1. ref \in Refs
    BY DEF Observation, Refs
<1> HIDE DEF ref
<1>2. ResumeKey(job) \in Keys
    BY DEF ResumeKey, Keys, Records
<1>3. Continued(job, snap) =
          [job EXCEPT !.resumeKey = ResumeKey(job), !.resumeCheckpoint = job.checkpoint,
              !.progressRef = ref, !.state = "RUNNING"]
    BY DEF Continued, ref
<1> QED BY <1>1, <1>2, <1>3 DEF Records, States

LEMMA ResumeDecided ==
    ASSUME NEW w \in Calls, NEW snap, Observation(snap),
           w.job.checkpoint \in Nat, ~w.job.quiescent
    PROVE  Decided(w, snap, ResumeOrStart(w, snap))
<1> DEFINE reserved == Reserve(w, "RESUME_SESSION")
           new == ResumeOrStart(w, snap)
<1>0. w.job \in Records
    BY DEF Calls
<1>1. CASE w.job.owner = NoRef
  <2>1. new = RouteStart(w, snap, FALSE)
      BY <1>1 DEF ResumeOrStart
  <2> QED BY <1>1, <2>1, RouteStartDecided
<1>2. CASE \/ new = Manual(w, "MANUAL_CONTINUATION_REQUIRED")
           \/ new = Raise(w, "PROGRESS_EVIDENCE_REQUIRED")
    BY <1>2, ManualQuiet DEF Decided, Reasons
<1>3. CASE new = [w EXCEPT !.job.state = "READY"]
  <2>1. [w.job EXCEPT !.state = "READY"] \in Records
      BY <1>0 DEF Records, States
  <2>2. new \in Calls /\ new.job = [w.job EXCEPT !.state = "READY"]
      BY <1>3, <2>1 DEF Calls
  <2>3. Quiet(w.job, new.job)
      BY <1>0, <2>2 DEF Records, Quiet, SameBasis, Effects
  <2> QED BY <2>2, <2>3 DEF Decided
<1>4. CASE ~Granted(w, "RESUME_SESSION") /\ new = reserved
    BY <1>4, ReserveAdds DEF Decided, EffectKinds
<1>5. CASE /\ w.job.owner # NoRef
           /\ w.job.resumeKey # ResumeKey(w.job)
           /\ w.job.resumeKey # NoRef => ProgressShown(w.job, snap)
           /\ Granted(w, "RESUME_SESSION")
           /\ new = [reserved EXCEPT !.job = Continued(reserved.job, snap)]
  <2>1. /\ reserved \in Calls /\ reserved.raised = w.raised
        /\ SameBasis(w.job, reserved.job)
        /\ Adds(w.job, reserved.job, "RESUME_SESSION")
      BY <1>5, ReserveAdds DEF EffectKinds
  <2> HIDE DEF reserved
  <2>2. reserved.job \in Records /\ reserved.job.checkpoint \in Nat
      BY <2>1 DEF Calls, SameBasis
  <2> DEFINE continued == Continued(reserved.job, snap)
  <2>3. /\ continued \in Records /\ continued.pending = reserved.job.pending
        /\ continued.resumeKey = ResumeKey(reserved.job)
        /\ continued.resumeCheckpoint = reserved.job.checkpoint
        /\ continued.owner = reserved.job.owner
        /\ continued.generation = reserved.job.generation
        /\ continued.checkpoint = reserved.job.checkpoint
        /\ continued.quiescent = reserved.job.quiescent
        /\ continued.researchKeys = reserved.job.researchKeys
      BY <2>2, ContinuedRecord
  <2> HIDE DEF continued
  <2>4. new = [reserved EXCEPT !.job = continued]
      BY <1>5 DEF continued
  <2> HIDE DEF new
  <2>5. new \in Calls /\ new.raised = w.raised /\ new.job = continued
      BY <2>1, <2>3, <2>4 DEF Calls
  <2>6. Adds(w.job, continued, "RESUME_SESSION")
      BY <2>1, <2>3 DEF Adds
  <2>7. Continues(w.job, snap, continued)
      BY <1>5, <2>1, <2>2, <2>3 DEF Continues, SameBasis, ResumeKey
  <2>8. PICK a \in Actions :
            /\ a.kind = "RESUME_SESSION" /\ a.generation = w.job.generation
            /\ ~a.expired /\ Effects(continued) = Effects(w.job) \cup {a}
      BY <2>6, AddsEffect DEF EffectKinds
  <2>9. Emits(w.job, snap, continued)
      BY <2>1, <2>3, <2>7, <2>8 DEF Emits, Justified, SameBasis
  <2> QED BY <2>5, <2>9 DEF Decided, new
<1> QED BY <1>1, <1>2, <1>3, <1>4, <1>5 DEF ResumeOrStart

\* An action that is not counted, with a change of fields no grant depends on
LEMMA UncountedDecided ==
    ASSUME NEW w \in Calls, NEW snap, NEW new, NEW job \in Records,
           NEW kind \in {"PREPARE_HANDOFF", "CHECKPOINT"},
           kind = "PREPARE_HANDOFF" => w.job.owner # NoRef /\ ~w.job.quiescent,
           SameBasis(Emit(w.job, kind), job), job.pending = Emit(w.job, kind).pending,
           new = [w EXCEPT !.job = job]
    PROVE  Decided(w, snap, new)
<1> DEFINE emitted == Emit(w.job, kind)
<1>1. w.job \in Records
    BY DEF Calls
<1>2. SameBasis(w.job, emitted) /\ Adds(w.job, emitted, kind)
    BY <1>1, EmitAdds DEF EffectKinds
<1> HIDE DEF emitted
<1>3. SameBasis(w.job, job) /\ Adds(w.job, job, kind)
    BY <1>2 DEF SameBasis, Adds, emitted
<1>4. PICK a \in Actions :
          /\ a.kind = kind /\ a.generation = w.job.generation
          /\ ~a.expired /\ Effects(job) = Effects(w.job) \cup {a}
    BY <1>3, AddsEffect DEF EffectKinds
<1>5. Emits(w.job, snap, job)
    BY <1>3, <1>4 DEF Emits, Justified, HandsOver, SameBasis
<1>6. new \in Calls /\ new.job = job /\ new.raised = w.raised
    BY DEF Calls
<1> QED BY <1>5, <1>6 DEF Decided

LEMMA RotateDecided ==
    ASSUME NEW w \in Calls, NEW snap, Observation(snap), w.job.checkpoint \in Nat
    PROVE  Decided(w, snap, Rotate(w, snap))
<1> DEFINE new == Rotate(w, snap)
<1>0. w.job \in Records
    BY DEF Calls
<1>1. CASE w.job.quiescent
  <2>1. new = RouteStart(w, snap, TRUE)
      BY <1>1 DEF Rotate
  <2> QED BY <1>1, <2>1, RouteStartDecided
<1>2. CASE \/ new = Manual(w, "LIFECYCLE_METADATA_REQUIRED")
           \/ new = Raise(w, "LIFECYCLE_OWNER_MISMATCH")
           \/ new = Manual(w, "MANUAL_SUCCESSOR_REQUIRED")
    BY <1>2, ManualQuiet DEF Decided, Reasons
<1>3. CASE /\ w.job.owner # NoRef /\ ~w.job.quiescent
           /\ new = [w EXCEPT !.job =
                        [Emit(w.job, "PREPARE_HANDOFF") EXCEPT !.state = "RUNNING"]]
  <2> DEFINE emitted == Emit(w.job, "PREPARE_HANDOFF")
             job == [emitted EXCEPT !.state = "RUNNING"]
  <2>1. emitted \in Records
      BY <1>0, EmitAdds DEF EffectKinds
  <2> HIDE DEF emitted
  <2>2. job \in Records /\ SameBasis(emitted, job) /\ job.pending = emitted.pending
      BY <2>1 DEF Records, SameBasis, States
  <2>3. new = [w EXCEPT !.job = job]
      BY <1>3 DEF emitted
  <2> HIDE DEF job
  <2> QED BY <1>3, <2>2, <2>3, UncountedDecided DEF emitted
<1>4. CASE new = w
    BY <1>4, <1>0 DEF Decided, Quiet, SameBasis
<1>5. CASE new = [w EXCEPT !.job = [Emit(w.job, "CHECKPOINT") EXCEPT
                                       !.lifecycleKey = LifecycleKey(snap)]]
  <2> DEFINE emitted == Emit(w.job, "CHECKPOINT")
             job == [emitted EXCEPT !.lifecycleKey = LifecycleKey(snap)]
  <2>1. emitted \in Records
      BY <1>0, EmitAdds DEF EffectKinds
  <2>2. LifecycleKey(snap) \in Refs \X Nat
      BY DEF LifecycleKey, Observation
  <2> HIDE DEF emitted
  <2>3. job \in Records /\ SameBasis(emitted, job) /\ job.pending = emitted.pending
      BY <2>1, <2>2 DEF Records, SameBasis
  <2>4. new = [w EXCEPT !.job = job]
      BY <1>5 DEF emitted
  <2> HIDE DEF job
  <2> QED BY <2>3, <2>4, UncountedDecided DEF emitted
<1>6. CASE ~w.job.quiescent /\ new = ResumeOrStart(w, snap)
    BY <1>6, ResumeDecided
<1> QED BY <1>1, <1>2, <1>3, <1>4, <1>5, <1>6 DEF Rotate

LEMMA ResearchDecided ==
    ASSUME NEW w \in Calls, NEW snap, Observation(snap)
    PROVE  Decided(w, snap, Research(w, snap))
<1> DEFINE new == Research(w, snap)
           reserved == Reserve(w, "RESEARCH")
<1>0. w.job \in Records
    BY DEF Calls
<1>1. CASE \/ new = Raise(w, "INVALID_CONTROL_FIELDS")
           \/ new = Manual(w, "SOURCE_RESEARCH_UNAVAILABLE")
    BY <1>1, ManualQuiet DEF Decided, Reasons
<1>2. CASE new = w
    BY <1>2, <1>0 DEF Decided, Quiet, SameBasis
<1>3. CASE ~Granted(w, "RESEARCH") /\ new = reserved
    BY <1>3, ReserveAdds DEF Decided, EffectKinds
<1>4. CASE /\ snap.failure \notin w.job.researchKeys
           /\ Granted(w, "RESEARCH")
           /\ new = [reserved EXCEPT !.job.researchKeys = @ \cup {snap.failure}]
  <2>1. /\ reserved \in Calls /\ reserved.raised = w.raised
        /\ SameBasis(w.job, reserved.job) /\ Adds(w.job, reserved.job, "RESEARCH")
      BY <1>4, ReserveAdds DEF EffectKinds
  <2> HIDE DEF reserved
  <2>2. reserved.job \in Records
      BY <2>1 DEF Calls
  <2> DEFINE keys == reserved.job.researchKeys \cup {snap.failure}
             job == [reserved.job EXCEPT !.researchKeys = keys]
  <2>3. keys \in SUBSET Failures
      BY <2>2 DEF Records, Observation
  <2>4. new = [reserved EXCEPT !.job = job]
      BY <1>4
  <2>5. keys = w.job.researchKeys \cup {snap.failure}
      BY <2>1 DEF SameBasis
  <2> HIDE DEF keys
  <2>6. /\ job \in Records /\ job.pending = reserved.job.pending
        /\ job.researchKeys = keys
        /\ job.owner = reserved.job.owner
        /\ job.generation = reserved.job.generation
        /\ job.checkpoint = reserved.job.checkpoint
        /\ job.quiescent = reserved.job.quiescent
        /\ job.resumeKey = reserved.job.resumeKey
        /\ job.resumeCheckpoint = reserved.job.resumeCheckpoint
      BY <2>2, <2>3 DEF Records
  <2> HIDE DEF new, job
  <2>7. new \in Calls /\ new.raised = w.raised /\ new.job = job
      BY <2>1, <2>4, <2>6 DEF Calls
  <2>8. Researches(w.job, snap, job)
      BY <1>4, <2>1, <2>5, <2>6 DEF Researches, SameBasis
  <2>9. Adds(w.job, job, "RESEARCH")
      BY <2>1, <2>6 DEF Adds
  <2>10. PICK a \in Actions :
            /\ a.kind = "RESEARCH" /\ a.generation = w.job.generation
            /\ ~a.expired /\ Effects(job) = Effects(w.job) \cup {a}
      BY <2>9, AddsEffect DEF EffectKinds
  <2>11. Emits(w.job, snap, job)
      BY <2>1, <2>6, <2>8, <2>10 DEF Emits, Justified, SameBasis
  <2> QED BY <2>7, <2>11 DEF Decided, new
<1> QED BY <1>1, <1>2, <1>3, <1>4 DEF Research

\* The decision as a whole: quiet, or one justified effect
LEMMA DecideDecided ==
    ASSUME NEW w \in Calls, NEW event, NEW snap, Observation(snap),
           w.job.state # "NEEDS_INPUT" => w.job.checkpoint \in Nat
    PROVE  Decided(w, snap, Decide(w, event, snap))
<1> DEFINE new == Decide(w, event, snap)
<1>0. w.job \in Records
    BY DEF Calls
<1>1. CASE new = [w EXCEPT !.job =
                     Notify([w.job EXCEPT !.state = "COMPLETED"], "COMPLETED")]
  <2> DEFINE done == [w.job EXCEPT !.state = "COMPLETED"]
  <2>1. done \in Records /\ Quiet(w.job, done)
      BY <1>0 DEF Records, States, Quiet, SameBasis, Effects
  <2> HIDE DEF done
  <2>2. /\ Notify(done, "COMPLETED") \in Records
        /\ Quiet(done, Notify(done, "COMPLETED"))
      BY <2>1, NotifyQuiet DEF Reasons
  <2>3. new \in Calls /\ new.job = Notify(done, "COMPLETED")
      BY <1>1, <2>2 DEF Calls, done
  <2> QED BY <2>1, <2>2, <2>3 DEF Decided, Quiet, SameBasis
<1>2. CASE new = w
    BY <1>2, <1>0 DEF Decided, Quiet, SameBasis
<1>3. CASE \/ new = Manual(w, "EXECUTION_UNKNOWN")
           \/ new = Manual(w, "COMPLETION_OR_NEXT_STEP_REQUIRED")
           \/ new = Raise(w, "INDEPENDENT_SOURCE_VERIFICATION_REQUIRED")
    BY <1>3, ManualQuiet DEF Decided, Reasons
<1>4. CASE \E state \in {"READY", "RUNNING", "WAITING"} :
              new = [w EXCEPT !.job.state = state]
  <2>1. PICK state \in {"READY", "RUNNING", "WAITING"} :
            new = [w EXCEPT !.job.state = state]
      BY <1>4
  <2> DEFINE job == [w.job EXCEPT !.state = state]
  <2>2. job \in Records /\ Quiet(w.job, job)
      BY <1>0, <2>1 DEF Records, States, Quiet, SameBasis, Effects
  <2>3. new = [w EXCEPT !.job = job]
      BY <2>1
  <2> HIDE DEF job
  <2>4. new \in Calls /\ new.job = job
      BY <2>2, <2>3 DEF Calls
  <2> QED BY <2>2, <2>4 DEF Decided
<1>5. CASE new = Research(w, snap)
    BY <1>5, ResearchDecided
<1>6. CASE new = Rotate(w, snap) /\ w.job.state # "NEEDS_INPUT"
    BY <1>6, RotateDecided
<1>7. CASE /\ new = ResumeOrStart(w, snap) /\ w.job.state # "NEEDS_INPUT"
           /\ ~w.job.quiescent
    BY <1>7, ResumeDecided
<1> QED BY <1>1, <1>2, <1>3, <1>4, <1>5, <1>6, <1>7 DEF Decide

-----------------------------------------------------------------------------
(* What an acknowledgement does                                             *)

\* The record is left alone, or the effect stays outstanding with a question.
Kept(w, new) ==
    /\ Quiet(w.job, new.job)
    /\ new.raised \/ new.job.state # w.job.state => Active(w.job)

StartConfirmed(job, a, snap, new) ==
    /\ a.kind = "START_SESSION"
    /\ snap.ack.outcome = "SUCCEEDED"
    /\ snap.owner = snap.ack.session /\ snap.generation = a.generation + 1
    /\ new.owner = snap.owner /\ new.generation = snap.generation
    /\ new.resumeKey = <<snap.generation, snap.checkpoint>>
    /\ new.resumeCheckpoint = snap.checkpoint
    /\ new.checkpoint = job.checkpoint
    /\ new.researchKeys = job.researchKeys
    /\ ~new.quiescent
HandoffConfirmed(job, a, snap, new) ==
    /\ a.kind = "PREPARE_HANDOFF"
    /\ snap.ack.outcome = "SUCCEEDED" /\ snap.ack.retired
    /\ new.checkpoint = snap.checkpoint /\ new.quiescent
    /\ new.owner = job.owner /\ new.generation = job.generation
    /\ new.resumeKey = job.resumeKey /\ new.resumeCheckpoint = job.resumeCheckpoint
    /\ new.researchKeys = job.researchKeys
\* The action with the id of the acknowledgement is no longer outstanding.
Settled(w, snap, new) ==
    \E a \in Effects(w.job) :
        /\ snap.ack # NoRef /\ a.id = snap.ack.id
        /\ Effects(new.job) = Effects(w.job) \ {a}
        /\ ~new.raised /\ new.job.state = w.job.state
        /\ \/ SameBasis(w.job, new.job) /\ snap.ack.outcome = "NOT_STARTED"
           \/ /\ SameBasis(w.job, new.job)
              /\ a.kind \notin {"START_SESSION", "PREPARE_HANDOFF"}
           \/ StartConfirmed(w.job, a, snap, new.job)
           \/ HandoffConfirmed(w.job, a, snap, new.job)

Acknowledged(w, snap, new) ==
    new \in Calls /\ (Kept(w, new) \/ Settled(w, snap, new))

LEMMA DropRecord ==
    ASSUME NEW w \in Calls, NEW action
    PROVE  /\ Drop(w, action) \in Calls
           /\ SameBasis(w.job, Drop(w, action).job)
           /\ Drop(w, action).job.pending = w.job.pending \ {action}
           /\ Drop(w, action).job.state = w.job.state
           /\ Drop(w, action).raised = w.raised
<1> DEFINE rest == w.job.pending \ {action}
           job == [w.job EXCEPT !.pending = rest]
<1>1. w.job \in Records
    BY DEF Calls
<1>2. rest \in SUBSET Actions
    BY <1>1 DEF Records
<1>3. Drop(w, action) = [w EXCEPT !.job = job]
    BY DEF Drop
<1> HIDE DEF rest
<1>4. /\ job \in Records /\ SameBasis(w.job, job) /\ job.pending = rest
      /\ job.state = w.job.state
    BY <1>1, <1>2 DEF Records, SameBasis
<1> HIDE DEF job
<1> QED BY <1>3, <1>4 DEF Calls, rest

LEMMA AskedKept ==
    ASSUME NEW w \in Calls, NEW reason \in Reasons, NEW snap, Active(w.job)
    PROVE  /\ Acknowledged(w, snap, Manual(w, reason))
           /\ Acknowledged(w, snap, Raise(w, reason))
<1> QED BY ManualQuiet DEF Acknowledged, Kept

LEMMA StartSettled ==
    ASSUME NEW w \in Calls, NEW snap, Observation(snap), ~w.raised,
           NEW action \in Effects(w.job), action.kind = "START_SESSION",
           snap.ack # NoRef, snap.ack.id = action.id,
           snap.ack.outcome = "SUCCEEDED"
    PROVE  Acknowledged(w, snap, StartAcknowledged(w, action, snap))
<1> DEFINE new == StartAcknowledged(w, action, snap)
<1>1. Active(w.job) /\ w.job \in Records /\ action \in Actions
    BY DEF Active, Calls, Effects, Records
<1>2. CASE \/ new = Manual(w, "ACTUAL_MODEL_NOT_ATTESTED")
           \/ new = Raise(w, "SUCCESSOR_ACK_MISMATCH")
    BY <1>1, <1>2, AskedKept DEF Reasons
<1>3. CASE /\ snap.owner = snap.ack.session
           /\ snap.generation = action.generation + 1
           /\ new = Drop([w EXCEPT
                  !.job.owner = snap.ack.session,
                  !.job.generation = action.generation + 1,
                  !.job.resumeKey = <<action.generation + 1, snap.checkpoint>>,
                  !.job.resumeCheckpoint = snap.checkpoint,
                  !.job.quiescent = FALSE], action)
  <2> DEFINE key == <<snap.generation, snap.checkpoint>>
             job == [w.job EXCEPT
                        !.owner = snap.owner, !.generation = snap.generation,
                        !.resumeKey = key, !.resumeCheckpoint = snap.checkpoint,
                        !.quiescent = FALSE]
             confirmed == [w EXCEPT !.job = job]
  <2>1. new = Drop(confirmed, action)
      BY <1>3
  <2>2. /\ snap.owner \in Refs /\ snap.generation \in Nat
        /\ snap.checkpoint \in Refs /\ key \in Keys
      BY DEF Observation, Keys, Refs
  <2> HIDE DEF key
  <2>3. job \in Records
      BY <1>1, <2>2 DEF Records
  <2>4. /\ job.owner = snap.owner /\ job.generation = snap.generation
        /\ job.resumeKey = key /\ job.resumeCheckpoint = snap.checkpoint
        /\ ~job.quiescent /\ job.checkpoint = w.job.checkpoint
        /\ job.researchKeys = w.job.researchKeys
        /\ job.pending = w.job.pending /\ job.state = w.job.state
      BY <1>1 DEF Records
  <2> HIDE DEF job
  <2>5. confirmed \in Calls /\ confirmed.job = job /\ ~confirmed.raised
      BY <2>3 DEF Calls
  <2> HIDE DEF confirmed, new
  <2>6. /\ new \in Calls /\ SameBasis(job, new.job)
        /\ new.job.pending = job.pending \ {action}
        /\ new.job.state = job.state /\ ~new.raised
      BY <2>1, <2>5, DropRecord
  <2>7. Effects(new.job) = Effects(w.job) \ {action}
      BY <2>4, <2>6 DEF Effects
  <2>8. StartConfirmed(w.job, action, snap, new.job)
      BY <1>3, <2>4, <2>6 DEF StartConfirmed, SameBasis, key
  <2> QED BY <2>4, <2>6, <2>7, <2>8 DEF Acknowledged, Settled, new
<1> QED BY <1>2, <1>3 DEF StartAcknowledged

LEMMA HandoffSettled ==
    ASSUME NEW w \in Calls, NEW snap, Observation(snap), ~w.raised,
           NEW action \in Effects(w.job), action.kind = "PREPARE_HANDOFF",
           snap.ack # NoRef, snap.ack.id = action.id,
           snap.ack.outcome = "SUCCEEDED"
    PROVE  Acknowledged(w, snap, HandoffAcknowledged(w, action, snap))
<1> DEFINE new == HandoffAcknowledged(w, action, snap)
<1>1. Active(w.job) /\ w.job \in Records
    BY DEF Active, Calls
<1>2. CASE \/ new = Manual(w, "PREDECESSOR_NOT_QUIESCENT")
           \/ new = Raise(w, "HANDOFF_SCOPE_MISMATCH")
    BY <1>1, <1>2, AskedKept DEF Reasons
<1>3. CASE /\ snap.ack.retired
           /\ new = Drop([w EXCEPT !.job.checkpoint = snap.checkpoint,
                                   !.job.quiescent = TRUE], action)
  <2> DEFINE job == [w.job EXCEPT !.checkpoint = snap.checkpoint, !.quiescent = TRUE]
             confirmed == [w EXCEPT !.job = job]
  <2>1. new = Drop(confirmed, action)
      BY <1>3
  <2>2. snap.checkpoint \in Refs
      BY DEF Observation, Refs
  <2>3. job \in Records
      BY <1>1, <2>2 DEF Records
  <2>4. /\ job.owner = w.job.owner /\ job.generation = w.job.generation
        /\ job.resumeKey = w.job.resumeKey
        /\ job.resumeCheckpoint = w.job.resumeCheckpoint
        /\ job.quiescent /\ job.checkpoint = snap.checkpoint
        /\ job.researchKeys = w.job.researchKeys
        /\ job.pending = w.job.pending /\ job.state = w.job.state
      BY <1>1 DEF Records
  <2> HIDE DEF job
  <2>5. confirmed \in Calls /\ confirmed.job = job /\ ~confirmed.raised
      BY <2>3 DEF Calls
  <2> HIDE DEF confirmed, new
  <2>6. /\ new \in Calls /\ SameBasis(job, new.job)
        /\ new.job.pending = job.pending \ {action}
        /\ new.job.state = job.state /\ ~new.raised
      BY <2>1, <2>5, DropRecord
  <2>7. Effects(new.job) = Effects(w.job) \ {action}
      BY <2>4, <2>6 DEF Effects
  <2>8. HandoffConfirmed(w.job, action, snap, new.job)
      BY <1>3, <2>4, <2>6 DEF HandoffConfirmed, SameBasis
  <2> QED BY <2>4, <2>6, <2>7, <2>8 DEF Acknowledged, Settled, new
<1> QED BY <1>2, <1>3 DEF HandoffAcknowledged

LEMMA AcknowledgeAcknowledged ==
    ASSUME NEW w \in Calls, NEW snap, Observation(snap), ~w.raised
    PROVE  Acknowledged(w, snap, Acknowledge(w, snap))
<1> DEFINE new == Acknowledge(w, snap)
           action == CHOOSE a \in w.job.pending : a.id = snap.ack.id
<1>0. w.job \in Records
    BY DEF Calls
<1>1. CASE snap.ack = NoRef \/ ~\E a \in w.job.pending : a.id = snap.ack.id
  <2>1. new = w
      BY <1>1 DEF Acknowledge
  <2> QED BY <2>1, <1>0 DEF Acknowledged, Kept, Quiet, SameBasis
<1>2. CASE snap.ack # NoRef /\ \E a \in w.job.pending : a.id = snap.ack.id
  <2>1. action \in w.job.pending /\ action.id = snap.ack.id
      BY <1>2
  <2>2. new = IF action.kind = "NOTIFY" THEN Drop(w, action)
              ELSE IF snap.ack.outcome = "NOT_STARTED" /\ snap.operatorResume
                THEN Drop(w, action)
              ELSE IF snap.ack.outcome # "SUCCEEDED"
                THEN Manual(w, IF snap.ack.outcome = "UNKNOWN"
                                 THEN "AMBIGUOUS_ACTION"
                                 ELSE "CLIENT_ACTION_FAILED")
              ELSE IF action.kind = "START_SESSION"
                THEN StartAcknowledged(w, action, snap)
              ELSE IF action.kind = "PREPARE_HANDOFF"
                THEN HandoffAcknowledged(w, action, snap)
              ELSE Drop(w, action)
      BY <1>2 DEF Acknowledge
  <2> HIDE DEF action, new
  <2>3. /\ Drop(w, action) \in Calls
        /\ SameBasis(w.job, Drop(w, action).job)
        /\ Drop(w, action).job.pending = w.job.pending \ {action}
        /\ Drop(w, action).job.state = w.job.state
        /\ Drop(w, action).raised = w.raised
      BY DropRecord
  <2>4. CASE action.kind = "NOTIFY"
    <3>1. new = Drop(w, action)
        BY <2>2, <2>4
    <3>2. Effects(new.job) = Effects(w.job)
        BY <2>3, <2>4, <3>1 DEF Effects
    <3> QED BY <2>3, <3>1, <3>2 DEF Acknowledged, Kept, Quiet, new
  <2>5. CASE action.kind # "NOTIFY"
    <3>1. action \in Effects(w.job) /\ Active(w.job)
        BY <2>1, <2>5 DEF Effects, Active
    <3>2. CASE /\ new = Drop(w, action)
               /\ \/ snap.ack.outcome = "NOT_STARTED"
                  \/ action.kind \notin {"START_SESSION", "PREPARE_HANDOFF"}
      <4>1. Effects(new.job) = Effects(w.job) \ {action}
          BY <2>3, <3>2 DEF Effects
      <4> QED BY <1>2, <2>1, <2>3, <3>1, <3>2, <4>1 DEF Acknowledged, Settled, new
    <3>3. CASE \/ new = Manual(w, "AMBIGUOUS_ACTION")
               \/ new = Manual(w, "CLIENT_ACTION_FAILED")
        BY <3>1, <3>3, AskedKept DEF Reasons, new
    <3>4. CASE /\ action.kind = "START_SESSION"
               /\ snap.ack.outcome = "SUCCEEDED"
               /\ new = StartAcknowledged(w, action, snap)
        BY <1>2, <2>1, <3>1, <3>4, StartSettled DEF new
    <3>5. CASE /\ action.kind = "PREPARE_HANDOFF"
               /\ snap.ack.outcome = "SUCCEEDED"
               /\ new = HandoffAcknowledged(w, action, snap)
        BY <1>2, <2>1, <3>1, <3>5, HandoffSettled DEF new
    <3> QED BY <2>2, <2>5, <3>2, <3>3, <3>4, <3>5
  <2> QED BY <2>4, <2>5
<1> QED BY <1>1, <1>2

-----------------------------------------------------------------------------
(* What a call that uses a snapshot does: it acknowledges, adopts, and       *)
(* then is quiet or emits one justified effect beside no other              *)

Adopted(job, event, snap, new) ==
    /\ new.resumeKey = job.resumeKey
    /\ new.resumeCheckpoint = job.resumeCheckpoint
    /\ new.researchKeys = job.researchKeys
    /\ new.quiescent = job.quiescent
    /\ Effects(new) = Effects(job)
    /\ \/ new.owner = job.owner /\ new.generation = job.generation
       \/ /\ event = "REGISTER" /\ job.owner = NoRef /\ snap.owner # NoRef
          /\ new.owner = snap.owner /\ new.generation = snap.generation

Taken(w, event, snap, new) ==
    /\ new \in Calls
    /\ \E acked \in Calls, adopted \in Records :
          /\ Acknowledged(w, snap, acked)
          /\ Adopted(acked.job, event, snap, adopted)
          /\ \/ Quiet(adopted, new.job)
             \/ /\ Effects(adopted) = {} /\ ~new.raised
                /\ w.job.state = "PAUSED" => event = "RESUME"
                /\ Emits(adopted, snap, new.job)

LEMMA AdoptAdopted ==
    ASSUME NEW job \in Records, NEW event, NEW snap, Observation(snap)
    PROVE  /\ Adopt(job, event, snap) \in Records
           /\ Adopted(job, event, snap, Adopt(job, event, snap))
           /\ Adopt(job, event, snap).state = job.state
           /\ job.state \notin {"PAUSED", "NEEDS_INPUT"} =>
                 Adopt(job, event, snap).checkpoint \in Nat
<1> DEFINE new == Adopt(job, event, snap)
<1>1. CASE job.state \in {"PAUSED", "NEEDS_INPUT"}
  <2>1. new = job
      BY <1>1 DEF Adopt
  <2> QED BY <1>1, <2>1 DEF Adopted
<1>2. CASE job.state \notin {"PAUSED", "NEEDS_INPUT"}
  <2> DEFINE owns == event = "REGISTER" /\ job.owner = NoRef /\ snap.owner # NoRef
             owner == IF owns THEN snap.owner ELSE job.owner
             generation == IF owns THEN snap.generation ELSE job.generation
  <2>1. new = [job EXCEPT !.owner = owner, !.generation = generation,
                          !.checkpoint = snap.checkpoint]
      BY <1>2 DEF Adopt
  <2>2. owner \in Refs /\ generation \in Nat /\ snap.checkpoint \in Refs
      BY DEF Observation, Records, Refs
  <2>3. \/ owner = job.owner /\ generation = job.generation
        \/ /\ event = "REGISTER" /\ job.owner = NoRef /\ snap.owner # NoRef
           /\ owner = snap.owner /\ generation = snap.generation
      OBVIOUS
  <2> HIDE DEF owner, generation, new
  <2>4. /\ new \in Records /\ new.owner = owner /\ new.generation = generation
        /\ new.checkpoint = snap.checkpoint /\ new.resumeKey = job.resumeKey
        /\ new.resumeCheckpoint = job.resumeCheckpoint
        /\ new.researchKeys = job.researchKeys /\ new.quiescent = job.quiescent
        /\ new.pending = job.pending /\ new.state = job.state
      BY <2>1, <2>2 DEF Records
  <2>5. Effects(new) = Effects(job) /\ new.checkpoint \in Nat
      BY <2>4 DEF Effects, Observation
  <2> QED BY <2>3, <2>4, <2>5 DEF Adopted, new
<1> QED BY <1>1, <1>2

\* The record follows the operator's decision to go on.
LEMMA ResumedAdopted ==
    ASSUME NEW job \in Records, NEW event, NEW snap, Observation(snap),
           NEW adopted \in Records, Adopted(job, event, snap, adopted),
           NEW new, new = [adopted EXCEPT !.state = "READY",
                                          !.checkpoint = snap.checkpoint]
    PROVE  /\ new \in Records /\ Adopted(job, event, snap, new)
           /\ new.state = "READY" /\ new.checkpoint \in Nat
<1>1. snap.checkpoint \in Refs /\ snap.checkpoint \in Nat /\ "READY" \in States
    BY DEF Observation, Refs, States
<1>2. /\ new \in Records /\ new.state = "READY"
      /\ new.checkpoint = snap.checkpoint /\ new.pending = adopted.pending
      /\ new.owner = adopted.owner /\ new.generation = adopted.generation
      /\ new.resumeKey = adopted.resumeKey
      /\ new.resumeCheckpoint = adopted.resumeCheckpoint
      /\ new.researchKeys = adopted.researchKeys
      /\ new.quiescent = adopted.quiescent
    BY <1>1 DEF Records
<1>3. Effects(new) = Effects(adopted)
    BY <1>2 DEF Effects
<1> QED BY <1>1, <1>2, <1>3 DEF Adopted

\* An exception or a question after the adoption
LEMMA AdoptedThenRaised ==
    ASSUME NEW w \in Calls, NEW event, NEW snap, NEW reason \in Reasons,
           NEW acked \in Calls, Acknowledged(w, snap, acked),
           NEW call \in Calls, Adopted(acked.job, event, snap, call.job)
    PROVE  Taken(w, event, snap, Raise(call, reason))
<1>1. call.job \in Records
    BY DEF Calls
<1>2. Raise(call, reason) \in Calls /\ Quiet(call.job, Raise(call, reason).job)
    BY ManualQuiet
<1> QED BY <1>1, <1>2 DEF Taken

LEMMA AdoptedItself ==
    ASSUME NEW job, NEW event, NEW snap
    PROVE  Adopted(job, event, snap, job)
BY DEF Adopted

LEMMA ObserveTaken ==
    ASSUME NEW w \in Calls, ~w.raised, NEW event, NEW snap, Observation(snap)
    PROVE  Taken(w, event, snap, Observe(w, event, snap))
<1> DEFINE acked == Acknowledge(w, snap)
           new == Observe(w, event, snap)
<1>1. acked \in Calls /\ Acknowledged(w, snap, acked)
    BY AcknowledgeAcknowledged DEF Acknowledged
<1> HIDE DEF acked
<1>2. acked.job \in Records /\ w.job \in Records
    BY <1>1 DEF Calls
<1>3. CASE acked.raised
  <2>1. new = acked
      BY <1>3 DEF Observe, acked
  <2>2. Quiet(acked.job, acked.job)
      BY DEF Quiet, SameBasis
  <2> QED BY <1>1, <1>2, <2>1, <2>2, AdoptedItself DEF Taken
<1>4. CASE ~acked.raised
  <2> DEFINE job == Adopt(acked.job, event, snap)
             resumed == IF event = "RESUME"
                          THEN [job EXCEPT !.state = "READY",
                                           !.checkpoint = snap.checkpoint]
                          ELSE job
             late == IF Late(resumed) THEN NeedsInput(resumed, "ACTION_ACK_TIMEOUT")
                     ELSE resumed
  <2>1. \/ new = Raise(acked, "PREDECESSOR_REACTIVATED")
        \/ new = Raise([acked EXCEPT !.job = job], "OPERATOR_RECONCILIATION_REQUIRED")
        \/ Waits(late) /\ new = [acked EXCEPT !.job = late]
        \/ /\ event = "RESUME" => Resumable(job, snap)
           /\ ~Waits(late)
           /\ new = Decide([acked EXCEPT !.job = late], event, snap)
      BY <1>4 DEF Observe, AfterAck, acked
  <2>2. /\ job \in Records /\ Adopted(acked.job, event, snap, job)
        /\ job.state = acked.job.state
        /\ job.state \notin {"PAUSED", "NEEDS_INPUT"} => job.checkpoint \in Nat
      BY <1>2, AdoptAdopted
  <2> HIDE DEF job
  <2>3. /\ resumed \in Records /\ Adopted(acked.job, event, snap, resumed)
        /\ event # "RESUME" => resumed.state = acked.job.state
        /\ resumed.state \notin {"PAUSED", "NEEDS_INPUT"} => resumed.checkpoint \in Nat
    <3>1. CASE event = "RESUME"
        BY <1>2, <2>2, <3>1, ResumedAdopted
    <3>2. CASE event # "RESUME"
        BY <2>2, <3>2
    <3> QED BY <3>1, <3>2
  <2> HIDE DEF resumed
  <2>4. /\ late \in Records /\ Quiet(resumed, late)
        /\ Late(resumed) \/ late = resumed
      BY <2>3, NeedsInputQuiet DEF Reasons, Quiet, SameBasis
  <2> HIDE DEF late
  <2>5. [acked EXCEPT !.job = late] \in Calls /\ [acked EXCEPT !.job = late].job = late
        /\ ~[acked EXCEPT !.job = late].raised
      BY <1>1, <1>4, <2>4 DEF Calls
  <2>6. CASE new = Raise(acked, "PREDECESSOR_REACTIVATED")
      BY <1>1, <1>2, <2>6, AdoptedItself, AdoptedThenRaised DEF Reasons
  <2>7. CASE new = Raise([acked EXCEPT !.job = job], "OPERATOR_RECONCILIATION_REQUIRED")
    <3>1. [acked EXCEPT !.job = job] \in Calls /\ [acked EXCEPT !.job = job].job = job
        BY <1>1, <2>2 DEF Calls
    <3> QED BY <1>1, <2>2, <2>7, <3>1, AdoptedThenRaised DEF Reasons
  <2>8. CASE Waits(late) /\ new = [acked EXCEPT !.job = late]
      BY <1>1, <2>3, <2>4, <2>5, <2>8 DEF Taken
  <2>9. CASE /\ ~Waits(late)
             /\ new = Decide([acked EXCEPT !.job = late], event, snap)
    <3> DEFINE call == [acked EXCEPT !.job = late]
    <3>1. late.state # "PAUSED" /\ Effects(late) = {} /\ Effects(resumed) = {}
        BY <2>4, <2>9 DEF Waits, Active, Quiet
    <3>2. late = resumed
        BY <2>4, <3>1 DEF Late
    <3>3. call \in Calls /\ call.job = resumed /\ ~call.raised
        BY <2>5, <3>2
    <3> HIDE DEF call
    <3>4. call.job.state # "NEEDS_INPUT" => call.job.checkpoint \in Nat
        BY <2>3, <3>1, <3>2, <3>3
    <3>5. Decided(call, snap, new)
        BY <2>9, <3>3, <3>4, DecideDecided DEF call
    <3>6. acked.job.state = "PAUSED" => event = "RESUME"
        BY <2>3, <3>1, <3>2
    <3>7. Effects(acked.job) = {}
        BY <2>3, <3>1 DEF Adopted
    <3>8. w.job.state = "PAUSED" => acked.job.state = "PAUSED"
        BY <1>1, <3>7 DEF Acknowledged, Kept, Settled, Quiet, Active
    <3> QED BY <1>1, <2>3, <3>1, <3>3, <3>5, <3>6, <3>8 DEF Taken, Decided
  <2> QED BY <2>1, <2>6, <2>7, <2>8, <2>9
<1> QED BY <1>3, <1>4

-----------------------------------------------------------------------------
(* What holds of every record, and what a call preserves of it              *)

OneEffect(job) == \A a, b \in Effects(job) : a = b
\* A generation other than 0 and a continuation belong to an owner.
OwnerFirst(job) == job.owner = NoRef => job.generation = 0 /\ job.resumeKey = NoRef
\* The stored key is the one of the generation and the last continuation.
KeyIsCurrent(job) ==
    job.resumeKey # NoRef => job.resumeKey = <<job.generation, job.resumeCheckpoint>>
\* A requested successor is ahead of every continuation granted so far.
StartIsAhead(job) ==
    \A a \in Effects(job) : a.kind = "START_SESSION" =>
        /\ job.generation <= a.generation + 1
        /\ job.resumeKey # NoRef => job.generation <= a.generation
Consistent(job) ==
    OneEffect(job) /\ OwnerFirst(job) /\ KeyIsCurrent(job) /\ StartIsAhead(job)

\* The order in which continuations are granted
Before(key, later) ==
    key[1] < later[1] \/ (key[1] = later[1] /\ key[2] < later[2])
KeyMoves(key, later) == later # NoRef /\ (key # NoRef => Before(key, later))
KeyAdvances(key, later) == later = key \/ KeyMoves(key, later)

LEMMA QuietConsistent ==
    ASSUME NEW job, NEW new, Consistent(job), Quiet(job, new)
    PROVE  Consistent(new)
BY DEF Consistent, OneEffect, OwnerFirst, KeyIsCurrent, StartIsAhead, Quiet, SameBasis

\* The keys are pairs of numbers, and being before is transitive.
LEMMA KeysAreOrdered ==
    ASSUME NEW k \in Keys \cup {NoRef}, NEW l \in Keys \cup {NoRef},
           NEW m \in Keys \cup {NoRef}, KeyAdvances(k, l)
    PROVE  /\ KeyAdvances(l, m) => KeyAdvances(k, m)
           /\ KeyMoves(l, m) => KeyMoves(k, m)
<1>1. NoRef \notin Keys
    BY ControlAssumption DEF Keys
<1>2. CASE k = NoRef \/ l = k
    BY <1>2 DEF KeyAdvances, KeyMoves
<1>3. CASE k \in Keys /\ l \in Keys /\ Before(k, l)
  <2>1. m \in Keys /\ Before(l, m) => Before(k, m)
      BY <1>3 DEF Keys, Before
  <2> QED BY <1>1, <1>3, <2>1 DEF KeyAdvances, KeyMoves
<1> QED BY <1>1, <1>2, <1>3 DEF KeyAdvances, KeyMoves

\* After an acknowledgement
LEMMA AcknowledgedConsistent ==
    ASSUME NEW w \in Calls, Consistent(w.job), NEW snap, Observation(snap),
           NEW acked \in Calls, Acknowledged(w, snap, acked)
    PROVE  /\ Consistent(acked.job)
           /\ KeyAdvances(w.job.resumeKey, acked.job.resumeKey)
           /\ acked.job.researchKeys = w.job.researchKeys
           /\ Effects(acked.job) \subseteq Effects(w.job)
           /\ acked.job.owner = NoRef => w.job.owner = NoRef
<1>1. w.job \in Records /\ acked.job \in Records
    BY DEF Calls
<1>2. CASE Kept(w, acked)
    BY <1>2, QuietConsistent DEF Kept, Quiet, SameBasis, KeyAdvances
<1>3. ASSUME NEW a \in Effects(w.job), Effects(acked.job) = Effects(w.job) \ {a},
             SameBasis(w.job, acked.job)
      PROVE  Consistent(acked.job)
    BY <1>3 DEF Consistent, OneEffect, OwnerFirst, KeyIsCurrent, StartIsAhead, SameBasis
<1>4. ASSUME NEW a \in Effects(w.job), Effects(acked.job) = Effects(w.job) \ {a},
             snap.ack # NoRef, StartConfirmed(w.job, a, snap, acked.job)
      PROVE  /\ Consistent(acked.job)
             /\ KeyAdvances(w.job.resumeKey, acked.job.resumeKey)
             /\ acked.job.owner # NoRef
  <2>1. snap.ack \in Acks /\ a \in Actions
      BY <1>1, <1>4 DEF Observation, Effects, Records
  <2>2. acked.job.owner # NoRef
      BY <1>4, <2>1, ControlAssumption DEF StartConfirmed, Acks
  <2>3. Effects(acked.job) = {}
      BY <1>4 DEF Consistent, OneEffect
  <2>4. Consistent(acked.job)
      BY <1>4, <2>2, <2>3
         DEF Consistent, OneEffect, OwnerFirst, KeyIsCurrent, StartIsAhead, StartConfirmed
  <2>5. acked.job.resumeKey = <<a.generation + 1, snap.checkpoint>>
      BY <1>4 DEF StartConfirmed
  <2>6. <<a.generation + 1, snap.checkpoint>> \in Nat \X Nat
      BY <2>1 DEF Actions, Observation
  <2>7. w.job.resumeKey # NoRef =>
            /\ w.job.resumeKey[1] = w.job.generation
            /\ w.job.generation <= a.generation
      BY <1>4 DEF Consistent, KeyIsCurrent, StartIsAhead, StartConfirmed
  <2>8. w.job.resumeKey # NoRef => Before(w.job.resumeKey, acked.job.resumeKey)
      BY <1>1, <2>1, <2>5, <2>7 DEF Before, Actions, Records
  <2>9. acked.job.resumeKey # NoRef
      BY <2>5, <2>6, ControlAssumption
  <2> QED BY <2>2, <2>4, <2>8, <2>9 DEF KeyAdvances, KeyMoves
<1>5. ASSUME NEW a \in Effects(w.job), Effects(acked.job) = Effects(w.job) \ {a},
             HandoffConfirmed(w.job, a, snap, acked.job)
      PROVE  Consistent(acked.job)
    BY <1>5 DEF Consistent, OneEffect, OwnerFirst, KeyIsCurrent, StartIsAhead,
                HandoffConfirmed
<1>6. CASE Settled(w, snap, acked)
  <2>1. PICK a \in Effects(w.job) :
            /\ snap.ack # NoRef /\ Effects(acked.job) = Effects(w.job) \ {a}
            /\ \/ SameBasis(w.job, acked.job)
               \/ StartConfirmed(w.job, a, snap, acked.job)
               \/ HandoffConfirmed(w.job, a, snap, acked.job)
      BY <1>6 DEF Settled
  <2>2. CASE SameBasis(w.job, acked.job)
      BY <1>3, <2>1, <2>2 DEF SameBasis, KeyAdvances
  <2>3. CASE StartConfirmed(w.job, a, snap, acked.job)
      BY <1>4, <2>1, <2>3 DEF StartConfirmed
  <2>4. CASE HandoffConfirmed(w.job, a, snap, acked.job)
      BY <1>5, <2>1, <2>4 DEF HandoffConfirmed, KeyAdvances
  <2> QED BY <2>1, <2>2, <2>3, <2>4
<1> QED BY <1>2, <1>6 DEF Acknowledged

\* After the adoption of a snapshot that is not stale
LEMMA AdoptedConsistent ==
    ASSUME NEW known \in Records, Consistent(known), NEW event, NEW snap,
           Observation(snap), ~Stale(known, event, snap),
           NEW job \in Records, Consistent(job),
           Effects(job) \subseteq Effects(known),
           job.owner = NoRef => known.owner = NoRef,
           NEW adopted \in Records, Adopted(job, event, snap, adopted)
    PROVE  Consistent(adopted)
<1>1. CASE adopted.owner = job.owner /\ adopted.generation = job.generation
    BY <1>1 DEF Adopted, Consistent, OneEffect, OwnerFirst, KeyIsCurrent, StartIsAhead
<1>2. CASE /\ job.owner = NoRef /\ snap.owner # NoRef
           /\ adopted.owner = snap.owner /\ adopted.generation = snap.generation
  <2>1. adopted.resumeKey = NoRef /\ Effects(adopted) = Effects(job)
      BY <1>2 DEF Adopted, Consistent, OwnerFirst
  <2>2. ASSUME NEW a \in Effects(adopted), a.kind = "START_SESSION"
        PROVE  snap.generation <= a.generation + 1
    <3>1. a \in Effects(known) /\ a \in known.pending /\ a \in Actions
        BY <2>1, <2>2 DEF Effects, Records
    <3>2. known.generation = 0
        BY <1>2 DEF Consistent, OwnerFirst
    <3>3. \A b \in known.pending : b.kind = "START_SESSION" => b = a
        BY <3>1 DEF Consistent, OneEffect, Effects
    <3>4. snap.generation \in {known.generation} \cup
              {b.generation + 1 : b \in {c \in known.pending : c.kind = "START_SESSION"}}
        BY <3>1 DEF Stale
    <3>5. snap.generation = 0 \/ snap.generation = a.generation + 1
        BY <3>2, <3>3, <3>4
    <3> QED BY <3>1, <3>5 DEF Actions
  <2> QED BY <1>2, <2>1, <2>2
         DEF Consistent, OneEffect, OwnerFirst, KeyIsCurrent, StartIsAhead
<1> QED BY <1>1, <1>2 DEF Adopted

\* A new continuation moves the key, a new research adds its failure.
Fresh(a, job, snap, new) ==
    /\ a.kind = "RESUME_SESSION" =>
          new.resumeKey = ResumeKey(new) /\ KeyMoves(job.resumeKey, new.resumeKey)
    /\ a.kind = "RESEARCH" =>
          snap.failure \notin job.researchKeys /\ snap.failure \in new.researchKeys

\* After an effect was emitted
LEMMA EmitsConsistent ==
    ASSUME NEW job \in Records, Consistent(job), Effects(job) = {},
           NEW snap, Observation(snap), NEW new \in Records, Emits(job, snap, new)
    PROVE  /\ Consistent(new)
           /\ KeyAdvances(job.resumeKey, new.resumeKey)
           /\ job.researchKeys \subseteq new.researchKeys
           /\ \A a \in Effects(new) : Fresh(a, job, snap, new)
<1>1. PICK a \in Actions :
          /\ a.generation = job.generation
          /\ Effects(new) = {a}
          /\ new.owner = job.owner /\ new.generation = job.generation
          /\ new.checkpoint = job.checkpoint
          /\ Justified(a, job, snap, new)
    BY DEF Emits
<1>2. CASE a.kind = "RESUME_SESSION" /\ Continues(job, snap, new)
  <2>1. /\ job.owner # NoRef /\ job.checkpoint \in Nat
        /\ job.resumeKey # NoRef => ProgressShown(job, snap)
        /\ new.resumeKey = <<job.generation, job.checkpoint>>
        /\ new.resumeCheckpoint = job.checkpoint
        /\ new.researchKeys = job.researchKeys
      BY <1>2 DEF Continues, ResumeKey
  <2>2. new.resumeKey # NoRef /\ new.resumeKey \in Nat \X Nat
      BY <2>1, ControlAssumption DEF Records
  <2>3. job.resumeKey # NoRef => Before(job.resumeKey, new.resumeKey)
    <3> SUFFICES ASSUME job.resumeKey # NoRef
                 PROVE  Before(job.resumeKey, new.resumeKey)
        OBVIOUS
    <3>1. job.resumeKey = <<job.generation, job.resumeCheckpoint>>
        BY DEF Consistent, KeyIsCurrent
    <3>2. job.resumeCheckpoint < job.checkpoint
        BY <2>1 DEF ProgressShown, Observation
    <3> QED BY <2>1, <3>1, <3>2 DEF Before
  <2>4. Consistent(new)
      BY <1>1, <1>2, <2>1
         DEF Consistent, OneEffect, OwnerFirst, KeyIsCurrent, StartIsAhead
  <2>5. new.resumeKey = ResumeKey(new)
      BY <1>1, <2>1 DEF ResumeKey
  <2> QED BY <1>1, <1>2, <2>1, <2>2, <2>3, <2>4, <2>5 DEF KeyAdvances, KeyMoves, Fresh
<1>3. CASE a.kind = "RESEARCH" /\ Researches(job, snap, new)
  <2>1. Consistent(new)
      BY <1>1, <1>3 DEF Consistent, OneEffect, OwnerFirst, KeyIsCurrent, StartIsAhead,
                        Researches
  <2> QED BY <1>1, <1>3, <2>1 DEF Researches, KeyAdvances, Fresh
<1>4. CASE /\ a.kind \in {"START_SESSION", "PREPARE_HANDOFF", "CHECKPOINT"}
           /\ SameBasis(job, new)
  <2>1. a.generation \in Nat /\ job.generation \in Nat
      BY DEF Actions, Records
  <2>2. StartIsAhead(new)
      BY <1>1, <1>4, <2>1 DEF StartIsAhead
  <2>3. Consistent(new)
      BY <1>1, <1>4, <2>2 DEF Consistent, OneEffect, OwnerFirst, KeyIsCurrent, SameBasis
  <2> QED BY <1>1, <1>4, <2>3 DEF SameBasis, KeyAdvances, Fresh
<1> QED BY <1>1, <1>2, <1>3, <1>4 DEF Justified, Succeeds, HandsOver

\* The whole call
LEMMA CallConsistent ==
    ASSUME NEW w \in Calls, Consistent(w.job), NEW event, NEW snap,
           Observation(snap), ~Stale(w.job, event, snap),
           NEW new, Taken(w, event, snap, new)
    PROVE  /\ Consistent(new.job)
           /\ KeyAdvances(w.job.resumeKey, new.job.resumeKey)
           /\ w.job.researchKeys \subseteq new.job.researchKeys
           /\ \A a \in Effects(new.job) \ Effects(w.job) :
                 /\ ~new.raised
                 /\ w.job.state = "PAUSED" => event = "RESUME"
                 /\ Fresh(a, w.job, snap, new.job)
<1>1. new \in Calls
    BY DEF Taken
<1>2. PICK acked \in Calls, adopted \in Records :
          /\ Acknowledged(w, snap, acked)
          /\ Adopted(acked.job, event, snap, adopted)
          /\ \/ Quiet(adopted, new.job)
             \/ /\ Effects(adopted) = {} /\ ~new.raised
                /\ w.job.state = "PAUSED" => event = "RESUME"
                /\ Emits(adopted, snap, new.job)
    BY DEF Taken
<1>3. w.job \in Records /\ acked.job \in Records /\ new.job \in Records
    BY <1>1 DEF Calls
<1>4. /\ Consistent(acked.job)
      /\ KeyAdvances(w.job.resumeKey, acked.job.resumeKey)
      /\ acked.job.researchKeys = w.job.researchKeys
      /\ Effects(acked.job) \subseteq Effects(w.job)
      /\ acked.job.owner = NoRef => w.job.owner = NoRef
    BY <1>2, AcknowledgedConsistent
<1>5. Consistent(adopted)
    BY <1>2, <1>3, <1>4, AdoptedConsistent
<1>6. /\ KeyAdvances(w.job.resumeKey, adopted.resumeKey)
      /\ adopted.researchKeys = w.job.researchKeys
      /\ Effects(adopted) \subseteq Effects(w.job)
    BY <1>2, <1>4 DEF Adopted
<1>7. CASE Quiet(adopted, new.job)
  <2>1. Consistent(new.job)
      BY <1>5, <1>7, QuietConsistent
  <2> QED BY <1>6, <1>7, <2>1 DEF Quiet, SameBasis
<1>8. CASE /\ Effects(adopted) = {} /\ ~new.raised
           /\ w.job.state = "PAUSED" => event = "RESUME"
           /\ Emits(adopted, snap, new.job)
  <2>1. /\ Consistent(new.job)
        /\ KeyAdvances(adopted.resumeKey, new.job.resumeKey)
        /\ adopted.researchKeys \subseteq new.job.researchKeys
        /\ \A a \in Effects(new.job) : Fresh(a, adopted, snap, new.job)
      BY <1>3, <1>5, <1>8, EmitsConsistent
  <2>2. /\ w.job.resumeKey \in Keys \cup {NoRef}
        /\ adopted.resumeKey \in Keys \cup {NoRef}
        /\ new.job.resumeKey \in Keys \cup {NoRef}
      BY <1>3 DEF Records
  <2>3. /\ KeyAdvances(w.job.resumeKey, new.job.resumeKey)
        /\ KeyMoves(adopted.resumeKey, new.job.resumeKey) =>
              KeyMoves(w.job.resumeKey, new.job.resumeKey)
      BY <1>6, <2>1, <2>2, KeysAreOrdered
  <2>4. \A a \in Effects(new.job) : Fresh(a, w.job, snap, new.job)
      BY <1>6, <2>1, <2>3 DEF Fresh
  <2> QED BY <1>6, <1>8, <2>1, <2>3, <2>4
<1> QED BY <1>2, <1>7, <1>8

-----------------------------------------------------------------------------
(* The inductive invariant                                                  *)

JobsConsistent == \A j \in Jobs : Consistent(jobs[j])
\* A checkpoint a snapshot names as progress came after the one before it.
ProgressIsReal ==
    \A j \in Jobs :
        /\ host[j].base <= host[j].checkpoint
        /\ view[j].base <= view[j].checkpoint
        /\ host[j].late # NoRef => host[j].late.base <= host[j].late.checkpoint
\* The record remembers every continuation and every research it was granted.
Remembered(g) ==
    /\ g.kind = "RESUME_SESSION" =>
          /\ jobs[g.job].resumeKey # NoRef
          /\ \A key \in g.about : /\ key \in Keys
                                  /\ \/ key = jobs[g.job].resumeKey
                                     \/ Before(key, jobs[g.job].resumeKey)
    /\ g.kind = "RESEARCH" => g.about \subseteq jobs[g.job].researchKeys
    /\ g.kind = "START_SESSION" => g.about = {}
GrantsAreRemembered == \A g \in grants : Remembered(g)

IInv == /\ TypeOK
        /\ JobsConsistent
        /\ ProgressIsReal
        /\ GrantsAreRemembered
        /\ NothingGrantedTwice

-----------------------------------------------------------------------------
(* What one step does to the records and to the grants                      *)

\* A snapshot that is read is an observation.
LEMMA ReadObservation ==
    ASSUME TypeOK, ProgressIsReal, NEW j \in Jobs, NEW report \in Reports
    PROVE  Observation(Read(j, report))
<1>1. view[j] \in Snapshots /\ view[j].base <= view[j].checkpoint
    BY DEF TypeOK, HostTypeOK, ProgressIsReal
<1>2. report.failure \in Failures
    BY DEF Failures
<1>3. view[j].checkpoint # view[j].base => view[j].base < view[j].checkpoint
    BY <1>1 DEF Snapshots
<1> QED BY <1>1, <1>2, <1>3 DEF Read, Observation, Snapshots

\* The grants of a call are its new counted effects.
NewGrant(g, j, snap) ==
    \E a \in Effects(jobs'[j]) \ Effects(jobs[j]) :
        /\ a.kind \in Counted
        /\ g = [job |-> j, id |-> a.id, kind |-> a.kind,
                about |-> About(jobs'[j], snap, a), whileHeld |-> j \in held']

LEMMA CommitStores ==
    ASSUME TypeOK, NEW j \in Jobs, NEW w \in Calls, NEW snap, Commit(j, w, snap)
    PROVE  /\ jobs' \in [Jobs -> Records] /\ used' \in Nat
           /\ Quiet(w.job, jobs'[j])
           /\ \A k \in Jobs \ {j} : jobs'[k] = jobs[k]
           /\ grants \subseteq grants'
           /\ \A g \in grants' \ grants : NewGrant(g, j, snap)
<1> DEFINE job == [w.job EXCEPT !.known = TRUE]
<1>1. w.job \in Records /\ w.used \in Nat
    BY DEF Calls
<1>2. job \in Records /\ Quiet(w.job, job)
    BY <1>1 DEF Records, Quiet, SameBasis, Effects
<1> HIDE DEF job
<1>3. jobs' = [jobs EXCEPT ![j] = job] /\ used' = w.used
    BY DEF Commit, job
<1>4. jobs \in [Jobs -> Records]
    BY DEF TypeOK
<1>5. /\ jobs' \in [Jobs -> Records] /\ jobs'[j] = job
      /\ \A k \in Jobs \ {j} : jobs'[k] = jobs[k]
    BY <1>2, <1>3, <1>4
<1>6. grants' = grants \cup
          {[job |-> j, id |-> a.id, kind |-> a.kind, about |-> About(job, snap, a),
            whileHeld |-> j \in held']
              : a \in {b \in job.pending \ jobs[j].pending : b.kind \in Counted}}
    BY DEF Commit, job
<1>7. ASSUME NEW g \in grants' \ grants PROVE NewGrant(g, j, snap)
  <2>1. PICK a \in {b \in job.pending \ jobs[j].pending : b.kind \in Counted} :
            g = [job |-> j, id |-> a.id, kind |-> a.kind,
                 about |-> About(job, snap, a), whileHeld |-> j \in held']
      BY <1>6, <1>7
  <2>2. a \in Effects(job) \ Effects(jobs[j]) /\ a.kind \in Counted
      BY <2>1 DEF Effects, Counted
  <2> QED BY <1>5, <2>1, <2>2 DEF NewGrant
<1> QED BY <1>1, <1>2, <1>3, <1>5, <1>6, <1>7

\* Where a snapshot is one of an earlier generation, it is stale.
LEMMA PredecessorIsStale ==
    ASSUME TypeOK, JobsConsistent, NEW j \in Jobs, NEW event, NEW report,
           view[j].generation < jobs[j].generation
    PROVE  Stale(jobs[j], event, Read(j, report))
<1> DEFINE snap == Read(j, report)
<1>1. /\ jobs[j] \in Records /\ Consistent(jobs[j])
      /\ view[j] \in Snapshots /\ snap.generation = view[j].generation
    BY DEF TypeOK, HostTypeOK, JobsConsistent, Read
<1> HIDE DEF snap
<1>2. view[j].generation \in Nat /\ jobs[j].generation \in Nat
    BY <1>1 DEF Snapshots, Records
<1>3. jobs[j].owner # NoRef
    BY <1>1, <1>2 DEF Consistent, OwnerFirst
<1>4. ASSUME NEW b \in jobs[j].pending, b.kind = "START_SESSION"
      PROVE  snap.generation # b.generation + 1
  <2>1. b \in Effects(jobs[j]) /\ b.generation \in Nat
      BY <1>1, <1>4 DEF Effects, Records, Actions
  <2>2. jobs[j].generation <= b.generation + 1
      BY <1>1, <1>4, <2>1 DEF Consistent, StartIsAhead
  <2> QED BY <1>1, <1>2, <2>1, <2>2
<1>5. snap.generation # jobs[j].generation
    BY <1>1, <1>2
<1>6. snap.generation \notin {jobs[j].generation} \cup
          {b.generation + 1 : b \in {c \in jobs[j].pending : c.kind = "START_SESSION"}}
    BY <1>4, <1>5
<1> QED BY <1>3, <1>6 DEF Stale, snap

\* One step as the records and the grants of job j see it
Advances(j) ==
    /\ jobs' \in [Jobs -> Records] /\ used' \in Nat
    /\ \A k \in Jobs \ {j} : jobs'[k] = jobs[k]
    /\ Consistent(jobs'[j])
    /\ KeyAdvances(jobs[j].resumeKey, jobs'[j].resumeKey)
    /\ jobs[j].researchKeys \subseteq jobs'[j].researchKeys
    /\ held' \subseteq Jobs
    /\ grants \subseteq grants'
    /\ view[j].generation < jobs[j].generation =>
          /\ jobs'[j].owner = jobs[j].owner
          /\ jobs'[j].checkpoint = jobs[j].checkpoint
          /\ grants' = grants
    /\ \A g \in grants' \ grants :
          /\ g.whileHeld => jobs[j].state \notin {"PAUSED", "COMPLETED", "CANCELLED"}
          /\ \E snap :
                /\ Observation(snap) /\ NewGrant(g, j, snap)
                /\ \A a \in Effects(jobs'[j]) \ Effects(jobs[j]) :
                      Fresh(a, jobs[j], snap, jobs'[j])

LEMMA QuietAdvances ==
    ASSUME TypeOK, JobsConsistent, NEW j \in Jobs, NEW w \in Calls, NEW snap,
           Quiet(jobs[j], w.job), Commit(j, w, snap), held' \subseteq Jobs
    PROVE  Advances(j)
<1>1. /\ jobs' \in [Jobs -> Records] /\ used' \in Nat
      /\ Quiet(w.job, jobs'[j])
      /\ \A k \in Jobs \ {j} : jobs'[k] = jobs[k]
      /\ grants \subseteq grants'
      /\ \A g \in grants' \ grants : NewGrant(g, j, snap)
    BY CommitStores
<1>2. Quiet(jobs[j], jobs'[j])
    BY <1>1 DEF Quiet, SameBasis
<1>3. Consistent(jobs'[j])
    BY <1>2, QuietConsistent DEF JobsConsistent
<1>4. grants' = grants
    BY <1>1, <1>2 DEF NewGrant, Quiet
<1> QED BY <1>1, <1>2, <1>3, <1>4 DEF Advances, Quiet, SameBasis, KeyAdvances

\* The record of a job at the start of a call
LEMMA StartCall ==
    ASSUME TypeOK, NEW j \in Jobs
    PROVE  /\ Start(j) \in Calls /\ Start(j).job = jobs[j] /\ ~Start(j).raised
           /\ jobs[j] \in Records
BY DEF TypeOK, Start, Calls

LEMMA StatusAdvances ==
    ASSUME TypeOK, JobsConsistent, NEW j \in Jobs, Status(j)
    PROVE  Advances(j)
<1> DEFINE emitted == Emit(jobs[j], "CHECK_STATUS")
           w == [Start(j) EXCEPT !.job = emitted]
<1>1. jobs[j] \in Records /\ Start(j) \in Calls /\ Start(j).job = jobs[j]
    BY StartCall
<1>2. /\ emitted \in Records /\ SameBasis(jobs[j], emitted)
      /\ Adds(jobs[j], emitted, "CHECK_STATUS")
    BY <1>1, EmitAdds DEF EffectKinds
<1>3. Commit(j, w, NoRef) /\ jobs[j].pending = {} /\ held' = held
    BY <1>1 DEF Status
<1> HIDE DEF emitted
<1>4. w \in Calls /\ w.job = emitted
    BY <1>1, <1>2 DEF Calls
<1> HIDE DEF w
<1>5. /\ jobs' \in [Jobs -> Records] /\ used' \in Nat
      /\ Quiet(emitted, jobs'[j])
      /\ \A k \in Jobs \ {j} : jobs'[k] = jobs[k]
      /\ grants \subseteq grants'
      /\ \A g \in grants' \ grants : NewGrant(g, j, NoRef)
    BY <1>3, <1>4, CommitStores
<1>6. PICK a \in Actions :
          a.kind = "CHECK_STATUS" /\ Effects(emitted) = Effects(jobs[j]) \cup {a}
    BY <1>2, AddsEffect DEF EffectKinds
<1>7. Effects(jobs[j]) = {} /\ Effects(jobs'[j]) = {a}
    BY <1>3, <1>5, <1>6 DEF Effects, Quiet
<1>8. grants' = grants
    BY <1>5, <1>6, <1>7 DEF NewGrant, Counted
<1>9. SameBasis(jobs[j], jobs'[j])
    BY <1>2, <1>5 DEF Quiet, SameBasis
<1>10. Consistent(jobs'[j])
    BY <1>6, <1>7, <1>9
       DEF JobsConsistent, Consistent, OneEffect, OwnerFirst, KeyIsCurrent, StartIsAhead,
           SameBasis
<1> QED BY <1>3, <1>5, <1>8, <1>9, <1>10 DEF Advances, SameBasis, KeyAdvances, TypeOK

LEMMA UsedAdvances ==
    ASSUME TypeOK, JobsConsistent, ProgressIsReal, NEW j \in Jobs, NEW event,
           NEW report \in Reports, ObservationUsed(j, event, Read(j, report))
    PROVE  Advances(j)
<1> DEFINE snap == Read(j, report)
           w == Observe(Start(j), event, snap)
<1>1. Start(j) \in Calls /\ Start(j).job = jobs[j] /\ ~Start(j).raised
    BY StartCall
<1>2. Observation(snap)
    BY ReadObservation
<1>3. /\ ~Stale(jobs[j], event, snap) /\ Observed(j, event)
      /\ held' = IF event = "RESUME" /\ ~w.raised THEN held \ {j} ELSE held
      /\ Commit(j, w, snap)
    BY DEF ObservationUsed
<1>4. ~(view[j].generation < jobs[j].generation)
    BY <1>3, PredecessorIsStale
<1> HIDE DEF snap
<1>5. Taken(Start(j), event, snap, w)
    BY <1>1, <1>2, ObserveTaken
<1>6. w \in Calls
    BY <1>5 DEF Taken
<1> HIDE DEF w
<1>7. /\ Consistent(w.job)
      /\ KeyAdvances(jobs[j].resumeKey, w.job.resumeKey)
      /\ jobs[j].researchKeys \subseteq w.job.researchKeys
      /\ \A a \in Effects(w.job) \ Effects(jobs[j]) :
            /\ ~w.raised
            /\ jobs[j].state = "PAUSED" => event = "RESUME"
            /\ Fresh(a, jobs[j], snap, w.job)
    BY <1>1, <1>2, <1>3, <1>5, CallConsistent DEF JobsConsistent
<1>8. /\ jobs' \in [Jobs -> Records] /\ used' \in Nat
      /\ Quiet(w.job, jobs'[j])
      /\ \A k \in Jobs \ {j} : jobs'[k] = jobs[k]
      /\ grants \subseteq grants'
      /\ \A g \in grants' \ grants : NewGrant(g, j, snap)
    BY <1>3, <1>6, CommitStores
<1>9. Consistent(jobs'[j])
    BY <1>7, <1>8, QuietConsistent
<1>10. \A a \in Effects(jobs'[j]) \ Effects(jobs[j]) :
          /\ ~w.raised
          /\ jobs[j].state = "PAUSED" => event = "RESUME"
          /\ Fresh(a, jobs[j], snap, jobs'[j])
    BY <1>7, <1>8 DEF Quiet, SameBasis, Fresh, ResumeKey
<1>11. ASSUME NEW g \in grants' \ grants, g.whileHeld
       PROVE  jobs[j].state \notin {"PAUSED", "COMPLETED", "CANCELLED"}
  <2>1. jobs[j].state = "PAUSED" => ~(j \in held')
      BY <1>3, <1>8, <1>10, <1>11 DEF NewGrant
  <2>2. PICK a, about :
            g = [job |-> j, id |-> a.id, kind |-> a.kind, about |-> about,
                 whileHeld |-> j \in held']
      BY <1>8, <1>11 DEF NewGrant
  <2>3. j \in held'
      BY <1>11, <2>2
  <2> QED BY <1>3, <2>1, <2>3 DEF Observed, Terminal
<1>12. held' \subseteq Jobs
    BY <1>3 DEF TypeOK
<1>13. /\ KeyAdvances(jobs[j].resumeKey, jobs'[j].resumeKey)
       /\ jobs[j].researchKeys \subseteq jobs'[j].researchKeys
    BY <1>7, <1>8 DEF Quiet, SameBasis
<1> QED BY <1>2, <1>4, <1>8, <1>9, <1>10, <1>11, <1>12, <1>13 DEF Advances

\* An expired effect is still the only one.
LEMMA ExpireAdvances ==
    ASSUME TypeOK, JobsConsistent, NEW j \in Jobs, Expire(j)
    PROVE  Advances(j)
<1>1. PICK a \in Effects(jobs[j]) :
          /\ jobs' = [jobs EXCEPT ![j].pending =
                         (@ \ {a}) \cup {[a EXCEPT !.expired = TRUE]}]
          /\ used' = used /\ grants' = grants /\ held' = held
    BY DEF Expire
<1> DEFINE late == [a EXCEPT !.expired = TRUE]
           pending == (jobs[j].pending \ {a}) \cup {late}
           new == [jobs[j] EXCEPT !.pending = pending]
<1>2. jobs \in [Jobs -> Records] /\ jobs[j] \in Records /\ Consistent(jobs[j])
    BY DEF TypeOK, JobsConsistent
<1>3. a \in Actions /\ a \in jobs[j].pending /\ a.kind # "NOTIFY"
    BY <1>2 DEF Effects, Records
<1>4. /\ late \in Actions /\ late.kind = a.kind /\ late.generation = a.generation
    BY <1>3 DEF Actions
<1> HIDE DEF late
<1>5. pending \in SUBSET Actions
    BY <1>2, <1>4 DEF Records
<1>6. jobs' = [jobs EXCEPT ![j] = new]
    BY <1>1 DEF late
<1>7. Effects(new) = (Effects(jobs[j]) \ {a}) \cup {late}
    BY <1>2, <1>3, <1>4 DEF Effects, Records
<1> HIDE DEF pending
<1>8. new \in Records /\ SameBasis(jobs[j], new)
    BY <1>2, <1>5 DEF Records, SameBasis
<1> HIDE DEF new
<1>9. /\ jobs' \in [Jobs -> Records] /\ jobs'[j] = new
      /\ \A k \in Jobs \ {j} : jobs'[k] = jobs[k]
    BY <1>2, <1>6, <1>8
<1>10. Effects(new) = {late}
    BY <1>2, <1>7 DEF Consistent, OneEffect
<1>11. Consistent(new)
    BY <1>2, <1>4, <1>8, <1>10
       DEF Consistent, OneEffect, OwnerFirst, KeyIsCurrent, StartIsAhead, SameBasis
<1> QED BY <1>1, <1>8, <1>9, <1>11 DEF Advances, SameBasis, KeyAdvances, TypeOK

LEMMA ControlAdvances ==
    ASSUME TypeOK, JobsConsistent, ProgressIsReal, NEW j \in Jobs, Control(j)
    PROVE  /\ Advances(j) \/ UNCHANGED controlVars
           /\ UNCHANGED <<chats, host, view>>
<1>0. Start(j) \in Calls /\ Start(j).job = jobs[j] /\ jobs[j] \in Records
    BY StartCall
<1>1. CASE CallStatus(j)
    BY <1>1, StatusAdvances DEF CallStatus, Respond
<1>2. CASE CallPauseOrCancel(j)
  <2>1. PICK event \in Events : PauseOrCancel(j, event) /\ UNCHANGED hostVars
      BY <1>2 DEF CallPauseOrCancel
  <2> DEFINE state == IF event = "PAUSE" THEN "PAUSED" ELSE "CANCELLED"
             job == [jobs[j] EXCEPT !.state = state]
             w == [Start(j) EXCEPT !.job = job]
  <2>2. Commit(j, w, NoRef) /\ held' = held \cup {j}
      BY <1>0, <2>1 DEF PauseOrCancel
  <2>3. state \in States
      BY DEF States
  <2> HIDE DEF state
  <2>4. job \in Records /\ Quiet(jobs[j], job)
      BY <1>0, <2>3 DEF Records, Quiet, SameBasis, Effects
  <2> HIDE DEF job
  <2>5. w \in Calls /\ w.job = job
      BY <1>0, <2>4 DEF Calls
  <2> HIDE DEF w
  <2>6. held' \subseteq Jobs
      BY <2>2 DEF TypeOK
  <2>7. Advances(j)
      BY <2>2, <2>4, <2>5, <2>6, QuietAdvances
  <2> QED BY <2>1, <2>7 DEF hostVars
<1>3. CASE CallWithoutObservation(j)
  <2>1. PICK event \in ObservedEvents : ObservationUnavailable(j, event) /\ Respond(j)
      BY <1>3 DEF CallWithoutObservation
  <2> DEFINE w == Raise(Start(j), "CLIENT_OBSERVATION_EXPIRED")
  <2>2. Commit(j, w, NoRef) /\ held' = held
      BY <2>1 DEF ObservationUnavailable
  <2>3. w \in Calls /\ Quiet(jobs[j], w.job)
      BY <1>0, ManualQuiet DEF Reasons
  <2> HIDE DEF w
  <2>4. Advances(j)
      BY <2>2, <2>3, QuietAdvances DEF TypeOK
  <2> QED BY <2>1, <2>4 DEF Respond
<1>4. CASE CallWithStaleView(j)
    BY <1>4 DEF CallWithStaleView, ObservationRejected, hostVars
<1>5. CASE CallWithView(j)
  <2>1. PICK event \in ObservedEvents, report \in Reports :
            ObservationUsed(j, event, Read(j, report)) /\ Respond(j)
      BY <1>5 DEF CallWithView
  <2> QED BY <2>1, UsedAdvances DEF Respond
<1> QED BY <1>1, <1>2, <1>3, <1>4, <1>5 DEF Control

-----------------------------------------------------------------------------
(* What the host's steps keep                                               *)

LEMMA SnapshotTyped ==
    ASSUME HostTypeOK, ProgressIsReal, NEW j \in Jobs
    PROVE  Snapshot(j) \in Snapshots /\ Snapshot(j).base <= Snapshot(j).checkpoint
<1>1. chats[j] \in Seq({"idle", "running", "retired"}) /\ host[j] \in Hosts
    BY DEF HostTypeOK
<1>2. Owner(j) \in Refs
    BY <1>1 DEF Owner, Refs
<1>3. (OwnerStatus(j) = "running") \in BOOLEAN
    OBVIOUS
<1> QED BY <1>1, <1>2, <1>3 DEF Snapshot, Snapshots, Hosts, ProgressIsReal

\* The status of the last chat changes, and nothing else.
LEMMA SetOwnerTyped ==
    ASSUME HostTypeOK, NEW j \in Jobs, NEW status \in {"idle", "running", "retired"},
           chats[j] # <<>>
    PROVE  /\ SetOwner(j, status) \in [Jobs -> Seq({"idle", "running", "retired"})]
           /\ Len(SetOwner(j, status)[j]) = Len(chats[j])
           /\ Len(chats[j]) \in Nat \ {0}
           /\ SetOwner(j, status)[j][Len(chats[j])] = status
           /\ \A i \in 1 .. Len(chats[j]) - 1 : SetOwner(j, status)[j][i] = chats[j][i]
           /\ \A k \in Jobs \ {j} : SetOwner(j, status)[k] = chats[k]
<1> DEFINE new == [chats[j] EXCEPT ![Len(chats[j])] = status]
<1>1. chats[j] \in Seq({"idle", "running", "retired"})
    BY DEF HostTypeOK
<1>2. Len(chats[j]) \in Nat \ {0} /\ Len(chats[j]) \in 1 .. Len(chats[j])
    BY <1>1, EmptySeq
<1>3. /\ new \in Seq({"idle", "running", "retired"}) /\ Len(new) = Len(chats[j])
      /\ \A i \in 1 .. Len(chats[j]) :
            new[i] = IF i = Len(chats[j]) THEN status ELSE chats[j][i]
    BY <1>1, <1>2, ExceptSeq
<1> HIDE DEF new
<1>4. SetOwner(j, status) = [chats EXCEPT ![j] = new]
    BY DEF SetOwner, new
<1>5. /\ SetOwner(j, status)[j] = new
      /\ \A k \in Jobs \ {j} : SetOwner(j, status)[k] = chats[k]
      /\ SetOwner(j, status) \in [Jobs -> Seq({"idle", "running", "retired"})]
    BY <1>3, <1>4 DEF HostTypeOK
<1> QED BY <1>2, <1>3, <1>5

LEMMA ExecuteTyped ==
    ASSUME TypeOK, ProgressIsReal, NEW j \in Jobs, Execute(j)
    PROVE  HostTypeOK' /\ ProgressIsReal' /\ UNCHANGED controlVars
<1>0. HostTypeOK
    BY DEF TypeOK
<1>1. PICK a \in jobs[j].pending, retired \in BOOLEAN,
           outcome \in {"SUCCEEDED", "UNKNOWN"} :
        /\ MayExecute(j, a)
        /\ Resumes(j, a) \/ Starts(j, a) \/ HandsOff(j, a, retired) \/ Other(a)
        /\ tray' = [tray EXCEPT ![j] = @ \ {a.id}]
        /\ host' = [host EXCEPT
              ![j].ack = [id |-> a.id, outcome |-> outcome, retired |-> retired,
                          session |-> Len(chats'[j]), checkpoint |-> host[j].checkpoint],
              ![j].generation = IF a.kind = "START_SESSION" THEN @ + 1 ELSE @,
              ![j].late = IF a.kind = "START_SESSION" THEN Snapshot(j) ELSE @,
              ![j].base = IF a.kind \in {"START_SESSION", "RESUME_SESSION"}
                            THEN host[j].checkpoint ELSE @,
              ![j].settled = @ \cup {a.id}]
        /\ UNCHANGED <<controlVars, view>>
    BY DEF Execute
<1>2. chats' \in [Jobs -> Seq({"idle", "running", "retired"})]
  <2>1. CASE Resumes(j, a)
      BY <1>0, <2>1, SetOwnerTyped DEF Resumes, OwnerStatus
  <2>2. CASE Starts(j, a)
    <3>1. Append(chats[j], "running") \in Seq({"idle", "running", "retired"})
        BY <1>0 DEF HostTypeOK
    <3> QED BY <1>0, <2>2, <3>1 DEF Starts, HostTypeOK
  <2>3. CASE HandsOff(j, a, retired)
      BY <1>0, <2>3, SetOwnerTyped DEF HandsOff, OwnerStatus, HostTypeOK
  <2>4. CASE Other(a)
      BY <1>0, <2>4 DEF Other, HostTypeOK
  <2> QED BY <1>1, <2>1, <2>2, <2>3, <2>4
<1>3. a.id \in Nat /\ host[j] \in Hosts /\ Len(chats'[j]) \in Nat
    BY <1>0, <1>2 DEF TypeOK, Records, Actions, HostTypeOK
<1> DEFINE ack == [id |-> a.id, outcome |-> outcome, retired |-> retired,
                   session |-> Len(chats'[j]), checkpoint |-> host[j].checkpoint]
           generation == IF a.kind = "START_SESSION" THEN host[j].generation + 1
                         ELSE host[j].generation
           late == IF a.kind = "START_SESSION" THEN Snapshot(j) ELSE host[j].late
           base == IF a.kind \in {"START_SESSION", "RESUME_SESSION"}
                     THEN host[j].checkpoint ELSE host[j].base
           settled == host[j].settled \cup {a.id}
           new == [host[j] EXCEPT !.ack = ack, !.generation = generation,
                                  !.late = late, !.base = base, !.settled = settled]
<1>4. ack \in Acks
    BY <1>3 DEF Acks, Hosts
<1>5. /\ generation \in Nat /\ base \in Nat /\ late \in Snapshots \cup {NoRef}
      /\ base <= host[j].checkpoint /\ settled \in SUBSET Nat
      /\ late # NoRef => late.base <= late.checkpoint
    BY <1>0, <1>3, SnapshotTyped DEF Hosts, ProgressIsReal
<1>6. host' = [host EXCEPT ![j] = new]
    BY <1>1
<1> HIDE DEF ack, generation, late, base, settled
<1>7. new \in Hosts /\ new.base = base /\ new.late = late
      /\ new.checkpoint = host[j].checkpoint
    BY <1>3, <1>4, <1>5 DEF Hosts
<1> HIDE DEF new
<1>8. /\ host' \in [Jobs -> Hosts] /\ host'[j] = new
      /\ \A k \in Jobs \ {j} : host'[k] = host[k]
    BY <1>0, <1>6, <1>7 DEF HostTypeOK
<1>9. tray' \in [Jobs -> SUBSET Nat] /\ view' = view
    BY <1>0, <1>1 DEF HostTypeOK
<1>10. HostTypeOK'
    BY <1>0, <1>2, <1>8, <1>9 DEF HostTypeOK
<1>11. ProgressIsReal'
    BY <1>5, <1>7, <1>8, <1>9 DEF ProgressIsReal
<1> QED BY <1>1, <1>10, <1>11

\* Every step of the host but Expire leaves the records and the grants alone.
LEMMA HostTyped ==
    ASSUME TypeOK, ProgressIsReal, NEW j \in Jobs, Host(j)
    PROVE  HostTypeOK' /\ ProgressIsReal' /\ (Expire(j) \/ UNCHANGED controlVars)
<1>0. HostTypeOK /\ host[j] \in Hosts
    BY DEF TypeOK, HostTypeOK
<1>1. ASSUME UNCHANGED <<chats, host, tray>>,
             NEW new \in Snapshots, new.base <= new.checkpoint,
             view' = [view EXCEPT ![j] = new]
      PROVE  HostTypeOK' /\ ProgressIsReal'
    BY <1>0, <1>1 DEF HostTypeOK, ProgressIsReal
<1>2. CASE Publish(j)
    BY <1>0, <1>1, <1>2, SnapshotTyped DEF Publish
<1>3. CASE PublishLate(j)
  <2>1. host[j].late \in Snapshots /\ host[j].late.base <= host[j].late.checkpoint
      BY <1>0, <1>3 DEF PublishLate, Hosts, ProgressIsReal
  <2> QED BY <1>1, <1>3, <2>1 DEF PublishLate
<1>4. CASE Execute(j)
    BY <1>4, ExecuteTyped
<1>5. CASE Refuse(j)
  <2>1. PICK a \in jobs[j].pending, outcome \in {"FAILED", "NOT_STARTED"} :
            /\ tray' = [tray EXCEPT ![j] = @ \ {a.id}]
            /\ host' = [host EXCEPT
                  ![j].ack = [id |-> a.id, outcome |-> outcome, retired |-> FALSE,
                              session |-> Len(chats[j]),
                              checkpoint |-> host[j].checkpoint],
                  ![j].settled = @ \cup {a.id}]
            /\ UNCHANGED <<controlVars, chats, view>>
      BY <1>5 DEF Refuse
  <2> DEFINE ack == [id |-> a.id, outcome |-> outcome, retired |-> FALSE,
                     session |-> Len(chats[j]), checkpoint |-> host[j].checkpoint]
             settled == host[j].settled \cup {a.id}
             new == [host[j] EXCEPT !.ack = ack, !.settled = settled]
  <2>2. a.id \in Nat /\ Len(chats[j]) \in Nat
      BY <1>0 DEF TypeOK, Records, Actions, HostTypeOK
  <2>3. ack \in Acks /\ settled \in SUBSET Nat
      BY <1>0, <2>2 DEF Acks, Hosts
  <2>4. host' = [host EXCEPT ![j] = new]
      BY <2>1
  <2> HIDE DEF ack, settled
  <2>5. /\ new \in Hosts /\ new.base = host[j].base /\ new.late = host[j].late
        /\ new.checkpoint = host[j].checkpoint
      BY <1>0, <2>3 DEF Hosts
  <2> HIDE DEF new
  <2>6. /\ host' \in [Jobs -> Hosts] /\ host'[j] = new
        /\ \A k \in Jobs \ {j} : host'[k] = host[k]
      BY <1>0, <2>4, <2>5 DEF HostTypeOK
  <2>7. tray' \in [Jobs -> SUBSET Nat]
      BY <1>0, <2>1 DEF HostTypeOK
  <2> QED BY <1>0, <2>1, <2>5, <2>6, <2>7 DEF HostTypeOK, ProgressIsReal
<1>6. CASE Expire(j)
    BY <1>0, <1>6 DEF Expire, hostVars, HostTypeOK, ProgressIsReal
<1>7. CASE ChatWorks(j)
  <2> DEFINE new == [host[j] EXCEPT !.checkpoint = host[j].checkpoint + 1]
  <2>1. /\ new \in Hosts /\ new.base = host[j].base /\ new.late = host[j].late
        /\ new.checkpoint = host[j].checkpoint + 1
      BY <1>0 DEF Hosts
  <2>2. host' = [host EXCEPT ![j] = new] /\ UNCHANGED <<controlVars, chats, tray, view>>
      BY <1>7 DEF ChatWorks
  <2> HIDE DEF new
  <2>3. /\ host' \in [Jobs -> Hosts] /\ host'[j] = new
        /\ \A k \in Jobs \ {j} : host'[k] = host[k]
      BY <1>0, <2>1, <2>2 DEF HostTypeOK
  <2>4. new.base <= new.checkpoint
      BY <1>0, <2>1 DEF ProgressIsReal, Hosts
  <2> QED BY <1>0, <2>1, <2>2, <2>3, <2>4 DEF HostTypeOK, ProgressIsReal
<1>8. CASE ChatStops(j) \/ UserContinues(j)
  <2>1. chats' \in [Jobs -> Seq({"idle", "running", "retired"})]
      BY <1>0, <1>8, SetOwnerTyped DEF ChatStops, UserContinues, OwnerStatus
  <2> QED BY <1>0, <1>8, <2>1 DEF ChatStops, UserContinues, HostTypeOK, ProgressIsReal
<1> QED BY <1>2, <1>3, <1>4, <1>5, <1>6, <1>7, <1>8
       DEF Host, Publish, PublishLate, Refuse, ChatWorks, ChatStops, UserContinues

-----------------------------------------------------------------------------
(* The invariant is inductive                                               *)

LEMMA InitIInv == Init => IInv
<1> SUFFICES ASSUME Init PROVE IInv
    OBVIOUS
<1>1. NewJob \in Records /\ Effects(NewJob) = {} /\ Consistent(NewJob)
    BY DEF NewJob, Records, States, Refs, Effects, Consistent, OneEffect, OwnerFirst,
           KeyIsCurrent, StartIsAhead
<1>2. /\ jobs = [j \in Jobs |-> NewJob] /\ used = 0 /\ grants = {} /\ held = {}
      /\ host = [j \in Jobs |-> NewHost] /\ tray = [j \in Jobs |-> {}]
      /\ view = [j \in Jobs |-> Snapshot(j)]
      /\ chats \in [Jobs -> {<<>>, <<"idle">>}]
    BY DEF Init, ControlInit
<1>3. /\ NewHost \in Hosts /\ NewHost.late = NoRef
      /\ NewHost.base <= NewHost.checkpoint
    BY DEF NewHost, Hosts
<1>4. chats \in [Jobs -> Seq({"idle", "running", "retired"})]
  <2>1. /\ <<>> \in Seq({"idle", "running", "retired"})
        /\ <<"idle">> \in Seq({"idle", "running", "retired"})
      OBVIOUS
  <2> QED BY <1>2, <2>1
<1>5. ASSUME NEW j \in Jobs
      PROVE  Snapshot(j) \in Snapshots /\ Snapshot(j).base <= Snapshot(j).checkpoint
  <2>1. chats[j] \in Seq({"idle", "running", "retired"}) /\ host[j] = NewHost
      BY <1>2, <1>4
  <2>2. Owner(j) \in Refs /\ (OwnerStatus(j) = "running") \in BOOLEAN
      BY <2>1 DEF Owner, Refs
  <2> QED BY <1>3, <2>1, <2>2 DEF Snapshot, Snapshots, Hosts
<1>6. TypeOK
    BY <1>1, <1>2, <1>3, <1>4, <1>5 DEF TypeOK, HostTypeOK
<1>7. JobsConsistent /\ ProgressIsReal
    BY <1>1, <1>2, <1>3, <1>5 DEF JobsConsistent, ProgressIsReal
<1> QED BY <1>2, <1>6, <1>7 DEF IInv, GrantsAreRemembered, NothingGrantedTwice

\* What job j was granted before stays remembered, and a new grant repeats none.
LEMMA GrantsKept ==
    ASSUME TypeOK, JobsConsistent, GrantsAreRemembered, NothingGrantedTwice,
           NEW j \in Jobs, Advances(j)
    PROVE  /\ grants' \subseteq Grants
           /\ GrantsAreRemembered'
           /\ NothingGrantedTwice'
<1>1. /\ jobs[j] \in Records /\ jobs' \in [Jobs -> Records] /\ jobs'[j] \in Records
      /\ \A k \in Jobs \ {j} : jobs'[k] = jobs[k]
      /\ OneEffect(jobs'[j])
      /\ KeyAdvances(jobs[j].resumeKey, jobs'[j].resumeKey)
      /\ jobs[j].researchKeys \subseteq jobs'[j].researchKeys
      /\ grants \subseteq grants' /\ grants \subseteq Grants
    BY DEF TypeOK, Advances, Consistent
<1>2. jobs[j].resumeKey \in Keys \cup {NoRef} /\ jobs'[j].resumeKey \in Keys \cup {NoRef}
    BY <1>1 DEF Records
<1>3. NoRef \notin Keys
    BY ControlAssumption DEF Keys
<1>4. ASSUME NEW g \in grants PROVE Remembered(g)'
  <2>1. Remembered(g) /\ g \in Grants
      BY <1>1 DEF GrantsAreRemembered
  <2>2. CASE g.job # j
      BY <1>1, <2>1, <2>2 DEF Remembered, Grants
  <2>3. CASE g.job = j
    <3>1. ASSUME NEW key \in Keys, jobs[j].resumeKey # NoRef,
                 key = jobs[j].resumeKey \/ Before(key, jobs[j].resumeKey)
          PROVE  key = jobs'[j].resumeKey \/ Before(key, jobs'[j].resumeKey)
      <4>1. KeyAdvances(key, jobs[j].resumeKey)
          BY <1>3, <3>1 DEF KeyAdvances, KeyMoves
      <4>2. KeyAdvances(key, jobs'[j].resumeKey)
          BY <1>1, <1>2, <4>1, KeysAreOrdered
      <4> QED BY <1>3, <4>2 DEF KeyAdvances, KeyMoves
    <3>2. jobs[j].resumeKey # NoRef => jobs'[j].resumeKey # NoRef
        BY <1>1 DEF KeyAdvances, KeyMoves
    <3> QED BY <1>1, <2>1, <2>3, <3>1, <3>2 DEF Remembered
  <2> QED BY <2>2, <2>3
<1>5. ASSUME NEW g \in grants' \ grants
      PROVE  /\ g \in Grants /\ g.job = j /\ Remembered(g)'
             /\ \A h \in grants : h.job = j /\ h.kind = g.kind =>
                                      g.about \cap h.about = {}
             /\ \E a \in Effects(jobs'[j]) : g.id = a.id
  <2>1. PICK snap :
            /\ Observation(snap) /\ NewGrant(g, j, snap)
            /\ \A a \in Effects(jobs'[j]) \ Effects(jobs[j]) :
                  Fresh(a, jobs[j], snap, jobs'[j])
      BY <1>5 DEF Advances
  <2>2. PICK a \in Effects(jobs'[j]) \ Effects(jobs[j]) :
            /\ a.kind \in Counted
            /\ g = [job |-> j, id |-> a.id, kind |-> a.kind,
                    about |-> About(jobs'[j], snap, a), whileHeld |-> j \in held']
      BY <2>1 DEF NewGrant
  <2>3. a \in Actions /\ Fresh(a, jobs[j], snap, jobs'[j])
      BY <1>1, <2>1, <2>2 DEF Effects, Records
  <2>4. /\ g.job = j /\ g.id = a.id /\ g.kind = a.kind
        /\ g.about = About(jobs'[j], snap, a)
      BY <2>2
  <2>5. (j \in held') \in BOOLEAN
      OBVIOUS
  <2>6. CASE a.kind = "RESUME_SESSION"
    <3>1. /\ g.about = {jobs'[j].resumeKey}
          /\ KeyMoves(jobs[j].resumeKey, jobs'[j].resumeKey)
        BY <2>3, <2>4, <2>6 DEF About, Fresh
    <3>2. jobs'[j].resumeKey \in Keys
        BY <1>2, <3>1 DEF KeyMoves
    <3>3. g \in Grants
        BY <2>2, <2>3, <2>4, <2>5, <3>1, <3>2 DEF Grants, Actions
    <3>4. Remembered(g)'
        BY <1>3, <2>4, <2>6, <3>1, <3>2 DEF Remembered
    <3>5. ASSUME NEW h \in grants, h.job = j, h.kind = "RESUME_SESSION"
          PROVE  g.about \cap h.about = {}
      <4>1. /\ jobs[j].resumeKey # NoRef
            /\ \A key \in h.about :
                  key \in Keys /\ (key = jobs[j].resumeKey \/ Before(key, jobs[j].resumeKey))
          BY <3>5 DEF GrantsAreRemembered, Remembered
      <4>2. Before(jobs[j].resumeKey, jobs'[j].resumeKey)
          BY <3>1, <4>1 DEF KeyMoves
      <4>3. ASSUME jobs'[j].resumeKey \in h.about PROVE FALSE
          BY <1>2, <3>2, <4>1, <4>2, <4>3 DEF Before, Keys
      <4> QED BY <3>1, <4>3
    <3> QED BY <2>2, <2>4, <2>6, <3>3, <3>4, <3>5
  <2>7. CASE a.kind = "RESEARCH"
    <3>1. /\ g.about = {snap.failure} /\ snap.failure \notin jobs[j].researchKeys
          /\ snap.failure \in jobs'[j].researchKeys /\ snap.failure \in Failures
        BY <2>1, <2>3, <2>4, <2>7 DEF About, Fresh, Observation
    <3>2. g \in Grants
        BY <2>2, <2>3, <2>4, <2>5, <3>1 DEF Grants, Actions
    <3>3. Remembered(g)'
        BY <2>4, <2>7, <3>1 DEF Remembered
    <3>4. ASSUME NEW h \in grants, h.job = j, h.kind = "RESEARCH"
          PROVE  g.about \cap h.about = {}
        BY <3>1, <3>4 DEF GrantsAreRemembered, Remembered
    <3> QED BY <2>2, <2>4, <2>7, <3>2, <3>3, <3>4
  <2>8. CASE a.kind = "START_SESSION"
    <3>1. g.about = {}
        BY <2>4, <2>8 DEF About
    <3>2. g \in Grants
        BY <2>2, <2>3, <2>4, <2>5, <3>1 DEF Grants, Actions
    <3>3. Remembered(g)'
        BY <2>4, <2>8, <3>1 DEF Remembered
    <3> QED BY <2>2, <2>4, <3>1, <3>2, <3>3
  <2> QED BY <2>2, <2>6, <2>7, <2>8 DEF Counted
<1>6. grants' \subseteq Grants /\ GrantsAreRemembered'
    BY <1>1, <1>4, <1>5 DEF GrantsAreRemembered
<1>7. ASSUME NEW g \in grants', NEW h \in grants',
             g.job = h.job, g.kind = h.kind, g.about \cap h.about # {}
      PROVE  g.id = h.id
  <2>1. CASE g \in grants /\ h \in grants
      BY <1>7, <2>1 DEF NothingGrantedTwice
  <2>2. CASE g \notin grants /\ h \in grants
      BY <1>5, <1>7, <2>2
  <2>3. CASE g \in grants /\ h \notin grants
      BY <1>5, <1>7, <2>3
  <2>4. CASE g \notin grants /\ h \notin grants
      BY <1>1, <1>5, <2>4 DEF OneEffect
  <2> QED BY <2>1, <2>2, <2>3, <2>4
<1> QED BY <1>6, <1>7 DEF NothingGrantedTwice

\* Each step is a step of one job, in which the record advances or stays.
LEMMA NextIInv == IInv /\ [Next]_vars => IInv'
<1> SUFFICES ASSUME IInv, [Next]_vars PROVE IInv'
    OBVIOUS
<1>1. /\ TypeOK /\ JobsConsistent /\ ProgressIsReal /\ GrantsAreRemembered
      /\ NothingGrantedTwice /\ HostTypeOK
    BY DEF IInv, TypeOK
<1>2. ASSUME NEW j \in Jobs, Advances(j), HostTypeOK', ProgressIsReal' PROVE IInv'
  <2>1. grants' \subseteq Grants /\ GrantsAreRemembered' /\ NothingGrantedTwice'
      BY <1>1, <1>2, GrantsKept
  <2>2. JobsConsistent'
      BY <1>1, <1>2 DEF Advances, JobsConsistent
  <2>3. TypeOK'
      BY <1>2, <2>1 DEF Advances, TypeOK
  <2> QED BY <1>2, <2>1, <2>2, <2>3 DEF IInv
<1>3. ASSUME UNCHANGED controlVars, HostTypeOK', ProgressIsReal' PROVE IInv'
    BY <1>1, <1>3 DEF IInv, TypeOK, JobsConsistent, GrantsAreRemembered, Remembered,
                      NothingGrantedTwice, controlVars
<1>4. ASSUME NEW j \in Jobs, Control(j) PROVE IInv'
  <2>1. Advances(j) \/ UNCHANGED controlVars
      BY <1>1, <1>4, ControlAdvances
  <2>2. UNCHANGED <<chats, host, view>>
      BY <1>1, <1>4, ControlAdvances
  <2>3. jobs' \in [Jobs -> Records]
      BY <1>1, <2>1 DEF Advances, TypeOK, controlVars
  <2>4. tray' \in [Jobs -> SUBSET Nat]
    <3>1. CASE UNCHANGED tray
        BY <1>1, <3>1 DEF HostTypeOK
    <3>2. CASE tray' = [tray EXCEPT ![j] = @ \cup
                          {a.id : a \in jobs'[j].pending \ jobs[j].pending}]
      <4>1. {a.id : a \in jobs'[j].pending \ jobs[j].pending} \subseteq Nat
          BY <2>3 DEF Records, Actions
      <4> QED BY <1>1, <3>2, <4>1 DEF HostTypeOK
    <3>3. Respond(j) \/ UNCHANGED tray
        BY <1>4 DEF Control, CallStatus, CallPauseOrCancel, CallWithoutObservation,
                    CallWithStaleView, CallWithView, hostVars
    <3> QED BY <3>1, <3>2, <3>3 DEF Respond
  <2>5. HostTypeOK' /\ ProgressIsReal'
      BY <1>1, <2>2, <2>4 DEF HostTypeOK, ProgressIsReal
  <2> QED BY <1>2, <1>3, <2>1, <2>5
<1>5. ASSUME NEW j \in Jobs, Host(j) PROVE IInv'
  <2>1. HostTypeOK' /\ ProgressIsReal' /\ (Expire(j) \/ UNCHANGED controlVars)
      BY <1>1, <1>5, HostTyped
  <2> QED BY <1>1, <1>2, <1>3, <2>1, ExpireAdvances
<1>6. CASE UNCHANGED vars
    BY <1>1, <1>3, <1>6 DEF vars, hostVars, HostTypeOK, ProgressIsReal
<1> QED BY <1>4, <1>5, <1>6 DEF Next

THEOREM InductiveInvariant == Spec => []IInv
<1>1. Init => IInv
    BY InitIInv
<1>2. IInv /\ [Next]_vars => IInv'
    BY NextIInv
<1> QED BY <1>1, <1>2, PTL DEF Spec

-----------------------------------------------------------------------------
(* The properties                                                           *)

\* Every value keeps its type: the record, the counter, the grants and what the
\* host publishes.
THEOREM TypeCorrectness == Spec => []TypeOK
<1>1. IInv => TypeOK
    BY DEF IInv
<1> QED BY <1>1, InductiveInvariant, PTL

\* At most one effect is outstanding for a job, whichever events arrive and
\* whatever the snapshots show: the "active" test in control() is enough.
THEOREM OneEffectOutstanding == Spec => []OneOutstandingEffect
<1>1. IInv => OneOutstandingEffect
  <2> SUFFICES ASSUME IInv, NEW j \in Jobs PROVE Cardinality(Effects(jobs[j])) <= 1
      BY DEF OneOutstandingEffect
  <2>1. \A a, b \in Effects(jobs[j]) : a = b
      BY DEF IInv, JobsConsistent, Consistent, OneEffect
  <2>2. CASE Effects(jobs[j]) = {}
      BY <2>2, FS_EmptySet
  <2>3. CASE \E a : Effects(jobs[j]) = {a}
    <3>1. PICK a : Effects(jobs[j]) = {a}
        BY <2>3
    <3>2. Cardinality(Effects(jobs[j])) = 1
        BY <3>1, FS_Singleton
    <3> QED BY <3>2
  <2> QED BY <2>1, <2>2, <2>3
<1> QED BY <1>1, InductiveInvariant, PTL

\* No continuation of a generation and checkpoint, and no research of a failure,
\* is granted a second time: the stored keys only move forward.
THEOREM NoGrantIsRepeated == Spec => []NothingGrantedTwice
<1>1. IInv => NothingGrantedTwice
    BY DEF IInv
<1> QED BY <1>1, InductiveInvariant, PTL

\* A job that is paused, completed or cancelled is granted nothing, unless the
\* pause was turned into a question to the operator.
THEOREM PausesHold == Spec => PauseHolds
<1> DEFINE Held == \A g \in grants' \ grants : g.whileHeld =>
                      jobs[g.job].state \notin {"PAUSED", "COMPLETED", "CANCELLED"}
<1>1. ASSUME IInv, Next PROVE Held
  <2>1. TypeOK /\ JobsConsistent /\ ProgressIsReal
      BY <1>1 DEF IInv
  <2>2. PICK j \in Jobs : Control(j) \/ Host(j)
      BY <1>1 DEF Next
  <2>3. Advances(j) \/ UNCHANGED controlVars
      BY <2>1, <2>2, ControlAdvances, HostTyped, ExpireAdvances
  <2>4. CASE UNCHANGED controlVars
      BY <2>4 DEF controlVars
  <2>5. CASE Advances(j)
      BY <2>5 DEF Advances, NewGrant
  <2> QED BY <2>3, <2>4, <2>5
<1>2. ASSUME UNCHANGED vars PROVE Held
    BY <1>2 DEF vars, controlVars
<1>3. IInv /\ [Next]_vars => [Held]_vars
    BY <1>1, <1>2
<1> QED BY <1>3, InductiveInvariant, PTL DEF PauseHolds, Spec

\* While the snapshot is one of an earlier generation, the job keeps its owner
\* and its checkpoint and is granted nothing.
THEOREM PredecessorsAreFenced == Spec => PredecessorIsFenced
<1> DEFINE Fenced == \A j \in Jobs : view[j].generation < jobs[j].generation =>
                        /\ jobs'[j].owner = jobs[j].owner
                        /\ jobs'[j].checkpoint = jobs[j].checkpoint
                        /\ \A g \in grants' \ grants : g.job # j
<1>1. ASSUME IInv, Next PROVE Fenced
  <2>1. TypeOK /\ JobsConsistent /\ ProgressIsReal
      BY <1>1 DEF IInv
  <2>2. PICK k \in Jobs : Control(k) \/ Host(k)
      BY <1>1 DEF Next
  <2>3. Advances(k) \/ UNCHANGED controlVars
      BY <2>1, <2>2, ControlAdvances, HostTyped, ExpireAdvances
  <2>4. CASE UNCHANGED controlVars
      BY <2>4 DEF controlVars
  <2>5. CASE Advances(k)
      BY <2>5 DEF Advances, NewGrant
  <2> QED BY <2>3, <2>4, <2>5
<1>2. ASSUME UNCHANGED vars PROVE Fenced
    BY <1>2 DEF vars, controlVars
<1>3. IInv /\ [Next]_vars => [Fenced]_vars
    BY <1>1, <1>2
<1> QED BY <1>3, InductiveInvariant, PTL DEF PredecessorIsFenced, Spec

-----------------------------------------------------------------------------
(* Numbers: whatever a call does, a new action has a new id                 *)

\* What is pending afterwards was pending before or has a later number.
Later(job, new) ==
    /\ job.sequence \in Nat /\ new.sequence \in Nat /\ job.sequence <= new.sequence
    /\ \A a \in new.pending :
          \/ a \in job.pending
          \/ a.id \in Nat /\ job.sequence < a.id /\ a.id <= new.sequence
    /\ \A a, b \in new.pending \ job.pending : a.id = b.id => a = b

LEMMA LaterTransitive ==
    ASSUME NEW job, NEW mid, NEW new, Later(job, mid), Later(mid, new)
    PROVE  Later(job, new)
BY DEF Later

\* Nothing was added.
LEMMA FewerLater ==
    ASSUME NEW job \in Records, NEW new,
           new.pending \subseteq job.pending, new.sequence = job.sequence
    PROVE  Later(job, new)
BY DEF Later, Records

LEMMA EmitLater ==
    ASSUME NEW job \in Records, NEW kind
    PROVE  Later(job, Emit(job, kind))
<1> DEFINE a == [id |-> job.sequence + 1, kind |-> kind,
                 generation |-> job.generation, expired |-> FALSE]
<1>1. /\ Emit(job, kind).pending = job.pending \cup {a}
      /\ Emit(job, kind).sequence = job.sequence + 1
      /\ job.sequence \in Nat /\ a.id = job.sequence + 1
    BY DEF Emit, Records
<1> HIDE DEF a
<1> QED BY <1>1 DEF Later

LEMMA NotifyLater ==
    ASSUME NEW job \in Records, NEW reason \in Reasons
    PROVE  Later(job, Notify(job, reason))
<1>1. CASE Notify(job, reason) = job
    BY <1>1, FewerLater
<1>2. CASE \E keys : Notify(job, reason) =
                         [Emit(job, "NOTIFY") EXCEPT !.notifications = keys]
  <2> DEFINE new == Emit(job, "NOTIFY")
  <2>1. new \in Records /\ Later(job, new)
      BY EmitAdds, EmitLater
  <2> HIDE DEF new
  <2>2. PICK keys : Notify(job, reason) = [new EXCEPT !.notifications = keys]
      BY <1>2 DEF new
  <2>3. /\ Notify(job, reason).pending = new.pending
        /\ Notify(job, reason).sequence = new.sequence
      BY <2>1, <2>2 DEF Records
  <2> QED BY <2>1, <2>3, FewerLater, LaterTransitive
<1> QED BY <1>1, <1>2 DEF Notify

LEMMA NeedsInputLater ==
    ASSUME NEW job \in Records, NEW reason \in Reasons
    PROVE  Later(job, NeedsInput(job, reason))
<1> DEFINE asked == [job EXCEPT !.state = "NEEDS_INPUT"]
<1>1. /\ asked \in Records /\ asked.pending = job.pending
      /\ asked.sequence = job.sequence
    BY DEF Records, States
<1>2. NeedsInput(job, reason) = Notify(asked, reason)
    BY DEF NeedsInput
<1> HIDE DEF asked
<1> QED BY <1>1, <1>2, FewerLater, NotifyLater, LaterTransitive

LEMMA ManualLater ==
    ASSUME NEW w \in Calls, NEW reason \in Reasons
    PROVE  Later(w.job, Manual(w, reason).job) /\ Later(w.job, Raise(w, reason).job)
<1>1. w.job \in Records
    BY DEF Calls
<1>2. /\ Manual(w, reason).job = NeedsInput(w.job, reason)
      /\ Raise(w, reason).job = NeedsInput(w.job, reason)
    BY DEF Manual, Raise, Calls
<1> QED BY <1>1, <1>2, NeedsInputLater

LEMMA ReserveLater ==
    ASSUME NEW w \in Calls, NEW kind
    PROVE  Later(w.job, Reserve(w, kind).job)
<1>1. CASE Bounded(w)
    BY <1>1, ManualLater DEF Reserve, Reasons
<1>2. CASE ~Bounded(w)
  <2>1. Reserve(w, kind).job = Emit(w.job, kind) /\ w.job \in Records
      BY <1>2 DEF Reserve, Calls
  <2> QED BY <2>1, EmitLater
<1> QED BY <1>1, <1>2

LEMMA RouteStartLater ==
    ASSUME NEW w \in Calls, NEW snap, NEW successor
    PROVE  Later(w.job, RouteStart(w, snap, successor).job)
<1> DEFINE reserved == Reserve(w, "START_SESSION")
<1>1. /\ reserved \in Calls /\ reserved.job \in Records
      /\ Later(w.job, reserved.job)
    BY ReserveAdds, ReserveLater DEF EffectKinds, Calls
<1> HIDE DEF reserved
<1>2. CASE RouteStart(w, snap, successor) = Manual(w, "START_MODEL_SELECTION_REQUIRED")
    BY <1>2, ManualLater DEF Reasons
<1>3. CASE RouteStart(w, snap, successor) = reserved
    BY <1>1, <1>3
<1>4. CASE RouteStart(w, snap, successor) = [reserved EXCEPT !.job.state = "RUNNING"]
  <2>1. /\ RouteStart(w, snap, successor).job.pending = reserved.job.pending
        /\ RouteStart(w, snap, successor).job.sequence = reserved.job.sequence
      BY <1>1, <1>4 DEF Calls, Records
  <2> QED BY <1>1, <2>1, FewerLater, LaterTransitive
<1> QED BY <1>2, <1>3, <1>4 DEF RouteStart, reserved

LEMMA ResumeLater ==
    ASSUME NEW w \in Calls, NEW snap
    PROVE  Later(w.job, ResumeOrStart(w, snap).job)
<1> DEFINE reserved == Reserve(w, "RESUME_SESSION")
           new == ResumeOrStart(w, snap)
<1>0. w.job \in Records
    BY DEF Calls
<1>1. /\ reserved \in Calls /\ reserved.job \in Records
      /\ Later(w.job, reserved.job)
    BY ReserveAdds, ReserveLater DEF EffectKinds, Calls
<1> HIDE DEF reserved
<1>2. CASE \/ new = Manual(w, "MANUAL_CONTINUATION_REQUIRED")
           \/ new = Raise(w, "PROGRESS_EVIDENCE_REQUIRED")
    BY <1>2, ManualLater DEF Reasons
<1>3. CASE new = RouteStart(w, snap, FALSE) \/ new = reserved
    BY <1>1, <1>3, RouteStartLater
<1>4. CASE new = [w EXCEPT !.job.state = "READY"]
  <2>1. new.job.pending = w.job.pending /\ new.job.sequence = w.job.sequence
      BY <1>0, <1>4 DEF Calls, Records
  <2> QED BY <1>0, <2>1, FewerLater
<1>5. CASE new = [reserved EXCEPT !.job = Continued(@, snap)]
  <2>1. /\ new.job.pending = reserved.job.pending
        /\ new.job.sequence = reserved.job.sequence
      BY <1>1, <1>5 DEF Calls, Records, Continued
  <2> QED BY <1>1, <2>1, FewerLater, LaterTransitive
<1> QED BY <1>2, <1>3, <1>4, <1>5 DEF ResumeOrStart, reserved

LEMMA RotateLater ==
    ASSUME NEW w \in Calls, NEW snap
    PROVE  Later(w.job, Rotate(w, snap).job)
<1> DEFINE new == Rotate(w, snap)
<1>0. w.job \in Records
    BY DEF Calls
<1>1. CASE \/ new = Manual(w, "LIFECYCLE_METADATA_REQUIRED")
           \/ new = Raise(w, "LIFECYCLE_OWNER_MISMATCH")
           \/ new = Manual(w, "MANUAL_SUCCESSOR_REQUIRED")
    BY <1>1, ManualLater DEF Reasons
<1>2. CASE new = w
    BY <1>0, <1>2, FewerLater
<1>3. CASE new = RouteStart(w, snap, TRUE) \/ new = ResumeOrStart(w, snap)
    BY <1>3, RouteStartLater, ResumeLater
<1>4. CASE \E kind \in {"PREPARE_HANDOFF", "CHECKPOINT"} :
              /\ new.job.pending = Emit(w.job, kind).pending
              /\ new.job.sequence = Emit(w.job, kind).sequence
  <2>1. PICK kind \in {"PREPARE_HANDOFF", "CHECKPOINT"} :
              /\ new.job.pending = Emit(w.job, kind).pending
              /\ new.job.sequence = Emit(w.job, kind).sequence
      BY <1>4
  <2>2. Emit(w.job, kind) \in Records /\ Later(w.job, Emit(w.job, kind))
      BY <1>0, EmitAdds, EmitLater DEF EffectKinds
  <2> QED BY <2>1, <2>2, FewerLater, LaterTransitive
<1>5. CASE \/ new = [w EXCEPT !.job = [Emit(@, "PREPARE_HANDOFF") EXCEPT
                                          !.state = "RUNNING"]]
           \/ new = [w EXCEPT !.job = [Emit(@, "CHECKPOINT") EXCEPT
                                          !.lifecycleKey = LifecycleKey(snap)]]
  <2>1. ASSUME NEW kind \in {"PREPARE_HANDOFF", "CHECKPOINT"}
        PROVE  Emit(w.job, kind) \in Records
      BY <1>0, EmitAdds DEF EffectKinds
  <2> QED BY <1>4, <1>5, <2>1 DEF Calls, Records
<1> QED BY <1>1, <1>2, <1>3, <1>5 DEF Rotate

LEMMA ResearchLater ==
    ASSUME NEW w \in Calls, NEW snap
    PROVE  Later(w.job, Research(w, snap).job)
<1> DEFINE new == Research(w, snap)
           reserved == Reserve(w, "RESEARCH")
<1>0. w.job \in Records
    BY DEF Calls
<1>1. /\ reserved \in Calls /\ reserved.job \in Records
      /\ Later(w.job, reserved.job)
    BY ReserveAdds, ReserveLater DEF EffectKinds, Calls
<1> HIDE DEF reserved
<1>2. CASE \/ new = Raise(w, "INVALID_CONTROL_FIELDS")
           \/ new = Manual(w, "SOURCE_RESEARCH_UNAVAILABLE")
    BY <1>2, ManualLater DEF Reasons
<1>3. CASE new = w \/ new = reserved
    BY <1>0, <1>1, <1>3, FewerLater
<1>4. CASE new = [reserved EXCEPT !.job.researchKeys = @ \cup {snap.failure}]
  <2>1. /\ new.job.pending = reserved.job.pending
        /\ new.job.sequence = reserved.job.sequence
      BY <1>1, <1>4 DEF Calls, Records
  <2> QED BY <1>1, <2>1, FewerLater, LaterTransitive
<1> QED BY <1>2, <1>3, <1>4 DEF Research, reserved

LEMMA DecideLater ==
    ASSUME NEW w \in Calls, NEW event, NEW snap
    PROVE  Later(w.job, Decide(w, event, snap).job)
<1> DEFINE new == Decide(w, event, snap)
<1>0. w.job \in Records
    BY DEF Calls
<1>1. CASE new = [w EXCEPT !.job =
                     Notify([w.job EXCEPT !.state = "COMPLETED"], "COMPLETED")]
  <2> DEFINE done == [w.job EXCEPT !.state = "COMPLETED"]
  <2>1. /\ done \in Records /\ done.pending = w.job.pending
        /\ done.sequence = w.job.sequence
      BY <1>0 DEF Records, States
  <2>2. new.job = Notify(done, "COMPLETED")
      BY <1>1 DEF Calls
  <2> HIDE DEF done
  <2> QED BY <1>0, <2>1, <2>2, FewerLater, NotifyLater, LaterTransitive DEF Reasons
<1>2. CASE new = w
    BY <1>0, <1>2, FewerLater
<1>3. CASE \/ new = Manual(w, "EXECUTION_UNKNOWN")
           \/ new = Manual(w, "COMPLETION_OR_NEXT_STEP_REQUIRED")
           \/ new = Raise(w, "INDEPENDENT_SOURCE_VERIFICATION_REQUIRED")
    BY <1>3, ManualLater DEF Reasons
<1>4. CASE \E state : new = [w EXCEPT !.job.state = state]
  <2>1. new.job.pending = w.job.pending /\ new.job.sequence = w.job.sequence
      BY <1>0, <1>4 DEF Calls, Records
  <2> QED BY <1>0, <2>1, FewerLater
<1>5. CASE new = Research(w, snap) \/ new = Rotate(w, snap) \/ new = ResumeOrStart(w, snap)
    BY <1>5, ResearchLater, RotateLater, ResumeLater
<1> QED BY <1>1, <1>2, <1>3, <1>4, <1>5 DEF Decide

LEMMA AcknowledgeLater ==
    ASSUME NEW w \in Calls, NEW snap, Observation(snap)
    PROVE  Later(w.job, Acknowledge(w, snap).job)
<1> DEFINE new == Acknowledge(w, snap)
           action == CHOOSE a \in w.job.pending : a.id = snap.ack.id
<1>0. w.job \in Records
    BY DEF Calls
<1>1. CASE new = w
    BY <1>0, <1>1, FewerLater
<1> HIDE DEF action
<1>2. ASSUME NEW call \in Calls, call.job.pending = w.job.pending,
             call.job.sequence = w.job.sequence
      PROVE  Later(w.job, Drop(call, action).job)
  <2>1. /\ Drop(call, action).job.pending \subseteq w.job.pending
        /\ Drop(call, action).job.sequence = w.job.sequence
      BY <1>2 DEF Drop, Calls, Records
  <2> QED BY <1>0, <2>1, FewerLater
<1>3. CASE new = Drop(w, action)
    BY <1>2, <1>3
<1>4. CASE \E reason \in Reasons : new = Manual(w, reason) \/ new = Raise(w, reason)
    BY <1>4, ManualLater
<1>5. CASE new = StartAcknowledged(w, action, snap) /\ snap.ack # NoRef
  <2>1. CASE \E reason \in Reasons : new = Manual(w, reason) \/ new = Raise(w, reason)
      BY <2>1, <1>4
  <2>2. CASE /\ snap.owner = snap.ack.session
             /\ snap.generation = action.generation + 1
             /\ new = Drop([w EXCEPT
                    !.job.owner = snap.ack.session,
                    !.job.generation = action.generation + 1,
                    !.job.resumeKey = <<action.generation + 1, snap.checkpoint>>,
                    !.job.resumeCheckpoint = snap.checkpoint,
                    !.job.quiescent = FALSE], action)
    <3> DEFINE key == <<snap.generation, snap.checkpoint>>
               job == [w.job EXCEPT
                          !.owner = snap.owner, !.generation = snap.generation,
                          !.resumeKey = key, !.resumeCheckpoint = snap.checkpoint,
                          !.quiescent = FALSE]
               call == [w EXCEPT !.job = job]
    <3>1. new = Drop(call, action)
        BY <2>2
    <3>2. /\ snap.owner \in Refs /\ snap.generation \in Nat
          /\ snap.checkpoint \in Refs /\ key \in Keys
        BY DEF Observation, Keys, Refs
    <3> HIDE DEF key
    <3>3. /\ job \in Records /\ job.pending = w.job.pending
          /\ job.sequence = w.job.sequence
        BY <1>0, <3>2 DEF Records
    <3> HIDE DEF job
    <3>4. call \in Calls /\ call.job = job
        BY <3>3 DEF Calls
    <3> HIDE DEF call
    <3> QED BY <1>2, <3>1, <3>3, <3>4
  <2> QED BY <1>5, <2>1, <2>2 DEF StartAcknowledged, Reasons
<1>6. CASE new = HandoffAcknowledged(w, action, snap)
  <2>1. CASE \E reason \in Reasons : new = Manual(w, reason) \/ new = Raise(w, reason)
      BY <2>1, <1>4
  <2>2. CASE new = Drop([w EXCEPT !.job.checkpoint = snap.checkpoint,
                                  !.job.quiescent = TRUE], action)
    <3> DEFINE job == [w.job EXCEPT !.checkpoint = snap.checkpoint, !.quiescent = TRUE]
               call == [w EXCEPT !.job = job]
    <3>1. new = Drop(call, action)
        BY <2>2
    <3>2. snap.checkpoint \in Refs
        BY DEF Observation, Refs
    <3>3. /\ job \in Records /\ job.pending = w.job.pending
          /\ job.sequence = w.job.sequence
        BY <1>0, <3>2 DEF Records
    <3> HIDE DEF job
    <3>4. call \in Calls /\ call.job = job
        BY <3>3 DEF Calls
    <3> HIDE DEF call
    <3> QED BY <1>2, <3>1, <3>3, <3>4
  <2> QED BY <1>6, <2>1, <2>2 DEF HandoffAcknowledged, Reasons
<1>7. \/ new = w \/ new = Drop(w, action)
      \/ new = Manual(w, "AMBIGUOUS_ACTION") \/ new = Manual(w, "CLIENT_ACTION_FAILED")
      \/ new = StartAcknowledged(w, action, snap) /\ snap.ack # NoRef
      \/ new = HandoffAcknowledged(w, action, snap)
    BY DEF Acknowledge, action
<1> QED BY <1>1, <1>3, <1>4, <1>5, <1>6, <1>7 DEF Reasons

LEMMA ObserveLater ==
    ASSUME NEW w \in Calls, ~w.raised, NEW event, NEW snap, Observation(snap)
    PROVE  Later(w.job, Observe(w, event, snap).job)
<1> DEFINE acked == Acknowledge(w, snap)
           new == Observe(w, event, snap)
           job == Adopt(acked.job, event, snap)
           resumed == IF event = "RESUME"
                        THEN [job EXCEPT !.state = "READY",
                                         !.checkpoint = snap.checkpoint]
                        ELSE job
           late == IF Late(resumed) THEN NeedsInput(resumed, "ACTION_ACK_TIMEOUT")
                   ELSE resumed
<1>1. acked \in Calls /\ acked.job \in Records /\ Later(w.job, acked.job)
    BY AcknowledgeAcknowledged, AcknowledgeLater DEF Acknowledged, Calls
<1>2. \/ new = acked
      \/ new = Raise(acked, "PREDECESSOR_REACTIVATED")
      \/ new = Raise([acked EXCEPT !.job = job], "OPERATOR_RECONCILIATION_REQUIRED")
      \/ new = [acked EXCEPT !.job = late]
      \/ new = Decide([acked EXCEPT !.job = late], event, snap)
    BY DEF Observe, AfterAck
<1> HIDE DEF acked, new
<1>3. job \in Records
    BY <1>1, AdoptAdopted
<1>4. job.pending = acked.job.pending /\ job.sequence = acked.job.sequence
    BY <1>1 DEF Adopt, Records
<1> HIDE DEF job
<1>5. /\ resumed \in Records /\ resumed.pending = job.pending
      /\ resumed.sequence = job.sequence
  <2>1. snap.checkpoint \in Refs /\ "READY" \in States
      BY DEF Observation, Refs, States
  <2> QED BY <1>3, <2>1 DEF Records
<1> HIDE DEF resumed
<1>6. late \in Records /\ Later(resumed, late)
    BY <1>5, NeedsInputQuiet, NeedsInputLater, FewerLater DEF Reasons
<1> HIDE DEF late
<1>7. Later(w.job, job) /\ Later(w.job, late)
  <2>1. Later(acked.job, job) /\ Later(acked.job, resumed)
      BY <1>1, <1>4, <1>5, FewerLater
  <2> QED BY <1>1, <1>6, <2>1, LaterTransitive
<1>8. ASSUME NEW record \in Records
      PROVE  /\ [acked EXCEPT !.job = record] \in Calls
             /\ [acked EXCEPT !.job = record].job = record
    BY <1>1 DEF Calls
<1>9. CASE new = acked
    BY <1>1, <1>9 DEF new
<1>10. CASE new = Raise(acked, "PREDECESSOR_REACTIVATED")
    BY <1>1, <1>10, ManualLater, LaterTransitive DEF Reasons, new
<1>11. CASE new = Raise([acked EXCEPT !.job = job], "OPERATOR_RECONCILIATION_REQUIRED")
  <2> DEFINE call == [acked EXCEPT !.job = job]
  <2>1. call \in Calls /\ call.job = job /\ new = Raise(call, "OPERATOR_RECONCILIATION_REQUIRED")
      BY <1>3, <1>8, <1>11
  <2> HIDE DEF call
  <2> QED BY <1>7, <2>1, ManualLater, LaterTransitive DEF Reasons, new
<1>12. CASE new = [acked EXCEPT !.job = late]
    BY <1>6, <1>7, <1>8, <1>12 DEF new
<1>13. CASE new = Decide([acked EXCEPT !.job = late], event, snap)
  <2> DEFINE call == [acked EXCEPT !.job = late]
  <2>1. call \in Calls /\ call.job = late /\ new = Decide(call, event, snap)
      BY <1>6, <1>8, <1>13
  <2> HIDE DEF call
  <2> QED BY <1>7, <2>1, DecideLater, LaterTransitive DEF new
<1> QED BY <1>2, <1>9, <1>10, <1>11, <1>12, <1>13 DEF new

-----------------------------------------------------------------------------
(* Owners: how the record and the chats of a job belong together            *)

Chats == Seq({"idle", "running", "retired"})
Retired(c) == c # <<>> /\ c[Len(c)] = "retired"
Starting(job) == {a \in Effects(job) : a.kind = "START_SESSION"}
HandingOff(job) == {a \in Effects(job) : a.kind = "PREPARE_HANDOFF"}

\* Every pending action has an id of its own, none above the counter.
Numbered(job) ==
    \A a, b \in job.pending : a.id <= job.sequence /\ (a.id = b.id => a = b)
\* The host holds or has settled ids that were given out, none of them both.
Delivered(job, h, t) ==
    /\ \A i \in t \cup h.settled : i <= job.sequence
    /\ t \cap h.settled = {}
\* The record is behind the host by at most the start it waits for, its owner is
\* the last chat of its generation, and only a handoff retires a chat.
Linked(job, c, h) ==
    /\ job.generation <= h.generation
    /\ h.generation # job.generation =>
          \E a \in Starting(job) : h.generation = a.generation + 1
    /\ \A a \in Starting(job) :
          \/ h.generation = a.generation
          \/ h.generation = a.generation + 1 /\ a.id \in h.settled /\ ~Retired(c)
    /\ job.owner # NoRef =>
          /\ job.owner \in 1 .. Len(c)
          /\ job.generation = h.generation => job.owner = Len(c)
    /\ job.quiescent => job.owner # NoRef /\ c[job.owner] = "retired"
    /\ Retired(c) => job.quiescent \/ \E a \in HandingOff(job) : a.id \in h.settled
    /\ \A a \in HandingOff(job) : job.owner # NoRef /\ ~job.quiescent
\* An acknowledgement tells what became of the action it names.
AckIsTrue(k, job, c, h) ==
    k # NoRef =>
        /\ k.id \in h.settled
        /\ \A a \in Starting(job) :
              a.id = k.id /\ k.outcome = "NOT_STARTED" => h.generation = a.generation
        /\ \A a \in HandingOff(job) : a.id = k.id =>
              /\ k.outcome = "SUCCEEDED" /\ k.retired => Retired(c)
              /\ k.outcome = "NOT_STARTED" => ~Retired(c)
\* A snapshot is of the host as it is now, or of an earlier generation.
Told(s, job, c, h) ==
    /\ AckIsTrue(s.ack, job, c, h)
    /\ s.generation <= h.generation
    /\ s.owner # NoRef => s.owner \in 1 .. Len(c)
    /\ s.generation = h.generation => s.owner = IF c = <<>> THEN NoRef ELSE Len(c)

LEMMA QuietLinked ==
    ASSUME NEW job, NEW new, NEW c, NEW h, Linked(job, c, h),
           SameBasis(job, new), Effects(new) = Effects(job)
    PROVE  Linked(new, c, h)
BY DEF SameBasis, Linked, Starting, HandingOff

LEMMA AcknowledgedLinked ==
    ASSUME NEW w \in Calls, NEW snap, Observation(snap), OneEffect(w.job),
           NEW c \in Chats, NEW h \in Hosts,
           Linked(w.job, c, h), Told(snap, w.job, c, h),
           NEW acked \in Calls, Acknowledged(w, snap, acked)
    PROVE  Linked(acked.job, c, h)
<1>0. w.job \in Records /\ acked.job \in Records /\ Len(c) \in Nat
    BY DEF Calls, Chats
<1>1. CASE Kept(w, acked)
    BY <1>1, QuietLinked DEF Kept, Quiet
<1>2. CASE Settled(w, snap, acked)
  <2>1. PICK a \in Effects(w.job) :
            /\ snap.ack # NoRef /\ a.id = snap.ack.id
            /\ Effects(acked.job) = Effects(w.job) \ {a}
            /\ \/ SameBasis(w.job, acked.job) /\ snap.ack.outcome = "NOT_STARTED"
               \/ /\ SameBasis(w.job, acked.job)
                  /\ a.kind \notin {"START_SESSION", "PREPARE_HANDOFF"}
               \/ StartConfirmed(w.job, a, snap, acked.job)
               \/ HandoffConfirmed(w.job, a, snap, acked.job)
      BY <1>2 DEF Settled
  <2>2. /\ Effects(w.job) = {a} /\ Effects(acked.job) = {}
        /\ Starting(acked.job) = {} /\ HandingOff(acked.job) = {}
        /\ a \in Actions
      BY <1>0, <2>1 DEF OneEffect, Starting, HandingOff, Effects, Records
  <2>3. AckIsTrue(snap.ack, w.job, c, h) /\ snap.generation <= h.generation
      BY DEF Told
  <2>4. ASSUME SameBasis(w.job, acked.job), h.generation = w.job.generation,
               Retired(c) => w.job.quiescent
        PROVE  Linked(acked.job, c, h)
      BY <2>2, <2>4 DEF Linked, SameBasis
  <2>5. CASE /\ SameBasis(w.job, acked.job)
             /\ a.kind \notin {"START_SESSION", "PREPARE_HANDOFF"}
      BY <2>2, <2>4, <2>5 DEF Linked, Starting, HandingOff
  <2>6. CASE SameBasis(w.job, acked.job) /\ snap.ack.outcome = "NOT_STARTED"
    <3>1. CASE a.kind = "START_SESSION"
      <4>1. Starting(w.job) = {a} /\ HandingOff(w.job) = {}
          BY <2>2, <3>1 DEF Starting, HandingOff
      <4>2. h.generation = a.generation
          BY <2>1, <2>3, <2>6, <4>1 DEF AckIsTrue
      <4>3. h.generation = w.job.generation
          BY <2>2, <4>1, <4>2 DEF Linked, Actions
      <4>4. Retired(c) => w.job.quiescent
          BY <4>1 DEF Linked
      <4> QED BY <2>4, <2>6, <4>3, <4>4
    <3>2. CASE a.kind = "PREPARE_HANDOFF"
      <4>1. Starting(w.job) = {} /\ HandingOff(w.job) = {a}
          BY <2>2, <3>2 DEF Starting, HandingOff
      <4>2. ~Retired(c)
          BY <2>1, <2>3, <2>6, <4>1 DEF AckIsTrue
      <4> QED BY <2>4, <2>6, <4>1, <4>2 DEF Linked
    <3> QED BY <2>5, <2>6, <3>1, <3>2
  <2>7. CASE StartConfirmed(w.job, a, snap, acked.job)
    <3>1. Starting(w.job) = {a}
        BY <2>2, <2>7 DEF Starting, StartConfirmed
    <3>2. /\ snap.owner = snap.ack.session /\ snap.generation = a.generation + 1
          /\ acked.job.owner = snap.owner /\ acked.job.generation = snap.generation
          /\ ~acked.job.quiescent
        BY <2>7 DEF StartConfirmed
    <3>3. h.generation = a.generation + 1 /\ ~Retired(c)
        BY <2>2, <2>3, <3>1, <3>2 DEF Linked, Actions, Hosts
    <3>4. /\ snap.owner # NoRef => snap.owner \in 1 .. Len(c)
          /\ snap.owner = IF c = <<>> THEN NoRef ELSE Len(c)
        BY <3>2, <3>3 DEF Told
    <3>5. acked.job.generation = h.generation
        BY <3>2, <3>3
    <3>6. h.generation \in Nat
        BY DEF Hosts
    <3> QED BY <2>2, <3>2, <3>3, <3>4, <3>5, <3>6 DEF Linked
  <2>8. CASE HandoffConfirmed(w.job, a, snap, acked.job)
    <3>1. Starting(w.job) = {} /\ HandingOff(w.job) = {a}
        BY <2>2, <2>8 DEF Starting, HandingOff, HandoffConfirmed
    <3>2. /\ snap.ack.outcome = "SUCCEEDED" /\ snap.ack.retired
          /\ acked.job.owner = w.job.owner /\ acked.job.quiescent
          /\ acked.job.generation = w.job.generation
        BY <2>8 DEF HandoffConfirmed
    <3>3. Retired(c)
        BY <2>1, <2>3, <3>1, <3>2 DEF AckIsTrue
    <3>4. w.job.generation = h.generation /\ w.job.owner # NoRef
        BY <3>1 DEF Linked
    <3>5. w.job.owner = Len(c)
        BY <3>4 DEF Linked
    <3>6. h.generation \in Nat
        BY DEF Hosts
    <3> QED BY <2>2, <3>2, <3>3, <3>4, <3>5, <3>6 DEF Linked, Retired
  <2> QED BY <2>1, <2>5, <2>6, <2>7, <2>8
<1> QED BY <1>1, <1>2 DEF Acknowledged

\* The owner a snapshot brings in is the host's.
LEMMA AdoptedLinked ==
    ASSUME NEW job \in Records, OwnerFirst(job), NEW c \in Chats, NEW h \in Hosts,
           NEW event, NEW snap, Observation(snap),
           Linked(job, c, h), Told(snap, job, c, h),
           NEW adopted \in Records, Adopted(job, event, snap, adopted)
    PROVE  Linked(adopted, c, h)
<1>1. /\ Starting(adopted) = Starting(job) /\ HandingOff(adopted) = HandingOff(job)
      /\ adopted.quiescent = job.quiescent
    BY DEF Adopted, Starting, HandingOff
<1>2. CASE adopted.owner = job.owner /\ adopted.generation = job.generation
    BY <1>1, <1>2 DEF Linked
<1>3. CASE /\ job.owner = NoRef /\ snap.owner # NoRef
           /\ adopted.owner = snap.owner /\ adopted.generation = snap.generation
  <2>1. /\ job.generation = 0 /\ ~job.quiescent /\ HandingOff(job) = {}
        /\ snap.generation <= h.generation /\ snap.generation \in Nat
        /\ h.generation \in Nat
      BY <1>3 DEF OwnerFirst, Linked, Told, Observation, Hosts
  <2>2. /\ snap.owner \in 1 .. Len(c)
        /\ snap.generation = h.generation => snap.owner = Len(c)
      BY <1>3 DEF Told
  <2>3. h.generation # snap.generation =>
            \E a \in Starting(job) : h.generation = a.generation + 1
      BY <2>1 DEF Linked
  <2> QED BY <1>1, <1>3, <2>1, <2>2, <2>3 DEF Linked
<1> QED BY <1>2, <1>3 DEF Adopted

\* A start follows a retired chat, a continuation goes to one that is not.
Rightful(a, new, c) ==
    /\ a.kind = "START_SESSION" /\ new.owner # NoRef => c[new.owner] = "retired"
    /\ a.kind = "RESUME_SESSION" => c[new.owner] # "retired"

LEMMA EmitsLinked ==
    ASSUME NEW job \in Records, Effects(job) = {}, NEW c \in Chats, NEW h \in Hosts,
           Linked(job, c, h), NEW snap, NEW new \in Records, Emits(job, snap, new)
    PROVE  Linked(new, c, h) /\ \A a \in Effects(new) : Rightful(a, new, c)
<1>1. PICK a \in Actions :
          /\ a.generation = job.generation
          /\ Effects(new) = {a}
          /\ new.owner = job.owner /\ new.generation = job.generation
          /\ new.quiescent = job.quiescent
          /\ Justified(a, job, snap, new)
    BY DEF Emits
<1>2. Starting(job) = {} /\ HandingOff(job) = {}
    BY DEF Starting, HandingOff
<1>3. h.generation = job.generation /\ (Retired(c) => job.quiescent)
    BY <1>2 DEF Linked
<1>4. \/ Starting(new) = {} \/ Starting(new) = {a}
    BY <1>1 DEF Starting
<1>5. HandingOff(new) = {} \/ (HandingOff(new) = {a} /\ HandsOver(job, new))
    BY <1>1 DEF HandingOff, Justified
<1>6. Linked(new, c, h)
    BY <1>1, <1>3, <1>4, <1>5 DEF Linked, HandsOver
<1>7. a.kind = "START_SESSION" => job.owner = NoRef \/ job.quiescent
    BY <1>1 DEF Justified, Succeeds
<1>8. a.kind = "RESUME_SESSION" => job.owner # NoRef /\ ~job.quiescent
    BY <1>1 DEF Justified, Continues
<1>9. a.kind = "RESUME_SESSION" => c[job.owner] # "retired"
  <2> SUFFICES ASSUME a.kind = "RESUME_SESSION" PROVE c[job.owner] # "retired"
      OBVIOUS
  <2>1. job.owner = Len(c) /\ job.owner \in 1 .. Len(c) /\ ~Retired(c)
      BY <1>3, <1>8 DEF Linked
  <2>2. c # <<>>
      BY <2>1 DEF Chats
  <2> QED BY <2>1, <2>2 DEF Retired
<1>10. a.kind = "START_SESSION" /\ job.owner # NoRef => c[job.owner] = "retired"
    BY <1>7 DEF Linked
<1> QED BY <1>1, <1>6, <1>9, <1>10 DEF Rightful

\* The whole call
LEMMA CallLinked ==
    ASSUME NEW w \in Calls, Consistent(w.job), NEW event, NEW snap,
           Observation(snap), NEW c \in Chats, NEW h \in Hosts,
           Linked(w.job, c, h), Told(snap, w.job, c, h),
           NEW new, Taken(w, event, snap, new)
    PROVE  /\ Linked(new.job, c, h)
           /\ \A a \in Effects(new.job) \ Effects(w.job) : Rightful(a, new.job, c)
<1>1. new \in Calls /\ new.job \in Records
    BY DEF Taken, Calls
<1>2. PICK acked \in Calls, adopted \in Records :
          /\ Acknowledged(w, snap, acked)
          /\ Adopted(acked.job, event, snap, adopted)
          /\ \/ Quiet(adopted, new.job)
             \/ Effects(adopted) = {} /\ Emits(adopted, snap, new.job)
    BY DEF Taken
<1>3. /\ Linked(acked.job, c, h) /\ Consistent(acked.job)
      /\ Effects(acked.job) \subseteq Effects(w.job)
    BY <1>2, AcknowledgedLinked, AcknowledgedConsistent DEF Consistent
<1>4. Told(snap, acked.job, c, h)
    BY <1>3 DEF Told, AckIsTrue, Starting, HandingOff
<1>5. Linked(adopted, c, h) /\ acked.job \in Records
    BY <1>2, <1>3, <1>4, AdoptedLinked DEF Consistent, Calls
<1>6. CASE Quiet(adopted, new.job)
    BY <1>2, <1>3, <1>5, <1>6, QuietLinked DEF Quiet, Adopted
<1>7. CASE Effects(adopted) = {} /\ Emits(adopted, snap, new.job)
    BY <1>1, <1>5, <1>7, EmitsLinked
<1> QED BY <1>2, <1>6, <1>7

-----------------------------------------------------------------------------
(* The invariant of the owners, and the controller's steps                  *)

Owned(job, c, h, t, v) ==
    /\ Numbered(job) /\ Delivered(job, h, t) /\ Linked(job, c, h)
    /\ AckIsTrue(h.ack, job, c, h) /\ Told(v, job, c, h)
    /\ h.late # NoRef => Told(h.late, job, c, h)
OwnersInv == \A j \in Jobs : Owned(jobs[j], chats[j], host[j], tray[j], view[j])

\* No acknowledgement names an action that is emitted later.
LEMMA AckKept ==
    ASSUME NEW job \in Records, NEW new, Later(job, new), NEW c, NEW h \in Hosts, NEW t,
           Delivered(job, h, t), NEW k, AckIsTrue(k, job, c, h)
    PROVE  AckIsTrue(k, new, c, h)
<1> SUFFICES ASSUME k # NoRef PROVE AckIsTrue(k, new, c, h)
    BY DEF AckIsTrue
<1>1. k.id \in h.settled /\ k.id \in Nat /\ k.id <= job.sequence
    BY DEF AckIsTrue, Delivered, Hosts
<1>2. ASSUME NEW a \in Effects(new), a.id = k.id PROVE a \in Effects(job)
    BY <1>1, <1>2 DEF Effects, Later, Records
<1> QED BY <1>1, <1>2 DEF AckIsTrue, Starting, HandingOff

\* One step of the controller as the owners of job j see it
Turned(j) ==
    /\ jobs' \in [Jobs -> Records]
    /\ \A k \in Jobs \ {j} : jobs'[k] = jobs[k]
    /\ Later(jobs[j], jobs'[j])
    /\ Linked(jobs'[j], chats[j], host[j])
    /\ \A g \in grants' \ grants :
          \E a \in Effects(jobs'[j]) :
              g.job = j /\ g.kind = a.kind /\ Rightful(a, jobs'[j], chats[j])

LEMMA TurnedOwned ==
    ASSUME TypeOK, OwnersInv, NEW j \in Jobs, Turned(j), UNCHANGED <<chats, host, view>>,
           Respond(j) \/ UNCHANGED tray
    PROVE  OwnersInv'
<1>1. /\ jobs[j] \in Records /\ jobs'[j] \in Records /\ host[j] \in Hosts
      /\ tray \in [Jobs -> SUBSET Nat]
    BY DEF TypeOK, HostTypeOK, Turned
<1>2. Owned(jobs[j], chats[j], host[j], tray[j], view[j]) /\ Later(jobs[j], jobs'[j])
    BY DEF OwnersInv, Turned
<1>3. Numbered(jobs'[j])
    BY <1>1, <1>2 DEF Owned, Numbered, Later, Records, Actions
<1>4. \/ tray'[j] = tray[j]
      \/ tray'[j] = tray[j] \cup {a.id : a \in jobs'[j].pending \ jobs[j].pending}
    BY <1>1 DEF Respond
<1>5. Delivered(jobs'[j], host[j], tray'[j])
    BY <1>1, <1>2, <1>4 DEF Owned, Delivered, Later, Hosts
<1>6. ASSUME NEW k, AckIsTrue(k, jobs[j], chats[j], host[j])
      PROVE  AckIsTrue(k, jobs'[j], chats[j], host[j])
    BY <1>1, <1>2, <1>6, AckKept DEF Owned
<1>7. Owned(jobs'[j], chats[j], host[j], tray'[j], view[j])
    BY <1>2, <1>3, <1>5, <1>6 DEF Owned, Told, Turned
<1>8. \A k \in Jobs \ {j} : jobs'[k] = jobs[k] /\ tray'[k] = tray[k]
    BY <1>1 DEF Turned, Respond
<1> QED BY <1>7, <1>8 DEF OwnersInv

LEMMA CommitLater ==
    ASSUME TypeOK, NEW j \in Jobs, NEW w \in Calls, NEW snap, Commit(j, w, snap)
    PROVE  Later(w.job, jobs'[j])
<1>1. w.job \in Records
    BY DEF Calls
<1>2. jobs'[j] = [w.job EXCEPT !.known = TRUE]
    BY DEF TypeOK, Commit
<1>3. jobs'[j].pending = w.job.pending /\ jobs'[j].sequence = w.job.sequence
    BY <1>1, <1>2 DEF Records
<1> QED BY <1>1, <1>3, FewerLater

\* A call that does not read the chats
LEMMA QuietTurned ==
    ASSUME TypeOK, OwnersInv, NEW j \in Jobs, NEW w \in Calls, NEW snap,
           Quiet(jobs[j], w.job), Later(jobs[j], w.job), Commit(j, w, snap)
    PROVE  Turned(j)
<1>1. /\ jobs' \in [Jobs -> Records] /\ Quiet(w.job, jobs'[j])
      /\ \A k \in Jobs \ {j} : jobs'[k] = jobs[k]
      /\ \A g \in grants' \ grants : NewGrant(g, j, snap)
    BY CommitStores
<1>2. Later(jobs[j], jobs'[j])
    BY CommitLater, LaterTransitive
<1>3. SameBasis(jobs[j], jobs'[j]) /\ Effects(jobs'[j]) = Effects(jobs[j])
    BY <1>1 DEF Quiet, SameBasis
<1>4. Linked(jobs'[j], chats[j], host[j])
    BY <1>3, QuietLinked DEF OwnersInv, Owned
<1> QED BY <1>1, <1>2, <1>3, <1>4 DEF Turned, NewGrant

LEMMA StatusTurned ==
    ASSUME TypeOK, OwnersInv, NEW j \in Jobs, Status(j)
    PROVE  Turned(j)
<1> DEFINE emitted == Emit(jobs[j], "CHECK_STATUS")
           w == [Start(j) EXCEPT !.job = emitted]
<1>1. jobs[j] \in Records /\ Start(j) \in Calls /\ Start(j).job = jobs[j]
    BY StartCall
<1>2. /\ emitted \in Records /\ SameBasis(jobs[j], emitted)
      /\ Adds(jobs[j], emitted, "CHECK_STATUS") /\ Later(jobs[j], emitted)
    BY <1>1, EmitAdds, EmitLater DEF EffectKinds
<1>3. Commit(j, w, NoRef)
    BY <1>1 DEF Status
<1> HIDE DEF emitted
<1>4. w \in Calls /\ w.job = emitted
    BY <1>1, <1>2 DEF Calls
<1> HIDE DEF w
<1>5. /\ jobs' \in [Jobs -> Records] /\ Quiet(emitted, jobs'[j])
      /\ \A k \in Jobs \ {j} : jobs'[k] = jobs[k]
      /\ \A g \in grants' \ grants : NewGrant(g, j, NoRef)
      /\ Later(jobs[j], jobs'[j])
    BY <1>2, <1>3, <1>4, CommitStores, CommitLater, LaterTransitive
<1>6. PICK a \in Actions :
          a.kind = "CHECK_STATUS" /\ Effects(emitted) = Effects(jobs[j]) \cup {a}
    BY <1>2, AddsEffect DEF EffectKinds
<1>7. /\ Effects(jobs'[j]) = Effects(jobs[j]) \cup {a}
      /\ SameBasis(jobs[j], jobs'[j])
    BY <1>2, <1>5, <1>6 DEF Quiet, SameBasis
<1>8. /\ Starting(jobs'[j]) = Starting(jobs[j])
      /\ HandingOff(jobs'[j]) = HandingOff(jobs[j])
    BY <1>6, <1>7 DEF Starting, HandingOff
<1>9. Linked(jobs'[j], chats[j], host[j])
    BY <1>7, <1>8 DEF OwnersInv, Owned, Linked, SameBasis
<1>10. grants' \subseteq grants
    BY <1>5, <1>6, <1>7 DEF NewGrant, Counted
<1> QED BY <1>5, <1>9, <1>10 DEF Turned

LEMMA UsedTurned ==
    ASSUME IInv, OwnersInv, NEW j \in Jobs, NEW event,
           NEW report \in Reports, ObservationUsed(j, event, Read(j, report))
    PROVE  Turned(j)
<1> DEFINE snap == Read(j, report)
           w == Observe(Start(j), event, snap)
<1>1. /\ TypeOK /\ JobsConsistent /\ ProgressIsReal
      /\ Start(j) \in Calls /\ Start(j).job = jobs[j] /\ ~Start(j).raised
      /\ chats[j] \in Chats /\ host[j] \in Hosts
    BY StartCall DEF IInv, TypeOK, HostTypeOK, Chats
<1>2. Observation(snap)
    BY <1>1, ReadObservation
<1>3. Commit(j, w, snap)
    BY DEF ObservationUsed
<1>4. /\ Linked(jobs[j], chats[j], host[j])
      /\ Told(snap, jobs[j], chats[j], host[j])
    BY DEF OwnersInv, Owned, Told, Read
<1> HIDE DEF snap
<1>5. Taken(Start(j), event, snap, w) /\ Later(jobs[j], w.job)
    BY <1>1, <1>2, ObserveTaken, ObserveLater
<1>6. w \in Calls
    BY <1>5 DEF Taken
<1> HIDE DEF w
<1>7. /\ Linked(w.job, chats[j], host[j])
      /\ \A a \in Effects(w.job) \ Effects(jobs[j]) : Rightful(a, w.job, chats[j])
    BY <1>1, <1>2, <1>4, <1>5, CallLinked DEF JobsConsistent
<1>8. /\ jobs' \in [Jobs -> Records] /\ Quiet(w.job, jobs'[j])
      /\ \A k \in Jobs \ {j} : jobs'[k] = jobs[k]
      /\ \A g \in grants' \ grants : NewGrant(g, j, snap)
      /\ Later(jobs[j], jobs'[j])
    BY <1>1, <1>3, <1>5, <1>6, CommitStores, CommitLater, LaterTransitive
<1>9. Linked(jobs'[j], chats[j], host[j])
    BY <1>7, <1>8, QuietLinked DEF Quiet
<1>10. \A a \in Effects(jobs'[j]) \ Effects(jobs[j]) : Rightful(a, jobs'[j], chats[j])
    BY <1>7, <1>8 DEF Rightful, Quiet, SameBasis
<1> QED BY <1>8, <1>9, <1>10 DEF Turned, NewGrant

LEMMA ControlTurned ==
    ASSUME IInv, OwnersInv, NEW j \in Jobs, Control(j)
    PROVE  /\ Turned(j) \/ UNCHANGED controlVars
           /\ UNCHANGED <<chats, host, view>>
           /\ Respond(j) \/ UNCHANGED tray
<1>0. /\ Start(j) \in Calls /\ Start(j).job = jobs[j] /\ jobs[j] \in Records
      /\ TypeOK /\ JobsConsistent /\ ProgressIsReal
    BY StartCall DEF IInv
<1>1. CASE CallStatus(j)
    BY <1>0, <1>1, StatusTurned DEF CallStatus, Respond
<1>2. CASE CallPauseOrCancel(j)
  <2>1. PICK event \in Events : PauseOrCancel(j, event) /\ UNCHANGED hostVars
      BY <1>2 DEF CallPauseOrCancel
  <2> DEFINE state == IF event = "PAUSE" THEN "PAUSED" ELSE "CANCELLED"
             job == [jobs[j] EXCEPT !.state = state]
             w == [Start(j) EXCEPT !.job = job]
  <2>2. Commit(j, w, NoRef)
      BY <1>0, <2>1 DEF PauseOrCancel
  <2>3. state \in States
      BY DEF States
  <2> HIDE DEF state
  <2>4. /\ job \in Records /\ Quiet(jobs[j], job)
        /\ job.pending = jobs[j].pending /\ job.sequence = jobs[j].sequence
      BY <1>0, <2>3 DEF Records, Quiet, SameBasis, Effects
  <2> HIDE DEF job
  <2>5. w \in Calls /\ w.job = job /\ Later(jobs[j], job)
      BY <1>0, <2>4, FewerLater DEF Calls
  <2> HIDE DEF w
  <2>6. Turned(j)
      BY <1>0, <2>2, <2>4, <2>5, QuietTurned
  <2> QED BY <2>1, <2>6 DEF hostVars
<1>3. CASE CallWithoutObservation(j)
  <2>1. PICK event \in ObservedEvents : ObservationUnavailable(j, event) /\ Respond(j)
      BY <1>3 DEF CallWithoutObservation
  <2> DEFINE w == Raise(Start(j), "CLIENT_OBSERVATION_EXPIRED")
  <2>2. Commit(j, w, NoRef)
      BY <2>1 DEF ObservationUnavailable
  <2>3. w \in Calls /\ Quiet(jobs[j], w.job) /\ Later(jobs[j], w.job)
      BY <1>0, ManualQuiet, ManualLater DEF Reasons
  <2> HIDE DEF w
  <2>4. Turned(j)
      BY <1>0, <2>2, <2>3, QuietTurned
  <2> QED BY <2>1, <2>4 DEF Respond
<1>4. CASE CallWithStaleView(j)
    BY <1>4 DEF CallWithStaleView, ObservationRejected, hostVars
<1>5. CASE CallWithView(j)
  <2>1. PICK event \in ObservedEvents, report \in Reports :
            ObservationUsed(j, event, Read(j, report)) /\ Respond(j)
      BY <1>5 DEF CallWithView
  <2> QED BY <2>1, UsedTurned DEF Respond
<1> QED BY <1>1, <1>2, <1>3, <1>4, <1>5 DEF Control

-----------------------------------------------------------------------------
(* The host's steps                                                         *)

\* Another status of the last chat, which is not retired before or after
LEMMA StatusOwned ==
    ASSUME NEW job, NEW c \in Chats, NEW h, NEW t, NEW v, NEW new \in Chats,
           c # <<>>, new # <<>>, Len(new) = Len(c), ~Retired(c), ~Retired(new),
           \A i \in 1 .. Len(c) - 1 : new[i] = c[i],
           Owned(job, c, h, t, v)
    PROVE  Owned(job, new, h, t, v)
<1>1. Len(c) \in Nat
    BY DEF Chats
<1>2. Linked(job, new, h)
  <2>1. job.quiescent => new[job.owner] = "retired"
    <3> SUFFICES ASSUME job.quiescent PROVE new[job.owner] = "retired"
        OBVIOUS
    <3>1. job.owner \in 1 .. Len(c) /\ c[job.owner] = "retired"
        BY DEF Owned, Linked
    <3>2. job.owner # Len(c)
        BY <3>1 DEF Retired
    <3> QED BY <1>1, <3>1, <3>2
  <2> QED BY <2>1 DEF Owned, Linked
<1>3. ASSUME NEW k, AckIsTrue(k, job, c, h) PROVE AckIsTrue(k, job, new, h)
    BY <1>3 DEF AckIsTrue
<1> QED BY <1>2, <1>3 DEF Owned, Told

LEMMA RefuseOwned ==
    ASSUME TypeOK, ProgressIsReal, JobsConsistent, OwnersInv, NEW j \in Jobs, Refuse(j)
    PROVE  Owned(jobs[j], chats[j], host'[j], tray'[j], view[j])
<1> DEFINE job == jobs[j]
           c == chats[j]
           h == host[j]
<1>1. PICK a \in jobs[j].pending, outcome \in {"FAILED", "NOT_STARTED"} :
          /\ a.id \notin host[j].settled
          /\ tray' = [tray EXCEPT ![j] = @ \ {a.id}]
          /\ host' = [host EXCEPT
                ![j].ack = [id |-> a.id, outcome |-> outcome, retired |-> FALSE,
                            session |-> Len(chats[j]),
                            checkpoint |-> host[j].checkpoint],
                ![j].settled = @ \cup {a.id}]
    BY DEF Refuse
<1> DEFINE ack == [id |-> a.id, outcome |-> outcome, retired |-> FALSE,
                   session |-> Len(chats[j]), checkpoint |-> host[j].checkpoint]
           settled == host[j].settled \cup {a.id}
           new == [host[j] EXCEPT !.ack = ack, !.settled = settled]
<1>2. /\ job \in Records /\ h \in Hosts /\ Owned(job, c, h, tray[j], view[j])
      /\ tray \in [Jobs -> SUBSET Nat] /\ host \in [Jobs -> Hosts]
      /\ OneEffect(job)
    BY DEF TypeOK, HostTypeOK, OwnersInv, JobsConsistent, Consistent
<1>3. a \in Actions /\ a.id <= job.sequence /\ \A b \in job.pending : b.id = a.id => b = a
    BY <1>2 DEF Records, Owned, Numbered
<1>4. host'[j] = new
    BY <1>1, <1>2
<1>5. ack.id = a.id /\ ack.outcome = outcome /\ ~ack.retired
    OBVIOUS
<1> HIDE DEF ack
<1>6. /\ new.settled = settled /\ new.ack = ack /\ new.late = h.late
      /\ new.generation = h.generation
    BY <1>2 DEF Hosts
<1> HIDE DEF new
<1>7. tray'[j] = tray[j] \ {a.id}
    BY <1>1, <1>2
<1> HIDE DEF job, c, h
<1>8. Delivered(job, new, tray'[j])
    BY <1>2, <1>3, <1>6, <1>7 DEF Owned, Delivered, h
<1>9. Linked(job, c, new)
    BY <1>2, <1>6 DEF Owned, Linked, h
<1>10. ASSUME NEW k, AckIsTrue(k, job, c, h) PROVE AckIsTrue(k, job, c, new)
    BY <1>6, <1>10 DEF AckIsTrue, h
<1>11. AckIsTrue(ack, job, c, new)
  <2>1. ASSUME NEW b \in Starting(job), b.id = ack.id PROVE new.generation = b.generation
    <3>1. b = a
        BY <1>3, <1>5, <2>1 DEF Starting, Effects
    <3> QED BY <1>1, <1>2, <1>6, <3>1, <2>1 DEF Owned, Linked, h
  <2>2. ASSUME NEW b \in HandingOff(job), b.id = ack.id PROVE ~Retired(c)
    <3>1. b = a
        BY <1>3, <1>5, <2>2 DEF HandingOff, Effects
    <3>2. \A d \in HandingOff(job) : d = a
        BY <1>2, <2>2, <3>1 DEF HandingOff, OneEffect
    <3> QED BY <1>1, <1>2, <2>2, <3>2 DEF Owned, Linked, h
  <2> QED BY <1>5, <1>6, <2>1, <2>2 DEF AckIsTrue
<1>12. ASSUME NEW s, Told(s, job, c, h) PROVE Told(s, job, c, new)
    BY <1>6, <1>10, <1>12 DEF Told
<1>13. Owned(job, c, new, tray'[j], view[j])
    BY <1>2, <1>6, <1>8, <1>9, <1>11, <1>12 DEF Owned
<1> QED BY <1>4, <1>13 DEF job, c

LEMMA ExpireOwned ==
    ASSUME TypeOK, JobsConsistent, OwnersInv, NEW j \in Jobs, Expire(j)
    PROVE  Owned(jobs'[j], chats[j], host[j], tray[j], view[j])
<1>1. PICK a \in Effects(jobs[j]) :
          jobs' = [jobs EXCEPT ![j].pending =
                         (@ \ {a}) \cup {[a EXCEPT !.expired = TRUE]}]
    BY DEF Expire
<1> DEFINE late == [a EXCEPT !.expired = TRUE]
           pending == (jobs[j].pending \ {a}) \cup {late}
           job == jobs[j]
           new == [job EXCEPT !.pending = pending]
           c == chats[j]
           h == host[j]
<1>2. /\ job \in Records /\ OneEffect(job) /\ jobs'[j] = new
      /\ Owned(job, c, h, tray[j], view[j])
    BY <1>1 DEF TypeOK, JobsConsistent, Consistent, OwnersInv
<1>3. a \in Actions /\ a \in job.pending /\ a.kind # "NOTIFY"
    BY <1>2 DEF Effects, Records
<1>4. /\ late.id = a.id /\ late.kind = a.kind /\ late.generation = a.generation
    BY <1>3 DEF Actions
<1> HIDE DEF late
<1>5. /\ new.pending = pending /\ new.sequence = job.sequence /\ SameBasis(job, new)
    BY <1>2 DEF Records, SameBasis
<1>6. Effects(job) = {a} /\ Effects(new) = {late}
    BY <1>2, <1>3, <1>4, <1>5 DEF Effects, OneEffect
<1> HIDE DEF new, job, c, h
<1>7. Numbered(new)
    BY <1>2, <1>3, <1>4, <1>5 DEF Owned, Numbered, job
<1>8. /\ Starting(job) = IF a.kind = "START_SESSION" THEN {a} ELSE {}
      /\ Starting(new) = IF a.kind = "START_SESSION" THEN {late} ELSE {}
      /\ HandingOff(job) = IF a.kind = "PREPARE_HANDOFF" THEN {a} ELSE {}
      /\ HandingOff(new) = IF a.kind = "PREPARE_HANDOFF" THEN {late} ELSE {}
    BY <1>4, <1>6 DEF Starting, HandingOff
<1>9. Linked(new, c, h)
  <2>1. Linked(job, c, h)
      BY <1>2 DEF Owned
  <2>2. CASE a.kind = "START_SESSION"
      BY <1>4, <1>5, <1>8, <2>1, <2>2 DEF Linked, SameBasis
  <2>3. CASE a.kind = "PREPARE_HANDOFF"
      BY <1>4, <1>5, <1>8, <2>1, <2>3 DEF Linked, SameBasis
  <2>4. CASE a.kind \notin {"START_SESSION", "PREPARE_HANDOFF"}
      BY <1>4, <1>5, <1>8, <2>1, <2>4 DEF Linked, SameBasis
  <2> QED BY <2>2, <2>3, <2>4
<1>10. ASSUME NEW k, AckIsTrue(k, job, c, h) PROVE AckIsTrue(k, new, c, h)
  <2>1. CASE a.kind = "START_SESSION"
      BY <1>4, <1>8, <1>10, <2>1 DEF AckIsTrue
  <2>2. CASE a.kind # "START_SESSION"
      BY <1>4, <1>8, <1>10, <2>2 DEF AckIsTrue
  <2> QED BY <2>1, <2>2
<1>11. Delivered(new, h, tray[j])
    BY <1>2, <1>5 DEF Owned, Delivered
<1>12. ASSUME NEW s, Told(s, job, c, h) PROVE Told(s, new, c, h)
    BY <1>10, <1>12 DEF Told
<1>13. Owned(new, c, h, tray[j], view[j])
    BY <1>2, <1>7, <1>9, <1>10, <1>11, <1>12 DEF Owned
<1> QED BY <1>2, <1>13 DEF c, h

\* What an executed action does to the chats
Executed(a, retired, c, new) ==
    \/ /\ a.kind = "RESUME_SESSION" /\ c # <<>> /\ new # <<>> /\ Len(new) = Len(c)
       /\ ~Retired(c) /\ ~Retired(new)
       /\ \A i \in 1 .. Len(c) - 1 : new[i] = c[i]
    \/ /\ a.kind = "START_SESSION" /\ new # <<>> /\ Len(new) = Len(c) + 1
       /\ ~Retired(new)
       /\ \A i \in 1 .. Len(c) : new[i] = c[i]
    \/ /\ a.kind = "PREPARE_HANDOFF" /\ c # <<>> /\ new # <<>> /\ Len(new) = Len(c)
       /\ ~Retired(c) /\ (Retired(new) <=> retired)
       /\ \A i \in 1 .. Len(c) - 1 : new[i] = c[i]
    \/ a.kind \in {"CHECK_STATUS", "CHECKPOINT", "RESEARCH", "NOTIFY"} /\ new = c

LEMMA ChatsExecuted ==
    ASSUME HostTypeOK, NEW j \in Jobs, NEW a, NEW retired \in BOOLEAN,
           Resumes(j, a) \/ Starts(j, a) \/ HandsOff(j, a, retired) \/ Other(a)
    PROVE  /\ Executed(a, retired, chats[j], chats'[j]) /\ chats'[j] \in Chats
           /\ \A k \in Jobs \ {j} : chats'[k] = chats[k]
<1>0. chats[j] \in Chats /\ Len(chats[j]) \in Nat
    BY DEF HostTypeOK, Chats
<1>1. ASSUME NEW status \in {"idle", "running", "retired"}, chats[j] # <<>>,
             chats' = SetOwner(j, status)
      PROVE  /\ chats'[j] \in Chats /\ chats'[j] # <<>>
             /\ Len(chats'[j]) = Len(chats[j])
             /\ (Retired(chats'[j]) <=> status = "retired")
             /\ \A i \in 1 .. Len(chats[j]) - 1 : chats'[j][i] = chats[j][i]
             /\ \A k \in Jobs \ {j} : chats'[k] = chats[k]
  <2> DEFINE new == SetOwner(j, status)
  <2>0. /\ new \in [Jobs -> Chats] /\ Len(new[j]) = Len(chats[j])
        /\ Len(chats[j]) \in Nat \ {0} /\ new[j][Len(chats[j])] = status
        /\ \A i \in 1 .. Len(chats[j]) - 1 : new[j][i] = chats[j][i]
        /\ \A k \in Jobs \ {j} : new[k] = chats[k]
      BY <1>1, SetOwnerTyped DEF Chats
  <2> HIDE DEF new
  <2>1. /\ chats' \in [Jobs -> Chats] /\ Len(chats'[j]) = Len(chats[j])
        /\ Len(chats[j]) \in Nat \ {0} /\ chats'[j][Len(chats[j])] = status
        /\ \A i \in 1 .. Len(chats[j]) - 1 : chats'[j][i] = chats[j][i]
        /\ \A k \in Jobs \ {j} : chats'[k] = chats[k]
      BY <1>1, <2>0 DEF new
  <2>2. chats'[j] # <<>>
      BY <2>1 DEF Chats
  <2> QED BY <2>1, <2>2 DEF Retired
<1>2. OwnerStatus(j) = "idle" => chats[j] # <<>> /\ ~Retired(chats[j])
    BY DEF OwnerStatus, Retired
<1>3. CASE Resumes(j, a)
    BY <1>1, <1>2, <1>3 DEF Resumes, Executed
<1>4. CASE Starts(j, a)
  <2> DEFINE new == Append(chats[j], "running")
  <2>1. /\ new \in Chats /\ Len(new) = Len(chats[j]) + 1
        /\ new[Len(chats[j]) + 1] = "running"
        /\ \A i \in 1 .. Len(chats[j]) : new[i] = chats[j][i]
      BY <1>0 DEF Chats
  <2>2. new # <<>>
      BY <1>0, <2>1 DEF Chats
  <2> HIDE DEF new
  <2>3. chats' = [chats EXCEPT ![j] = new]
      BY <1>4 DEF Starts, new
  <2>4. chats'[j] = new /\ \A k \in Jobs \ {j} : chats'[k] = chats[k]
      BY <2>3 DEF HostTypeOK
  <2>5. ~Retired(new)
      BY <2>1 DEF Retired
  <2> QED BY <1>4, <2>1, <2>2, <2>4, <2>5 DEF Starts, Executed
<1>5. CASE HandsOff(j, a, retired)
  <2>1. CASE retired
      BY <1>1, <1>2, <1>5, <2>1 DEF HandsOff, Executed
  <2>2. CASE ~retired
      BY <1>0, <1>2, <1>5, <2>2 DEF HandsOff, Executed
  <2> QED BY <2>1, <2>2
<1>6. CASE Other(a)
    BY <1>0, <1>6 DEF Other, Executed
<1> QED BY <1>3, <1>4, <1>5, <1>6

\* An action that is executed is settled: what the host knew of it stays true.
LEMMA ExecutedOwned ==
    ASSUME NEW job \in Records, OneEffect(job), NEW c \in Chats, NEW h \in Hosts,
           NEW t \in SUBSET Nat, NEW v \in Snapshots, Owned(job, c, h, t, v),
           NEW a \in job.pending, a.id \in t, a.generation = h.generation,
           NEW retired \in BOOLEAN, NEW new \in Chats, Executed(a, retired, c, new),
           NEW after \in Hosts, after.settled = h.settled \cup {a.id},
           after.generation = IF a.kind = "START_SESSION" THEN h.generation + 1
                              ELSE h.generation,
           after.ack.id = a.id, after.ack.outcome # "NOT_STARTED",
           after.ack.retired = retired,
           \/ after.late = h.late
           \/ /\ a.kind = "START_SESSION"
              /\ after.late.generation = h.generation /\ after.late.ack = h.ack
              /\ after.late.owner = IF c = <<>> THEN NoRef ELSE Len(c)
    PROVE  Owned(job, new, after, t \ {a.id}, v)
<1>0. /\ a \in Actions /\ a.id <= job.sequence /\ a.id \notin h.settled
      /\ \A b \in job.pending : b.id = a.id => b = a
      /\ Len(c) \in Nat /\ Len(new) \in Nat /\ h.generation \in Nat
      /\ after.generation \in Nat /\ job.generation \in Nat
    BY DEF Owned, Numbered, Delivered, Records, Chats, Hosts
<1>1. Numbered(job) /\ Delivered(job, after, t \ {a.id})
    BY <1>0 DEF Owned, Delivered
<1>2. a.kind # "NOTIFY" => Effects(job) = {a}
    BY DEF OneEffect, Effects
<1>3. c = <<>> <=> Len(c) = 0
    BY DEF Chats
\* The owner of the job keeps its chat.
<1>4. job.quiescent => new[job.owner] = "retired"
  <2> SUFFICES ASSUME job.quiescent PROVE new[job.owner] = "retired"
      OBVIOUS
  <2>1. job.owner \in 1 .. Len(c) /\ c[job.owner] = "retired"
      BY DEF Owned, Linked
  <2>2. ~Retired(c) => job.owner \in 1 .. Len(c) - 1
      BY <1>0, <1>3, <2>1 DEF Retired
  <2> QED BY <2>1, <2>2 DEF Executed
<1>5. Linked(job, new, after)
  <2>0. Linked(job, c, h)
      BY DEF Owned
  <2>1. CASE a.kind = "START_SESSION"
    <3>1. Starting(job) = {a} /\ HandingOff(job) = {}
        BY <1>2, <2>1 DEF Starting, HandingOff
    <3>2. /\ Len(new) = Len(c) + 1 /\ ~Retired(new)
          /\ after.generation = a.generation + 1 /\ a.id \in after.settled
        BY <2>1 DEF Executed
    <3>3. job.generation <= h.generation
        BY <2>0 DEF Linked
    <3>4. job.owner # NoRef => job.owner \in 1 .. Len(c)
        BY <2>0 DEF Linked
    <3>5. job.quiescent => job.owner # NoRef
        BY <2>0 DEF Linked
    <3>6. job.owner # NoRef => job.owner \in 1 .. Len(new)
        BY <1>0, <3>2, <3>4
    <3>7. job.generation < after.generation
        BY <1>0, <2>1, <3>3
    <3> QED BY <1>0, <1>4, <3>1, <3>2, <3>5, <3>6, <3>7 DEF Linked
  <2>2. CASE a.kind = "PREPARE_HANDOFF"
    <3>1. Starting(job) = {} /\ HandingOff(job) = {a}
        BY <1>2, <2>2 DEF Starting, HandingOff
    <3>2. Len(new) = Len(c) /\ after.generation = h.generation
        BY <2>2 DEF Executed
    <3> QED BY <1>4, <2>0, <3>1, <3>2 DEF Linked
  <2>3. CASE a.kind \notin {"START_SESSION", "PREPARE_HANDOFF"}
    <3>1. /\ Len(new) = Len(c) /\ after.generation = h.generation
          /\ Retired(new) <=> Retired(c)
        BY <2>3 DEF Executed
    <3> QED BY <1>4, <2>0, <3>1 DEF Linked
  <2> QED BY <2>1, <2>2, <2>3
<1>6. ASSUME NEW k, AckIsTrue(k, job, c, h) PROVE AckIsTrue(k, job, new, after)
  <2> SUFFICES ASSUME k # NoRef PROVE AckIsTrue(k, job, new, after)
      BY DEF AckIsTrue
  <2>1. k.id \in h.settled /\ k.id # a.id
      BY <1>0, <1>6 DEF AckIsTrue
  <2>2. ASSUME NEW b \in Starting(job), b.id = k.id PROVE after.generation = h.generation
    <3>1. b # a /\ b \in Effects(job)
        BY <2>1, <2>2 DEF Starting
    <3> QED BY <1>2, <3>1
  <2>3. ASSUME NEW b \in HandingOff(job), b.id = k.id PROVE Retired(new) <=> Retired(c)
    <3>1. b # a /\ b \in Effects(job)
        BY <2>1, <2>3 DEF HandingOff
    <3>2. a.kind = "NOTIFY"
        BY <1>2, <3>1
    <3> QED BY <3>2 DEF Executed
  <2> QED BY <1>6, <2>1, <2>2, <2>3 DEF AckIsTrue
<1>7. AckIsTrue(after.ack, job, new, after)
  <2>1. ASSUME NEW b \in HandingOff(job), b.id = a.id PROVE Retired(new) <=> retired
    <3>1. b = a /\ a.kind = "PREPARE_HANDOFF"
        BY <1>0, <2>1 DEF HandingOff, Effects
    <3> QED BY <3>1 DEF Executed
  <2> QED BY <2>1 DEF AckIsTrue
<1>8. ASSUME NEW s, s.generation \in Nat, Told(s, job, c, h) PROVE Told(s, job, new, after)
  <2>1. AckIsTrue(s.ack, job, new, after)
      BY <1>6, <1>8 DEF Told
  <2>2. CASE a.kind = "START_SESSION"
    <3>1. Len(new) = Len(c) + 1
        BY <2>2 DEF Executed
    <3> QED BY <1>0, <1>8, <2>1, <2>2, <3>1 DEF Told
  <2>3. CASE a.kind # "START_SESSION"
    <3>1. Len(new) = Len(c) /\ (new = <<>> <=> c = <<>>)
        BY <2>3 DEF Executed
    <3> QED BY <1>8, <2>1, <2>3, <3>1 DEF Told
  <2> QED BY <2>2, <2>3
<1>9. Told(v, job, new, after)
    BY <1>8 DEF Owned, Snapshots
<1>10. after.late # NoRef => Told(after.late, job, new, after)
  <2>1. CASE after.late = h.late
      BY <1>8, <2>1 DEF Owned, Hosts, Snapshots
  <2>2. CASE /\ a.kind = "START_SESSION"
             /\ after.late.generation = h.generation /\ after.late.ack = h.ack
             /\ after.late.owner = IF c = <<>> THEN NoRef ELSE Len(c)
    <3>1. AckIsTrue(after.late.ack, job, new, after)
        BY <1>6, <2>2 DEF Owned
    <3>2. Len(new) = Len(c) + 1
        BY <2>2 DEF Executed
    <3> QED BY <1>0, <1>3, <2>2, <3>1, <3>2 DEF Told
  <2> QED BY <2>1, <2>2
<1> QED BY <1>1, <1>5, <1>7, <1>9, <1>10 DEF Owned

LEMMA ExecuteOwned ==
    ASSUME TypeOK, ProgressIsReal, JobsConsistent, OwnersInv, NEW j \in Jobs, Execute(j)
    PROVE  /\ Owned(jobs[j], chats'[j], host'[j], tray'[j], view[j])
           /\ UNCHANGED <<controlVars, view>>
           /\ \A k \in Jobs \ {j} : /\ chats'[k] = chats[k] /\ host'[k] = host[k]
                                    /\ tray'[k] = tray[k]
<1>0. HostTypeOK /\ HostTypeOK'
    BY ExecuteTyped DEF TypeOK
<1>1. PICK a \in jobs[j].pending, retired \in BOOLEAN,
           outcome \in {"SUCCEEDED", "UNKNOWN"} :
        /\ MayExecute(j, a)
        /\ Resumes(j, a) \/ Starts(j, a) \/ HandsOff(j, a, retired) \/ Other(a)
        /\ tray' = [tray EXCEPT ![j] = @ \ {a.id}]
        /\ host' = [host EXCEPT
              ![j].ack = [id |-> a.id, outcome |-> outcome, retired |-> retired,
                          session |-> Len(chats'[j]), checkpoint |-> host[j].checkpoint],
              ![j].generation = IF a.kind = "START_SESSION" THEN @ + 1 ELSE @,
              ![j].late = IF a.kind = "START_SESSION" THEN Snapshot(j) ELSE @,
              ![j].base = IF a.kind \in {"START_SESSION", "RESUME_SESSION"}
                            THEN host[j].checkpoint ELSE @,
              ![j].settled = @ \cup {a.id}]
        /\ UNCHANGED <<controlVars, view>>
    BY DEF Execute
<1>2. /\ Executed(a, retired, chats[j], chats'[j]) /\ chats'[j] \in Chats
      /\ \A k \in Jobs \ {j} : chats'[k] = chats[k]
    BY <1>0, <1>1, ChatsExecuted
<1>3. /\ jobs[j] \in Records /\ OneEffect(jobs[j]) /\ chats[j] \in Chats
      /\ host[j] \in Hosts /\ host'[j] \in Hosts /\ tray[j] \in SUBSET Nat
      /\ view[j] \in Snapshots
      /\ Owned(jobs[j], chats[j], host[j], tray[j], view[j])
    BY <1>0 DEF TypeOK, HostTypeOK, JobsConsistent, Consistent, OwnersInv, Chats
<1> DEFINE ack == [id |-> a.id, outcome |-> outcome, retired |-> retired,
                   session |-> Len(chats'[j]), checkpoint |-> host[j].checkpoint]
           generation == IF a.kind = "START_SESSION" THEN host[j].generation + 1
                         ELSE host[j].generation
           late == IF a.kind = "START_SESSION" THEN Snapshot(j) ELSE host[j].late
           base == IF a.kind \in {"START_SESSION", "RESUME_SESSION"}
                     THEN host[j].checkpoint ELSE host[j].base
           settled == host[j].settled \cup {a.id}
           new == [host[j] EXCEPT !.ack = ack, !.generation = generation,
                                  !.late = late, !.base = base, !.settled = settled]
<1>4. host' = [host EXCEPT ![j] = new]
    BY <1>1
<1>5. /\ ack.id = a.id /\ ack.outcome = outcome /\ ack.retired = retired
      /\ Snapshot(j).generation = host[j].generation /\ Snapshot(j).ack = host[j].ack
      /\ Snapshot(j).owner = IF chats[j] = <<>> THEN NoRef ELSE Len(chats[j])
    BY DEF Snapshot, Owner
<1> HIDE DEF ack, generation, late, base, settled
<1>6. /\ new.ack = ack /\ new.generation = generation /\ new.late = late
      /\ new.settled = settled
    BY <1>3 DEF Hosts
<1> HIDE DEF new
<1>7. /\ host'[j] = new /\ tray'[j] = tray[j] \ {a.id}
      /\ \A k \in Jobs \ {j} : host'[k] = host[k] /\ tray'[k] = tray[k]
    BY <1>0, <1>1, <1>4 DEF HostTypeOK
<1>8. Owned(jobs[j], chats'[j], new, tray[j] \ {a.id}, view[j])
  <2>1. a.id \in tray[j] /\ a.generation = host[j].generation
      BY <1>1 DEF MayExecute
  <2>2. new \in Hosts
      BY <1>3, <1>7
  <2>3. /\ new.settled = host[j].settled \cup {a.id}
        /\ new.generation = IF a.kind = "START_SESSION" THEN host[j].generation + 1
                            ELSE host[j].generation
        /\ new.ack.id = a.id /\ new.ack.outcome # "NOT_STARTED"
        /\ new.ack.retired = retired
        /\ \/ new.late = host[j].late
           \/ /\ a.kind = "START_SESSION"
              /\ new.late.generation = host[j].generation /\ new.late.ack = host[j].ack
              /\ new.late.owner = IF chats[j] = <<>> THEN NoRef ELSE Len(chats[j])
      BY <1>1, <1>5, <1>6 DEF generation, late, settled
  <2> QED BY <1>2, <1>3, <2>1, <2>2, <2>3, ExecutedOwned
<1> QED BY <1>1, <1>2, <1>7, <1>8

LEMMA HostOwned ==
    ASSUME IInv, OwnersInv, NEW j \in Jobs, Host(j)
    PROVE  OwnersInv' /\ grants' = grants
<1>0. /\ TypeOK /\ ProgressIsReal /\ JobsConsistent /\ HostTypeOK
      /\ chats[j] \in Chats /\ host[j] \in Hosts
      /\ Owned(jobs[j], chats[j], host[j], tray[j], view[j])
    BY DEF IInv, TypeOK, HostTypeOK, OwnersInv, Chats
<1>1. ASSUME \A k \in Jobs \ {j} :
                /\ jobs'[k] = jobs[k] /\ chats'[k] = chats[k] /\ host'[k] = host[k]
                /\ tray'[k] = tray[k] /\ view'[k] = view[k],
             Owned(jobs'[j], chats'[j], host'[j], tray'[j], view'[j])
      PROVE  OwnersInv'
    BY <1>1 DEF OwnersInv
<1>2. CASE Publish(j)
  <2>1. /\ view'[j] = Snapshot(j)
        /\ \A k \in Jobs \ {j} : view'[k] = view[k]
        /\ UNCHANGED <<controlVars, chats, host, tray>>
      BY <1>0, <1>2 DEF Publish, HostTypeOK
  <2>2. Told(Snapshot(j), jobs[j], chats[j], host[j])
    <3>1. /\ Snapshot(j).generation = host[j].generation
          /\ Snapshot(j).ack = host[j].ack
          /\ Snapshot(j).owner = IF chats[j] = <<>> THEN NoRef ELSE Len(chats[j])
        BY DEF Snapshot, Owner
    <3>2. chats[j] # <<>> => Len(chats[j]) \in 1 .. Len(chats[j])
        BY <1>0 DEF Chats
    <3>3. host[j].generation \in Nat
        BY <1>0 DEF Hosts
    <3> QED BY <1>0, <3>1, <3>2, <3>3 DEF Owned, Told
  <2>3. Owned(jobs[j], chats[j], host[j], tray[j], view'[j])
      BY <1>0, <2>1, <2>2 DEF Owned
  <2> QED BY <1>1, <2>1, <2>3 DEF controlVars
<1>3. CASE PublishLate(j)
  <2>1. /\ view'[j] = host[j].late /\ host[j].late # NoRef
        /\ \A k \in Jobs \ {j} : view'[k] = view[k]
        /\ UNCHANGED <<controlVars, chats, host, tray>>
      BY <1>0, <1>3 DEF PublishLate, HostTypeOK
  <2>2. Owned(jobs[j], chats[j], host[j], tray[j], view'[j])
      BY <1>0, <2>1 DEF Owned
  <2> QED BY <1>1, <2>1, <2>2 DEF controlVars
<1>4. CASE Execute(j)
  <2>1. /\ Owned(jobs[j], chats'[j], host'[j], tray'[j], view[j])
        /\ UNCHANGED <<controlVars, view>>
        /\ \A k \in Jobs \ {j} : /\ chats'[k] = chats[k] /\ host'[k] = host[k]
                                 /\ tray'[k] = tray[k]
      BY <1>0, <1>4, ExecuteOwned
  <2> QED BY <1>1, <2>1 DEF controlVars
<1>5. CASE Refuse(j)
  <2>1. Owned(jobs[j], chats[j], host'[j], tray'[j], view[j])
      BY <1>0, <1>5, RefuseOwned
  <2>2. /\ \A k \in Jobs \ {j} : host'[k] = host[k] /\ tray'[k] = tray[k]
        /\ UNCHANGED <<controlVars, chats, view>>
      BY <1>0, <1>5 DEF Refuse, HostTypeOK
  <2> QED BY <1>1, <2>1, <2>2 DEF controlVars
<1>6. CASE Expire(j)
  <2>1. Owned(jobs'[j], chats[j], host[j], tray[j], view[j])
      BY <1>0, <1>6, ExpireOwned
  <2>2. /\ \A k \in Jobs \ {j} : jobs'[k] = jobs[k]
        /\ UNCHANGED <<used, grants, held, hostVars>>
      BY <1>0, <1>6 DEF Expire, TypeOK
  <2> QED BY <1>1, <2>1, <2>2 DEF hostVars
<1>7. CASE ChatWorks(j)
  <2> DEFINE new == [host[j] EXCEPT !.checkpoint = host[j].checkpoint + 1]
  <2>1. /\ new.ack = host[j].ack /\ new.generation = host[j].generation
        /\ new.late = host[j].late /\ new.settled = host[j].settled
      BY <1>0 DEF Hosts
  <2>2. host' = [host EXCEPT ![j] = new] /\ UNCHANGED <<controlVars, chats, tray, view>>
      BY <1>7 DEF ChatWorks
  <2> HIDE DEF new
  <2>3. host'[j] = new /\ \A k \in Jobs \ {j} : host'[k] = host[k]
      BY <1>0, <2>2 DEF HostTypeOK
  <2>4. Owned(jobs[j], chats[j], new, tray[j], view[j])
    <3>1. ASSUME NEW k, AckIsTrue(k, jobs[j], chats[j], host[j])
          PROVE  AckIsTrue(k, jobs[j], chats[j], new)
        BY <2>1, <3>1 DEF AckIsTrue
    <3>2. ASSUME NEW s, Told(s, jobs[j], chats[j], host[j])
          PROVE  Told(s, jobs[j], chats[j], new)
        BY <2>1, <3>1, <3>2 DEF Told
    <3>3. Linked(jobs[j], chats[j], new)
        BY <1>0, <2>1 DEF Owned, Linked
    <3>4. Delivered(jobs[j], new, tray[j])
        BY <1>0, <2>1 DEF Owned, Delivered
    <3> QED BY <1>0, <2>1, <3>1, <3>2, <3>3, <3>4 DEF Owned
  <2> QED BY <1>1, <2>2, <2>3, <2>4 DEF controlVars
<1>8. CASE ChatStops(j) \/ UserContinues(j)
  <2>1. PICK status \in {"idle", "running"} : chats' = SetOwner(j, status)
      BY <1>8 DEF ChatStops, UserContinues
  <2>2. chats[j] # <<>> /\ ~Retired(chats[j])
      BY <1>8 DEF ChatStops, UserContinues, OwnerStatus, Retired
  <2>3. UNCHANGED <<controlVars, host, tray, view>>
      BY <1>8 DEF ChatStops, UserContinues
  <2> DEFINE new == SetOwner(j, status)
  <2>4. /\ new \in [Jobs -> Chats] /\ Len(new[j]) = Len(chats[j])
        /\ Len(chats[j]) \in Nat \ {0} /\ new[j][Len(chats[j])] = status
        /\ \A i \in 1 .. Len(chats[j]) - 1 : new[j][i] = chats[j][i]
        /\ \A k \in Jobs \ {j} : new[k] = chats[k]
      BY <1>0, <2>2, SetOwnerTyped DEF Chats
  <2> HIDE DEF new
  <2>5. new[j] # <<>> /\ ~Retired(new[j]) /\ new[j] \in Chats
      BY <2>4 DEF Retired, Chats
  <2>6. Owned(jobs[j], new[j], host[j], tray[j], view[j])
      BY <1>0, <2>2, <2>4, <2>5, StatusOwned
  <2>7. chats' = new
      BY <2>1 DEF new
  <2> QED BY <1>1, <2>3, <2>4, <2>6, <2>7 DEF controlVars
<1> QED BY <1>2, <1>3, <1>4, <1>5, <1>6, <1>7, <1>8 DEF Host

LEMMA InitOwners == Init => OwnersInv
<1> SUFFICES ASSUME Init, NEW j \in Jobs
             PROVE  Owned(jobs[j], chats[j], host[j], tray[j], view[j])
    BY DEF OwnersInv
<1>1. /\ jobs[j] = NewJob /\ host[j] = NewHost /\ tray[j] = {} /\ view[j] = Snapshot(j)
      /\ chats[j] \in {<<>>, <<"idle">>}
    BY DEF Init, ControlInit
<1>2. /\ NewJob.pending = {} /\ NewJob.generation = 0 /\ NewJob.owner = NoRef
      /\ ~NewJob.quiescent /\ Starting(NewJob) = {} /\ HandingOff(NewJob) = {}
      /\ NewHost.generation = 0 /\ NewHost.ack = NoRef /\ NewHost.late = NoRef
      /\ NewHost.settled = {}
    BY DEF NewJob, NewHost, Starting, HandingOff, Effects
<1>3. /\ view[j].generation = 0 /\ view[j].ack = NoRef
      /\ view[j].owner = IF chats[j] = <<>> THEN NoRef ELSE Len(chats[j])
    BY <1>1, <1>2 DEF Snapshot, Owner
<1>4. chats[j] # <<>> => Len(chats[j]) = 1
    BY <1>1
<1>5. ~Retired(chats[j])
    BY <1>1 DEF Retired
<1>6. Numbered(jobs[j]) /\ Delivered(jobs[j], host[j], tray[j])
    BY <1>1, <1>2 DEF Numbered, Delivered
<1>7. Linked(jobs[j], chats[j], host[j])
    BY <1>1, <1>2, <1>5 DEF Linked
<1>8. Told(view[j], jobs[j], chats[j], host[j])
    BY <1>1, <1>2, <1>3, <1>4 DEF Told, AckIsTrue
<1> QED BY <1>1, <1>2, <1>6, <1>7, <1>8 DEF Owned, AckIsTrue

LEMMA NextOwners == IInv /\ OwnersInv /\ [Next]_vars => OwnersInv'
<1> SUFFICES ASSUME IInv, OwnersInv, [Next]_vars PROVE OwnersInv'
    OBVIOUS
<1>1. CASE UNCHANGED vars
    BY <1>1 DEF vars, controlVars, hostVars, OwnersInv
<1>2. ASSUME NEW j \in Jobs, Control(j) PROVE OwnersInv'
  <2>1. /\ Turned(j) \/ UNCHANGED controlVars
        /\ UNCHANGED <<chats, host, view>>
        /\ Respond(j) \/ UNCHANGED tray
      BY <1>2, ControlTurned
  <2>2. CASE Turned(j)
      BY <2>1, <2>2, TurnedOwned DEF IInv
  <2>3. CASE UNCHANGED controlVars
    <3>1. jobs[j] \in Records /\ jobs' = jobs
        BY <2>3 DEF IInv, TypeOK, controlVars
    <3>2. Later(jobs[j], jobs'[j])
        BY <3>1, FewerLater
    <3>3. Turned(j)
        BY <2>3, <3>1, <3>2 DEF Turned, controlVars, IInv, TypeOK, OwnersInv, Owned
    <3> QED BY <2>1, <3>3, TurnedOwned DEF IInv
  <2> QED BY <2>1, <2>2, <2>3
<1>3. ASSUME NEW j \in Jobs, Host(j) PROVE OwnersInv'
    BY <1>3, HostOwned
<1> QED BY <1>1, <1>2, <1>3 DEF Next

\* The owners and the records stay together.
THEOREM OwnersStayLinked == Spec => []OwnersInv
<1>1. Init => OwnersInv
    BY InitOwners
<1>2. IInv /\ OwnersInv /\ [Next]_vars => OwnersInv'
    BY NextOwners
<1> QED BY <1>1, <1>2, InductiveInvariant, PTL DEF Spec

\* What a step grants is rightful.
LEMMA GrantsAreRightful ==
    ASSUME IInv, OwnersInv, [Next]_vars, NEW g \in grants' \ grants
    PROVE  /\ g.kind = "START_SESSION" /\ jobs'[g.job].owner # NoRef =>
                 chats[g.job][jobs'[g.job].owner] = "retired"
           /\ g.kind = "RESUME_SESSION" =>
                 chats[g.job][jobs'[g.job].owner] # "retired"
<1>1. CASE UNCHANGED vars
    BY <1>1 DEF vars, controlVars
<1>2. ASSUME NEW j \in Jobs, Control(j), Turned(j) \/ UNCHANGED controlVars
      PROVE  \E a : g.job = j /\ g.kind = a.kind /\ Rightful(a, jobs'[j], chats[j])
    BY <1>2 DEF Turned, controlVars
<1>3. CASE \E j \in Jobs : Control(j)
    BY <1>2, <1>3, ControlTurned DEF Rightful
<1>4. CASE \E j \in Jobs : Host(j)
    BY <1>4, HostOwned
<1> QED BY <1>1, <1>3, <1>4 DEF Next

\* A successor is requested only after the chat of the owner was retired.
THEOREM SuccessorsFollowRetirement == Spec => SuccessorAfterRetirement
<1>1. IInv /\ OwnersInv /\ [Next]_vars =>
        [\A g \in grants' \ grants :
            g.kind = "START_SESSION" /\ jobs'[g.job].owner # NoRef =>
                chats[g.job][jobs'[g.job].owner] = "retired"]_vars
    BY GrantsAreRightful
<1> QED BY <1>1, InductiveInvariant, OwnersStayLinked, PTL
       DEF SuccessorAfterRetirement, Spec

\* A retired chat is granted no continuation.
THEOREM RetiredIsLeftAlone == Spec => RetiredNeverContinued
<1>1. IInv /\ OwnersInv /\ [Next]_vars =>
        [\A g \in grants' \ grants : g.kind = "RESUME_SESSION" =>
            chats[g.job][jobs'[g.job].owner] # "retired"]_vars
    BY GrantsAreRightful
<1> QED BY <1>1, InductiveInvariant, OwnersStayLinked, PTL
       DEF RetiredNeverContinued, Spec
=============================================================================
