-------------------------- MODULE SessionLifecycle --------------------------
(***************************************************************************)
(* The lifecycle decision of ai_work: a growing session asks after each    *)
(* turn whether to continue, to save a checkpoint or to rotate.  The       *)
(* decision is a function of what the client can count, and a client need  *)
(* not be able to count: an unknown number settles nothing.                *)
(***************************************************************************)
EXTENDS Integers

CONSTANTS
    Window,           \* context_window_tokens, in turns
    Soft, Hard,       \* the context ratios, in turns
    CheckpointDelta,  \* checkpoint_delta_tokens, in turns
    Unknown           \* a count the client does not have

LifecycleAssumption ==
    /\ {Soft, Hard, Window, CheckpointDelta} \subseteq Nat \ {0}
    /\ Soft < Hard /\ Hard <= Window

VARIABLES
    context,   \* turns in the context window
    delta,     \* turns since the checkpoint
    asked,     \* the counts and the boundary of the last request
    action     \* the decision

vars == <<context, delta, asked, action>>

-----------------------------------------------------------------------------
Natural == {"WORK_ITEM_COMPLETED", "MILESTONE_COMPLETED", "MAJOR_TOPIC_CHANGE"}
Boundaries == Natural \union {"NONE", "USER_REQUESTED"}

AtLeast(count, limit) == count # Unknown /\ count >= limit

\* Mutation: a checkpoint that is due comes before the ratios.
LifecycleCheckpointFirst(request) ==
    IF request.boundary = "USER_REQUESTED" THEN "ROTATE_REQUIRED"
    ELSE IF AtLeast(request.delta, CheckpointDelta) THEN "CHECKPOINT"
    ELSE IF AtLeast(request.context, Hard) THEN "ROTATE_REQUIRED"
    ELSE IF AtLeast(request.context, Soft) /\ request.boundary \in Natural
      THEN "ROTATE_AT_BOUNDARY"
    ELSE IF AtLeast(request.context, Soft) THEN "CHECKPOINT"
    ELSE "CONTINUE"

\* session_lifecycle: the first reason decides.
Lifecycle(request) ==
    IF request.boundary = "USER_REQUESTED" \/ AtLeast(request.context, Hard)
      THEN "ROTATE_REQUIRED"
    ELSE IF AtLeast(request.context, Soft) /\ request.boundary \in Natural
      THEN "ROTATE_AT_BOUNDARY"
    ELSE IF AtLeast(request.context, Soft) \/ AtLeast(request.delta, CheckpointDelta)
      THEN "CHECKPOINT"
    ELSE "CONTINUE"

-----------------------------------------------------------------------------
Init ==
    /\ context = 0 /\ delta = 0 /\ action = "CONTINUE"
    /\ asked = [context |-> 0, delta |-> 0, boundary |-> "NONE"]

\* A turn, and the decision that follows it.  The client knows each count or
\* does not.
Turn(boundary, c, d) ==
    /\ context < Window /\ c \in {context + 1, Unknown} /\ d \in {delta + 1, Unknown}
    /\ context' = context + 1 /\ delta' = delta + 1
    /\ asked' = [context |-> c, delta |-> d, boundary |-> boundary]
    /\ action' = Lifecycle(asked')

\* The client saved a checkpoint (external): its counter starts again and the
\* decision is carried out.
Checkpointed ==
    /\ action # "CONTINUE" /\ delta > 0
    /\ delta' = 0 /\ asked' = [asked EXCEPT !.delta = 0] /\ action' = "CONTINUE"
    /\ UNCHANGED context

Next ==
    \/ Checkpointed
    \/ \E b \in Boundaries, c, d \in (1..Window) \union {Unknown} : Turn(b, c, d)

Spec == Init /\ [][Next]_vars

-----------------------------------------------------------------------------

Weight(decision) ==
    CASE decision = "CONTINUE" -> 0 [] decision = "CHECKPOINT" -> 1
      [] decision = "ROTATE_AT_BOUNDARY" -> 2 [] decision = "ROTATE_REQUIRED" -> 3

\* A session that goes on past a decision it did not carry out is never told
\* less after the next turn, as long as the client still knows the counts it
\* knew and the boundary is not a lesser one.  (ai_work.py, session_lifecycle.)
LifecycleNeverWeakens ==
    [][context' > context
       /\ (asked.context # Unknown => asked'.context # Unknown)
       /\ (asked.delta # Unknown => asked'.delta # Unknown)
       /\ asked.boundary \in {asked'.boundary, "NONE"}
         => Weight(action') >= Weight(action)]_vars
=============================================================================
