---------------------------- MODULE MC_HostedJobs ----------------------------
(***************************************************************************)
(* Small instances of HostedJobs, one per part: what pauses, cancellations *)
(* and failed sources do ("hold"), notifications beside them ("notify"),   *)
(* continuations and reconciliation ("continue"), and handoffs to          *)
(* successors ("rotate").  A behavior is one of the parts named in Parts;  *)
(* the bounds of "hold" are in the cfg.                                    *)
(*                                                                         *)
(* A report is what the host states besides the chat; each one differs     *)
(* from the plain report in the fields it names.                           *)
(***************************************************************************)
EXTENDS HostedJobs

CONSTANTS
    One,           \* the job
    Parts          \* the parts this run explores

VARIABLE part

Plain ==
    [execution |-> "ACTUAL", progress |-> TRUE, executable |-> TRUE,
     routable |-> TRUE, operatorResume |-> FALSE, lifecycle |-> NoRef,
     failure |-> NoRef, verified |-> FALSE, attested |-> TRUE,
     handoffValid |-> TRUE]

Operator == [Plain EXCEPT !.operatorResume = TRUE]
NoProgress == [Plain EXCEPT !.progress = FALSE]
Broken == [Plain EXCEPT !.failure = "source"]
Rotating == [Plain EXCEPT !.lifecycle = "ROTATE"]

AllCapabilities ==
    {"STATUS", "PRE_MODEL_CHECK", "START_SESSION", "RESUME_SESSION",
     "SUCCESSOR_SESSION", "NOTIFY", "RESEARCH"}
Silent == AllCapabilities \ {"NOTIFY"}

\* Pauses, cancellations and failed sources
HoldReports ==
    {Plain, Operator, Broken, [Plain EXCEPT !.execution = "WAITING"],
     [Plain EXCEPT !.executable = FALSE]}
HoldEvents ==
    {"REGISTER", "EVENT", "RESUME", "SOURCE_FAILED", "PAUSE", "CANCEL"}

Notification == INSTANCE HostedJobs WITH
    Capabilities <- AllCapabilities, Events <- {"REGISTER", "SOURCE_FAILED", "PAUSE"},
    Reports <- {Plain, Broken}

\* Continuations and reconciliation
Continuation == INSTANCE HostedJobs WITH
    Capabilities <- Silent, MaxDispatches <- 2, MaxSequence <- 3, MaxWork <- 2,
    MaxChats <- 1, Events <- {"REGISTER", "EVENT", "RESUME", "STATUS"},
    Reports <- {Plain, Operator, NoProgress, [Plain EXCEPT !.execution = "UNKNOWN"],
                [Plain EXCEPT !.verified = TRUE]}

\* Handoffs and successors
Rotation == INSTANCE HostedJobs WITH
    Capabilities <- Silent, MaxDispatches <- 3, MaxSequence <- 3, MaxWork <- 1,
    MaxChats <- 2, Events <- {"REGISTER", "HEARTBEAT", "RESUME", "ROTATE"},
    Reports <- {Plain, Operator, Rotating, [Plain EXCEPT !.lifecycle = "CHECKPOINT"],
                [Plain EXCEPT !.lifecycle = "CONTINUE"], [Plain EXCEPT !.routable = FALSE],
                [Plain EXCEPT !.attested = FALSE], [Plain EXCEPT !.handoffValid = FALSE]}

ASSUME Notification!ControlAssumption /\ Notification!HostAssumption
ASSUME Continuation!ControlAssumption /\ Continuation!HostAssumption
ASSUME Rotation!ControlAssumption /\ Rotation!HostAssumption

PartInit == part \in Parts /\ Init
HoldStep == part = "hold" /\ Next /\ UNCHANGED part
NotifyStep == part = "notify" /\ Notification!Next /\ UNCHANGED part
ContinueStep == part = "continue" /\ Continuation!Next /\ UNCHANGED part
RotateStep == part = "rotate" /\ Rotation!Next /\ UNCHANGED part
PartSpec ==
    PartInit /\ [][HoldStep \/ NotifyStep \/ ContinueStep \/ RotateStep]_<<part, vars>>
=============================================================================
