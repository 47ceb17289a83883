----------------------------- MODULE HostedJobs -----------------------------
(***************************************************************************)
(* The job controller together with the host it is written for.  The host  *)
(* owns the chats, publishes snapshots that may lag behind, receives the   *)
(* reserved actions unless a response is lost, executes them after the     *)
(* re-check the contract asks for, and acknowledges what it did.  Nothing  *)
(* in the repository is the host: it is modelled from the fields control() *)
(* reads and the outcomes it distinguishes.                                *)
(***************************************************************************)
EXTENDS JobControl, Sequences

CONSTANTS
    MaxWork,     \* bound of the model: the checkpoint at which a job is complete
    MaxChats,    \* bound of the model: chats per job
    Events,      \* the events callers send
    Reports      \* the host's statements besides the state of the chat

ASSUME HostAssumption ==
    /\ MaxWork \in Nat /\ MaxChats \in Nat
    /\ Events \subseteq {"REGISTER", "HEARTBEAT", "EVENT", "RESUME", "ROTATE",
                         "SOURCE_FAILED", "ACCEPT_EVIDENCE", "STATUS", "PAUSE",
                         "CANCEL"}

VARIABLES
    chats,     \* chats[j]: status of the chats opened for the job, oldest first
    host,      \* host[j]: generation, checkpoint, checkpoint at the last run, the
               \* last ack, the last snapshot of the predecessor, and the ids of
               \* the actions that were executed or given up
    tray,      \* tray[j]: ids of the actions the host has received
    view       \* view[j]: the published snapshot

hostVars == <<chats, host, tray, view>>
vars == <<controlVars, hostVars>>

Owner(j) == IF chats[j] = <<>> THEN NoRef ELSE Len(chats[j])
OwnerStatus(j) == IF chats[j] = <<>> THEN "none" ELSE chats[j][Len(chats[j])]
SetOwner(j, status) == [chats EXCEPT ![j][Len(chats[j])] = status]

\* What the host writes to the observation file now
Snapshot(j) ==
    [generation |-> host[j].generation, owner |-> Owner(j),
     running |-> OwnerStatus(j) = "running", checkpoint |-> host[j].checkpoint,
     base |-> host[j].base, ack |-> host[j].ack]

NewHost ==
    [generation |-> 0, checkpoint |-> 0, base |-> 0, ack |-> NoRef, late |-> NoRef,
     settled |-> {}]

\* A job starts without a chat or with one the user opened.
Init ==
    /\ ControlInit
    /\ chats \in [Jobs -> {<<>>, <<"idle">>}]
    /\ host = [j \in Jobs |-> NewHost]
    /\ tray = [j \in Jobs |-> {}]
    /\ view = [j \in Jobs |-> Snapshot(j)]

-----------------------------------------------------------------------------
(* Calls of the controller                                                  *)

\* The snapshot a call reads: the published view and one of the reports
Read(j, report) ==
    LET v == view[j]
    IN  [generation |-> v.generation, owner |-> v.owner,
         checkpoint |-> v.checkpoint, ack |-> v.ack,
         execution |-> IF report.execution # "ACTUAL" THEN report.execution
                       ELSE IF v.running THEN "RUNNING" ELSE "IDLE",
         workRemaining |-> v.checkpoint < MaxWork,
         completed |-> v.checkpoint = MaxWork,
         progress |-> IF v.checkpoint = v.base \/ ~report.progress THEN NoRef
                      ELSE [checkpoint |-> v.checkpoint, previous |-> v.base,
                            ref |-> v.checkpoint],
         executable |-> report.executable, routable |-> report.routable,
         operatorResume |-> report.operatorResume,
         lifecycle |-> report.lifecycle, failure |-> report.failure,
         verified |-> report.verified, attested |-> report.attested,
         handoffValid |-> report.handoffValid]

\* The actions of the response reach the host, or the response is lost.
Respond(j) ==
    /\ \/ UNCHANGED tray
       \/ tray' = [tray EXCEPT ![j] = @ \cup
                      {a.id : a \in jobs'[j].pending \ jobs[j].pending}]
    /\ UNCHANGED <<chats, host, view>>

CallStatus(j) == "STATUS" \in Events /\ Status(j) /\ Respond(j)
CallPauseOrCancel(j) ==
    \E event \in Events : PauseOrCancel(j, event) /\ UNCHANGED hostVars

ObservedEvents == Events \ {"STATUS", "PAUSE", "CANCEL"}

CallWithoutObservation(j) ==
    \E event \in ObservedEvents : ObservationUnavailable(j, event) /\ Respond(j)
CallWithStaleView(j) ==
    \E event \in ObservedEvents, report \in Reports :
        ObservationRejected(j, event, Read(j, report)) /\ UNCHANGED hostVars
CallWithView(j) ==
    \E event \in ObservedEvents, report \in Reports :
        ObservationUsed(j, event, Read(j, report)) /\ Respond(j)

-----------------------------------------------------------------------------
(* The host                                                                 *)

Publish(j) ==
    /\ view' = [view EXCEPT ![j] = Snapshot(j)]
    /\ view' # view
    /\ UNCHANGED <<controlVars, chats, host, tray>>

\* The predecessor's last snapshot is written after the successor's.
PublishLate(j) ==
    /\ host[j].late # NoRef
    /\ view' = [view EXCEPT ![j] = host[j].late]
    /\ view' # view
    /\ UNCHANGED <<controlVars, chats, host, tray>>

\* The re-check before an effect: still granted, not expired, same generation
MayExecute(j, a) ==
    /\ a \in jobs[j].pending /\ a.id \in tray[j]
    /\ ~a.expired /\ a.generation = host[j].generation
    /\ jobs[j].state \notin {"PAUSED", "CANCELLED"}

\* The effect of an action, and whether it retired the owner's chat.  A status
\* check, a checkpoint, a research or a notification leaves the chats alone.
Resumes(j, a) ==
    /\ a.kind = "RESUME_SESSION" /\ OwnerStatus(j) = "idle"
    /\ chats' = SetOwner(j, "running")
Starts(j, a) ==
    /\ a.kind = "START_SESSION" /\ Len(chats[j]) < MaxChats
    /\ chats' = [chats EXCEPT ![j] = Append(@, "running")]
HandsOff(j, a, retired) ==
    /\ a.kind = "PREPARE_HANDOFF" /\ OwnerStatus(j) = "idle"
    /\ chats' = IF retired THEN SetOwner(j, "retired") ELSE chats
Other(a) ==
    /\ a.kind \in {"CHECK_STATUS", "CHECKPOINT", "RESEARCH", "NOTIFY"}
    /\ UNCHANGED chats

\* Each id is executed once; the outcome may be unknown to the host itself.
Execute(j) ==
    \E a \in jobs[j].pending, retired \in BOOLEAN,
       outcome \in {"SUCCEEDED", "UNKNOWN"} :
        /\ MayExecute(j, a)
        /\ Resumes(j, a) \/ Starts(j, a) \/ HandsOff(j, a, retired) \/ Other(a)
        /\ tray' = [tray EXCEPT ![j] = @ \ {a.id}]
        /\ host' = [host EXCEPT
              ![j].ack = [id |-> a.id, outcome |-> outcome, retired |-> retired,
                          session |-> Len(chats'[j]), checkpoint |-> host[j].checkpoint],
              ![j].generation = IF a.kind = "START_SESSION" THEN @ + 1 ELSE @,
              ![j].late = IF a.kind = "START_SESSION" THEN Snapshot(j) ELSE @,
              ![j].base = IF a.kind \in {"START_SESSION", "RESUME_SESSION"}
                            THEN host[j].checkpoint ELSE @,
              ![j].settled = @ \cup {a.id}]
        /\ UNCHANGED <<controlVars, view>>

\* An action that was not executed is given up, once: it has no effect, now or
\* later.
Refuse(j) ==
    \E a \in jobs[j].pending, outcome \in {"FAILED", "NOT_STARTED"} :
        /\ a.id \notin host[j].settled
        /\ tray' = [tray EXCEPT ![j] = @ \ {a.id}]
        /\ host' = [host EXCEPT
              ![j].ack = [id |-> a.id, outcome |-> outcome, retired |-> FALSE,
                          session |-> Len(chats[j]), checkpoint |-> host[j].checkpoint],
              ![j].settled = @ \cup {a.id}]
        /\ UNCHANGED <<controlVars, chats, view>>

Expire(j) ==
    \E a \in Effects(jobs[j]) :
        /\ ~a.expired
        /\ jobs' = [jobs EXCEPT ![j].pending =
                       (@ \ {a}) \cup {[a EXCEPT !.expired = TRUE]}]
        /\ UNCHANGED <<used, grants, held, hostVars>>

\* The model in the chat works towards completion, and stops at any time.
ChatWorks(j) ==
    /\ OwnerStatus(j) = "running" /\ host[j].checkpoint < MaxWork
    /\ host' = [host EXCEPT ![j].checkpoint = @ + 1]
    /\ UNCHANGED <<controlVars, chats, tray, view>>
ChatStops(j) ==
    /\ OwnerStatus(j) = "running"
    /\ chats' = SetOwner(j, "idle")
    /\ UNCHANGED <<controlVars, host, tray, view>>

\* The user sends a message to the idle chat, whatever the controller does.
UserContinues(j) ==
    /\ OwnerStatus(j) = "idle"
    /\ chats' = SetOwner(j, "running")
    /\ UNCHANGED <<controlVars, host, tray, view>>

Control(j) ==
    \/ CallStatus(j) \/ CallPauseOrCancel(j) \/ CallWithoutObservation(j)
    \/ CallWithStaleView(j) \/ CallWithView(j)
Host(j) ==
    \/ Publish(j) \/ PublishLate(j) \/ Execute(j) \/ Refuse(j) \/ Expire(j)
    \/ ChatWorks(j) \/ ChatStops(j) \/ UserContinues(j)

Next == \E j \in Jobs : Control(j) \/ Host(j)
Spec == Init /\ [][Next]_vars

-----------------------------------------------------------------------------
(* Properties                                                               *)

\* No second effect is granted while one is outstanding, whichever event asks
\* and whatever the snapshot shows (the "active" test and the STATUS guard).
OneOutstandingEffect == \A j \in Jobs : Cardinality(Effects(jobs[j])) <= 1

\* One continuation per owner generation and checkpoint and one research per
\* failure, although snapshots lag, responses get lost, acknowledgements repeat
\* and operators reconcile (last_resume_key, research_keys).
NothingGrantedTwice ==
    \A g, h \in grants :
        /\ g.job = h.job /\ g.kind = h.kind
        /\ g.about \cap h.about # {}
        => g.id = h.id

\* A successor is only requested after the chat that owns the job was retired at
\* the host (PREPARE_HANDOFF acknowledged with predecessor_retired).
SuccessorAfterRetirement ==
    [][\A g \in grants' \ grants :
          g.kind = "START_SESSION" /\ jobs'[g.job].owner # NoRef =>
              chats[g.job][jobs'[g.job].owner] = "retired"]_vars

\* A chat that was retired for a handoff is never granted a continuation, also
\* when the successor does not come up (quiescent, STALE_OWNER_OBSERVATION).
RetiredNeverContinued ==
    [][\A g \in grants' \ grants :
          g.kind = "RESUME_SESSION" =>
              chats[g.job][jobs'[g.job].owner] # "retired"]_vars

\* While the observation file holds a snapshot of an earlier generation, the
\* successor's record keeps its owner and its checkpoint and is granted nothing.
PredecessorIsFenced ==
    [][\A j \in Jobs : view[j].generation < jobs[j].generation =>
          /\ jobs'[j].owner = jobs[j].owner
          /\ jobs'[j].checkpoint = jobs[j].checkpoint
          /\ \A g \in grants' \ grants : g.job # j]_vars

\* As long as nothing turned the pause into a question to the operator, a paused
\* or cancelled job is granted nothing.
PauseHolds ==
    [][\A g \in grants' \ grants : g.whileHeld =>
          jobs[g.job].state \notin {"PAUSED", "COMPLETED", "CANCELLED"}]_vars

\* "Pause/cancel prohibit new automatic grants" (AI_ORCHESTRATOR.md).
PauseProhibitsGrants == \A g \in grants : ~g.whileHeld
=============================================================================
