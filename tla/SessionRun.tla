----------------------------- MODULE SessionRun -----------------------------
(***************************************************************************)
(* What run_manifest promises its caller (FWK-006): a verdict is returned  *)
(* only when no session process is left, and PASS only when every session  *)
(* ended well.  An exception promises nothing.                             *)
(***************************************************************************)
CONSTANT Sessions

VARIABLES
    live,      \* sessions whose process exists
    ended,     \* ended[s]: "none", "ok" or "failed"
    verdict    \* "none" until the call is over

runVars == <<live, ended, verdict>>

Open == verdict = "none"

RunInit ==
    /\ live = {}
    /\ ended = [s \in Sessions |-> "none"]
    /\ verdict = "none"

Begin(s) ==
    /\ Open /\ s \notin live /\ ended[s] = "none"
    /\ live' = live \cup {s}
    /\ UNCHANGED <<ended, verdict>>

\* A process exits or is killed; after an exception nobody waits for it.
End(s) ==
    /\ s \in live
    /\ live' = live \ {s}
    /\ \E how \in {"ok", "failed"} : ended' = [ended EXCEPT ![s] = how]
    /\ UNCHANGED verdict

Conclude(v) ==
    /\ Open /\ live = {}
    /\ v = "PASS" <=> \A s \in Sessions : ended[s] = "ok"
    /\ verdict' = v
    /\ UNCHANGED <<live, ended>>

\* Mutation: the timeout is reported while sessions still run.
ConcludeLateLeavesSessions ==
    /\ Open
    /\ verdict' = "FAIL_TIMEOUT"
    /\ UNCHANGED <<live, ended>>
\* The deadline may pass after the last session has ended well.
ConcludeLate ==
    /\ Open /\ live = {}
    /\ verdict' = "FAIL_TIMEOUT"
    /\ UNCHANGED <<live, ended>>

Throw == Open /\ verdict' = "raised" /\ UNCHANGED <<live, ended>>

\* Ctrl+C kills the one process that is being collected.
ThrowAndKill(s) ==
    /\ Open /\ s \in live
    /\ verdict' = "raised"
    /\ live' = live \ {s}
    /\ ended' = [ended EXCEPT ![s] = "failed"]

RunNext ==
    \/ \E s \in Sessions : Begin(s) \/ End(s) \/ ThrowAndKill(s)
    \/ \E v \in {"PASS", "FAIL_EXECUTION"} : Conclude(v)
    \/ ConcludeLate
    \/ Throw

RunSpec == RunInit /\ [][RunNext]_runVars
=============================================================================
