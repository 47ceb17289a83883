---------------------------- MODULE MultiSession ----------------------------
(***************************************************************************)
(* One run of a multi-session manifest: orchestrate_sessions.run_manifest  *)
(* starts one sqlcmd process per session, polls them, enforces one global  *)
(* deadline and stops what is left after the first failure, while the      *)
(* sessions coordinate through the signal table of                         *)
(* FWK_MultiSessionControl.sql.                                            *)
(*                                                                         *)
(* Three kinds of processes interleave: the orchestrator, the sqlcmd       *)
(* clients (with a bounded stdout pipe that nobody reads before the client *)
(* exits) and the server side batches.  Time is a tick counter; it may     *)
(* advance between any two steps.                                          *)
(***************************************************************************)
EXTENDS Integers, Sequences

CONSTANTS
    Sessions,              \* the session ids of the manifest
    Signals,               \* signal names of the demo
    Script,                \* Script[s]: the steps of the session's SQL script
    LaunchDelay,           \* launch_delay_ms of each session, in ticks
    Rank,                  \* position of the session id in string order
    Timeout,               \* timeout_seconds of the run, in ticks
    WaitTimeout,           \* @TimeoutMs of every wait, in ticks
    AbortOnFirstFailure,   \* abort_on_first_failure
    PipeCapacity,          \* output steps an unread stdout pipe can hold
    PipeHolders,           \* sessions whose sqlcmd shim may leave a
                           \* descendant that keeps the stdout pipe open
    Faults,                \* which exceptions may strike the orchestrator
    StaleSignals,          \* signals an earlier run may have left behind
    MaxClock,              \* bound of the clock
    NoOne, Earlier         \* no row / a row of an earlier run

StepKinds == {"signal", "wait", "clear", "print", "work"}
Step == [op : StepKinds, sig : Signals]

ASSUME ScriptAssumption == Script \in [Sessions -> Seq(Step)]
ASSUME ManifestAssumption ==
    /\ LaunchDelay \in [Sessions -> Nat]
    /\ Rank \in [Sessions -> Nat]
    /\ \A s, t \in Sessions : Rank[s] = Rank[t] => s = t
    /\ Timeout \in Nat \ {0}
    /\ WaitTimeout \in Nat \ {0}
    /\ AbortOnFirstFailure \in BOOLEAN
ASSUME EnvironmentAssumption ==
    /\ PipeCapacity \in Nat
    /\ PipeHolders \subseteq Sessions
    /\ Faults \subseteq {"start", "interrupt"}
    /\ StaleSignals \subseteq Signals
    /\ MaxClock \in Nat /\ MaxClock >= Timeout
    /\ NoOne \notin Sessions /\ Earlier \notin Sessions /\ NoOne # Earlier

VARIABLES
    clock,
    \* run_manifest
    pc, now, pending, running, sweep, draining, rc, timedOut,
    failureDetected, globalTimeout, verdict,
    \* the sqlcmd processes
    client, exitCode, pipe,
    \* the server side: batches and fwk.SessionSignal
    batch, ip, sub, waitFrom, rows

orchVars == <<pc, now, pending, running, sweep, draining, rc, timedOut,
              failureDetected, globalTimeout, verdict>>
clientVars == <<client, exitCode, pipe>>
batchVars == <<batch, ip, sub, waitFrom>>
vars == <<clock, orchVars, clientVars, batchVars, rows>>

ReturnCodes == {"none", "ok", "error", "killed", "notrun"}
Verdicts == {"none", "PASS", "FAIL_TIMEOUT", "FAIL_EXECUTION"}

TypeOK ==
    /\ clock \in Nat /\ now \in Nat
    /\ pc \in {"loop", "launch", "poll", "check", "stop", "result",
               "returned", "raised"}
    /\ pending \subseteq Sessions
    /\ running \subseteq Sessions
    /\ sweep \subseteq Sessions
    /\ draining \in Sessions \cup {NoOne}
    /\ rc \in [Sessions -> ReturnCodes]
    /\ timedOut \subseteq Sessions
    /\ failureDetected \in BOOLEAN /\ globalTimeout \in BOOLEAN
    /\ verdict \in Verdicts
    /\ client \in [Sessions -> {"absent", "alive", "exited"}]
    /\ exitCode \in [Sessions -> ReturnCodes]
    /\ pipe \in [Sessions -> Nat]
    /\ batch \in [Sessions -> {"none", "open", "ok", "error"}]
    /\ ip \in [Sessions -> Nat \ {0}]
    /\ sub \in [Sessions -> {"begin", "insert", "retry", "exists", "late"}]
    /\ waitFrom \in [Sessions -> Nat]
    /\ rows \in [Signals -> Sessions \cup {NoOne, Earlier}]

Init ==
    /\ clock = 0 /\ now = 0
    /\ pc = "loop"
    /\ pending = Sessions /\ running = {} /\ sweep = {} /\ draining = NoOne
    /\ rc = [s \in Sessions |-> "none"] /\ timedOut = {}
    /\ failureDetected = FALSE /\ globalTimeout = FALSE /\ verdict = "none"
    /\ client = [s \in Sessions |-> "absent"]
    /\ exitCode = [s \in Sessions |-> "none"]
    /\ pipe = [s \in Sessions |-> 0]
    /\ batch = [s \in Sessions |-> "none"]
    /\ ip = [s \in Sessions |-> 1]
    /\ sub = [s \in Sessions |-> "begin"]
    /\ waitFrom = [s \in Sessions |-> 0]
    /\ \E stale \in SUBSET StaleSignals :
          rows = [g \in Signals |-> IF g \in stale THEN Earlier ELSE NoOne]

-----------------------------------------------------------------------------
(* The orchestrator *)

\* sessions.sort(key=(launch_delay_ms, session_id))
Before(s, t) ==
    \/ LaunchDelay[s] < LaunchDelay[t]
    \/ LaunchDelay[s] = LaunchDelay[t] /\ Rank[s] =< Rank[t]

IsHead(s) == s \in pending /\ \A t \in pending : Before(s, t)
Due(s) == IsHead(s) /\ now >= LaunchDelay[s]

\* while pending or running: now = time.monotonic()
LoopTop ==
    /\ pc = "loop"
    /\ IF pending \cup running = {}
         THEN pc' = "result" /\ now' = now
         ELSE pc' = "launch" /\ now' = clock
    /\ UNCHANGED <<clock, pending, running, sweep, draining, rc, timedOut,
                   failureDetected, globalTimeout, verdict, clientVars,
                   batchVars, rows>>

\* The next due session is started; its batch begins on the server.
Launch(s) ==
    /\ pc = "launch" /\ Due(s)
    /\ pending' = pending \ {s}
    /\ running' = running \cup {s}
    /\ client' = [client EXCEPT ![s] = "alive"]
    /\ batch' = [batch EXCEPT ![s] = "open"]
    /\ UNCHANGED <<clock, pc, now, sweep, draining, rc, timedOut,
                   failureDetected, globalTimeout, verdict, exitCode, pipe,
                   ip, sub, waitFrom, rows>>

\* build_sqlcmd_command or Popen raises: nothing in run_manifest catches it.
LaunchRaises(s) ==
    /\ "start" \in Faults
    /\ pc = "launch" /\ Due(s)
    /\ pending' = pending \ {s}
    /\ pc' = "raised"
    /\ UNCHANGED <<clock, now, running, sweep, draining, rc, timedOut,
                   failureDetected, globalTimeout, verdict, clientVars,
                   batchVars, rows>>

LaunchesDone ==
    /\ pc = "launch" /\ \A s \in pending : ~Due(s)
    /\ pc' = "poll"
    /\ sweep' = running
    /\ UNCHANGED <<clock, now, pending, running, draining, rc, timedOut,
                   failureDetected, globalTimeout, verdict, clientVars,
                   batchVars, rows>>

\* process.poll() is None: continue
PollAlive(s) ==
    /\ pc = "poll" /\ s \in sweep
    /\ client[s] = "alive"
    /\ sweep' = sweep \ {s}
    /\ UNCHANGED <<clock, pc, now, pending, running, draining, rc, timedOut,
                   failureDetected, globalTimeout, verdict, clientVars,
                   batchVars, rows>>

\* The process has exited: collect_process reads its output to the end.
PollExited(s) ==
    /\ pc = "poll" /\ s \in sweep
    /\ client[s] = "exited"
    /\ sweep' = sweep \ {s}
    /\ running' = running \ {s}
    /\ rc' = [rc EXCEPT ![s] = exitCode[s]]
    /\ failureDetected' = (failureDetected \/ exitCode[s] # "ok")
    /\ UNCHANGED <<clock, pc, now, pending, draining, timedOut, globalTimeout,
                   verdict, clientVars, batchVars, rows>>

\* Or a descendant still holds the pipe of an exited process:
\* communicate(timeout) expires, _terminate_process_tree returns at once
\* because the root has exited, and the second communicate raises.
PollRaises(s) ==
    /\ pc = "poll" /\ s \in sweep
    /\ client[s] = "exited" /\ s \in PipeHolders
    /\ pc' = "raised"
    /\ UNCHANGED <<clock, now, pending, running, sweep, draining, rc, timedOut,
                   failureDetected, globalTimeout, verdict, clientVars,
                   batchVars, rows>>

PollDone ==
    /\ pc = "poll" /\ sweep = {}
    /\ pc' = "check"
    /\ UNCHANGED <<clock, now, pending, running, sweep, draining, rc, timedOut,
                   failureDetected, globalTimeout, verdict, clientVars,
                   batchVars, rows>>

\* Mutation: abort_on_first_failure is ignored.
FailFastNever == FALSE
\* Mutation: no global deadline.
DeadlineNever == FALSE

FailFast == failureDetected /\ AbortOnFirstFailure
DeadlineReached == clock >= Timeout

\* Fail-fast is looked at before the deadline; otherwise sleep and loop.
Check ==
    /\ pc = "check"
    /\ globalTimeout' = (~FailFast /\ DeadlineReached)
    /\ pc' = IF FailFast \/ DeadlineReached THEN "stop" ELSE "loop"
    /\ UNCHANGED <<clock, now, pending, running, sweep, draining, rc, timedOut,
                   failureDetected, verdict, clientVars, batchVars, rows>>

\* collect_process(timeout_seconds=0.01) drains the pipe of one session ...
StopBegin(s) ==
    /\ pc = "stop" /\ draining = NoOne /\ s \in running
    /\ draining' = s
    /\ UNCHANGED <<clock, pc, now, pending, running, sweep, rc, timedOut,
                   failureDetected, globalTimeout, verdict, clientVars,
                   batchVars, rows>>

\* Mutation: an expired collect is recorded without killing the process.
StopCollectWithoutKill(s) ==
    /\ pc = "stop" /\ draining = s
    /\ draining' = NoOne
    /\ running' = running \ {s}
    /\ rc' = [rc EXCEPT ![s] = IF client[s] = "alive" THEN "killed"
                                                    ELSE exitCode[s]]
    /\ timedOut' = IF globalTimeout THEN timedOut \cup {s} ELSE timedOut
    /\ UNCHANGED <<clock, pc, now, pending, sweep, failureDetected,
                   globalTimeout, verdict, clientVars, batchVars, rows>>

\* ... and either finds it finished or kills its process tree.
StopCollect(s) ==
    /\ pc = "stop" /\ draining = s
    /\ draining' = NoOne
    /\ running' = running \ {s}
    /\ LET code == IF client[s] = "alive" THEN "killed" ELSE exitCode[s]
       IN  /\ rc' = [rc EXCEPT ![s] = code]
           /\ exitCode' = [exitCode EXCEPT ![s] = code]
           /\ client' = [client EXCEPT ![s] = "exited"]
    /\ timedOut' = IF globalTimeout THEN timedOut \cup {s} ELSE timedOut
    /\ UNCHANGED <<clock, pc, now, pending, sweep, failureDetected,
                   globalTimeout, verdict, pipe, batchVars, rows>>

StopRaises(s) ==
    /\ pc = "stop" /\ draining = s
    /\ client[s] = "exited" /\ s \in PipeHolders
    /\ pc' = "raised"
    /\ UNCHANGED <<clock, now, pending, running, sweep, draining, rc, timedOut,
                   failureDetected, globalTimeout, verdict, clientVars,
                   batchVars, rows>>

\* Mutation: the running sessions are not collected.
StopDoneAtOnce ==
    /\ pc = "stop" /\ draining = NoOne
    /\ rc' = [s \in Sessions |-> IF s \in pending THEN "notrun" ELSE rc[s]]
    /\ timedOut' = IF globalTimeout THEN timedOut \cup pending ELSE timedOut
    /\ pending' = {}
    /\ pc' = "result"
    /\ UNCHANGED <<clock, now, running, sweep, draining, failureDetected,
                   globalTimeout, verdict, clientVars, batchVars, rows>>

\* Sessions never started get returncode -1; pending.clear()
StopDone ==
    /\ pc = "stop" /\ running = {}
    /\ rc' = [s \in Sessions |-> IF s \in pending THEN "notrun" ELSE rc[s]]
    /\ timedOut' = IF globalTimeout THEN timedOut \cup pending ELSE timedOut
    /\ pending' = {}
    /\ pc' = "result"
    /\ UNCHANGED <<clock, now, running, sweep, draining, failureDetected,
                   globalTimeout, verdict, clientVars, batchVars, rows>>

Completed == {s \in Sessions : rc[s] # "none"}

Overall(failed) ==
    IF globalTimeout THEN "FAIL_TIMEOUT"
    ELSE IF failed THEN "FAIL_EXECUTION" ELSE "PASS"

\* Mutation: FAIL only if every session failed.
ReturnIfAllFailed ==
    /\ pc = "result"
    /\ pc' = "returned"
    /\ verdict' = Overall(\A s \in Completed : rc[s] # "ok")
    /\ UNCHANGED <<clock, now, pending, running, sweep, draining, rc, timedOut,
                   failureDetected, globalTimeout, clientVars, batchVars,
                   rows>>

Return ==
    /\ pc = "result"
    /\ pc' = "returned"
    /\ verdict' = Overall(\E s \in Completed : rc[s] # "ok")
    /\ UNCHANGED <<clock, now, pending, running, sweep, draining, rc, timedOut,
                   failureDetected, globalTimeout, clientVars, batchVars,
                   rows>>

\* Ctrl+C: only a process inside collect_process is terminated on the way out.
Interrupt ==
    /\ "interrupt" \in Faults
    /\ pc \in {"loop", "launch", "poll", "check", "stop"}
    /\ pc' = "raised"
    /\ IF draining # NoOne /\ client[draining] = "alive"
         THEN /\ client' = [client EXCEPT ![draining] = "exited"]
              /\ exitCode' = [exitCode EXCEPT ![draining] = "killed"]
         ELSE UNCHANGED <<client, exitCode>>
    /\ UNCHANGED <<clock, now, pending, running, sweep, draining, rc, timedOut,
                   failureDetected, globalTimeout, verdict, pipe, batchVars,
                   rows>>

Orchestrator ==
    \/ LoopTop \/ LaunchesDone \/ PollDone \/ Check \/ StopDone \/ Return
    \/ \E s \in Sessions :
          \/ Launch(s) \/ LaunchRaises(s)
          \/ PollAlive(s) \/ PollExited(s) \/ PollRaises(s)
          \/ StopBegin(s) \/ StopCollect(s) \/ StopRaises(s)

-----------------------------------------------------------------------------
(* A session: the server side batch and the sqlcmd client in front of it *)

At(s, op) ==
    /\ batch[s] = "open"
    /\ ip[s] =< Len(Script[s])
    /\ Script[s][ip[s]].op = op
Sig(s) == Script[s][ip[s]].sig

\* The current statement is done: the batch proceeds to the next one.
Advance(s) ==
    /\ ip' = [ip EXCEPT ![s] = ip[s] + 1]
    /\ sub' = [sub EXCEPT ![s] = "begin"]
    /\ UNCHANGED waitFrom
Goto(s, place) ==
    /\ sub' = [sub EXCEPT ![s] = place]
    /\ UNCHANGED <<ip, waitFrom>>
SetRow(s) == rows' = [rows EXCEPT ![Sig(s)] = s]
Signaled(s) == rows[Sig(s)] # NoOne

\* USP_Signal: UPDATE; if it met no row, INSERT; if that collides, UPDATE.
SignalUpdate(s) ==
    /\ At(s, "signal") /\ sub[s] = "begin"
    /\ IF Signaled(s)
         THEN SetRow(s) /\ Advance(s)
         ELSE Goto(s, "insert") /\ UNCHANGED rows
    /\ UNCHANGED <<clock, orchVars, clientVars, batch>>

\* Mutation: the duplicate key of the INSERT is not caught.
SignalInsertNoCatch(s) ==
    /\ At(s, "signal") /\ sub[s] = "insert"
    /\ IF Signaled(s)
         THEN /\ batch' = [batch EXCEPT ![s] = "error"]
              /\ UNCHANGED <<ip, sub, waitFrom, rows>>
         ELSE SetRow(s) /\ Advance(s) /\ UNCHANGED batch
    /\ UNCHANGED <<clock, orchVars, clientVars>>
SignalInsert(s) ==
    /\ At(s, "signal") /\ sub[s] = "insert"
    /\ IF Signaled(s)
         THEN Goto(s, "retry") /\ UNCHANGED rows
         ELSE SetRow(s) /\ Advance(s)
    /\ UNCHANGED <<clock, orchVars, clientVars, batch>>

SignalRetry(s) ==
    /\ At(s, "signal") /\ sub[s] = "retry"
    /\ IF Signaled(s) THEN SetRow(s) ELSE UNCHANGED rows
    /\ Advance(s)
    /\ UNCHANGED <<clock, orchVars, clientVars, batch>>

\* USP_WaitForSignal: the loop looks for the row first and at the clock second.
WaitExists(s) ==
    /\ At(s, "wait") /\ sub[s] \in {"begin", "exists"}
    /\ IF Signaled(s)
         THEN Advance(s)
         ELSE /\ sub' = [sub EXCEPT ![s] = "late"]
              /\ waitFrom' = [waitFrom EXCEPT ![s] =
                                IF sub[s] = "begin" THEN clock ELSE @]
              /\ UNCHANGED ip
    /\ UNCHANGED <<clock, orchVars, clientVars, batch, rows>>

WaitExpired(s) == clock - waitFrom[s] >= WaitTimeout

\* Mutation: an expired wait leaves the loop without the THROW.
WaitElapsedProceeds(s) ==
    /\ At(s, "wait") /\ sub[s] = "late"
    /\ IF WaitExpired(s) THEN Advance(s) ELSE Goto(s, "exists")
    /\ UNCHANGED <<clock, orchVars, clientVars, batch, rows>>
WaitElapsed(s) ==
    /\ At(s, "wait") /\ sub[s] = "late"
    /\ IF WaitExpired(s)
         THEN /\ batch' = [batch EXCEPT ![s] = "error"]
              /\ UNCHANGED <<ip, sub, waitFrom>>
         ELSE Goto(s, "exists") /\ UNCHANGED batch
    /\ UNCHANGED <<clock, orchVars, clientVars, rows>>

\* USP_ClearSignals, called from a session of the manifest
ClearSignals(s) ==
    /\ At(s, "clear")
    /\ rows' = [g \in Signals |-> NoOne]
    /\ Advance(s)
    /\ UNCHANGED <<clock, orchVars, clientVars, batch>>

\* Output reaches the pipe only while it has room or is being drained.
PrintOutput(s) ==
    /\ At(s, "print")
    /\ client[s] = "alive"
    /\ pipe[s] < PipeCapacity \/ draining = s
    /\ pipe' = [pipe EXCEPT ![s] = IF draining = s THEN 0 ELSE pipe[s] + 1]
    /\ Advance(s)
    /\ UNCHANGED <<clock, orchVars, client, exitCode, batch, rows>>

\* Any other statement; a failing one, a deadlock victim for example, ends the
\* batch (XACT_ABORT, sqlcmd -b).
Work(s) ==
    /\ At(s, "work")
    /\ \/ Advance(s) /\ UNCHANGED batch
       \/ /\ batch' = [batch EXCEPT ![s] = "error"]
          /\ UNCHANGED <<ip, sub, waitFrom>>
    /\ UNCHANGED <<clock, orchVars, clientVars, rows>>

BatchEnds(s) ==
    /\ batch[s] = "open" /\ ip[s] > Len(Script[s])
    /\ batch' = [batch EXCEPT ![s] = "ok"]
    /\ UNCHANGED <<clock, orchVars, clientVars, ip, sub, waitFrom, rows>>

ClientExits(s) ==
    /\ client[s] = "alive" /\ batch[s] \in {"ok", "error"}
    /\ client' = [client EXCEPT ![s] = "exited"]
    /\ exitCode' = [exitCode EXCEPT ![s] = batch[s]]
    /\ UNCHANGED <<clock, orchVars, pipe, batchVars, rows>>

\* The server notices, some time after the kill, that the client is gone.
ServerAborts(s) ==
    /\ client[s] = "exited" /\ batch[s] = "open"
    /\ batch' = [batch EXCEPT ![s] = "error"]
    /\ UNCHANGED <<clock, orchVars, clientVars, ip, sub, waitFrom, rows>>

Session(s) ==
    \/ SignalUpdate(s) \/ SignalInsert(s) \/ SignalRetry(s)
    \/ WaitExists(s) \/ WaitElapsed(s) \/ ClearSignals(s)
    \/ PrintOutput(s) \/ Work(s) \/ BatchEnds(s)
    \/ ClientExits(s) \/ ServerAborts(s)

-----------------------------------------------------------------------------
Tick ==
    /\ clock < MaxClock
    /\ clock' = clock + 1
    /\ UNCHANGED <<orchVars, clientVars, batchVars, rows>>

Next ==
    \/ Orchestrator
    \/ Interrupt
    \/ \E s \in Sessions : Session(s)
    \/ Tick

Spec == Init /\ [][Next]_vars

\* The orchestrator is a running Python process, the clock advances, and a
\* batch that can take a step takes it.
Fairness ==
    /\ WF_vars(Orchestrator)
    /\ WF_vars(Tick)
    /\ \A s \in Sessions : WF_vars(Session(s))

FairSpec == Spec /\ Fairness

-----------------------------------------------------------------------------
(* Properties *)

\* A run that returned a verdict has no sqlcmd process left: whatever made it
\* stop, every process was polled to its end or killed first.
NoProcessAfterReturn ==
    pc = "returned" => \A s \in Sessions : client[s] # "alive"

\* PASS is reported only if every session of the manifest was started and its
\* script ran to its end on the server.
PassMeansEveryScriptRan ==
    verdict = "PASS" =>
        \A s \in Sessions : batch[s] = "ok" /\ ip[s] > Len(Script[s])

\* With abort_on_first_failure no further session starts once a failed one has
\* been collected.
FailFastStartsNothing ==
    [][(AbortOnFirstFailure /\ \E t \in Sessions : rc[t] \in {"error", "killed"})
          => \A s \in Sessions : client[s] = "absent" => client'[s] # "alive"]_vars

HasStep(s, k, op) == k < ip[s] /\ k \in DOMAIN Script[s] /\ Script[s][k].op = op

\* Signals order the sessions, not the launch delays: in a cleared database a
\* session is past a wait only if some session is past the matching signal.
HandshakeOrder ==
    \A s \in Sessions : \A k \in DOMAIN Script[s] : HasStep(s, k, "wait") =>
        \E t \in Sessions : \E j \in DOMAIN Script[t] :
            HasStep(t, j, "signal") /\ Script[t][j].sig = Script[s][k].sig

\* USP_Signal under concurrency: sessions that raise the same signal at the same
\* time neither fail on the duplicate key nor lose the row.
SignalSticks ==
    \A s \in Sessions :
        /\ \A k \in DOMAIN Script[s] : HasStep(s, k, "signal") =>
              rows[Script[s][k].sig] \in Sessions
        /\ batch[s] = "error" /\ rc[s] = "error" =>
              Script[s][ip[s]].op # "signal"

\* Whatever the sessions do (block on a full pipe, wait for each other, fail),
\* the run ends.
EveryRunEnds == <>(pc \in {"returned", "raised"})

\* The run implements what FWK-006 promises the harness (SessionRun).
Run == INSTANCE SessionRun WITH
    live <- {s \in Sessions : client[s] = "alive"},
    ended <- [s \in Sessions |->
                 CASE exitCode[s] = "none" -> "none"
                   [] exitCode[s] = "ok" -> "ok"
                   [] OTHER -> "failed"],
    verdict <- IF pc = "raised" THEN "raised" ELSE verdict

KeepsRunPromise == Run!RunSpec
=============================================================================
