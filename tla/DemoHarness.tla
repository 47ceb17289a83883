---------------------------- MODULE DemoHarness ----------------------------
(***************************************************************************)
(* One call of run_demo.run_demo (FWK-010): the regular phases of a demo   *)
(* manifest run in order under one time budget, the first failure stops    *)
(* them, a started SETUP is followed by the cleanup under a budget of its  *)
(* own, and the results are combined into one verdict.  A multi-session    *)
(* phase is a SessionRun.                                                  *)
(*                                                                         *)
(* The clock counts ticks from the start of the budget; Second ticks make  *)
(* a second, so fractions of a second can be told apart.                   *)
(***************************************************************************)
EXTENDS Integers, Sequences

CONSTANTS
    Sessions,      \* sessions of a multi-session phase
    Manifests,     \* demo manifests
    Ends,          \* how a sqlcmd process may end
    Second,        \* ticks per second
    Faults         \* "raise": a phase may throw; "missing": no sqlcmd at all

Outcomes == {"PASS", "WARN", "SKIP", "FAIL"}
Phase == [id : {"PREFLIGHT", "SETUP", "RUN"}, kind : {"sql", "multi_session"},
          required : BOOLEAN, requireSummary : BOOLEAN, timeout : Nat]
Marker == [stream : {"stdout", "stderr"}, form : {"text", "row"},
           outcome : Outcomes]

HarnessAssumption ==
    /\ Manifests \subseteq [safety : {"GREEN", "YELLOW", "RED"},
                            phases : Seq(Phase), budget : Nat \ {0},
                            cleanup : BOOLEAN, cleanupBudget : Nat \ {0}]
    /\ Ends \subseteq [timedOut : BOOLEAN, failed : BOOLEAN, output : Seq(Marker)]
    /\ Second \in Nat \ {0}
    /\ Faults \subseteq {"raise", "missing"}

VARIABLES
    manifest, confirmed,
    pc,            \* "gate", "regular", "sql", "multi", "cleanup", "done", ...
    clock,
    begun,         \* history: the phases whose execution has begun, by their
                   \* number; the cleanup is the one after the last
    began,         \* the tick at which the current phase began
    results,       \* phase_results: the regular phases in order, then the cleanup
    aggregate,     \* outcome and code of the whole demo
    setupStarted, stop,
    exit,          \* process exit status, or NoExit
    live, ended, verdict      \* the SessionRun of the current phase

sessionVars == <<live, ended, verdict>>
vars == <<manifest, confirmed, pc, clock, begun, began, results,
          aggregate, setupStarted, stop, exit, sessionVars>>

Run == INSTANCE SessionRun

NoExit == -1

Init ==
    /\ manifest \in Manifests
    /\ confirmed \in [isolatedLab : BOOLEAN, red : BOOLEAN]
    /\ pc = "gate" /\ clock = 0 /\ begun = {} /\ began = 0
    /\ results = <<>>
    /\ aggregate = [outcome |-> "PASS", code |-> "OK"]
    /\ setupStarted = FALSE /\ stop = FALSE /\ exit = NoExit
    /\ Run!RunInit

-----------------------------------------------------------------------------
(* Results                                                                  *)

Priority == [PASS |-> 0, WARN |-> 1, SKIP |-> 2, FAIL |-> 3]

Result(outcome, code) == [outcome |-> outcome, code |-> code]

\* _combine_result
Combine(current, candidate) ==
    IF \/ candidate = Result("FAIL", "FAIL_CLEANUP")
       \/ Priority[candidate.outcome] > Priority[current.outcome]
      THEN candidate ELSE current

\* extract_summary: both streams are searched for both forms of the marker, one
\* after the other, and the last match counts.
Group(output, stream, form) ==
    SelectSeq(output, LAMBDA m : m.stream = stream /\ m.form = form)
Matches(output) ==
    Group(output, "stdout", "text") \o Group(output, "stdout", "row")
        \o Group(output, "stderr", "text") \o Group(output, "stderr", "row")

\* _execute_sql_phase: a killed or failed process never counts by its summary.
SqlResult(phase, end) ==
    LET found == Matches(end.output)
        summary == found[Len(found)].outcome
    IN  IF end.timedOut THEN Result("FAIL", "FAIL_TIMEOUT")
        ELSE IF end.failed THEN Result("FAIL", "FAIL_EXECUTION")
        ELSE IF found = <<>>
          THEN IF phase.requireSummary THEN Result("FAIL", "FAIL_CONTRACT")
               ELSE Result("PASS", "OK")
        ELSE IF summary = "SKIP" /\ ~phase.required
          THEN Result("WARN", "WARN_OPTIONAL_EVIDENCE_SKIPPED")
        ELSE Result(summary, "SUMMARY")

SessionResult(v) ==
    IF v = "PASS" THEN Result("PASS", "OK") ELSE Result("FAIL", v)

Stops(phase, result) ==
    result.outcome = "FAIL" \/ (result.outcome = "SKIP" /\ phase.required)

CleanupResult(result) ==
    IF result.outcome = "PASS" THEN result ELSE Result("FAIL", "FAIL_CLEANUP")

ExitCode(result) ==
    IF result.outcome \in {"PASS", "WARN", "SKIP"} THEN 0
    ELSE IF result.code = "FAIL_TIMEOUT" THEN 3
    ELSE IF result.code = "FAIL_CLEANUP" THEN 4 ELSE 2

-----------------------------------------------------------------------------
(* The call                                                                 *)

Confirmed ==
    /\ manifest.safety = "YELLOW" => confirmed.isolatedLab
    /\ manifest.safety = "RED" => confirmed.red

Return(result) ==
    /\ pc' = "returned" /\ aggregate' = result /\ exit' = ExitCode(result)

\* The safety gate, then resolve_sqlcmd; main() turns FileNotFoundError into SKIP.
Gate ==
    /\ pc = "gate"
    /\ \/ /\ ~Confirmed
          /\ Return(Result("FAIL", "FAIL_SAFETY"))
       \/ /\ Confirmed /\ "missing" \in Faults
          /\ Return(Result("SKIP", "SKIP_TOOL_MISSING"))
       \/ /\ Confirmed
          /\ pc' = "regular" /\ UNCHANGED <<aggregate, exit>>
    /\ UNCHANGED <<manifest, confirmed, clock, begun, began, results,
                   setupStarted, stop, sessionVars>>

Current == Len(results) + 1
PhaseNow == manifest.phases[Current]
Remaining == manifest.budget - clock
MoreToRun == ~stop /\ Current <= Len(manifest.phases)

SmallerOf(a, b) == IF a <= b THEN a ELSE b
LargerOf(a, b) == IF a >= b THEN a ELSE b

\* min(remaining, phase.timeout_seconds or remaining)
PhaseTimeout(left) ==
    IF PhaseNow.timeout = 0 THEN left ELSE SmallerOf(left, PhaseNow.timeout)
\* max(1, int(phase_timeout))
SessionTimeout(left) ==
    Second * LargerOf(1, PhaseTimeout(left) \div Second)

\* The result of a regular phase is recorded.
Record(result) ==
    /\ results' = Append(results, result)
    /\ aggregate' = Combine(aggregate, result)
    /\ stop' = Stops(PhaseNow, result)

\* Only a SQL phase named SETUP arms the cleanup.
StartsSetup(phase) == phase.kind = "sql" /\ phase.id = "SETUP"

BudgetSpent ==
    /\ pc = "regular" /\ MoreToRun /\ Remaining <= 0
    /\ Record(Result("FAIL", "FAIL_TIMEOUT"))
    /\ UNCHANGED <<manifest, confirmed, pc, clock, begun, began, setupStarted,
                   exit, sessionVars>>

BeginPhase ==
    /\ pc = "regular" /\ MoreToRun /\ Remaining > 0
    /\ pc' = IF PhaseNow.kind = "sql" THEN "sql" ELSE "multi"
    /\ setupStarted' = (setupStarted \/ StartsSetup(PhaseNow))
    /\ begun' = begun \cup {Current}
    /\ began' = clock
    /\ live' = {} /\ ended' = [s \in Sessions |-> "none"] /\ verdict' = "none"
    /\ UNCHANGED <<manifest, confirmed, clock, results, aggregate,
                   stop, exit>>

\* A SQL phase ends within its timeout, or is killed at it.
EndSqlPhase ==
    \E end \in Ends :
        LET limit == PhaseTimeout(manifest.budget - began)
        IN  /\ pc = "sql"
            /\ end.timedOut <=> clock = began + limit
            /\ Record(SqlResult(PhaseNow, end))
            /\ pc' = "regular"
            /\ UNCHANGED <<manifest, confirmed, clock, begun, began,
                           setupStarted, exit, sessionVars>>

\* While a multi-session phase runs, its processes come and go.
SessionStep ==
    /\ pc = "multi"
    /\ Run!RunNext
    /\ verdict' = "raised" => "raise" \in Faults
    /\ verdict' = "FAIL_TIMEOUT" =>
           clock >= began + SessionTimeout(manifest.budget - began)
    /\ UNCHANGED <<manifest, confirmed, pc, clock, begun, began, results,
                   aggregate, setupStarted, stop, exit>>

EndSessionPhase ==
    /\ pc = "multi" /\ verdict \in {"PASS", "FAIL_EXECUTION", "FAIL_TIMEOUT"}
    /\ Record(SessionResult(verdict))
    /\ pc' = "regular"
    /\ UNCHANGED <<manifest, confirmed, clock, begun, began, setupStarted,
                   exit, sessionVars>>

\* An exception of a phase, be it the cleanup, leaves run_demo; main() exits with
\* 1, after a FileNotFoundError with 0.
PhaseRaises ==
    /\ "raise" \in Faults
    /\ pc \in {"sql", "cleanup"} \/ (pc = "multi" /\ verdict = "raised")
    /\ pc' = "raised" /\ exit' \in {0, 1}
    /\ UNCHANGED <<manifest, confirmed, clock, begun, began, results,
                   aggregate, setupStarted, stop, sessionVars>>

CleanupDue == setupStarted /\ manifest.cleanup

Cleanup == Len(manifest.phases) + 1

BeginCleanup ==
    /\ pc = "regular" /\ ~MoreToRun /\ CleanupDue
    /\ pc' = "cleanup" /\ began' = clock
    /\ begun' = begun \cup {Cleanup}
    /\ UNCHANGED <<manifest, confirmed, clock, results,
                   aggregate, setupStarted, stop, exit, sessionVars>>

CleanupPhase == [required |-> TRUE, requireSummary |-> FALSE]

EndCleanup ==
    \E end \in Ends :
        LET result == CleanupResult(SqlResult(CleanupPhase, end))
        IN  /\ pc = "cleanup"
            /\ end.timedOut <=> clock = began + manifest.cleanupBudget
            /\ results' = Append(results, result)
            /\ Return(Combine(aggregate, result))
            /\ UNCHANGED <<manifest, confirmed, clock, begun, began,
                           setupStarted, stop, sessionVars>>

Finish ==
    /\ pc = "regular" /\ ~MoreToRun /\ ~CleanupDue
    /\ Return(aggregate)
    /\ UNCHANGED <<manifest, confirmed, clock, begun, began, results,
                   setupStarted, stop, sessionVars>>

\* Time passes while a phase runs, until the phase is killed.
BudgetEnd ==
    CASE pc = "sql" -> began + PhaseTimeout(manifest.budget - began)
      [] pc = "multi" -> began + SessionTimeout(manifest.budget - began)
      [] pc = "cleanup" -> began + manifest.cleanupBudget
      [] OTHER -> 0
Tick ==
    /\ clock < BudgetEnd
    /\ clock' = clock + 1
    /\ UNCHANGED <<manifest, confirmed, pc, begun, began, results,
                   aggregate, setupStarted, stop, exit, sessionVars>>

Next ==
    \/ Gate \/ BudgetSpent \/ BeginPhase \/ EndSqlPhase \/ SessionStep
    \/ EndSessionPhase \/ PhaseRaises \/ BeginCleanup \/ EndCleanup \/ Finish
    \/ Tick

Spec == Init /\ [][Next]_vars

-----------------------------------------------------------------------------
(* Properties                                                               *)

\* The cleanup never runs beside a process of a multi-session phase.
CleanupRunsAlone == pc = "cleanup" => live = {}

\* FWK-010: after a started SETUP the configured cleanup runs regardless of the
\* result before it, hence also when a later phase throws after SETUP has ended.
SetupEnded ==
    \E k \in DOMAIN results \cap DOMAIN manifest.phases :
        k \in begun /\ StartsSetup(manifest.phases[k])
CleanupWhateverHappens ==
    pc \in {"returned", "raised"} /\ manifest.cleanup /\ SetupEnded
        => Cleanup \in begun
=============================================================================
