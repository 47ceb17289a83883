----------------------------- MODULE Executions -----------------------------
(***************************************************************************)
(* What runs something else: a demo, a provider, a plan, a program behind  *)
(* the stdio adapter, and the circuit in front of an adapter.  They share  *)
(* no state: a behavior is one of the parts named in Parts, and the        *)
(* variables of the others keep one value.                                 *)
(***************************************************************************)
EXTENDS StdioAdapter, Sequences

CONSTANTS
    Parts,         \* the parts that are explored
    None,          \* Python's None
    \* DemoHarness
    Sessions, Manifests, Ends, Second, Faults,
    \* ProviderExecution
    Runners, ProviderAttempts, Inputs, Modes, MaxInvocations,
    \* WorkExecutor
    Workers, Validators, Bound, Idempotent, Expiring, External, Scopes,
    Independent, Gated, Limited, WorkAttempts,
    \* AdapterProtocol
    Threshold, Cooldown, Asked

VARIABLES
    part,
    \* DemoHarness; its session run
    manifest, confirmed, pc, demoClock, begun, began, results, aggregate,
    setupStarted, stop, exit, live, ended, sessionVerdict,
    \* ProviderExecution
    mode, checkpoint, input, output, providerCall, answer, invoked,
    \* WorkExecutor
    state, attempts, evidence, cancel, late, stale, workCall, lost,
    \* AdapterProtocol
    adapter, endpoint, failures, remaining, reply

stdioVars == vars
demoVars == <<manifest, confirmed, pc, demoClock, begun, began, results, aggregate,
              setupStarted, stop, exit, live, ended, sessionVerdict>>
providerVars == <<mode, checkpoint, input, output, providerCall, answer, invoked>>
workVars == <<state, attempts, evidence, cancel, late, stale, workCall, lost>>
circuitVars == <<adapter, endpoint, failures, remaining, reply>>
allVars == <<part, stdioVars, demoVars, providerVars, workVars, circuitVars>>

-----------------------------------------------------------------------------
(* The parts.  A call of the executor and a call of the orchestrator each    *)
(* have a variable of their own.                                             *)
Demo == INSTANCE DemoHarness WITH clock <- demoClock, verdict <- sessionVerdict
Provider == INSTANCE ProviderExecution WITH
    MaxAttempts <- ProviderAttempts, NoRef <- None, call <- providerCall
Work == INSTANCE WorkExecutor WITH MaxAttempts <- WorkAttempts, call <- workCall
Circuit == INSTANCE AdapterProtocol

ASSUME DemoAssumption == Demo!HarnessAssumption
ASSUME ProviderAssumption == Provider!ExecutionAssumption
ASSUME WorkAssumption == Work!PlanAssumption
ASSUME CircuitAssumption == Circuit!ProtocolAssumption

PartInit ==
    /\ part \in Parts
    /\ Init /\ Demo!Init /\ Provider!Init /\ Work!Init /\ Circuit!Init
    /\ part # "demo" =>
          /\ manifest = CHOOSE m \in Manifests : TRUE
          /\ confirmed = [isolatedLab |-> TRUE, red |-> TRUE]
    /\ part # "provider" =>
          mode = (CHOOSE m \in Modes : TRUE) /\ input = (CHOOSE i \in Inputs : TRUE)
    /\ part # "circuit" => adapter = "http" /\ endpoint = "up"

StdioStep == part = "stdio" /\ Next /\ UNCHANGED <<part, demoVars, providerVars, workVars, circuitVars>>
DemoStep == part = "demo" /\ Demo!Next /\ UNCHANGED <<part, stdioVars, providerVars, workVars, circuitVars>>
ProviderStep == part = "provider" /\ Provider!Next /\ UNCHANGED <<part, stdioVars, demoVars, workVars, circuitVars>>
WorkStep == part = "work" /\ Work!Next /\ UNCHANGED <<part, stdioVars, demoVars, providerVars, circuitVars>>
CircuitStep == part = "circuit" /\ Circuit!Next /\ UNCHANGED <<part, stdioVars, demoVars, providerVars, workVars>>

PartNext == StdioStep \/ DemoStep \/ ProviderStep \/ WorkStep \/ CircuitStep

\* Each part with the fairness its own specification states.
PartSpec ==
    /\ PartInit /\ [][PartNext]_allVars
    /\ WF_stdioVars(part = "stdio" /\ Parent) /\ WF_stdioVars(part = "stdio" /\ Worker)
    /\ WF_stdioVars(part = "stdio" /\ Tick)
    /\ WF_workVars(part = "work" /\ Work!Executor)
    /\ WF_circuitVars(part = "circuit" /\ Circuit!Tick)

-----------------------------------------------------------------------------
(* The properties of the parts, stated and explained in their modules        *)

\* No cleanup beside a live session (run_demo.main).
CleanupRunsAlone == Demo!CleanupRunsAlone
\* Cleanup after a started SETUP, also when a phase throws (run_demo.main, FWK-010).
CleanupWhateverHappens == Demo!CleanupWhateverHappens
\* No second invocation while the first is in doubt (plan_or_execute).
OnlyDefiniteFailuresAreRetried == Provider!OnlyDefiniteFailuresAreRetried
\* COMPLETED tells of work on the input asked about, but for an edit between its
\* digest and its hand-over (plan_or_execute).
CompletedIsProved == Provider!CompletedIsProved
\* One open attempt at most, over all restarts (Executor._new_attempt, validate_checkpoint).
CheckpointStaysLoadable == Work!CheckpointStaysLoadable
\* An attempt of unknown outcome is not repeated blindly (Executor.run).
NoBlindRepeat == Work!NoBlindRepeat
\* COMPLETED means validated, by somebody else where that is required (Executor.run).
CompletedIsValidated == Work!CompletedIsValidated
\* Every call of the executor ends (Executor.run).
EveryCallReturns == Work!EveryCallReturns
\* No adapter call after one that ended under the cancellation marker (Executor.run).
CancellationObserved == Work!CancellationObserved
\* Whatever the stdio program does, the call returns (stdio_adapter._call).
StdioCallReturns == part = "stdio" => CallReturns
\* An open circuit closes after a while (adapter_protocol.before_call).
CircuitIsTemporary == Circuit!CircuitIsTemporary
=============================================================================
