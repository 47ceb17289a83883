-------------------------- MODULE ProviderExecution --------------------------
(***************************************************************************)
(* plan_or_execute(execute=True) of ai_orchestrator.py: one orchestration  *)
(* id, its external checkpoint, and callers that may die between any two   *)
(* steps and call again.  A call reads the checkpoint, asks the router for *)
(* a chain of routes, and walks along it: every invocation is announced in *)
(* the checkpoint before it is made.  No lock is held.                     *)
(*                                                                         *)
(* The router's chain and the provider's answer are nondeterministic.      *)
(***************************************************************************)
EXTENDS Integers, Sequences

CONSTANTS
    Runners,          \* callers that use the orchestration id
    MaxAttempts,      \* request["max_attempts"]
    Inputs,           \* versions of the input file
    Modes,            \* values of request["validation"]["mode"]
    MaxInvocations,   \* bound of the model: invocations of the provider
    NoRef             \* Python's None

ExecutionAssumption ==
    /\ MaxAttempts \in Nat \ {0}
    /\ MaxInvocations \in Nat
    /\ Modes \subseteq {"NONE", "OUTPUT_NONEMPTY", "MANUAL_REVIEW"}
    /\ NoRef \notin [state : {"PREPARED", "IN_PROGRESS", "TERMINAL"}, hash : Inputs,
                      status : {"COMPLETED", "MANUAL_REQUIRED", "UNAVAILABLE", NoRef}]

VARIABLES
    mode,         \* the validation mode of the request
    checkpoint,   \* the checkpoint file, or NoRef
    input,        \* version of the input file
    output,       \* content of the output file
    call,         \* call[r]: the local state of plan_or_execute; edited is
                  \* history: the input has changed since the digest was taken
    answer,       \* answer[r]: the report of the last call that returned
    invoked       \* history: the invocations in the order they were made

vars == <<mode, checkpoint, input, output, call, answer, invoked>>

Contents == {"missing", "empty", "text"}
Idle == [pc |-> "idle", hash |-> NoRef, choices |-> 0, at |-> 0,
         attested |-> FALSE, edited |-> FALSE]

Init ==
    /\ mode \in Modes
    /\ checkpoint = NoRef
    /\ input \in Inputs
    /\ output = "missing"
    /\ call = [r \in Runners |-> Idle]
    /\ answer = [r \in Runners |-> NoRef]
    /\ invoked = <<>>

\* _save_checkpoint: the file is replaced atomically.
Save(r, state, status) ==
    checkpoint' = [state |-> state, hash |-> call[r].hash, status |-> status]

Return(r, status) ==
    /\ call' = [call EXCEPT ![r] = Idle]
    /\ answer' = [answer EXCEPT ![r] = [status |-> status, hash |-> call[r].hash]]

Conclude(r, status) == Save(r, "TERMINAL", status) /\ Return(r, status)

Goto(r, pc) == call' = [call EXCEPT ![r].pc = pc]

-----------------------------------------------------------------------------
(* The call                                                                 *)

\* digest({"request": ..., "input_sha256": ...})
Begin(r) ==
    /\ call[r].pc = "idle"
    /\ call' = [call EXCEPT ![r] = [Idle EXCEPT !.pc = "read", !.hash = input]]
    /\ UNCHANGED <<mode, checkpoint, input, output, answer, invoked>>

\* What a stored checkpoint says to a call with this request hash
\* Mutation: an announced invocation does not stop a restart.
PriorForgetsDoubt(stored, hash) ==
    IF stored = NoRef THEN "nothing"
    ELSE IF stored.hash # hash THEN "other request"
    ELSE IF stored.state = "TERMINAL" THEN "verdict" ELSE "nothing"
\* Mutation: the checkpoint is not bound to the input.
PriorIgnoresInput(stored, hash) ==
    IF stored = NoRef THEN "nothing"
    ELSE CASE stored.state = "TERMINAL" -> "verdict"
           [] stored.state = "IN_PROGRESS" -> "doubt"
           [] stored.state = "PREPARED" -> "nothing"
Prior(stored, hash) ==
    IF stored = NoRef THEN "nothing"
    ELSE IF stored.hash # hash THEN "other request"
    ELSE CASE stored.state = "TERMINAL" -> "verdict"
           [] stored.state = "IN_PROGRESS" -> "doubt"
           [] stored.state = "PREPARED" -> "nothing"

\* A foreign, a terminal or an unreconciled checkpoint ends the call.
Read(r) ==
    /\ call[r].pc = "read"
    /\ LET prior == Prior(checkpoint, call[r].hash)
       IN  \/ prior = "nothing" /\ Goto(r, "plan") /\ UNCHANGED answer
           \/ prior = "other request" /\ Return(r, "BLOCKED")
           \/ prior = "verdict" /\ Return(r, checkpoint.status)
           \/ prior = "doubt" /\ Return(r, "MANUAL_REQUIRED")
    /\ UNCHANGED <<mode, checkpoint, input, output, invoked>>

\* Catalogs, evidence and routing.  Without a route nothing is stored.
Plan(r) ==
    /\ call[r].pc = "plan"
    /\ \/ /\ \E status \in {"UNAVAILABLE", "MANUAL_REQUIRED"} : Return(r, status)
       \/ /\ \E choices \in 1..MaxAttempts :
                call' = [call EXCEPT ![r].pc = "attempt", ![r].at = 1,
                                     ![r].choices = choices]
          /\ UNCHANGED answer
    /\ UNCHANGED <<mode, checkpoint, input, output, invoked>>

\* _save_checkpoint(..., "IN_PROGRESS", None) precedes every invocation.
Announce(r) ==
    /\ call[r].pc = "attempt" /\ call[r].at =< call[r].choices
    /\ Save(r, "IN_PROGRESS", NoRef)
    /\ Goto(r, "invoke")
    /\ UNCHANGED <<mode, input, output, answer, invoked>>

Exhausted(r) ==
    /\ call[r].pc = "attempt" /\ call[r].at > call[r].choices
    /\ Conclude(r, "UNAVAILABLE")
    /\ UNCHANGED <<mode, input, output, invoked>>

\* The provider receives the input file as it is now, which may not be the one
\* the digest was taken of.
Invoke(r) ==
    /\ call[r].pc = "invoke" /\ Len(invoked) < MaxInvocations
    /\ invoked' = Append(invoked, [by |-> r, fate |-> "open",
                                   reads |-> input, edited |-> call[r].edited])
    /\ Goto(r, "wait")
    /\ UNCHANGED <<mode, checkpoint, input, output, answer>>

Mine(r) == CHOOSE k \in DOMAIN invoked :
               /\ invoked[k].by = r
               /\ \A i \in (k + 1)..Len(invoked) : invoked[i].by # r
Settle(r, fate) == invoked' = [invoked EXCEPT ![Mine(r)].fate = fate]

\* The adapter answers, whatever model did the work, and has written the output.
Answers(r) ==
    /\ call[r].pc = "wait"
    /\ \E attested \in BOOLEAN, content \in Contents :
          /\ output' = content
          /\ call' = [call EXCEPT ![r].pc = "judge", ![r].attested = attested]
    /\ UNCHANGED <<mode, checkpoint, input, answer, invoked>>

\* The next choice of the chain, after the failure was stored.
NextChoice(r) ==
    /\ Save(r, "PREPARED", NoRef)
    /\ call' = [call EXCEPT ![r].pc = "attempt", ![r].at = @ + 1]
    /\ UNCHANGED answer

\* Every other error class counts as a definite failure.
Refuses(r) ==
    /\ call[r].pc = "wait"
    /\ Settle(r, "refused")
    /\ NextChoice(r)
    /\ UNCHANGED <<mode, input, output>>

\* TIMEOUT, PROTOCOL, UNKNOWN: the provider may have done anything.
TimesOut(r) ==
    /\ call[r].pc = "wait"
    /\ output' \in {output} \cup Contents
    /\ Settle(r, "unknown")
    /\ Return(r, "MANUAL_REQUIRED")
    /\ UNCHANGED <<mode, checkpoint, input>>

\* _validate_output
Validation(content) ==
    CASE mode = "NONE" -> "NOT_REQUIRED"
      [] mode = "MANUAL_REVIEW" -> "INCONCLUSIVE"
      [] OTHER -> IF content = "text" THEN "PASSED" ELSE "FAILED"

\* Attestation first, then the validation of the output file.
Judge(r) ==
    /\ call[r].pc = "judge"
    /\ IF ~call[r].attested
         THEN Settle(r, "unattested") /\ Conclude(r, "MANUAL_REQUIRED")
       ELSE IF Validation(output) \in {"PASSED", "NOT_REQUIRED"}
         THEN Settle(r, "answered") /\ Conclude(r, "COMPLETED")
       ELSE IF Validation(output) = "INCONCLUSIVE"
         THEN Settle(r, "answered") /\ Conclude(r, "MANUAL_REQUIRED")
       ELSE Settle(r, "invalid") /\ NextChoice(r)
    /\ UNCHANGED <<mode, input, output>>

\* The report cannot be written: an UNKNOWN error, hence an ambiguous result.
JudgeUnsaved(r) ==
    /\ call[r].pc = "judge"
    /\ Settle(r, "unknown")
    /\ Return(r, "MANUAL_REQUIRED")
    /\ UNCHANGED <<mode, checkpoint, input, output>>

-----------------------------------------------------------------------------
\* The process of a call dies; what it sent to the provider goes on.
Crash(r) ==
    /\ call[r].pc # "idle"
    /\ call' = [call EXCEPT ![r] = Idle]
    /\ output' \in IF call[r].pc = "wait" THEN {output} \cup Contents ELSE {output}
    /\ UNCHANGED <<mode, checkpoint, input, answer, invoked>>

ChangeInput ==
    /\ input' \in Inputs \ {input}
    /\ call' = [r \in Runners |-> [call[r] EXCEPT !.edited = call[r].pc # "idle"]]
    /\ UNCHANGED <<mode, checkpoint, output, answer, invoked>>

Next ==
    \/ \E r \in Runners :
          \/ Begin(r) \/ Read(r) \/ Plan(r) \/ Announce(r) \/ Exhausted(r)
          \/ Invoke(r) \/ Answers(r) \/ Refuses(r) \/ TimesOut(r)
          \/ Judge(r) \/ JudgeUnsaved(r) \/ Crash(r)
    \/ ChangeInput

Spec == Init /\ [][Next]_vars

-----------------------------------------------------------------------------
(* Properties.  They hold while one caller at a time uses the id.           *)

\* Whatever call dies or times out at whatever point, the provider is asked again
\* only after a definite refusal or a failed validation: never while the outcome
\* of an earlier invocation is in doubt, nor after a result was accepted.
OnlyDefiniteFailuresAreRetried ==
    \A k \in 1..(Len(invoked) - 1) : invoked[k].fate \in {"refused", "invalid"}

ToldCompleted(r) == answer[r] # NoRef /\ answer[r].status = "COMPLETED"
Last == invoked[Len(invoked)]

\* Who is told COMPLETED, also by a replay after edits, crashes and restarts, is
\* told of work done on the version of the input he asked about, by a model that
\* was attested, with the output that is there now passing the validation.  The
\* version may be another one only if the file was edited between the digest of
\* the call that did the work (411) and its hand-over to the provider (477); without
\* that exception the property is violated.
CompletedIsProved ==
    \A r \in Runners : ToldCompleted(r) =>
        /\ checkpoint.state = "TERMINAL" /\ Last.fate = "answered"
        /\ Last.reads = answer[r].hash \/ Last.edited
        /\ mode # "MANUAL_REVIEW"
        /\ mode = "OUTPUT_NONEMPTY" => output = "text"
=============================================================================
