--------------------------- MODULE AdapterProtocol ---------------------------
(***************************************************************************)
(* The server of the JSONL protocol around one adapter: it answers one     *)
(* frame after the other, and a circuit breaker sheds calls after repeated *)
(* failures.  The clock is relative: `remaining` is open_until minus now.  *)
(* The client is arbitrary; it may repeat a call that was refused.         *)
(***************************************************************************)
EXTENDS Integers

CONSTANTS
    Threshold,  \* failure_threshold
    Cooldown,   \* cooldown_seconds, in ticks
    Asked       \* the operations the client asks for

Operations == {"probe", "catalog", "invoke", "cancel", "provision"}

ProtocolAssumption ==
    Threshold \in Nat \ {0} /\ Cooldown \in Nat \ {0} /\ Asked \subseteq Operations

Exempt == {"cancel", "probe"}

VARIABLES
    adapter,     \* the kind of adapter served: "http" or "command"
    endpoint,    \* what stands behind it is "up" or "down" (external)
    failures,    \* consecutive_failures; only its being past Threshold counts
    remaining,   \* ticks until the circuit closes again
    reply        \* the class of the last answer, "OK" for a result

vars == <<adapter, endpoint, failures, remaining, reply>>

Init ==
    /\ adapter \in {"http", "command"} /\ endpoint \in {"up", "down"}
    /\ failures = 0 /\ remaining = 0 /\ reply = "none"

-----------------------------------------------------------------------------
\* What one HTTP request ends with.  Only errors urllib wraps are classified;
\* a connection lost while the answer is read is not one of them.
RequestOutcomes ==
    {"PERMISSION", "CREDENTIAL"} \union
    IF endpoint = "up" THEN {"OK", "PROTOCOL"} ELSE {"TIMEOUT", "AVAILABILITY", "INTERNAL"}

\* A refused class of data or handle, an unreadable input, or the request.
HttpInvokeOutcomes == {"CONTRACT", "PERMISSION", "INPUT"} \union RequestOutcomes

\* A probe reports a classified failure as an unhealthy result.
HttpProbeOutcomes == {"OK", "CONTRACT"} \union (RequestOutcomes \intersect {"INTERNAL"})

HttpOutcomes(operation) ==
    CASE operation = "probe" -> HttpProbeOutcomes
      [] operation = "catalog" -> {"CONTRACT", "PROTOCOL"} \union RequestOutcomes
      [] operation = "invoke" -> HttpInvokeOutcomes
      [] operation = "cancel" -> {"OK", "CONTRACT"}
      [] operation = "provision" -> {"CAPABILITY"}

\* What one program run ends with.
RunOutcomes == IF endpoint = "up" THEN {"OK"} ELSE {"TIMEOUT", "AVAILABILITY"}

CommandInvokeOutcomes ==
    {"CONTRACT", "PERMISSION", "CONFIGURATION", "PROTOCOL", "INTERNAL"} \union RunOutcomes

CommandOutcomes(operation) ==
    CASE operation = "probe" -> {"CONTRACT"} \union RunOutcomes
      [] operation = "catalog" -> {"CONTRACT", "PROTOCOL"} \union RunOutcomes
      [] operation = "invoke" -> CommandInvokeOutcomes
      [] operation = "cancel" -> {"OK", "CONTRACT"}
      [] operation = "provision" -> {"CAPABILITY"}

Outcomes(operation) ==
    IF adapter = "http" THEN HttpOutcomes(operation) ELSE CommandOutcomes(operation)

-----------------------------------------------------------------------------
Failure ==
    LET n == IF failures < Threshold THEN failures + 1 ELSE Threshold
    IN /\ failures' = n
       /\ remaining' = IF n >= Threshold THEN Cooldown ELSE remaining

Success == failures' = 0 /\ remaining' = 0

\* The end of a call whose adapter, or whose circuit, raised or returned.
Settle(operation, outcome) ==
    /\ reply' = outcome
    /\ \/ outcome = "OK" /\ operation \notin Exempt /\ Success
       \/ outcome = "INTERNAL" /\ Failure
       \/ outcome \in {"AVAILABILITY", "TIMEOUT", "PROTOCOL"} /\ operation \notin Exempt /\ Failure
       \/ /\ outcome # "INTERNAL"
          /\ operation \in Exempt \/ outcome \notin {"OK", "AVAILABILITY", "TIMEOUT", "PROTOCOL"}
          /\ UNCHANGED <<failures, remaining>>

\* An open circuit answers CIRCUIT_OPEN, which is of class AVAILABILITY.
Handle(operation) ==
    /\ IF operation \notin Exempt /\ remaining > 0
       THEN Settle(operation, "AVAILABILITY")
       ELSE \E outcome \in Outcomes(operation): Settle(operation, outcome)
    /\ UNCHANGED <<adapter, endpoint>>

\* A frame that is not a request: before_call is not reached.
HandleInvalid ==
    /\ reply' = "CONTRACT" /\ UNCHANGED <<adapter, endpoint, failures, remaining>>

Tick ==
    /\ remaining > 0 /\ remaining' = remaining - 1
    /\ UNCHANGED <<adapter, endpoint, failures, reply>>

EndpointChanges ==
    /\ endpoint' \in {"up", "down"} \ {endpoint}
    /\ UNCHANGED <<adapter, failures, remaining, reply>>

Next ==
    \/ \E operation \in Asked: Handle(operation)
    \/ HandleInvalid \/ Tick \/ EndpointChanges

\* Time passes whatever the client does.
Spec == Init /\ [][Next]_vars /\ WF_vars(Tick)

-----------------------------------------------------------------------------
\* An open circuit is open temporarily: some cooldown after it opened it lets
\* a call through again, whatever the client does meanwhile.
\* (adapter_protocol.py, before_call.)
CircuitIsTemporary == remaining > 0 ~> remaining = 0
=============================================================================
