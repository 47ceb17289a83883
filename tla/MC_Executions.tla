---------------------------- MODULE MC_Executions ----------------------------
(* Small instances of Executions.                                           *)
EXTENDS Executions

(* Demos with two seconds of budget and half-second ticks: the shape of      *)
(* Examples/FWK-010, one with an optional phase, one without SETUP, and one  *)
(* whose SETUP is a multi-session phase.                                     *)

Sql(id, required, timeout) ==
    [id |-> id, kind |-> "sql", required |-> required,
     requireSummary |-> id = "PREFLIGHT", timeout |-> timeout]
Multi(id) ==
    [id |-> id, kind |-> "multi_session", required |-> TRUE,
     requireSummary |-> FALSE, timeout |-> 0]
DemoOf(safety, phases, cleanup) ==
    [safety |-> safety, phases |-> phases, budget |-> 4, cleanup |-> cleanup,
     cleanupBudget |-> 2]

DemoManifests ==
    {DemoOf("GREEN", <<Sql("PREFLIGHT", TRUE, 2), Sql("SETUP", TRUE, 0), Multi("RUN")>>, TRUE),
     DemoOf("YELLOW", <<Sql("PREFLIGHT", FALSE, 2), Sql("SETUP", TRUE, 0),
                        Sql("RUN", FALSE, 2)>>, TRUE),
     DemoOf("RED", <<Sql("PREFLIGHT", TRUE, 0), Multi("RUN")>>, FALSE),
     DemoOf("GREEN", <<Sql("PREFLIGHT", TRUE, 2), Multi("SETUP"), Sql("RUN", TRUE, 0)>>, TRUE)}

Text(outcome) == [stream |-> "stdout", form |-> "text", outcome |-> outcome]
Row(outcome) == [stream |-> "stdout", form |-> "row", outcome |-> outcome]
Ended(written) == [timedOut |-> FALSE, failed |-> FALSE, output |-> written]
Killed == [timedOut |-> TRUE, failed |-> TRUE, output |-> <<Text("PASS")>>]
Broken == [timedOut |-> FALSE, failed |-> TRUE, output |-> <<Text("PASS")>>]
DemoEnds ==
    {Killed, Broken, Ended(<<>>), Ended(<<Text("PASS")>>), Ended(<<Row("SKIP")>>),
     Ended(<<Text("FAIL")>>), Ended(<<Row("WARN"), Text("PASS")>>)}

-----------------------------------------------------------------------------
(* A plan of two steps.  The second choice for the work is a validator of    *)
(* the plan too, one capability is not idempotent, and one has no binding.   *)

PlanWorkers == <<"agent", "checker">>
PlanValidators == <<"checker", "manual", "reviewer">>
=============================================================================
