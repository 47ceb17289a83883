--------------------------- MODULE MC_MultiSession ---------------------------
(* Small instances of MultiSession: the sessions of Examples/FWK-006 and two *)
(* workloads that fill pipes, fail and raise the same signal.               *)
EXTENDS MultiSession, TLC

CONSTANTS Producer, Consumer, Third, READY, DONE

Do(op, sig) == [op |-> op, sig |-> sig]

\* The sessions of FWK-006, launched 0 and 1 ticks into the run
HandshakeSessions == {Producer, Consumer}
HandshakeDelay == (Producer :> 0) @@ (Consumer :> 1)
HandshakeRank == (Producer :> 2) @@ (Consumer :> 1)

\* A third session raises READY too and may then fail, and the output of the producer
\* does not fit into its pipe.
CrowdSessions == {Producer, Consumer, Third}
CrowdScript == (Producer :> <<Do("signal", READY), Do("print", READY)>>)
            @@ (Consumer :> <<Do("wait", READY), Do("signal", DONE)>>)
            @@ (Third :> <<Do("signal", READY), Do("work", DONE)>>)
CrowdDelay == (Producer :> 0) @@ (Consumer :> 1) @@ (Third :> 0)
CrowdRank == (Producer :> 2) @@ (Consumer :> 1) @@ (Third :> 3)

\* Signals are cleared while they are raised.
ClearScript == (Producer :> <<Do("signal", READY), Do("clear", READY)>>)
            @@ (Consumer :> <<Do("signal", READY), Do("print", READY),
                             Do("wait", READY), Do("work", READY)>>)
=============================================================================
