------------------------- MODULE MultiSession_proofs -------------------------
(***************************************************************************)
(* For every manifest, script and timing: a run that returns has collected *)
(* or killed every process, PASS means that every script ran to its end,   *)
(* fail-fast starts nothing more, and run_manifest implements SessionRun.  *)
(* Signals order the sessions and stick, whatever the interleaving.        *)
(***************************************************************************)
EXTENDS MultiSession, TLAPS

Over == {"result", "returned"}

\* Every process that lives is in run_manifest's dict of running sessions.
AliveIsRunning == \A s \in Sessions : client[s] = "alive" => s \in running
\* The loop is left for the result only when nothing is pending or running.
NothingLeft == pc \in Over => running = {} /\ pending = {}
\* As long as no exception struck, a session is pending, running or reported.
Accounted ==
    pc # "raised" =>
        \A s \in Sessions : rc[s] = "none" => s \in pending \cup running
\* A pending session is untouched, a running one has a process, and only a
\* running one is drained, after the loop.
Started ==
    /\ \A s \in pending :
          client[s] = "absent" /\ exitCode[s] = "none" /\ rc[s] = "none"
    /\ \A s \in running : client[s] # "absent"
    /\ \A s \in Sessions : client[s] = "exited" => exitCode[s] # "none"
    /\ draining # NoOne => draining \in running /\ pc \in {"stop", "raised"}
\* A zero exit code comes from a batch that ran to its end.
CodesAreEarned ==
    \A s \in Sessions :
        /\ batch[s] = "ok" => ip[s] > Len(Script[s])
        /\ exitCode[s] = "ok" => batch[s] = "ok"
        /\ rc[s] = "ok" => batch[s] = "ok"
VerdictIsEarned ==
    verdict = "PASS" => pc = "returned" /\ \A s \in Sessions : rc[s] = "ok"
\* A failed session is remembered, and the loop does not go on with it.
FailureIsSeen ==
    /\ \A s \in Sessions : rc[s] \in {"error", "killed"} =>
          failureDetected \/ pc \in {"stop", "result", "returned", "raised"}
    /\ FailFast => pc \notin {"loop", "launch"}

IInv == /\ TypeOK
        /\ AliveIsRunning
        /\ NothingLeft
        /\ Accounted
        /\ Started
        /\ CodesAreEarned
        /\ VerdictIsEarned
        /\ FailureIsSeen

-----------------------------------------------------------------------------
\* The initial states satisfy the inductive invariant.
LEMMA InitIInv == Init => IInv
<1> SUFFICES ASSUME Init PROVE IInv
    OBVIOUS
<1>1. TypeOK
  <2>1. PICK stale \in SUBSET StaleSignals :
              rows = [g \in Signals |-> IF g \in stale THEN Earlier ELSE NoOne]
      BY DEF Init
  <2>2. rows \in [Signals -> Sessions \cup {NoOne, Earlier}]
      BY <2>1
  <2>3. /\ clock \in Nat /\ now \in Nat /\ pc = "loop"
        /\ pending \subseteq Sessions /\ running \subseteq Sessions
        /\ sweep \subseteq Sessions /\ draining \in Sessions \cup {NoOne}
        /\ timedOut \subseteq Sessions
        /\ failureDetected = FALSE /\ globalTimeout = FALSE
        /\ verdict = "none"
      BY DEF Init
  <2>4. /\ rc \in [Sessions -> ReturnCodes]
        /\ client \in [Sessions -> {"absent", "alive", "exited"}]
        /\ exitCode \in [Sessions -> ReturnCodes]
        /\ pipe \in [Sessions -> Nat]
        /\ batch \in [Sessions -> {"none", "open", "ok", "error"}]
      BY DEF Init, ReturnCodes
  <2>5. /\ ip \in [Sessions -> Nat \ {0}]
        /\ sub \in [Sessions -> {"begin", "insert", "retry", "exists", "late"}]
        /\ waitFrom \in [Sessions -> Nat]
      BY DEF Init
  <2> QED BY <2>2, <2>3, <2>4, <2>5 DEF TypeOK, Verdicts
<1>2. AliveIsRunning /\ NothingLeft /\ Accounted /\ Started
    BY DEF Init, Started, AliveIsRunning, NothingLeft, Accounted, Over
<1>3. CodesAreEarned /\ VerdictIsEarned /\ FailureIsSeen
    BY DEF Init, CodesAreEarned, VerdictIsEarned, FailureIsSeen, FailFast
<1> QED BY <1>1, <1>2, <1>3 DEF IInv

\* Type correctness is inductive on its own.
LEMMA NextTypeOK == TypeOK /\ [Next]_vars => TypeOK'
<1> SUFFICES ASSUME TypeOK, [Next]_vars PROVE TypeOK'
    OBVIOUS
<1> USE DEF TypeOK, ReturnCodes, Verdicts, orchVars, clientVars, batchVars
<1>1a. CASE LoopTop
    BY <1>1a DEF LoopTop
<1>1b. CASE LaunchesDone
    BY <1>1b DEF LaunchesDone
<1>1c. CASE PollDone \/ Check
    BY <1>1c DEF PollDone, Check, FailFast, DeadlineReached
<1>1d. CASE StopDone
    BY <1>1d DEF StopDone
<1>2. CASE Return \/ Interrupt
    BY <1>2 DEF Return, Overall, Interrupt
<1>3. ASSUME NEW s \in Sessions, Launch(s) \/ LaunchRaises(s) PROVE TypeOK'
  <2>1. CASE Launch(s)
      BY <2>1 DEF Launch
  <2>2. CASE LaunchRaises(s)
      BY <2>2 DEF LaunchRaises
  <2> QED BY <1>3, <2>1, <2>2
<1>4. ASSUME NEW s \in Sessions,
             PollAlive(s) \/ PollExited(s) \/ PollRaises(s) PROVE TypeOK'
  <2>1. CASE PollAlive(s)
      BY <2>1 DEF PollAlive
  <2>2. CASE PollExited(s)
      BY <2>2 DEF PollExited
  <2>3. CASE PollRaises(s)
      BY <2>3 DEF PollRaises
  <2> QED BY <1>4, <2>1, <2>2, <2>3
<1>5. ASSUME NEW s \in Sessions,
             StopBegin(s) \/ StopCollect(s) \/ StopRaises(s) PROVE TypeOK'
  <2>1. CASE StopBegin(s)
      BY <2>1 DEF StopBegin
  <2>2. CASE StopCollect(s)
      BY <2>2 DEF StopCollect
  <2>3. CASE StopRaises(s)
      BY <2>3 DEF StopRaises
  <2> QED BY <1>5, <2>1, <2>2, <2>3
<1>6. ASSUME NEW s \in Sessions, Session(s) PROVE TypeOK'
  <2>1. CASE SignalUpdate(s)
      BY <2>1 DEF SignalUpdate, SetRow, Advance, Goto
  <2>2. CASE SignalInsert(s)
      BY <2>2 DEF SignalInsert, SetRow, Advance, Goto
  <2>3. CASE SignalRetry(s)
      BY <2>3 DEF SignalRetry, SetRow, Advance
  <2>4. CASE WaitExists(s)
      BY <2>4 DEF WaitExists, Advance
  <2>5. CASE WaitElapsed(s)
      BY <2>5 DEF WaitElapsed, Goto
  <2>6. CASE ClearSignals(s)
      BY <2>6 DEF ClearSignals, Advance
  <2>7. CASE PrintOutput(s)
      BY <2>7 DEF PrintOutput, Advance
  <2>8. CASE BatchEnds(s) \/ ServerAborts(s)
      BY <2>8 DEF BatchEnds, ServerAborts
  <2>9. CASE Work(s)
    <3>1. CASE Advance(s) /\ UNCHANGED batch
        BY <2>9, <3>1 DEF Work, Advance
    <3>2. CASE batch' = [batch EXCEPT ![s] = "error"]
               /\ UNCHANGED <<ip, sub, waitFrom>>
        BY <2>9, <3>2 DEF Work
    <3> QED BY <2>9, <3>1, <3>2 DEF Work
  <2>10. CASE ClientExits(s)
      BY <2>10 DEF ClientExits
  <2> QED BY <1>6, <2>1, <2>2, <2>3, <2>4, <2>5, <2>6, <2>7, <2>8, <2>9, <2>10
          DEF Session
<1>7. CASE Tick \/ UNCHANGED vars
    BY <1>7 DEF Tick, vars
<1> QED BY <1>1a, <1>1b, <1>1c, <1>1d, <1>2, <1>3, <1>4, <1>5, <1>6, <1>7 DEF Next, Orchestrator

-----------------------------------------------------------------------------
\* Every step preserves the inductive invariant.
LEMMA NextIInv == IInv /\ [Next]_vars => IInv'
<1> SUFFICES ASSUME IInv, [Next]_vars PROVE IInv'
    OBVIOUS
<1>0. TypeOK /\ TypeOK'
    BY NextTypeOK DEF IInv
<1> DEFINE Inv == /\ AliveIsRunning /\ NothingLeft /\ Accounted /\ Started
                  /\ CodesAreEarned /\ VerdictIsEarned /\ FailureIsSeen
<1> SUFFICES Inv'
    BY <1>0 DEF IInv
<1> USE <1>0 DEF IInv, TypeOK, ReturnCodes, orchVars, clientVars, batchVars, Over
<1> USE DEF AliveIsRunning, NothingLeft, Accounted, Started, CodesAreEarned,
            VerdictIsEarned, FailureIsSeen, FailFast
<1>1. CASE LoopTop
    BY <1>1 DEF LoopTop
<1>2. CASE LaunchesDone
    BY <1>2 DEF LaunchesDone
<1>3. CASE PollDone \/ Check
    BY <1>3 DEF PollDone, Check, DeadlineReached
<1>4. CASE StopDone
    BY <1>4 DEF StopDone
<1>5. CASE Return
    BY <1>5 DEF Return, Overall, Completed
<1>6. CASE Interrupt
  <2> USE <1>6 DEF Interrupt
  <2>1. pc' = "raised" /\ UNCHANGED <<pending, running, draining, rc, batch, ip>>
      OBVIOUS
  <2>2. \A s \in Sessions : /\ client'[s] = "alive" => client[s] = "alive"
                            /\ client'[s] = "absent" <=> client[s] = "absent"
                            /\ exitCode'[s] = exitCode[s] \/ exitCode'[s] = "killed"
                            /\ client[s] = "absent" => exitCode'[s] = exitCode[s]
                            /\ client'[s] = "exited" /\ client[s] # "exited"
                                 => exitCode'[s] = "killed"
      OBVIOUS
  <2>3. (AliveIsRunning /\ NothingLeft /\ Accounted)'
      BY <2>1, <2>2
  <2>4. \A s \in Sessions : client'[s] = "exited" => exitCode'[s] # "none"
      BY <2>2
  <2>5. \A s \in pending : client'[s] = "absent" /\ exitCode'[s] = "none"
      BY <2>2
  <2>8. \A s \in running : client'[s] # "absent"
      BY <2>2
  <2>6. Started'
      BY <2>1, <2>4, <2>5, <2>8
  <2>7. (CodesAreEarned /\ VerdictIsEarned /\ FailureIsSeen)'
      BY <2>1, <2>2
  <2> QED BY <2>3, <2>6, <2>7
<1>7. ASSUME NEW s \in Sessions, Launch(s) PROVE Inv'
  <2> USE <1>7 DEF Launch, Due, IsHead
  <2>1. (AliveIsRunning /\ NothingLeft /\ Accounted)'
      OBVIOUS
  <2>2. Started'
      OBVIOUS
  <2>3. CodesAreEarned'
      OBVIOUS
  <2>4. (VerdictIsEarned /\ FailureIsSeen)'
      OBVIOUS
  <2> QED BY <2>1, <2>2, <2>3, <2>4
<1>8. ASSUME NEW s \in Sessions, LaunchRaises(s) PROVE Inv'
    BY <1>8 DEF LaunchRaises, Due, IsHead
<1>9. ASSUME NEW s \in Sessions, PollAlive(s) \/ PollRaises(s) PROVE Inv'
    BY <1>9 DEF PollAlive, PollRaises
<1>10. ASSUME NEW s \in Sessions, PollExited(s) PROVE Inv'
  <2> USE <1>10 DEF PollExited
  <2>1. (AliveIsRunning /\ NothingLeft /\ Accounted)'
      OBVIOUS
  <2>2. Started'
      OBVIOUS
  <2>3. CodesAreEarned'
      OBVIOUS
  <2>4. VerdictIsEarned'
      OBVIOUS
  <2>5. ASSUME NEW t \in Sessions, rc'[t] \in {"error", "killed"}
        PROVE  failureDetected' \/ pc' \in {"stop", "result", "returned", "raised"}
    <3>1. CASE t = s
      <4>1. rc'[t] = exitCode[s]
          BY <3>1
      <4>2. exitCode[s] # "ok"
          BY <2>5, <4>1
      <4> QED BY <4>2
    <3>2. CASE t # s
      <4>1. rc'[t] = rc[t] /\ pc = "poll"
          BY <3>2
      <4>2. failureDetected
          BY <2>5, <4>1
      <4> QED BY <4>2
    <3> QED BY <3>1, <3>2
  <2>6. FailureIsSeen'
      BY <2>5
  <2> QED BY <2>1, <2>2, <2>3, <2>4, <2>6
<1>11. ASSUME NEW s \in Sessions, StopBegin(s) \/ StopRaises(s) PROVE Inv'
    BY <1>11 DEF StopBegin, StopRaises
<1>12. ASSUME NEW s \in Sessions, StopCollect(s) PROVE Inv'
  <2> USE <1>12, EnvironmentAssumption DEF StopCollect, EnvironmentAssumption
  <2>1. (AliveIsRunning /\ NothingLeft /\ Accounted)'
      OBVIOUS
  <2>2. Started'
      OBVIOUS
  <2>3. CodesAreEarned'
      OBVIOUS
  <2>4. (VerdictIsEarned /\ FailureIsSeen)'
      OBVIOUS
  <2> QED BY <2>1, <2>2, <2>3, <2>4
<1>13. ASSUME NEW s \in Sessions, batch[s] = "open",
              ip' = ip \/ ip' = [ip EXCEPT ![s] = ip[s] + 1],
              batch' = batch, client' = client, exitCode' = exitCode,
              UNCHANGED orchVars
       PROVE  Inv'
  <2> USE <1>13
  <2>1. (AliveIsRunning /\ NothingLeft /\ Accounted /\ Started)'
      OBVIOUS
  <2>2. \A t \in Sessions : batch[t] = "ok" => ip'[t] = ip[t]
      OBVIOUS
  <2>3. CodesAreEarned'
      BY <2>2
  <2>4. (VerdictIsEarned /\ FailureIsSeen)'
      OBVIOUS
  <2> QED BY <2>1, <2>3, <2>4
<1>14. ASSUME NEW s \in Sessions,
              \/ SignalUpdate(s) \/ SignalInsert(s) \/ SignalRetry(s)
              \/ WaitExists(s) \/ ClearSignals(s) \/ PrintOutput(s)
       PROVE  Inv'
  <2>1. /\ batch[s] = "open" /\ batch' = batch
        /\ client' = client /\ exitCode' = exitCode /\ UNCHANGED orchVars
      BY <1>14 DEF SignalUpdate, SignalInsert, SignalRetry, WaitExists,
                   ClearSignals, PrintOutput, At
  <2>2. ip' = ip \/ ip' = [ip EXCEPT ![s] = ip[s] + 1]
      BY <1>14 DEF SignalUpdate, SignalInsert, SignalRetry, WaitExists,
                   ClearSignals, PrintOutput, Advance, Goto
  <2> QED BY <1>13, <2>1, <2>2
<1>15. ASSUME NEW s \in Sessions, WaitElapsed(s) PROVE Inv'
    BY <1>15 DEF WaitElapsed, Goto, At
<1>16. ASSUME NEW s \in Sessions, Work(s) PROVE Inv'
  <2>1. CASE Advance(s) /\ UNCHANGED batch
    <3>1. /\ batch[s] = "open" /\ batch' = batch
          /\ client' = client /\ exitCode' = exitCode /\ UNCHANGED orchVars
        BY <1>16, <2>1 DEF Work, At
    <3>2. ip' = [ip EXCEPT ![s] = ip[s] + 1]
        BY <2>1 DEF Advance
    <3> QED BY <1>13, <3>1, <3>2
  <2>2. CASE batch' = [batch EXCEPT ![s] = "error"]
             /\ UNCHANGED <<ip, sub, waitFrom>>
      BY <1>16, <2>2 DEF Work, At
  <2> QED BY <1>16, <2>1, <2>2 DEF Work
<1>17. ASSUME NEW s \in Sessions, BatchEnds(s) PROVE Inv'
    BY <1>17 DEF BatchEnds
<1>18. ASSUME NEW s \in Sessions, ServerAborts(s) PROVE Inv'
    BY <1>18 DEF ServerAborts
<1>19. ASSUME NEW s \in Sessions, ClientExits(s) PROVE Inv'
    BY <1>19 DEF ClientExits
<1>20. CASE Tick \/ UNCHANGED vars
    BY <1>20 DEF Tick, vars
<1> QED BY <1>1, <1>2, <1>3, <1>4, <1>5, <1>6, <1>7, <1>8, <1>9, <1>10,
           <1>11, <1>12, <1>14, <1>15, <1>16, <1>17, <1>18, <1>19, <1>20
        DEF Next, Orchestrator, Session

\* A process appears only through Launch.
LEMMA NextOnlyLaunches ==
    ASSUME TypeOK, Next, \A s \in Sessions : ~Launch(s)
    PROVE  \A s \in Sessions : client[s] = "absent" => client'[s] # "alive"
<1> USE DEF TypeOK, orchVars, clientVars, batchVars
<1>1. CASE LoopTop \/ LaunchesDone \/ PollDone \/ Check \/ StopDone \/ Return
    BY <1>1 DEF LoopTop, LaunchesDone, PollDone, Check, StopDone, Return
<1>2. CASE Interrupt
    BY <1>2 DEF Interrupt
<1>3. ASSUME NEW s \in Sessions,
             LaunchRaises(s) \/ PollAlive(s) \/ PollExited(s) \/ PollRaises(s)
      PROVE  client' = client
    BY <1>3 DEF LaunchRaises, PollAlive, PollExited, PollRaises
<1>4. ASSUME NEW s \in Sessions, StopBegin(s) \/ StopRaises(s)
      PROVE  client' = client
    BY <1>4 DEF StopBegin, StopRaises
<1>5. ASSUME NEW t \in Sessions, StopCollect(t) \/ ClientExits(t)
      PROVE  \A s \in Sessions : client[s] = "absent" => client'[s] # "alive"
  <2>1. CASE StopCollect(t)
      BY <2>1 DEF StopCollect
  <2>2. CASE ClientExits(t)
      BY <2>2 DEF ClientExits
  <2> QED BY <1>5, <2>1, <2>2
<1>6. ASSUME NEW s \in Sessions, Session(s), ~ClientExits(s)
      PROVE  client' = client
    BY <1>6 DEF Session, SignalUpdate, SignalInsert, SignalRetry, WaitExists,
                WaitElapsed, ClearSignals, PrintOutput, Work,
                BatchEnds, ServerAborts
<1>7. CASE Tick
    BY <1>7 DEF Tick
<1> QED BY <1>1, <1>2, <1>3, <1>4, <1>5, <1>6, <1>7 DEF Next, Orchestrator

-----------------------------------------------------------------------------
\* The inductive invariant holds in every state of every run.
THEOREM Invariance == Spec => []IInv
<1> QED BY InitIInv, NextIInv, PTL DEF Spec

\* Type correctness of every variable of the orchestrator, the processes and
\* the server.
THEOREM TypeCorrect == Spec => []TypeOK
<1>1. IInv => TypeOK
    BY DEF IInv
<1> QED BY <1>1, Invariance, PTL

\* run_manifest never returns while a process it started still runs.
THEOREM ReturnLeavesNoProcess == Spec => []NoProcessAfterReturn
<1>1. IInv => NoProcessAfterReturn
    BY DEF IInv, NoProcessAfterReturn, AliveIsRunning, NothingLeft, Over
<1> QED BY <1>1, Invariance, PTL

\* run_manifest returns PASS only for sessions whose scripts ran to their end.
THEOREM PassIsEarned == Spec => []PassMeansEveryScriptRan
<1>1. IInv => PassMeansEveryScriptRan
    BY DEF IInv, PassMeansEveryScriptRan, VerdictIsEarned, CodesAreEarned
<1> QED BY <1>1, Invariance, PTL

\* With abort_on_first_failure, no session starts after a collected failure.
THEOREM FailFastHolds == Spec => FailFastStartsNothing
<1> DEFINE Quiet ==
      (AbortOnFirstFailure /\ \E t \in Sessions : rc[t] \in {"error", "killed"})
         => \A s \in Sessions : client[s] = "absent" => client'[s] # "alive"
<1>1. IInv /\ [Next]_vars => [Quiet]_vars
  <2> SUFFICES ASSUME IInv, Next, AbortOnFirstFailure,
                      \E t \in Sessions : rc[t] \in {"error", "killed"}
               PROVE \A s \in Sessions :
                        client[s] = "absent" => client'[s] # "alive"
      OBVIOUS
  <2>1. pc # "launch"
      BY DEF IInv, FailureIsSeen, FailFast
  <2>2. \A s \in Sessions : ~Launch(s)
      BY <2>1 DEF Launch
  <2> QED BY <2>2, NextOnlyLaunches DEF IInv
<1>2. [][Quiet]_vars => FailFastStartsNothing
    BY DEF FailFastStartsNothing
<1> QED BY <1>1, <1>2, Invariance, PTL DEF Spec

-----------------------------------------------------------------------------
(* The refinement of SessionRun needs three more facts about the codes.    *)

\* Only a return gives a verdict.
VerdictAtReturn == verdict # "none" <=> pc = "returned"
\* A process that lives or never started has no exit code.
NoCodeYet == \A s \in Sessions : client[s] # "exited" => exitCode[s] = "none"
\* What is recorded of a session is the exit code of its process; a session
\* recorded as not run has none, and a recorded session is no longer running.
Reported ==
    \A s \in Sessions : rc[s] # "none" =>
        /\ s \notin running
        /\ \/ rc[s] = exitCode[s]
           \/ rc[s] = "notrun" /\ exitCode[s] = "none"

CodeInv == VerdictAtReturn /\ NoCodeYet /\ Reported

\* The initial states satisfy them.
LEMMA InitCodeInv == Init => CodeInv
<1> QED BY DEF Init, CodeInv, VerdictAtReturn, NoCodeYet, Reported

\* A step that touches neither the codes nor the processes keeps them.
LEMMA CodesUntouched ==
    ASSUME CodeInv, UNCHANGED <<running, rc, client, exitCode, verdict>>,
           pc' = "returned" <=> pc = "returned"
    PROVE  CodeInv'
<1> QED BY DEF CodeInv, VerdictAtReturn, NoCodeYet, Reported

\* Every step preserves them.
LEMMA NextCodeInv == IInv /\ CodeInv /\ [Next]_vars => CodeInv'
<1> SUFFICES ASSUME IInv, CodeInv, [Next]_vars PROVE CodeInv'
    OBVIOUS
<1>0. TypeOK /\ AliveIsRunning /\ NothingLeft /\ Started
    BY DEF IInv
<1> USE DEF orchVars, clientVars, batchVars
<1>1. CASE LoopTop \/ LaunchesDone \/ PollDone \/ Check \/ Tick
    BY <1>1, CodesUntouched DEF LoopTop, LaunchesDone, PollDone, Check, Tick
<1>2. CASE StopDone
  <2> USE <1>2 DEF StopDone
  <2>1. \A s \in pending : exitCode[s] = "none" /\ s \notin running
      BY <1>0 DEF Started
  <2>2. Reported'
      BY <1>0, <2>1 DEF CodeInv, Reported, TypeOK
  <2>3. VerdictAtReturn' /\ NoCodeYet'
      BY DEF CodeInv, VerdictAtReturn, NoCodeYet
  <2> QED BY <2>2, <2>3 DEF CodeInv
<1>3. CASE Return
    BY <1>3 DEF Return, Overall, CodeInv, VerdictAtReturn, NoCodeYet, Reported
<1>4. CASE Interrupt
  <2> USE <1>4 DEF Interrupt
  <2>1. /\ pc' = "raised" /\ pc # "returned"
        /\ UNCHANGED <<running, rc, verdict>>
      OBVIOUS
  <2>2. \A s \in Sessions :
            \/ client'[s] = client[s] /\ exitCode'[s] = exitCode[s]
            \/ s \in running /\ client'[s] = "exited"
      BY <1>0 DEF Started, TypeOK
  <2> QED BY <2>1, <2>2 DEF CodeInv, VerdictAtReturn, NoCodeYet, Reported
<1>5. ASSUME NEW s \in Sessions, Launch(s) PROVE CodeInv'
  <2> USE <1>5 DEF Launch, Due, IsHead
  <2>1. exitCode[s] = "none" /\ rc[s] = "none"
      BY <1>0 DEF Started
  <2>2. /\ UNCHANGED <<pc, rc, exitCode, verdict>>
        /\ running' = running \cup {s}
      OBVIOUS
  <2>3. \A t \in Sessions : t = s \/ client'[t] = client[t]
      BY <1>0 DEF TypeOK
  <2> QED BY <2>1, <2>2, <2>3
             DEF CodeInv, VerdictAtReturn, NoCodeYet, Reported
<1>6. ASSUME NEW s \in Sessions,
             \/ LaunchRaises(s) \/ PollAlive(s) \/ PollRaises(s)
             \/ StopBegin(s) \/ StopRaises(s)
      PROVE  CodeInv'
    BY <1>6, CodesUntouched
       DEF LaunchRaises, PollAlive, PollRaises, StopBegin, StopRaises
<1>7. ASSUME NEW s \in Sessions, PollExited(s) PROVE CodeInv'
  <2> USE <1>7 DEF PollExited
  <2>1. /\ UNCHANGED <<pc, client, exitCode, verdict>>
        /\ running' = running \ {s} /\ rc' = [rc EXCEPT ![s] = exitCode[s]]
      OBVIOUS
  <2> QED BY <1>0, <2>1
             DEF CodeInv, VerdictAtReturn, NoCodeYet, Reported, TypeOK
<1>8. ASSUME NEW s \in Sessions, StopCollect(s) PROVE CodeInv'
  <2> DEFINE code == IF client[s] = "alive" THEN "killed" ELSE exitCode[s]
  <2>1. /\ UNCHANGED <<pc, verdict>>
        /\ running' = running \ {s} /\ rc' = [rc EXCEPT ![s] = code]
        /\ exitCode' = [exitCode EXCEPT ![s] = code]
        /\ client' = [client EXCEPT ![s] = "exited"]
      BY <1>8 DEF StopCollect
  <2> HIDE DEF code
  <2> QED BY <1>0, <2>1
             DEF CodeInv, VerdictAtReturn, NoCodeYet, Reported, TypeOK
<1>9. ASSUME NEW s \in Sessions, ClientExits(s) PROVE CodeInv'
  <2> USE <1>9 DEF ClientExits
  <2>1. /\ UNCHANGED <<pc, verdict, running, rc>> /\ s \in running
      BY <1>0 DEF AliveIsRunning
  <2>2. \A t \in Sessions :
            \/ client'[t] = client[t] /\ exitCode'[t] = exitCode[t]
            \/ t = s /\ client'[t] = "exited"
      BY <1>0 DEF TypeOK
  <2> QED BY <2>1, <2>2 DEF CodeInv, VerdictAtReturn, NoCodeYet, Reported
<1>10. ASSUME NEW s \in Sessions, Session(s), ~ClientExits(s) PROVE CodeInv'
  <2>1. UNCHANGED <<pc, running, rc, client, exitCode, verdict>>
      BY <1>10 DEF Session, SignalUpdate, SignalInsert, SignalRetry, WaitExists,
                   WaitElapsed, ClearSignals, PrintOutput, Work,
                   BatchEnds, ServerAborts
  <2> QED BY <2>1, CodesUntouched
<1>11. CASE UNCHANGED vars
    BY <1>11, CodesUntouched DEF vars
<1> QED BY <1>1, <1>2, <1>3, <1>4, <1>5, <1>6, <1>7, <1>8, <1>9, <1>10, <1>11
        DEF Next, Orchestrator

-----------------------------------------------------------------------------
(* The mapping of SessionRun, named.                                       *)
Live == {s \in Sessions : client[s] = "alive"}
Ended == [s \in Sessions |->
             CASE exitCode[s] = "none" -> "none"
               [] exitCode[s] = "ok" -> "ok"
               [] OTHER -> "failed"]
Told == IF pc = "raised" THEN "raised" ELSE verdict

\* The initial states of the code are initial states of the promise.
LEMMA InitRun == Init => Run!RunInit
<1> QED BY DEF Init, Run!RunInit

\* A step that changes no process, code or verdict is a stutter of the promise.
LEMMA StutterRun ==
    ASSUME UNCHANGED <<client, exitCode, verdict>>,
           pc' = "raised" <=> pc = "raised"
    PROVE  UNCHANGED Run!runVars
<1> QED BY DEF Run!runVars

\* A step that only raises is a Throw.
LEMMA ThrowRun ==
    ASSUME UNCHANGED <<client, exitCode>>, verdict = "none",
           pc # "raised", pc' = "raised"
    PROVE  Run!RunNext
<1>1. Run!Throw
    BY DEF Run!Throw, Run!Open
<1> QED BY <1>1 DEF Run!RunNext

\* A process that dies, with whatever code but "none", is an End.
LEMMA EndRun ==
    ASSUME TypeOK, NEW s \in Sessions, NEW code \in ReturnCodes \ {"none"},
           client[s] = "alive",
           client' = [client EXCEPT ![s] = "exited"],
           exitCode' = [exitCode EXCEPT ![s] = code],
           UNCHANGED <<pc, verdict>>
    PROVE  Run!RunNext
<1> DEFINE how == IF code = "ok" THEN "ok" ELSE "failed"
<1>1. Live' = Live \ {s} /\ s \in Live
    BY DEF Live, TypeOK
<1>2. Ended' = [Ended EXCEPT ![s] = how]
    BY DEF Ended, TypeOK
<1>3. Told' = Told
    BY DEF Told
<1>4. Run!End(s)
    BY <1>1, <1>2, <1>3 DEF Run!End, Live, Ended, Told
<1> QED BY <1>4 DEF Run!RunNext

\* Every step of the code is a step or a stutter of the promise.
LEMMA NextRun ==
    IInv /\ CodeInv /\ [Next]_vars => [Run!RunNext]_(Run!runVars)
<1> SUFFICES ASSUME IInv, CodeInv, [Next]_vars
             PROVE  Run!RunNext \/ UNCHANGED Run!runVars
    OBVIOUS
<1>0. /\ TypeOK /\ AliveIsRunning /\ NothingLeft /\ Accounted /\ Started
      /\ VerdictAtReturn /\ NoCodeYet /\ Reported
    BY DEF IInv, CodeInv
<1> USE DEF orchVars, clientVars, batchVars
<1>1. CASE LoopTop \/ LaunchesDone \/ PollDone \/ Check \/ StopDone \/ Tick
    BY <1>1, StutterRun DEF LoopTop, LaunchesDone, PollDone, Check, StopDone, Tick
<1>2. CASE Return
  <2> USE <1>2 DEF Return
  <2>1. /\ pc = "result" /\ pc' = "returned" /\ verdict = "none"
        /\ UNCHANGED <<client, exitCode>>
      BY <1>0 DEF VerdictAtReturn
  <2>2. \A s \in Sessions : client[s] # "alive"
      BY <1>0, <2>1 DEF AliveIsRunning, NothingLeft, Over
  <2>3. \A s \in Sessions : rc[s] # "none"
      BY <1>0, <2>1 DEF Accounted, NothingLeft, Over
  <2>4. Live = {} /\ Live' = Live /\ Ended' = Ended
        /\ Told = "none" /\ Told' = verdict'
      BY <2>1, <2>2 DEF Live, Ended, Told
  <2>5. CASE globalTimeout
    <3>1. verdict' = "FAIL_TIMEOUT"
        BY <2>5 DEF Overall
    <3>2. Run!ConcludeLate
        BY <2>4, <3>1 DEF Run!ConcludeLate, Run!Open, Live, Ended, Told
    <3> QED BY <3>2 DEF Run!RunNext
  <2>6. CASE ~globalTimeout
    <3>1. Completed = Sessions
        BY <2>3 DEF Completed
    <3>2. \A s \in Sessions : rc[s] = "ok" <=> Ended[s] = "ok"
        BY <1>0, <2>3 DEF Reported, Ended
    <3>3. verdict' \in {"PASS", "FAIL_EXECUTION"}
          /\ (verdict' = "PASS" <=> \A s \in Sessions : Ended[s] = "ok")
        BY <2>6, <3>1, <3>2 DEF Overall
    <3>4. Run!Conclude(verdict')
        BY <2>4, <3>3 DEF Run!Conclude, Run!Open, Live, Ended, Told
    <3> QED BY <3>3, <3>4 DEF Run!RunNext
  <2> QED BY <2>5, <2>6
<1>3. CASE Interrupt
  <2>1. pc # "raised" /\ pc' = "raised" /\ verdict = "none" /\ verdict' = verdict
      BY <1>0, <1>3 DEF Interrupt, VerdictAtReturn
  <2>2. CASE draining # NoOne /\ client[draining] = "alive"
    <3>1. PICK s \in Sessions : s = draining
        BY <1>0, <2>2 DEF TypeOK
    <3>2. /\ client' = [client EXCEPT ![s] = "exited"]
          /\ exitCode' = [exitCode EXCEPT ![s] = "killed"]
        BY <1>3, <2>2, <3>1 DEF Interrupt
    <3>3. s \in Live /\ Live' = Live \ {s}
        BY <1>0, <2>2, <3>1, <3>2 DEF Live, TypeOK
    <3>4. Ended' = [Ended EXCEPT ![s] = "failed"]
        BY <1>0, <3>2 DEF Ended, TypeOK
    <3>5. Told = "none" /\ Told' = "raised"
        BY <2>1 DEF Told
    <3>6. Run!ThrowAndKill(s)
        BY <3>3, <3>4, <3>5 DEF Run!ThrowAndKill, Run!Open, Live, Ended, Told
    <3> QED BY <3>6 DEF Run!RunNext
  <2>3. CASE ~(draining # NoOne /\ client[draining] = "alive")
    <3>1. UNCHANGED <<client, exitCode>>
        BY <1>3, <2>3 DEF Interrupt
    <3> QED BY <2>1, <3>1, ThrowRun
  <2> QED BY <2>2, <2>3
<1>4. ASSUME NEW s \in Sessions, Launch(s) PROVE Run!RunNext
  <2> USE <1>4 DEF Launch, Due, IsHead
  <2>1. client[s] = "absent" /\ exitCode[s] = "none"
      BY <1>0 DEF Started
  <2>2. Live' = Live \cup {s} /\ s \notin Live
      BY <1>0, <2>1 DEF Live, TypeOK
  <2>3. Ended' = Ended /\ Ended[s] = "none"
      BY <2>1 DEF Ended
  <2>4. Told = "none" /\ Told' = Told
      BY <1>0 DEF Told, VerdictAtReturn
  <2>5. Run!Begin(s)
      BY <2>2, <2>3, <2>4 DEF Run!Begin, Run!Open, Live, Ended, Told
  <2> QED BY <2>5 DEF Run!RunNext
<1>5. ASSUME NEW s \in Sessions,
             LaunchRaises(s) \/ PollRaises(s) \/ StopRaises(s)
      PROVE  Run!RunNext
  <2>1. /\ UNCHANGED <<client, exitCode>>
        /\ pc \in {"launch", "poll", "stop"} /\ pc' = "raised"
      BY <1>5 DEF LaunchRaises, PollRaises, StopRaises
  <2> QED BY <1>0, <2>1, ThrowRun DEF VerdictAtReturn
<1>6. ASSUME NEW s \in Sessions,
             PollAlive(s) \/ PollExited(s) \/ StopBegin(s)
      PROVE  UNCHANGED Run!runVars
    BY <1>6, StutterRun DEF PollAlive, PollExited, StopBegin
<1>7. ASSUME NEW s \in Sessions, StopCollect(s)
      PROVE  Run!RunNext \/ UNCHANGED Run!runVars
  <2> USE <1>7 DEF StopCollect
  <2>1. CASE client[s] = "alive"
    <3>1. exitCode' = [exitCode EXCEPT ![s] = "killed"]
        BY <2>1
    <3>2. "killed" \in ReturnCodes \ {"none"}
        BY DEF ReturnCodes
    <3> QED BY <1>0, <2>1, <3>1, <3>2, EndRun
  <2>2. CASE client[s] # "alive"
    <3>1. s \in running
        BY <1>0, EnvironmentAssumption DEF Started, EnvironmentAssumption
    <3>2. client[s] = "exited"
        BY <1>0, <2>2, <3>1 DEF Started, TypeOK
    <3>3. UNCHANGED <<client, exitCode, verdict, pc>>
        BY <1>0, <2>2, <3>2 DEF TypeOK
    <3> QED BY <3>3, StutterRun
  <2> QED BY <2>1, <2>2
<1>8. ASSUME NEW s \in Sessions, ClientExits(s) PROVE Run!RunNext
  <2>1. batch[s] \in ReturnCodes \ {"none"}
      BY <1>8 DEF ClientExits, ReturnCodes
  <2> QED BY <1>0, <1>8, <2>1, EndRun DEF ClientExits
<1>9. ASSUME NEW s \in Sessions, Session(s), ~ClientExits(s)
      PROVE  UNCHANGED Run!runVars
  <2>1. UNCHANGED <<pc, client, exitCode, verdict>>
      BY <1>9 DEF Session, SignalUpdate, SignalInsert, SignalRetry, WaitExists,
                  WaitElapsed, ClearSignals, PrintOutput, Work,
                  BatchEnds, ServerAborts
  <2> QED BY <2>1, StutterRun
<1>10. CASE UNCHANGED vars
    BY <1>10, StutterRun DEF vars
<1> QED BY <1>1, <1>2, <1>3, <1>4, <1>5, <1>6, <1>7, <1>8, <1>9, <1>10
        DEF Next, Orchestrator

\* The three facts hold in every state of every run.
LEMMA CodeInvariance == Spec => []CodeInv
<1>1. []IInv /\ CodeInv /\ [][Next]_vars => []CodeInv
    BY NextCodeInv, PTL
<1> QED BY <1>1, InitCodeInv, Invariance, PTL DEF Spec

\* run_manifest implements what FWK-006 promises its caller: a verdict only
\* when no process is left, PASS only if every session ended well, whatever
\* is killed, fails to start or is interrupted on the way.
THEOREM RunPromise == Spec => KeepsRunPromise
<1>1. []IInv /\ []CodeInv /\ [][Next]_vars => [][Run!RunNext]_(Run!runVars)
    BY NextRun, PTL
<1> QED BY <1>1, Invariance, CodeInvariance, InitRun, PTL
           DEF Spec, KeepsRunPromise, Run!RunSpec

-----------------------------------------------------------------------------
(* The signal table.  Scripts that do not clear it and a table that was    *)
(* empty before the run are hypotheses of the theorems that need them.     *)

\* No session of the manifest calls USP_ClearSignals.
NoClears ==
    \A s \in Sessions : \A k \in DOMAIN Script[s] : Script[s][k].op # "clear"

Raised(t, g) ==
    \E j \in DOMAIN Script[t] : HasStep(t, j, "signal") /\ Script[t][j].sig = g

\* A row names a session that is past a statement raising that signal.
RowsAreRaised ==
    /\ \A g \in Signals : rows[g] # Earlier
    /\ \A g \in Signals, t \in Sessions : rows[g] = t => Raised(t, g)

\* A signal that was raised is in the table, and the second UPDATE of
\* USP_Signal finds the row whose INSERT collided.
RowsStay ==
    /\ \A s \in Sessions : \A k \in DOMAIN Script[s] :
          HasStep(s, k, "signal") => rows[Script[s][k].sig] \in Sessions
    /\ \A s \in Sessions :
          sub[s] = "retry" => ip[s] \in DOMAIN Script[s] /\ Signaled(s)

\* A batch that fails in front of its client fails at another statement.
FailsElsewhere ==
    \A s \in Sessions :
        /\ exitCode[s] = "error" => batch[s] = "error"
        /\ batch[s] = "error" /\ (client[s] = "alive" \/ exitCode[s] = "error")
              => Script[s][ip[s]].op # "signal"

\* Every statement of a script has a kind and a signal.
LEMMA ScriptSteps ==
    ASSUME NEW s \in Sessions
    PROVE  /\ Len(Script[s]) \in Nat /\ DOMAIN Script[s] = 1..Len(Script[s])
           /\ \A k \in DOMAIN Script[s] :
                 Script[s][k].op \in StepKinds /\ Script[s][k].sig \in Signals
<1>1. Script[s] \in Seq(Step)
    BY ScriptAssumption
<1>2. /\ Len(Script[s]) \in Nat /\ DOMAIN Script[s] = 1..Len(Script[s])
      /\ \A k \in DOMAIN Script[s] : Script[s][k] \in Step
    BY <1>1
<1> QED BY <1>2 DEF Step

\* A step adds at most the statement it completes to what is behind a session.
LEMMA StepCompletes ==
    ASSUME TypeOK, NEW s \in Sessions, NEW o \in StepKinds,
           At(s, o), Advance(s)
    PROVE  /\ ip[s] \in DOMAIN Script[s] /\ Sig(s) \in Signals
           /\ \A t \in Sessions : \A k \in DOMAIN Script[t] : \A p \in StepKinds :
                HasStep(t, k, p)' <=>
                    HasStep(t, k, p) \/ (t = s /\ k = ip[s] /\ p = o)
<1>1. ip[s] \in Nat \ {0} /\ ip[s] =< Len(Script[s]) /\ Script[s][ip[s]].op = o
      /\ ip' = [ip EXCEPT ![s] = ip[s] + 1]
    BY DEF TypeOK, At, Advance
<1>2. ip[s] \in DOMAIN Script[s]
    BY <1>1, ScriptSteps
<1>3. Sig(s) \in Signals
    BY <1>2, ScriptSteps DEF Sig
<1>4. ASSUME NEW t \in Sessions, NEW k \in DOMAIN Script[t], NEW p \in StepKinds
      PROVE  HasStep(t, k, p)' <=>
                 HasStep(t, k, p) \/ (t = s /\ k = ip[s] /\ p = o)
  <2>1. k \in Nat
      BY ScriptSteps
  <2>2. CASE t # s
      BY <1>1, <2>2 DEF HasStep, TypeOK
  <2>3. CASE t = s
    <3>1. ip'[s] = ip[s] + 1
        BY <1>1 DEF TypeOK
    <3>2. k < ip[s] + 1 <=> k < ip[s] \/ k = ip[s]
        BY <1>1, <2>1
    <3> QED BY <1>1, <1>2, <2>3, <3>1, <3>2 DEF HasStep
  <2> QED BY <2>2, <2>3
<1> QED BY <1>2, <1>3, <1>4

\* What a step does to the rows and to the statements behind the sessions.
LEMMA TableSteps ==
    ASSUME TypeOK, [Next]_vars
    PROVE  \/ UNCHANGED <<ip, rows>>
           \/ \E s \in Sessions :
                \/ At(s, "wait") /\ Advance(s) /\ Signaled(s) /\ rows' = rows
                \/ At(s, "signal") /\ Advance(s) /\ SetRow(s)
                \/ /\ At(s, "signal") /\ Advance(s)
                   /\ sub[s] = "retry" /\ ~Signaled(s) /\ rows' = rows
                \/ /\ At(s, "clear") /\ Advance(s)
                   /\ rows' = [g \in Signals |-> NoOne]
                \/ /\ At(s, "print") \/ At(s, "work")
                   /\ Advance(s) /\ rows' = rows
<1> USE DEF orchVars, clientVars, batchVars
<1>1. CASE LoopTop \/ LaunchesDone \/ PollDone \/ Check \/ StopDone \/ Return
           \/ Interrupt \/ Tick
    BY <1>1 DEF LoopTop, LaunchesDone, PollDone, Check, StopDone, Return,
                Interrupt, Tick
<1>2. ASSUME NEW s \in Sessions,
             \/ Launch(s) \/ LaunchRaises(s)
             \/ PollAlive(s) \/ PollExited(s) \/ PollRaises(s)
             \/ StopBegin(s) \/ StopCollect(s) \/ StopRaises(s)
      PROVE  UNCHANGED <<ip, rows>>
    BY <1>2 DEF Launch, LaunchRaises, PollAlive, PollExited, PollRaises,
                StopBegin, StopCollect, StopRaises
<1>3. ASSUME NEW s \in Sessions,
             BatchEnds(s) \/ ClientExits(s) \/ ServerAborts(s) \/ WaitElapsed(s)
      PROVE  UNCHANGED <<ip, rows>>
    BY <1>3 DEF BatchEnds, ClientExits, ServerAborts, WaitElapsed, Goto
<1>4. ASSUME NEW s \in Sessions,
             SignalUpdate(s) \/ SignalInsert(s) \/ SignalRetry(s)
      PROVE  \/ UNCHANGED <<ip, rows>>
             \/ At(s, "signal") /\ Advance(s) /\ SetRow(s)
             \/ /\ At(s, "signal") /\ Advance(s)
                /\ sub[s] = "retry" /\ ~Signaled(s) /\ rows' = rows
    BY <1>4 DEF SignalUpdate, SignalInsert, SignalRetry, Goto
<1>5. ASSUME NEW s \in Sessions, WaitExists(s)
      PROVE  \/ UNCHANGED <<ip, rows>>
             \/ At(s, "wait") /\ Advance(s) /\ Signaled(s) /\ rows' = rows
    BY <1>5 DEF WaitExists
<1>6. ASSUME NEW s \in Sessions, ClearSignals(s)
      PROVE  /\ At(s, "clear") /\ Advance(s)
             /\ rows' = [g \in Signals |-> NoOne]
    BY <1>6 DEF ClearSignals
<1>7. ASSUME NEW s \in Sessions, PrintOutput(s) \/ Work(s)
      PROVE  \/ UNCHANGED <<ip, rows>>
             \/ /\ At(s, "print") \/ At(s, "work")
                /\ Advance(s) /\ rows' = rows
    BY <1>7 DEF PrintOutput, Work
<1>8. CASE UNCHANGED vars
    BY <1>8 DEF vars
<1> QED BY <1>1, <1>2, <1>3, <1>4, <1>5, <1>6, <1>7, <1>8
        DEF Next, Orchestrator, Session

\* Rows keep naming sessions that raised them.
LEMMA NextRowsAreRaised ==
    TypeOK /\ RowsAreRaised /\ [Next]_vars => RowsAreRaised'
<1> SUFFICES ASSUME TypeOK, RowsAreRaised, [Next]_vars PROVE RowsAreRaised'
    OBVIOUS
<1>0. NoOne \notin Sessions /\ Earlier \notin Sessions /\ NoOne # Earlier
    BY EnvironmentAssumption DEF EnvironmentAssumption
<1>1. CASE UNCHANGED <<ip, rows>>
    BY <1>1 DEF RowsAreRaised, Raised, HasStep
<1>2. ASSUME NEW s \in Sessions, NEW o \in StepKinds, At(s, o), Advance(s),
             rows' = rows \/ rows' = [g \in Signals |-> NoOne]
      PROVE  RowsAreRaised'
  <2>1. \A t \in Sessions, g \in Signals : Raised(t, g) => Raised(t, g)'
      BY <1>2, StepCompletes DEF Raised, StepKinds
  <2> QED BY <1>0, <1>2, <2>1 DEF RowsAreRaised
<1>3. ASSUME NEW s \in Sessions, At(s, "signal"), Advance(s), SetRow(s)
      PROVE  RowsAreRaised'
  <2>1. "signal" \in StepKinds
      BY DEF StepKinds
  <2>2. \A t \in Sessions, g \in Signals : Raised(t, g) => Raised(t, g)'
      BY <1>3, <2>1, StepCompletes DEF Raised
  <2>3. /\ Sig(s) \in Signals
        /\ \E k \in DOMAIN Script[s] :
              HasStep(s, k, "signal")' /\ Script[s][k].sig = Sig(s)
      BY <1>3, <2>1, StepCompletes DEF Sig
  <2>4. \A g \in Signals : g = Sig(s) => Raised(s, g)'
      BY <2>3 DEF Raised
  <2>5. \A g \in Signals :
            rows'[g] = rows[g] \/ (g = Sig(s) /\ rows'[g] = s)
      BY <1>3 DEF SetRow, TypeOK
  <2>6. ASSUME NEW g \in Signals PROVE rows'[g] # Earlier
      BY <1>0, <2>5 DEF RowsAreRaised
  <2>7. ASSUME NEW g \in Signals, NEW t \in Sessions, rows'[g] = t
        PROVE  Raised(t, g)'
    <3>1. CASE rows'[g] = rows[g]
        BY <2>2, <2>7, <3>1 DEF RowsAreRaised
    <3>2. CASE g = Sig(s) /\ rows'[g] = s
        BY <2>4, <2>7, <3>2
    <3> QED BY <2>5, <3>1, <3>2
  <2> QED BY <2>6, <2>7 DEF RowsAreRaised
<1> QED BY <1>1, <1>2, <1>3, TableSteps DEF StepKinds

\* A wait is passed only through a row, and a row names a raising session.
LEMMA NextHandshake ==
    TypeOK /\ RowsAreRaised /\ HandshakeOrder /\ [Next]_vars => HandshakeOrder'
<1> SUFFICES ASSUME TypeOK, RowsAreRaised, HandshakeOrder, [Next]_vars
             PROVE  HandshakeOrder'
    OBVIOUS
<1> DEFINE Matched(g) == \E t \in Sessions : Raised(t, g)
<1>1. CASE UNCHANGED <<ip, rows>>
    BY <1>1 DEF HandshakeOrder, HasStep
<1>2. ASSUME NEW s \in Sessions, NEW o \in StepKinds, At(s, o), Advance(s),
             o = "wait" => Signaled(s)
      PROVE  HandshakeOrder'
  <2>1. \A t \in Sessions, g \in Signals : Raised(t, g) => Raised(t, g)'
      BY <1>2, StepCompletes DEF Raised, StepKinds
  <2>2. o = "wait" => Matched(Sig(s))
    <3>1. Sig(s) \in Signals
        BY <1>2, StepCompletes
    <3>2. rows[Sig(s)] \in Sessions \cup {NoOne, Earlier}
        BY <3>1 DEF TypeOK
    <3> QED BY <1>2, <3>1, <3>2 DEF RowsAreRaised, Signaled
  <2>3. ASSUME NEW t \in Sessions, NEW k \in DOMAIN Script[t],
               HasStep(t, k, "wait")'
        PROVE  Matched(Script[t][k].sig)'
    <3>1. "wait" \in StepKinds
        BY DEF StepKinds
    <3>2. \/ HasStep(t, k, "wait")
          \/ t = s /\ k = ip[s] /\ o = "wait"
        BY <1>2, <2>3, <3>1, StepCompletes
    <3>3. Matched(Script[t][k].sig)
        BY <2>2, <3>2 DEF HandshakeOrder, Raised, Sig
    <3>4. Script[t][k].sig \in Signals
        BY ScriptSteps
    <3> QED BY <2>1, <3>3, <3>4
  <2> QED BY <2>3 DEF HandshakeOrder, Raised
<1> QED BY <1>1, <1>2, TableSteps DEF StepKinds

\* A session gets to the second UPDATE of USP_Signal only over a row.
LEMMA RetrySteps ==
    ASSUME TypeOK, [Next]_vars, NEW s \in Sessions, sub'[s] = "retry"
    PROVE  \/ sub[s] = "retry" /\ ip'[s] = ip[s]
           \/ At(s, "signal") /\ Signaled(s) /\ UNCHANGED <<ip, rows>>
<1> USE DEF TypeOK, orchVars, clientVars, batchVars
<1>1. CASE LoopTop \/ LaunchesDone \/ PollDone \/ Check \/ StopDone \/ Return
           \/ Interrupt \/ Tick
    BY <1>1 DEF LoopTop, LaunchesDone, PollDone, Check, StopDone, Return,
                Interrupt, Tick
<1>2. ASSUME NEW t \in Sessions,
             \/ Launch(t) \/ LaunchRaises(t)
             \/ PollAlive(t) \/ PollExited(t) \/ PollRaises(t)
             \/ StopBegin(t) \/ StopCollect(t) \/ StopRaises(t)
             \/ BatchEnds(t) \/ ClientExits(t) \/ ServerAborts(t)
      PROVE  UNCHANGED <<ip, sub>>
    BY <1>2 DEF Launch, LaunchRaises, PollAlive, PollExited, PollRaises,
                StopBegin, StopCollect, StopRaises,
                BatchEnds, ClientExits, ServerAborts
<1>3. ASSUME NEW t \in Sessions, Advance(t)
      PROVE  sub[s] = "retry" /\ ip'[s] = ip[s]
    BY <1>3 DEF Advance
<1>4. ASSUME NEW t \in Sessions, NEW place, Goto(t, place), place # "retry"
      PROVE  sub[s] = "retry" /\ ip'[s] = ip[s]
    BY <1>4 DEF Goto
<1>5. ASSUME NEW t \in Sessions, SignalUpdate(t) \/ SignalRetry(t)
      PROVE  sub[s] = "retry" /\ ip'[s] = ip[s]
    BY <1>3, <1>4, <1>5 DEF SignalUpdate, SignalRetry
<1>6. ASSUME NEW t \in Sessions, SignalInsert(t)
      PROVE  \/ sub[s] = "retry" /\ ip'[s] = ip[s]
             \/ At(s, "signal") /\ Signaled(s) /\ UNCHANGED <<ip, rows>>
  <2>1. CASE Advance(t)
      BY <1>3, <2>1
  <2>2. CASE Signaled(t) /\ Goto(t, "retry") /\ UNCHANGED rows
      BY <1>6, <2>2 DEF SignalInsert, Goto
  <2> QED BY <1>6, <2>1, <2>2 DEF SignalInsert
<1>7. ASSUME NEW t \in Sessions, WaitExists(t)
      PROVE  sub[s] = "retry" /\ ip'[s] = ip[s]
  <2>1. CASE Advance(t)
      BY <1>3, <2>1
  <2>2. CASE sub' = [sub EXCEPT ![t] = "late"] /\ UNCHANGED ip
      BY <2>2
  <2> QED BY <1>7, <2>1, <2>2 DEF WaitExists
<1>8. ASSUME NEW t \in Sessions, WaitElapsed(t)
      PROVE  sub[s] = "retry" /\ ip'[s] = ip[s]
  <2>1. CASE Goto(t, "exists")
      BY <1>4, <2>1
  <2>2. CASE UNCHANGED <<ip, sub, waitFrom>>
      BY <2>2
  <2> QED BY <1>8, <2>1, <2>2 DEF WaitElapsed
<1>9. ASSUME NEW t \in Sessions, ClearSignals(t) \/ PrintOutput(t) \/ Work(t)
      PROVE  sub[s] = "retry" /\ ip'[s] = ip[s]
  <2>1. CASE Advance(t)
      BY <1>3, <2>1
  <2>2. CASE UNCHANGED <<ip, sub, waitFrom>>
      BY <2>2
  <2> QED BY <1>9, <2>1, <2>2 DEF ClearSignals, PrintOutput, Work
<1>10. CASE UNCHANGED vars
    BY <1>10 DEF vars
<1> QED BY <1>1, <1>2, <1>5, <1>6, <1>7, <1>8, <1>9, <1>10
        DEF Next, Orchestrator, Session

\* Without clears the rows of raised signals stay, also while two sessions
\* insert the same one.
LEMMA NextRowsStay ==
    ASSUME NoClears, TypeOK, RowsStay, [Next]_vars
    PROVE  RowsStay'
<1>0. NoOne \notin Sessions
    BY EnvironmentAssumption DEF EnvironmentAssumption
<1>1. ASSUME NEW s \in Sessions PROVE ~At(s, "clear")
  <2>1. ip[s] \in Nat \ {0}
      BY DEF TypeOK
  <2>2. At(s, "clear") => ip[s] \in DOMAIN Script[s]
      BY <2>1, ScriptSteps DEF At
  <2> QED BY <2>2 DEF At, NoClears
<1>2. \A g \in Signals :
         /\ rows[g] \in Sessions => rows'[g] \in Sessions
         /\ rows[g] # NoOne => rows'[g] # NoOne
  <2>1. rows' = rows \/ \E s \in Sessions : SetRow(s)
      BY <1>1, TableSteps
  <2> QED BY <1>0, <2>1 DEF SetRow, TypeOK
<1>3. ASSUME NEW t \in Sessions, NEW k \in DOMAIN Script[t],
             HasStep(t, k, "signal")'
      PROVE  rows'[Script[t][k].sig] \in Sessions
  <2>0. "signal" \in StepKinds /\ Script[t][k].sig \in Signals
      BY ScriptSteps DEF StepKinds
  <2>1. CASE HasStep(t, k, "signal")
      BY <1>2, <2>0, <2>1 DEF RowsStay
  <2>2. CASE ~HasStep(t, k, "signal")
    <3>1. ip' # ip
        BY <1>3, <2>2 DEF HasStep
    <3>2. PICK s \in Sessions, o \in StepKinds :
             /\ At(s, o) /\ Advance(s)
             /\ o = "signal" =>
                   SetRow(s) \/ (sub[s] = "retry" /\ ~Signaled(s))
        BY <1>1, <3>1, TableSteps DEF StepKinds
    <3>3. t = s /\ k = ip[s] /\ o = "signal"
        BY <1>3, <2>0, <2>2, <3>2, StepCompletes
    <3>4. SetRow(s)
        BY <3>2, <3>3 DEF RowsStay
    <3>5. rows'[Sig(s)] = s
        BY <2>0, <3>3, <3>4 DEF SetRow, Sig, TypeOK
    <3> QED BY <3>3, <3>5 DEF Sig
  <2> QED BY <2>1, <2>2
<1>4. ASSUME NEW s \in Sessions, sub'[s] = "retry"
      PROVE  (ip[s] \in DOMAIN Script[s] /\ Signaled(s))'
  <2>1. CASE sub[s] = "retry" /\ ip'[s] = ip[s]
    <3>1. ip[s] \in DOMAIN Script[s] /\ Signaled(s)
        BY <2>1 DEF RowsStay
    <3>2. Sig(s) \in Signals
        BY <3>1, ScriptSteps DEF Sig
    <3>3. rows'[Sig(s)] # NoOne
        BY <1>2, <3>1, <3>2 DEF Signaled
    <3> QED BY <2>1, <3>1, <3>3 DEF Signaled, Sig
  <2>2. CASE At(s, "signal") /\ Signaled(s) /\ UNCHANGED <<ip, rows>>
    <3>1. ip[s] \in Nat \ {0}
        BY DEF TypeOK
    <3>2. ip[s] \in DOMAIN Script[s]
        BY <2>2, <3>1, ScriptSteps DEF At
    <3> QED BY <2>2, <3>2 DEF Signaled, Sig
  <2> QED BY <1>4, <2>1, <2>2, RetrySteps
<1> QED BY <1>3, <1>4 DEF RowsStay

\* A step that changes neither codes, processes nor batches, and moves no
\* failed session, keeps FailsElsewhere.
LEMMA FailuresUntouched ==
    ASSUME FailsElsewhere,
           \A s \in Sessions :
              /\ exitCode'[s] = "error" => exitCode[s] = "error" \/ batch[s] = "error"
              /\ client'[s] = "alive" => client[s] = "alive" \/ batch[s] # "error"
              /\ exitCode'[s] # exitCode[s] => client[s] = "alive"
              /\ batch'[s] = "error" <=> batch[s] = "error"
              /\ batch[s] = "error" => ip'[s] = ip[s]
    PROVE  FailsElsewhere'
<1> QED BY DEF FailsElsewhere

\* A signal statement never ends a batch whose client is there to see it.
LEMMA NextFailsElsewhere ==
    ASSUME IInv, FailsElsewhere, [Next]_vars
    PROVE  FailsElsewhere'
<1>0. TypeOK /\ AliveIsRunning /\ Started
    BY DEF IInv
<1> USE DEF orchVars, clientVars, batchVars
<1>1. CASE LoopTop \/ LaunchesDone \/ PollDone \/ Check \/ StopDone \/ Return
           \/ Tick
    BY <1>1, FailuresUntouched DEF LoopTop, LaunchesDone, PollDone, Check,
                                   StopDone, Return, Tick
<1>2. CASE Interrupt
  <2>1. \A s \in Sessions :
           \/ client'[s] = client[s] /\ exitCode'[s] = exitCode[s]
           \/ client'[s] = "exited" /\ exitCode'[s] = "killed"
      BY <1>0, <1>2 DEF Interrupt, TypeOK
  <2>2. UNCHANGED <<batch, ip>>
      BY <1>2 DEF Interrupt
  <2> QED BY <2>1, <2>2 DEF FailsElsewhere
<1>3. ASSUME NEW s \in Sessions, Launch(s) PROVE FailsElsewhere'
  <2>1. /\ batch' = [batch EXCEPT ![s] = "open"] /\ UNCHANGED <<exitCode, ip>>
        /\ client' = [client EXCEPT ![s] = "alive"] /\ s \in pending
      BY <1>3 DEF Launch, Due, IsHead
  <2>2. exitCode[s] = "none"
      BY <1>0, <2>1 DEF Started
  <2> QED BY <1>0, <2>1, <2>2 DEF FailsElsewhere, TypeOK
<1>4. ASSUME NEW s \in Sessions,
             \/ LaunchRaises(s) \/ PollAlive(s) \/ PollExited(s) \/ PollRaises(s)
             \/ StopBegin(s) \/ StopRaises(s)
      PROVE  FailsElsewhere'
    BY <1>4, FailuresUntouched
       DEF LaunchRaises, PollAlive, PollExited, PollRaises, StopBegin, StopRaises
<1>5. ASSUME NEW s \in Sessions, StopCollect(s) PROVE FailsElsewhere'
  <2>1. \A t \in Sessions :
           \/ client'[t] = client[t] /\ exitCode'[t] = exitCode[t]
           \/ client'[t] = "exited" /\ exitCode'[t] \in {"killed", exitCode[t]}
      BY <1>0, <1>5 DEF StopCollect, TypeOK
  <2>2. UNCHANGED <<batch, ip>>
      BY <1>5 DEF StopCollect
  <2> QED BY <2>1, <2>2 DEF FailsElsewhere
<1>6. ASSUME NEW s \in Sessions, batch[s] = "open",
             ip' = ip \/ ip' = [ip EXCEPT ![s] = ip[s] + 1],
             batch' = batch \/ batch' = [batch EXCEPT ![s] = "ok"],
             UNCHANGED <<client, exitCode>>
      PROVE  FailsElsewhere'
    BY <1>0, <1>6, FailuresUntouched DEF TypeOK
<1>7. ASSUME NEW s \in Sessions, batch[s] = "open",
             Script[s][ip[s]].op # "signal" \/ client[s] = "exited",
             batch' = [batch EXCEPT ![s] = "error"],
             UNCHANGED <<ip, client, exitCode>>
      PROVE  FailsElsewhere'
    BY <1>0, <1>7 DEF TypeOK, FailsElsewhere
<1>8. ASSUME NEW s \in Sessions, Session(s), ~ClientExits(s)
      PROVE  FailsElsewhere'
  <2>1. batch[s] = "open" /\ UNCHANGED <<client, exitCode>>
      BY <1>8 DEF Session, SignalUpdate, SignalInsert, SignalRetry, WaitExists,
                  WaitElapsed, ClearSignals, PrintOutput, Work,
                  BatchEnds, ServerAborts, At
  <2>2. CASE BatchEnds(s)
      BY <1>6, <2>1, <2>2 DEF BatchEnds
  <2>3. CASE ServerAborts(s)
      BY <1>7, <2>1, <2>3 DEF ServerAborts
  <2>4. CASE WaitElapsed(s)
      BY <1>6, <1>7, <2>1, <2>4 DEF WaitElapsed, Goto, At
  <2>5. CASE Work(s)
      BY <1>6, <1>7, <2>1, <2>5 DEF Work, Advance, At
  <2>6. CASE \/ SignalUpdate(s) \/ SignalInsert(s) \/ SignalRetry(s)
             \/ WaitExists(s) \/ ClearSignals(s) \/ PrintOutput(s)
    <3>1. batch' = batch
        BY <2>6 DEF SignalUpdate, SignalInsert, SignalRetry, WaitExists,
                    ClearSignals, PrintOutput
    <3>2. ip' = ip \/ ip' = [ip EXCEPT ![s] = ip[s] + 1]
        BY <2>6 DEF SignalUpdate, SignalInsert, SignalRetry, WaitExists,
                    ClearSignals, PrintOutput, Advance, Goto
    <3> QED BY <1>6, <2>1, <3>1, <3>2
  <2> QED BY <1>8, <2>2, <2>3, <2>4, <2>5, <2>6 DEF Session
<1>9. ASSUME NEW s \in Sessions, ClientExits(s) PROVE FailsElsewhere'
  <2>1. \A t \in Sessions :
           \/ client'[t] = client[t] /\ exitCode'[t] = exitCode[t]
           \/ /\ client[t] = "alive" /\ client'[t] = "exited"
              /\ exitCode'[t] = batch[t]
      BY <1>0, <1>9 DEF ClientExits, TypeOK
  <2>2. UNCHANGED <<batch, ip>>
      BY <1>9 DEF ClientExits
  <2> QED BY <2>1, <2>2 DEF FailsElsewhere
<1>10. CASE UNCHANGED vars
    BY <1>10, FailuresUntouched DEF vars
<1> QED BY <1>1, <1>2, <1>3, <1>4, <1>5, <1>8, <1>9, <1>10
        DEF Next, Orchestrator

\* Signals order the sessions of every manifest whose signal table was empty:
\* whoever is past a wait is behind a session that raised the signal, whatever
\* the delays, the clears and the clock did.
THEOREM SignalsOrder ==
    ASSUME StaleSignals = {}
    PROVE  Spec => []HandshakeOrder
<1>1. Init => RowsAreRaised /\ HandshakeOrder
  <2> SUFFICES ASSUME Init PROVE RowsAreRaised /\ HandshakeOrder
      OBVIOUS
  <2>1. rows = [g \in Signals |-> NoOne] /\ ip = [s \in Sessions |-> 1]
      BY DEF Init
  <2>2. RowsAreRaised
      BY <2>1, EnvironmentAssumption DEF RowsAreRaised, EnvironmentAssumption
  <2>3. \A s \in Sessions : \A k \in DOMAIN Script[s] : ~HasStep(s, k, "wait")
      BY <2>1, ScriptSteps DEF HasStep
  <2> QED BY <2>2, <2>3 DEF HandshakeOrder
<1>2. []TypeOK /\ RowsAreRaised /\ HandshakeOrder /\ [][Next]_vars
         => [](RowsAreRaised /\ HandshakeOrder)
    BY NextRowsAreRaised, NextHandshake, PTL
<1> QED BY <1>1, <1>2, TypeCorrect, PTL DEF Spec

\* USP_Signal under concurrency: in a manifest that does not clear the table,
\* whatever the interleaving of UPDATE, INSERT and second UPDATE, a raised
\* signal stays raised and no signal statement fails a session.
THEOREM SignalsStick ==
    ASSUME NoClears
    PROVE  Spec => []SignalSticks
<1>1. Init => RowsStay /\ FailsElsewhere
  <2> SUFFICES ASSUME Init PROVE RowsStay /\ FailsElsewhere
      OBVIOUS
  <2>1. /\ ip = [s \in Sessions |-> 1] /\ sub = [s \in Sessions |-> "begin"]
        /\ batch = [s \in Sessions |-> "none"]
        /\ exitCode = [s \in Sessions |-> "none"]
      BY DEF Init
  <2>2. \A s \in Sessions : \A k \in DOMAIN Script[s] : ~HasStep(s, k, "signal")
      BY <2>1, ScriptSteps DEF HasStep
  <2> QED BY <2>1, <2>2 DEF RowsStay, FailsElsewhere
<1>2. []TypeOK /\ RowsStay /\ [][Next]_vars => []RowsStay
    BY NextRowsStay, PTL
<1>3. []IInv /\ FailsElsewhere /\ [][Next]_vars => []FailsElsewhere
    BY NextFailsElsewhere, PTL
<1>4. RowsStay /\ FailsElsewhere /\ CodeInv => SignalSticks
    BY DEF RowsStay, FailsElsewhere, CodeInv, Reported, SignalSticks
<1> QED BY <1>1, <1>2, <1>3, <1>4, Invariance, TypeCorrect, CodeInvariance,
           PTL DEF Spec
=============================================================================
