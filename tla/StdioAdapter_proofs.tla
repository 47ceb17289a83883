------------------------- MODULE StdioAdapter_proofs -------------------------
(***************************************************************************)
(* For frames, limits, buffers and deadlines of any size, and whatever the *)
(* program does: an answer is the whole output of a program that has acted *)
(* and that left nobody behind, and a call that a caller may repeat has    *)
(* started nothing.                                                        *)
(***************************************************************************)
EXTENDS StdioAdapter, TLAPS

\* Without a program nothing has happened.
NotStarted ==
    /\ child = "none" => ~descendant /\ ~effect /\ workers = {}
    /\ parent = "start" => child = "none" /\ verdict = "none" /\ flags = {}
    /\ verdict \in {"AVAILABILITY", "PERMISSION"} => child = "none" /\ parent = "done"
    /\ parent = "poll" => verdict = "none"

\* A reader that has ended has read everything and nobody can write more,
\* or it has raised the flag.
ReadersEnd ==
    \A s \in Streams : child # "none" /\ flags = {} /\ s \notin workers =>
        read[s] = wrote[s] /\ Closed

\* The answer follows the effect.
ActsFirst == wrote["out"] > 0 => effect
ReadWasWritten == \A s \in Streams : read[s] <= wrote[s]

OkInv ==
    verdict = "ok" =>
        /\ OkIsTheWholeAnswer
        /\ parent = "done" /\ workers = {}

IInv == TypeOK /\ NotStarted /\ ReadersEnd /\ ActsFirst /\ ReadWasWritten /\ OkInv

-----------------------------------------------------------------------------
LEMMA InitIInv == Init => IInv
<1> SUFFICES ASSUME Init PROVE IInv
  OBVIOUS
<1>1. TypeOK
  <2>1. /\ parent \in {"start", "poll", "kill", "join", "done"}
        /\ verdict \in {"none", "ok", "PERMISSION", "AVAILABILITY", "TIMEOUT", "PROTOCOL"}
        /\ child \in {"none", "running", "exit0", "exit1", "killed"}
        /\ descendant \in BOOLEAN /\ effect \in BOOLEAN
    BY DEF Init
  <2>2. workers \subseteq Streams \union {"in"} /\ flags \subseteq {"overflow", "io_failed"}
    BY DEF Init
  <2>3. wrote \in [Streams -> 0..MaxOutput] /\ read \in [Streams -> 0..MaxOutput]
    BY StdioAssumption DEF Init
  <2>4. /\ sent \in 0..RequestParts /\ taken \in 0..RequestParts
        /\ clock \in 0..Deadline
    BY StdioAssumption DEF Init
  <2> QED
    BY <2>1, <2>2, <2>3, <2>4 DEF TypeOK
<1>2. NotStarted /\ ReadersEnd /\ ActsFirst /\ ReadWasWritten /\ OkInv
  BY DEF Init, NotStarted, ReadersEnd, ActsFirst, ReadWasWritten, OkInv, Streams
<1> QED
  BY <1>1, <1>2 DEF IInv

LEMMA NextTypeOK == TypeOK /\ [Next]_vars => TypeOK'
<1> SUFFICES ASSUME TypeOK, [Next]_vars PROVE TypeOK'
  OBVIOUS
<1> DEFINE Control == /\ parent \in {"start", "poll", "kill", "join", "done"}
                      /\ verdict \in {"none", "ok", "PERMISSION", "AVAILABILITY", "TIMEOUT",
                                      "PROTOCOL"}
                      /\ child \in {"none", "running", "exit0", "exit1", "killed"}
           Marks == /\ descendant \in BOOLEAN /\ effect \in BOOLEAN
                    /\ workers \subseteq Streams \union {"in"}
                    /\ flags \subseteq {"overflow", "io_failed"}
           Output == wrote \in [Streams -> 0..MaxOutput] /\ read \in [Streams -> 0..MaxOutput]
           Request == /\ sent \in 0..RequestParts /\ taken \in 0..RequestParts
                      /\ clock \in 0..Deadline
<1>0. Control /\ Marks /\ Output /\ Request
  BY DEF TypeOK
<1>a. Control' /\ Marks' /\ Output' /\ Request' => TypeOK'
  BY DEF TypeOK
<1> USE <1>0, StdioAssumption DEF pipes
<1>1. CASE Refuse \/ StartFails \/ Start
  <2>1. Control'
    BY <1>1 DEF Refuse, StartFails, Start
  <2>2. Marks'
    BY <1>1 DEF Refuse, StartFails, Start
  <2>3. Output'
    BY <1>1 DEF Refuse, StartFails, Start
  <2>4. Request'
    BY <1>1 DEF Refuse, StartFails, Start
  <2> QED
    BY <1>a, <2>1, <2>2, <2>3, <2>4
<1>2. CASE GiveUp \/ Finish
  <2>1. Control'
    BY <1>2 DEF GiveUp, Finish, Answer
  <2>2. Marks'
    BY <1>2 DEF GiveUp, Finish, Answer
  <2>3. Output'
    BY <1>2 DEF GiveUp, Finish, Answer
  <2>4. Request'
    BY <1>2 DEF GiveUp, Finish, Answer
  <2> QED
    BY <1>a, <2>1, <2>2, <2>3, <2>4
<1>3. CASE Kill \/ Join
  <2>1. Control'
    BY <1>3 DEF Kill, Join
  <2>2. Marks'
    BY <1>3 DEF Kill, Join
  <2>3. Output'
    BY <1>3 DEF Kill, Join
  <2>4. Request'
    BY <1>3 DEF Kill, Join
  <2> QED
    BY <1>a, <2>1, <2>2, <2>3, <2>4
<1>4. ASSUME NEW s \in Streams, Read(s) PROVE TypeOK'
  <2>1. Control'
    BY <1>4 DEF Read
  <2>2. Marks'
    BY <1>4 DEF Read
  <2>3. Output'
    BY <1>4 DEF Read
  <2>4. Request'
    BY <1>4 DEF Read
  <2> QED
    BY <1>a, <2>1, <2>2, <2>3, <2>4
<1>5. ASSUME NEW s \in Streams, EndOfStream(s) PROVE TypeOK'
  <2>1. Control'
    BY <1>5 DEF EndOfStream
  <2>2. Marks'
    BY <1>5 DEF EndOfStream
  <2>3. Output'
    BY <1>5 DEF EndOfStream
  <2>4. Request'
    BY <1>5 DEF EndOfStream
  <2> QED
    BY <1>a, <2>1, <2>2, <2>3, <2>4
<1>6. ASSUME NEW s \in Streams, Emit(s) PROVE TypeOK'
  <2>1. Control'
    BY <1>6 DEF Emit
  <2>2. Marks'
    BY <1>6 DEF Emit
  <2>3. Output'
    BY <1>6 DEF Emit
  <2>4. Request'
    BY <1>6 DEF Emit
  <2> QED
    BY <1>a, <2>1, <2>2, <2>3, <2>4
<1>7. CASE Write
  <2>1. Control'
    BY <1>7 DEF Write
  <2>2. Marks'
    BY <1>7 DEF Write
  <2>3. Output'
    BY <1>7 DEF Write
  <2>4. Request'
    BY <1>7 DEF Write
  <2> QED
    BY <1>a, <2>1, <2>2, <2>3, <2>4
<1>8. CASE BrokenPipe
  <2>1. Control'
    BY <1>8 DEF BrokenPipe
  <2>2. Marks'
    BY <1>8 DEF BrokenPipe
  <2>3. Output'
    BY <1>8 DEF BrokenPipe
  <2>4. Request'
    BY <1>8 DEF BrokenPipe
  <2> QED
    BY <1>a, <2>1, <2>2, <2>3, <2>4
<1>9. CASE Take \/ Act
  <2>1. Control'
    BY <1>9 DEF Take, Act
  <2>2. Marks'
    BY <1>9 DEF Take, Act
  <2>3. Output'
    BY <1>9 DEF Take, Act
  <2>4. Request'
    BY <1>9 DEF Take, Act
  <2> QED
    BY <1>a, <2>1, <2>2, <2>3, <2>4
<1>10. CASE Exit \/ DescendantExits
  <2>1. Control'
    BY <1>10 DEF Exit, DescendantExits
  <2>2. Marks'
    BY <1>10 DEF Exit, DescendantExits
  <2>3. Output'
    BY <1>10 DEF Exit, DescendantExits
  <2>4. Request'
    BY <1>10 DEF Exit, DescendantExits
  <2> QED
    BY <1>a, <2>1, <2>2, <2>3, <2>4
<1>11. CASE Tick \/ UNCHANGED vars
  <2>1. Control'
    BY <1>11 DEF Tick, vars
  <2>2. Marks'
    BY <1>11 DEF Tick, vars
  <2>3. Output'
    BY <1>11 DEF Tick, vars
  <2>4. Request'
    BY <1>11 DEF Tick, vars
  <2> QED
    BY <1>a, <2>1, <2>2, <2>3, <2>4
<1>12. ASSUME NEW s \in Streams, ReadFails(s) PROVE TypeOK'
  <2>1. Control'
    BY <1>12 DEF ReadFails
  <2>2. Marks'
    BY <1>12 DEF ReadFails
  <2>3. Output'
    BY <1>12 DEF ReadFails
  <2>4. Request'
    BY <1>12 DEF ReadFails
  <2> QED
    BY <1>a, <2>1, <2>2, <2>3, <2>4
<1> QED
  BY <1>1, <1>2, <1>3, <1>4, <1>5, <1>6, <1>7, <1>8, <1>9, <1>10, <1>11, <1>12
     DEF Next, Parent, Worker, PipeFails, Program

LEMMA NextIInv == IInv /\ [Next]_vars => IInv'
<1> SUFFICES ASSUME IInv, [Next]_vars PROVE IInv'
  OBVIOUS
<1>0. TypeOK /\ TypeOK'
  BY NextTypeOK DEF IInv
<1> DEFINE Rest == NotStarted /\ ReadersEnd /\ ActsFirst /\ ReadWasWritten /\ OkInv
<1> SUFFICES Rest'
  BY <1>0 DEF IInv
<1> USE <1>0, StdioAssumption DEF IInv, TypeOK, pipes, NotStarted, ReadersEnd, ActsFirst,
        ReadWasWritten, OkInv, OkIsTheWholeAnswer, Closed, Streams
<1>1. CASE Refuse \/ StartFails
  BY <1>1 DEF Refuse, StartFails
<1>2. CASE Start
  BY <1>2 DEF Start
<1>3. CASE GiveUp
  BY <1>3 DEF GiveUp
<1>4. CASE Finish
  <2>1. /\ workers = {} /\ child # "running" /\ parent = "poll" /\ verdict' \in Answer
        /\ parent' = "done"
        /\ UNCHANGED <<child, descendant, wrote, read, workers, flags, effect>>
    BY <1>4 DEF Finish, Waiting
  <2>2. verdict' \in {"ok", "PROTOCOL"}
    BY <2>1 DEF Answer
  <2>3. ASSUME verdict' = "ok" PROVE OkIsTheWholeAnswer'
    <3>1. flags = {} /\ child = "exit0" /\ read["out"] = FrameParts
      BY <2>1, <2>3 DEF Answer
    <3>2. ~descendant /\ read["out"] = wrote["out"] /\ read["err"] = wrote["err"]
      BY <2>1, <3>1
    <3>3. effect
      BY <3>1, <3>2
    <3> QED
      BY <2>1, <3>1, <3>2, <3>3
  <2> QED
    BY <2>1, <2>2, <2>3
<1>5. CASE Kill \/ Join
  BY <1>5 DEF Kill, Join
<1>6. ASSUME NEW s \in Streams, Read(s) PROVE Rest'
  <2>1. /\ s \in workers /\ read[s] < wrote[s] /\ read'[s] = read[s] + 1
        /\ \A t \in Streams : t # s => read'[t] = read[t]
        /\ UNCHANGED <<parent, verdict, child, descendant, wrote, effect>>
    BY <1>6 DEF Read
  <2>2. \/ flags' # {} /\ workers' = workers \ {s}
        \/ UNCHANGED <<flags, workers>>
    BY <1>6 DEF Read
  <2>3. read[s] \in Int /\ wrote[s] \in Int
    OBVIOUS
  <2>4. child # "none" /\ parent # "start"
    BY <2>1
  <2>5. NotStarted' /\ ActsFirst'
    <3>1. verdict \notin {"AVAILABILITY", "PERMISSION"} /\ (parent = "poll" => verdict = "none")
      BY <2>4
    <3>2. NotStarted'
      BY <2>1, <2>4, <3>1
    <3>3. wrote' = wrote /\ (effect' <=> effect)
      BY <2>1
    <3>4. ActsFirst'
      BY <3>3
    <3> QED
      BY <3>2, <3>4
  <2>6. ReadWasWritten'
    BY <2>1, <2>3
  <2>7. ReadersEnd'
    <3>1. ASSUME NEW t \in Streams, flags' = {}, t \notin workers'
          PROVE  t # s /\ t \notin workers /\ flags = {}
      BY <2>1, <2>2, <3>1
    <3>2. ASSUME NEW t \in Streams, flags' = {}, t \notin workers'
          PROVE  read'[t] = wrote[t] /\ Closed
      BY <2>1, <2>4, <3>1, <3>2
    <3>3. (Closed' <=> Closed) /\ wrote' = wrote
      BY <2>1
    <3> HIDE DEF Closed
    <3> QED
      BY <3>2, <3>3
  <2>8. OkInv'
    BY <2>1, <2>2
  <2> QED
    BY <2>5, <2>6, <2>7, <2>8
<1>7. ASSUME NEW s \in Streams, EndOfStream(s) PROVE Rest'
  BY <1>7 DEF EndOfStream
<1>8. CASE Write \/ BrokenPipe
  BY <1>8 DEF Write, BrokenPipe
<1>9. ASSUME NEW s \in Streams, Emit(s) PROVE Rest'
  BY <1>9 DEF Emit, Alive
<1>10. CASE Take \/ Act
  BY <1>10 DEF Take, Act, Alive
<1>11. CASE Exit \/ DescendantExits
  BY <1>11 DEF Exit, DescendantExits
<1>12. CASE Tick \/ UNCHANGED vars
  BY <1>12 DEF Tick, vars
<1>13. ASSUME NEW s \in Streams, ReadFails(s) PROVE Rest'
  BY <1>13 DEF ReadFails
<1> QED
  BY <1>1, <1>2, <1>3, <1>4, <1>5, <1>6, <1>7, <1>8, <1>9, <1>10, <1>11, <1>12, <1>13
     DEF Next, Parent, Worker, PipeFails, Program

-----------------------------------------------------------------------------
\* The inductive invariant holds in every state of every call.
THEOREM Invariance == Spec => []IInv
<1> QED
  BY InitIInv, NextIInv, PTL DEF Spec

\* The shapes of the call's state, for every size of frames and buffers.
THEOREM TypeCorrect == Spec => []TypeOK
<1>1. IInv => TypeOK
  BY DEF IInv
<1> QED
  BY <1>1, Invariance, PTL

\* No answer is taken from a prefix of the output, and none before the effect.
THEOREM OkIsWhole == Spec => []OkIsTheWholeAnswer
<1>1. IInv => OkIsTheWholeAnswer
  BY DEF IInv, OkInv, OkIsTheWholeAnswer
<1> QED
  BY <1>1, Invariance, PTL

\* AVAILABILITY and PERMISSION, which a caller repeats without reconciling, mean
\* that nothing was started and nothing has happened.
THEOREM DefiniteIsHarmless == Spec => []DefiniteMeansNoEffect
<1>1. IInv => DefiniteMeansNoEffect
  BY DEF IInv, NotStarted, DefiniteMeansNoEffect
<1> QED
  BY <1>1, Invariance, PTL
=============================================================================
