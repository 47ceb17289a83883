---------------------------- MODULE StdioAdapter ----------------------------
(***************************************************************************)
(* One call of the stdio adapter: the parent starts the configured program *)
(* with three pipes, a thread writes the request frame, two threads read   *)
(* the child's output, and the parent polls until the child has exited and *)
(* its threads have ended, or a limit is hit.  The child may leave a       *)
(* descendant that keeps its pipes open.  Pipes are counted in units; a    *)
(* whole answer is FrameParts units, and the child answers only after it   *)
(* has done what it was asked to do.                                       *)
(***************************************************************************)
EXTENDS Integers, FiniteSets

CONSTANTS
    FrameParts,    \* units of a well-formed answer
    RequestParts,  \* units of the request frame
    Capacity,      \* what a pipe buffers (external)
    Limit,         \* MAX_FRAME_BYTES and MAX_STDERR_BYTES
    MaxOutput,     \* bound: units a child ever writes to one stream
    Deadline       \* timeout_seconds, in ticks

ASSUME StdioAssumption ==
    /\ FrameParts \in Nat \ {0} /\ RequestParts \in Nat \ {0}
    /\ Capacity \in Nat \ {0} /\ Deadline \in Nat /\ MaxOutput \in Nat
    /\ Limit \in Nat /\ FrameParts <= Limit

Streams == {"out", "err"}

VARIABLES
    parent,      \* where _call is
    verdict,     \* what the caller is told
    child,       \* the program: none, running, or how it ended
    descendant,  \* some process started by the child still holds its pipes
    wrote,       \* wrote[s]: units ever written to stream s
    read,        \* read[s]: units its thread has read
    workers,     \* the threads that are alive: the streams and "in"
    sent,        \* units of the request in or past the stdin pipe
    taken,       \* units of the request the child has read
    flags,       \* which of overflow and io_failed are set
    effect,      \* the operation has taken effect
    clock        \* ticks since the call, capped at Deadline

vars == <<parent, verdict, child, descendant, wrote, read, workers, sent,
          taken, flags, effect, clock>>
pipes == <<wrote, read, sent, taken>>

TypeOK ==
    /\ parent \in {"start", "poll", "kill", "join", "done"}
    /\ verdict \in {"none", "ok", "PERMISSION", "AVAILABILITY", "TIMEOUT", "PROTOCOL"}
    /\ child \in {"none", "running", "exit0", "exit1", "killed"}
    /\ descendant \in BOOLEAN /\ effect \in BOOLEAN
    /\ wrote \in [Streams -> 0..MaxOutput] /\ read \in [Streams -> 0..MaxOutput]
    /\ workers \subseteq Streams \union {"in"}
    /\ flags \subseteq {"overflow", "io_failed"}
    /\ sent \in 0..RequestParts /\ taken \in 0..RequestParts
    /\ clock \in 0..Deadline

Init ==
    /\ parent = "start" /\ verdict = "none" /\ child = "none"
    /\ descendant = FALSE /\ effect = FALSE /\ clock = 0
    /\ wrote = [s \in Streams |-> 0] /\ read = [s \in Streams |-> 0]
    /\ workers = {} /\ flags = {} /\ sent = 0 /\ taken = 0

\* Whoever writes into the pipes is gone: a reader sees the end of the stream.
Closed == child # "running" /\ ~descendant

-----------------------------------------------------------------------------
(* The parent *)

\* A missing authority, a bad handle or an existing output ends the call
\* before anything is started.
Refuse ==
    /\ parent = "start" /\ parent' = "done" /\ verdict' = "PERMISSION"
    /\ UNCHANGED <<child, descendant, pipes, workers, flags, effect, clock>>

\* Popen raised.
StartFails ==
    /\ parent = "start" /\ parent' = "done" /\ verdict' = "AVAILABILITY"
    /\ UNCHANGED <<child, descendant, pipes, workers, flags, effect, clock>>

Start ==
    /\ parent = "start" /\ parent' = "poll" /\ child' = "running"
    /\ workers' = Streams \union {"in"}
    /\ UNCHANGED <<verdict, descendant, pipes, flags, effect, clock>>

\* Mutation: the loop waits for the child alone.
WaitingForChild == child = "running"

Waiting == child = "running" \/ workers # {}

\* What the parent makes of a call that ended by itself.  The whole answer
\* still has to carry this request's identity and a known status.
Answer ==
    IF flags # {} \/ child # "exit0" \/ read["out"] # FrameParts
    THEN {"PROTOCOL"} ELSE {"ok", "PROTOCOL"}

\* The loop: overflow first, then the deadline; otherwise it sleeps.
GiveUp ==
    /\ parent = "poll" /\ Waiting
    /\ \/ "overflow" \in flags /\ verdict' = "PROTOCOL"
       \/ "overflow" \notin flags /\ clock = Deadline /\ verdict' = "TIMEOUT"
    /\ parent' = "kill"
    /\ UNCHANGED <<child, descendant, pipes, workers, flags, effect, clock>>

Finish ==
    /\ parent = "poll" /\ ~Waiting
    /\ verdict' \in Answer
    /\ parent' = "done"
    /\ UNCHANGED <<child, descendant, pipes, workers, flags, effect, clock>>

\* kill() unless it has exited, then wait() for the direct child; what that one has
\* started lives on.
Kill ==
    /\ parent = "kill" /\ parent' = "join"
    /\ \/ child = "running" /\ child' = "killed" /\ descendant' \in BOOLEAN
       \/ child # "running" /\ UNCHANGED <<child, descendant>>
    /\ UNCHANGED <<verdict, pipes, workers, flags, effect, clock>>

\* Mutation: the threads are joined without a limit.
JoinAll ==
    /\ parent = "join" /\ workers = {} /\ parent' = "done"
    /\ UNCHANGED <<verdict, child, descendant, pipes, workers, flags, effect, clock>>

\* Each thread is given a tenth of a second; none is waited for longer.
Join ==
    /\ parent = "join" /\ parent' = "done"
    /\ UNCHANGED <<verdict, child, descendant, pipes, workers, flags, effect, clock>>

Parent == Refuse \/ StartFails \/ Start \/ GiveUp \/ Finish \/ Kill \/ Join

-----------------------------------------------------------------------------
(* The threads *)

\* read1 returned a chunk: past the limit the thread sets overflow and ends.
Read(s) ==
    /\ s \in workers /\ read[s] < wrote[s]
    /\ read' = [read EXCEPT ![s] = @ + 1]
    /\ IF read[s] + 1 > Limit
       THEN flags' = flags \union {"overflow"} /\ workers' = workers \ {s}
       ELSE UNCHANGED <<flags, workers>>
    /\ UNCHANGED <<parent, verdict, child, descendant, wrote, sent, taken, effect, clock>>

EndOfStream(s) ==
    /\ s \in workers /\ read[s] = wrote[s] /\ Closed
    /\ workers' = workers \ {s}
    /\ UNCHANGED <<parent, verdict, child, descendant, pipes, flags, effect, clock>>

\* read1 raises: the thread closes its pipe.
ReadFails(s) ==
    /\ s \in workers
    /\ flags' = flags \union {"io_failed"} /\ workers' = workers \ {s}
    /\ UNCHANGED <<parent, verdict, child, descendant, pipes, effect, clock>>

\* The writer blocks on a full pipe.  It fails once nobody can read it, which
\* a program that closes its stdin brings about at any time.
Write ==
    /\ "in" \in workers /\ ~Closed
    /\ sent < RequestParts /\ sent - taken < Capacity
    /\ sent' = sent + 1
    /\ workers' = IF sent' = RequestParts THEN workers \ {"in"} ELSE workers
    /\ UNCHANGED <<parent, verdict, child, descendant, wrote, read, taken, flags, effect, clock>>

BrokenPipe ==
    /\ "in" \in workers
    /\ flags' = flags \union {"io_failed"} /\ workers' = workers \ {"in"}
    /\ UNCHANGED <<parent, verdict, child, descendant, pipes, effect, clock>>

\* What a thread does when it is scheduled; that its pipe breaks is nobody's duty
\* while a process still holds the other end.
Worker ==
    \/ Write \/ (Closed /\ BrokenPipe)
    \/ \E s \in Streams: Read(s) \/ EndOfStream(s)
PipeFails == BrokenPipe \/ \E s \in Streams: ReadFails(s)

-----------------------------------------------------------------------------
(* The program (external): any program that answers after it has acted *)

Alive == child = "running" \/ descendant

Take ==
    /\ Alive /\ taken < sent /\ taken' = taken + 1
    /\ UNCHANGED <<parent, verdict, child, descendant, wrote, read, workers, sent, flags, effect, clock>>

Act ==
    /\ Alive /\ taken = RequestParts /\ effect' = TRUE
    /\ UNCHANGED <<parent, verdict, child, descendant, pipes, workers, flags, clock>>

\* A pipe whose reader has closed it cannot be written.
Emit(s) ==
    /\ Alive /\ s \in workers
    /\ s = "out" => effect
    /\ wrote[s] < MaxOutput /\ wrote[s] - read[s] < Capacity
    /\ wrote' = [wrote EXCEPT ![s] = @ + 1]
    /\ UNCHANGED <<parent, verdict, child, descendant, read, workers, sent, taken, flags, effect, clock>>

Exit ==
    /\ child = "running" /\ child' \in {"exit0", "exit1"}
    /\ descendant' \in BOOLEAN
    /\ UNCHANGED <<parent, verdict, pipes, workers, flags, effect, clock>>

DescendantExits ==
    /\ descendant /\ descendant' = FALSE
    /\ UNCHANGED <<parent, verdict, child, pipes, workers, flags, effect, clock>>

Program == Take \/ Act \/ Exit \/ DescendantExits \/ \E s \in Streams: Emit(s)

Tick ==
    /\ parent # "start" /\ clock < Deadline /\ clock' = clock + 1
    /\ UNCHANGED <<parent, verdict, child, descendant, pipes, workers, flags, effect>>

Next == Parent \/ Worker \/ PipeFails \/ Program \/ Tick

\* The parent, its threads and time are scheduled; the program need not run.
Spec == Init /\ [][Next]_vars /\ WF_vars(Parent) /\ WF_vars(Worker) /\ WF_vars(Tick)

-----------------------------------------------------------------------------
\* A call succeeds only after the operation took effect, with every unit the
\* program and its descendants ever wrote read and nobody left to write more:
\* no answer is taken from a prefix of the output.  (stdio_adapter.py, the
\* loop of _call and what follows it.)
OkIsTheWholeAnswer ==
    verdict = "ok" =>
        /\ effect /\ child = "exit0" /\ ~descendant
        /\ read["out"] = wrote["out"] /\ read["err"] = wrote["err"]

\* A class a caller may retry without reconciling - AVAILABILITY, PERMISSION -
\* is used only when the operation has not happened and never will.
DefiniteMeansNoEffect ==
    verdict \in {"AVAILABILITY", "PERMISSION"} => child = "none" /\ ~effect

\* Whatever the program and its descendants do - never reading, never
\* writing, never exiting - the call returns.
CallReturns == <>(parent = "done")
=============================================================================
