-------------------------- MODULE EvaluationLedger --------------------------
(***************************************************************************)
(* The evaluation ledger of model_router.RuntimeStore: planners reserve    *)
(* the cost of paired trials against a daily budget, evaluators settle the *)
(* arms of a pair, and a pair with all arms settled is one observation of  *)
(* its candidate.  Every change is a read-modify-write of runtime-state.json*)
(* under a lock file that a dead process leaves behind.                    *)
(*                                                                         *)
(* Time passes in ticks; a reservation lives as long as a day (24 hours),  *)
(* so it can outlive the UTC date it was made on.                          *)
(***************************************************************************)
EXTENDS Naturals, Sequences, FiniteSets, SequencesExt

CONSTANTS
    Callers,
    Candidates,
    Incumbent,     \* the routed model of today, or NoIncumbent
    NoIncumbent,
    Classes,       \* task classes an outcome may be recorded for
    Asked,         \* the task class of the request
    Limit,         \* min(requested, daily_evaluation_budget_usd)
    Needed,        \* observations after which a candidate is no longer unknown
    Costs,         \* what an arm may really cost; every arm is reserved at most
    ArmCost,       \* the estimate of one arm
    DayLength,     \* ticks of a day
    MaxClock, MaxPairs, MaxCalls     \* bounds

LedgerAssumption ==
    /\ IsFiniteSet(Candidates)
    /\ Asked \in Classes /\ {Limit, Needed, ArmCost, MaxClock, MaxPairs, MaxCalls} \subseteq Nat
    /\ Costs \subseteq 0..ArmCost      \* no arm costs more than its estimate
    /\ DayLength \in Nat \ {0}
    /\ "none" \notin Callers

Arms == IF Incumbent = NoIncumbent THEN {"candidate"} ELSE {"candidate", "incumbent"}
Day(t) == t \div DayLength
Dates == 0..Day(MaxClock)

\* empty_state: known rows of outcomes, observations of the candidates for the asked
\* class, spend per date, open reservations, and the pairs in the order of creation.
Empty == [known |-> {}, observations |-> [c \in Candidates |-> 0],
          spend |-> [d \in Dates |-> 0], open |-> {}, pairs |-> <<>>]
\* An evaluation id names a pair and an arm of it.
Id(pair, arm) == [pair |-> pair, arm |-> arm]

VARIABLES
    clock, calls,
    file,          \* runtime-state.json
    lock,          \* who created runtime-state.lock, or "none"
    at             \* what each caller is doing, with the state it has loaded

vars == <<clock, calls, file, lock, at>>

-----------------------------------------------------------------------------
(* The callbacks: pure functions of the loaded state                        *)

Expired(pair, now) == pair.expires <= now

\* reserve_evaluations: reservations that are over leave, and their pairs with them.
WithoutExpired(state, now) ==
    LET over == {id \in state.open : Expired(state.pairs[id.pair], now)}
    IN  [state EXCEPT !.open = @ \ over,
           !.pairs = [i \in DOMAIN @ |->
              IF @[i].status = "ACTIVE" /\ \E id \in over : id.pair = i
                THEN [@[i] EXCEPT !.status = "EXPIRED"] ELSE @[i]]]

OpenOn(state, day) == {id \in state.open : state.pairs[id.pair].day = day}
Reserved(state, day) == ArmCost * Cardinality(OpenOn(state, day))

\* One trial of the plan is accepted when the day's budget still holds it.
Accept(state, candidate, now) ==
    LET amount == ArmCost * Cardinality(Arms)
        next == Len(state.pairs) + 1
    IN  IF state.spend[Day(now)] + Reserved(state, Day(now)) + amount > Limit THEN state
        ELSE [state EXCEPT
                !.open = @ \cup {Id(next, arm) : arm \in Arms},
                !.pairs = Append(@, [status |-> "ACTIVE", candidate |-> candidate,
                    day |-> Day(now), expires |-> now + DayLength,
                    settled |-> [arm \in {} |-> 0]])]

Reserve(state, op) ==
    LET upTo[n \in 0..Len(op.trials)] ==
            IF n = 0 THEN WithoutExpired(state, op.now)
            ELSE Accept(upTo[n - 1], op.trials[n], op.now)
    IN  [error |-> FALSE, state |-> upTo[Len(op.trials)]]

Model(state, id) ==
    IF id.arm = "candidate" THEN state.pairs[id.pair].candidate ELSE Incumbent

\* Mutation: the first settled arm completes its pair.
CompleteAtOnce(pair) == TRUE
AllSettled(pair) == DOMAIN pair.settled = Arms

\* record_outcome of an evaluation: the reservation is consumed, the cost booked on
\* the date of the outcome, the arm settled; the last arm completes the pair.  An
\* error leaves the callback in the middle, with the state half changed.
Settle(state, op) ==
    LET id == op.id
        pair == state.pairs[id.pair]
        key == <<Model(state, id), op.class>>
        booked == [state EXCEPT !.known = @ \cup {key}, !.open = @ \ {id},
                                !.spend[Day(op.now)] = @ + op.cost]
        settled == [pair EXCEPT !.settled = [arm \in DOMAIN @ \cup {id.arm} |->
                      IF arm = id.arm THEN [cost |-> op.cost, day |-> Day(op.now)]
                      ELSE @[arm]]]
        armDone == [booked EXCEPT !.pairs[id.pair] = settled]
        completed == [armDone EXCEPT
                        !.pairs[id.pair].status = "COMPLETED",
                        !.observations[pair.candidate] = @ + 1]
        Fails(s) == [error |-> TRUE, state |-> s]
        Works(s) == [error |-> FALSE, state |-> s]
    IN  IF id \notin state.open \/ Expired(pair, op.now) THEN Fails(state)
        ELSE IF pair.status # "ACTIVE" \/ id.arm \in DOMAIN pair.settled THEN Fails(booked)
        ELSE IF ~AllSettled(settled) THEN Works(armDone)
        ELSE IF <<pair.candidate, Asked>> \notin booked.known THEN Fails(armDone)
        ELSE Works(completed)

Result(state, op) == IF op.kind = "reserve" THEN Reserve(state, op) ELSE Settle(state, op)

-----------------------------------------------------------------------------
(* The callers                                                              *)

NoOp == [kind |-> "none"]
Idle == [pc |-> "idle", op |-> NoOp, loaded |-> Empty]

Moves(p, from, next) ==
    /\ at[p].pc = from /\ at' = [at EXCEPT ![p] = next]
    /\ UNCHANGED <<clock, calls>>
Calls(p, op) ==
    /\ at[p].pc = "idle" /\ calls < MaxCalls /\ calls' = calls + 1
    /\ at' = [at EXCEPT ![p].pc = "wait", ![p].op = op]
    /\ UNCHANGED <<clock, file, lock>>

\* plan_evaluation: candidates unknown to the state it loads without a lock, each in
\* planned_sample_count trials; the request's time is taken here.
Plan(p) ==
    \E candidates \in (SUBSET Candidates) \ {{}}, samples \in 1..2 :
        /\ Len(file.pairs) < MaxPairs
        /\ \A c \in candidates : file.observations[c] < Needed
        /\ Calls(p, [kind |-> "reserve", now |-> clock,
                      trials |-> [k \in 1..Cardinality(candidates) * samples |->
                                    SetToSeq(candidates)[((k - 1) \div samples) + 1]]])
\* An evaluator records the outcome of an arm that was reserved; the class is what it
\* passes, the time is taken before the lock.
RecordOutcome(p) ==
    \E i \in DOMAIN file.pairs, arm \in Arms, class \in Classes, cost \in Costs :
        Calls(p, [kind |-> "settle", now |-> clock, id |-> Id(i, arm),
                  class |-> class, cost |-> cost])
\* Mutation: the lock file is opened without O_EXCL.
AcquireShared(p) ==
    /\ Moves(p, "wait", [at[p] EXCEPT !.pc = "call", !.loaded = file])
    /\ lock' = p /\ UNCHANGED file
\* exclusive_lock, and mutate loads the file.
Acquire(p) ==
    /\ Moves(p, "wait", [at[p] EXCEPT !.pc = "call", !.loaded = file])
    /\ lock = "none" /\ lock' = p /\ UNCHANGED file
TimedOut(p) ==
    /\ lock # "none" /\ Moves(p, "wait", Idle) /\ UNCHANGED <<file, lock>>
\* mutate: the callback works on the loaded state and the result replaces the file; an
\* error in the callback leaves the file alone.
Write(p) ==
    LET result == Result(at[p].loaded, at[p].op)
    IN  /\ Moves(p, "call", [at[p] EXCEPT !.pc = "release", !.loaded = Empty])
        /\ file' = IF result.error THEN file ELSE result.state
        /\ UNCHANGED lock
Release(p) == Moves(p, "release", Idle) /\ lock' = "none" /\ UNCHANGED file

Crash(p) ==
    /\ at[p].pc \notin {"idle", "dead"}
    /\ Moves(p, at[p].pc, [Idle EXCEPT !.pc = "dead"]) /\ UNCHANGED <<file, lock>>
\* The operator removes the lock file of a process known to be dead.
Recover(p) ==
    /\ lock = p /\ lock' = "none" /\ Moves(p, "dead", Idle) /\ UNCHANGED file

Tick == clock < MaxClock /\ clock' = clock + 1 /\ UNCHANGED <<calls, file, lock, at>>

Init ==
    clock = 0 /\ calls = 0 /\ file = Empty /\ lock = "none" /\ at = [p \in Callers |-> Idle]
Next ==
    \/ Tick
    \/ \E p \in Callers :
          \/ Plan(p) \/ RecordOutcome(p) \/ Acquire(p) \/ TimedOut(p)
          \/ Write(p) \/ Release(p) \/ Crash(p) \/ Recover(p)
Spec == Init /\ [][Next]_vars

-----------------------------------------------------------------------------
(* Properties                                                               *)

\* The file becomes what one caller's operation makes of the file as it is.
AppliesOne ==
    \E p \in Callers : at[p].op.kind # "none" /\ file' = Result(file, at[p].op).state

\* No update is lost: whatever replaces the state file is the effect of one caller's
\* operation on the file as it is then, not as the caller once read it.
NoLostUpdate == [][file' # file => AppliesOne]_vars

\* An observation is evidence of a whole pair: a candidate has one for each pair whose
\* arms were all settled in time, however the arms, retries and errors interleave.
EvidenceIsPaired ==
    /\ \A c \in Candidates :
          file.observations[c] =
             Cardinality({i \in DOMAIN file.pairs :
                file.pairs[i].candidate = c /\ DOMAIN file.pairs[i].settled = Arms})
    /\ \A i \in DOMAIN file.pairs : \A arm \in Arms :
          file.pairs[i].status = "ACTIVE" =>
             (Id(i, arm) \in file.open <=> arm \notin DOMAIN file.pairs[i].settled)
=============================================================================
