---------------------------- MODULE Provisioning ----------------------------
(***************************************************************************)
(* host_preparation.py: an approved plan downloads one artifact, installs  *)
(* it at its target and verifies it, under a lock and a checkpoint of its  *)
(* own.  Callers die anywhere; the lock is flock's, so it dies with them,  *)
(* and the next call goes on from the checkpoint.  An artifact is the      *)
(* digest it is approved by.                                               *)
(***************************************************************************)
EXTENDS Naturals, FiniteSets

CONSTANTS
    Requests,      \* [artifact, runtime, target, limit, destinations, environment]
    Recipes,       \* [artifact, runtime, digest, size, destination, environment,
                   \*  install, idempotent]
    Callers,
    Nothing,       \* what an absent file contains
    Foreign,       \* what somebody else wrote
    MaxCalls       \* bound

\* validate_recipes: an install command must be one that needs no network, and a local
\* source has the destination NONE.
ProvisionAssumption ==
    /\ MaxCalls \in Nat /\ "none" \notin Callers
    /\ \A r \in Recipes : /\ {r.install, r.idempotent} \subseteq BOOLEAN
                          /\ r.digest \notin {Nothing, Foreign}

-----------------------------------------------------------------------------
(* Plans                                                                    *)

Matching(request) ==
    {r \in Recipes : r.artifact = request.artifact /\ r.runtime = request.runtime}
\* plan_provision: exactly one recipe, inside every limit and every authorization.
\* size stands for what is compared with a limit: transfer, disk, memory and cost.
Plannable(request) ==
    /\ Cardinality(Matching(request)) = 1
    /\ \A r \in Matching(request) :
          /\ r.size <= request.limit
          /\ r.destination = "NONE" \/ r.destination \in request.destinations
          /\ r.environment \subseteq request.environment
\* The plan is content-addressed: it is its request and its recipe.
Plans ==
    {[request |-> q, action |-> CHOOSE r \in Matching(q) : TRUE] :
        q \in {p \in Requests : Plannable(p)}}
Target(plan) == plan.request.target
Targets == {Target(plan) : plan \in Plans}

VARIABLES
    expired,       \* plans whose time, or whose approval's time, is over
    files,         \* what is at each target
    checkpoint,    \* the status of each plan, "none" before the first call
    staging,       \* the downloaded artifact of each plan
    lock,          \* who holds the lock of each plan, or "none"
    at,            \* what each caller is doing
    installs,      \* how often the installer of each plan was started
    calls

vars == <<expired, files, checkpoint, staging, lock, at, installs, calls>>

Verified(plan) == files[Target(plan)] = plan.action.digest
Terminal == {"COMPLETED", "FAILED", "MANUAL_REQUIRED"}

-----------------------------------------------------------------------------
(* provision                                                                *)

Out == [pc |-> "idle"]
In(plan, pc) == [pc |-> pc, plan |-> plan]

\* validate_plan and validate_approval refuse what is over; file_lock waits.
Call(c, plan) ==
    /\ at[c].pc = "idle" /\ calls < MaxCalls /\ plan \notin expired
    /\ at' = [at EXCEPT ![c] = In(plan, "wait")] /\ calls' = calls + 1
    /\ UNCHANGED <<expired, files, checkpoint, staging, lock, installs>>
LockTimeout(c) ==
    /\ at[c].pc = "wait" /\ lock[at[c].plan] # "none"
    /\ at' = [at EXCEPT ![c] = Out]
    /\ UNCHANGED <<expired, files, checkpoint, staging, lock, installs, calls>>
Lock(c) ==
    /\ at[c].pc = "wait" /\ lock[at[c].plan] = "none"
    /\ lock' = [lock EXCEPT ![at[c].plan] = c]
    /\ at' = [at EXCEPT ![c].pc = "load"]
    /\ UNCHANGED <<expired, files, checkpoint, staging, installs, calls>>

\* The lock is given back when the call returns a report, and when it raises.
Returns(c) ==
    at' = [at EXCEPT ![c] = Out] /\ lock' = [lock EXCEPT ![at[c].plan] = "none"]
Goes(c, pc) == at' = [at EXCEPT ![c].pc = pc] /\ UNCHANGED lock
Saves(c, status) == checkpoint' = [checkpoint EXCEPT ![at[c].plan] = status]

Load(c) ==
    /\ at[c].pc = "load"
    /\ IF checkpoint[at[c].plan] = "none" THEN Saves(c, "PREPARED") ELSE UNCHANGED checkpoint
    /\ Goes(c, "decide")
    /\ UNCHANGED <<expired, files, staging, installs, calls>>

Ambiguous(plan) ==
    /\ checkpoint[plan] = "IN_PROGRESS"
    /\ plan.action.install /\ ~plan.action.idempotent
\* Mutation: an interrupted installation is started again, whatever it is.
DecideBlindly(c) ==
    LET plan == at[c].plan
    IN  /\ at[c].pc = "decide" /\ files[Target(plan)] = Nothing
        /\ checkpoint[plan] \notin Terminal
        /\ Saves(c, "IN_PROGRESS") /\ Goes(c, "download")
        /\ UNCHANGED <<expired, files, staging, installs, calls>>
\* What the checkpoint and the target say; a foreign target or too little space raises,
\* which changes nothing.
Decide(c) ==
    LET plan == at[c].plan
    IN  /\ at[c].pc = "decide"
        /\ \/ checkpoint[plan] \in Terminal /\ Returns(c) /\ UNCHANGED checkpoint
           \/ Ambiguous(plan) /\ Saves(c, "MANUAL_REQUIRED") /\ Returns(c)
           \/ /\ checkpoint[plan] \notin Terminal /\ ~Ambiguous(plan)
              /\ \/ Verified(plan) /\ Saves(c, "COMPLETED") /\ Returns(c)
                 \/ ~Verified(plan) /\ Returns(c) /\ UNCHANGED checkpoint
                 \/ /\ files[Target(plan)] = Nothing
                    /\ Saves(c, "IN_PROGRESS") /\ Goes(c, "download")
        /\ UNCHANGED <<expired, files, staging, installs, calls>>

\* download: whatever goes wrong removes the staged bytes; a complete download has the
\* approved digest.
Download(c) ==
    /\ at[c].pc = "download"
    /\ \/ staging' = [staging EXCEPT ![at[c].plan] = at[c].plan.action.digest]
          /\ Goes(c, "install")
       \/ staging' = [staging EXCEPT ![at[c].plan] = Nothing] /\ Goes(c, "fail")
    /\ UNCHANGED <<expired, files, checkpoint, installs, calls>>

\* The reviewed installer writes the target, in part or completely, and may fail or be
\* killed by its timeout; without one the staged file is moved, over whatever is there.
Install(c) ==
    LET plan == at[c].plan
    IN  /\ at[c].pc = "install" /\ plan.action.install
        /\ installs' = [installs EXCEPT ![plan] = @ + 1]
        /\ \E content \in {files[Target(plan)], Foreign, plan.action.digest} :
              files' = [files EXCEPT ![Target(plan)] = content]
        /\ Goes(c, "verify") \/ Goes(c, "fail")
        /\ UNCHANGED <<expired, checkpoint, staging, calls>>
Move(c) ==
    LET plan == at[c].plan
    IN  /\ at[c].pc = "install" /\ ~plan.action.install
        /\ files' = [files EXCEPT ![Target(plan)] = staging[plan]]
        /\ staging' = [staging EXCEPT ![plan] = Nothing]
        /\ Goes(c, "verify")
        /\ UNCHANGED <<expired, checkpoint, installs, calls>>

\* The verify command of an installing plan is taken to tell the approved artifact from
\* others, as the comparison of digests does; it may also fail of itself.
Verify(c) ==
    LET plan == at[c].plan
    IN  /\ at[c].pc = "verify"
        /\ \/ Verified(plan) /\ Goes(c, "complete")
           \/ (~Verified(plan) \/ plan.action.install) /\ Goes(c, "fail")
    /\ UNCHANGED <<expired, files, checkpoint, staging, installs, calls>>

\* COMPLETED is saved after the staged bytes are removed, FAILED before.
Clean(c) ==
    /\ \/ at[c].pc = "complete" /\ Goes(c, "completed")
       \/ at[c].pc = "failed" /\ Returns(c)
    /\ staging' = [staging EXCEPT ![at[c].plan] = Nothing]
    /\ UNCHANGED <<expired, files, checkpoint, installs, calls>>
Finish(c) ==
    /\ \/ at[c].pc = "completed" /\ Saves(c, "COMPLETED") /\ Returns(c)
       \/ at[c].pc = "fail" /\ Saves(c, "FAILED") /\ Goes(c, "failed")
    /\ UNCHANGED <<expired, files, staging, installs, calls>>

Crash(c) ==
    /\ at[c].pc # "idle"
    /\ at' = [at EXCEPT ![c] = Out]
    /\ lock' = [p \in DOMAIN lock |-> IF lock[p] = c THEN "none" ELSE lock[p]]
    /\ UNCHANGED <<expired, files, checkpoint, staging, installs, calls>>

\* Time passes, and the user reconciles a target by removing it.
Expire(plan) ==
    /\ plan \notin expired /\ expired' = expired \cup {plan}
    /\ UNCHANGED <<files, checkpoint, staging, lock, at, installs, calls>>
Reconcile(t) ==
    /\ files[t] = Foreign /\ files' = [files EXCEPT ![t] = Nothing]
    /\ UNCHANGED <<expired, checkpoint, staging, lock, at, installs, calls>>

Init ==
    /\ expired = {} /\ calls = 0
    /\ files \in [Targets -> {Nothing, Foreign}]
    /\ checkpoint = [p \in Plans |-> "none"] /\ staging = [p \in Plans |-> Nothing]
    /\ lock = [p \in Plans |-> "none"] /\ installs = [p \in Plans |-> 0]
    /\ at = [c \in Callers |-> Out]
Works(c) ==
    \/ \E plan \in Plans : Call(c, plan)
    \/ LockTimeout(c) \/ Lock(c) \/ Load(c) \/ Decide(c) \/ Download(c) \/ Install(c)
    \/ Move(c) \/ Verify(c) \/ Clean(c) \/ Finish(c) \/ Crash(c)
Next ==
    \/ \E c \in Callers : Works(c)
    \/ \E plan \in Plans : Expire(plan)
    \/ \E t \in Targets : Reconcile(t)
Spec == Init /\ [][Next]_vars

-----------------------------------------------------------------------------
(* Properties                                                               *)

\* An installer that is not idempotent is started once for its plan, whatever callers
\* die in between and whoever calls again.
InstallerNeverReplayed ==
    \A p \in Plans : ~p.action.idempotent => installs[p] <= 1
=============================================================================
