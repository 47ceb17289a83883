------------------------- MODULE ArtifactAllocation -------------------------
(***************************************************************************)
(* The local registration authority: processes allocate human references   *)
(* to artifacts in one registry file under a lock file, and write the      *)
(* reference into the artifact's own file afterwards.  A process may die   *)
(* between any two steps; the lock file then stays until somebody removes  *)
(* it.                                                                     *)
(***************************************************************************)
EXTENDS Integers

CONSTANTS
    Processes,   \* callers of the tool
    Uids,        \* identities of artifacts
    None,        \* no reference, no registry, no expectation
    Absent,      \* an artifact without a file
    Draft,       \* an artifact's file without a reference
    MaxSequence  \* bound: references ever allocated

VARIABLES
    registry,    \* the file: None or allocations (sequence -> uid), next and revision
    locked,      \* the lock file exists
    artifact,    \* artifact[u]: its file: absent, a draft, or its reference
    at,          \* at[p]: where process p is, and its local variables
    given        \* history: the references a completed call ever returned for u

vars == <<registry, locked, artifact, at, given>>

Sequences == 1..MaxSequence
Documents == [allocations : [Sequences -> Uids \union {None}],
              next : 1..(MaxSequence + 1), revision : 0..MaxSequence]
ArtifactFiles == {Absent, Draft} \union Sequences

ASSUME AllocationAssumption ==
    /\ MaxSequence \in Nat \ {0}
    /\ None \notin Uids \union Sequences \union Documents
    /\ Absent \notin Sequences /\ Draft \notin Sequences /\ Absent # Draft

Idle == [pc |-> "idle", uid |-> None, read |-> Absent, expected |-> None, copy |-> None, ref |-> None]

\* Where a process is, what it read of the artifact's file and of the registry,
\* and the reference it has for its artifact.
Places == {"idle", "init", "lock", "load", "allocate", "save", "unlock", "finish"}
Calls ==
    [pc : Places, uid : Uids \union {None}, read : ArtifactFiles, expected : Nat \union {None},
     copy : Documents \union {None}, ref : Sequences \union {None}]

\* The shapes of the two files and of the processes.
TypeOK ==
    /\ registry \in Documents \union {None} /\ locked \in BOOLEAN
    /\ artifact \in [Uids -> ArtifactFiles]
    /\ at \in [Processes -> Calls]
    /\ given \in [Uids -> SUBSET Sequences]

Init ==
    /\ registry = None /\ locked = FALSE
    /\ artifact = [u \in Uids |-> Absent]
    /\ at = [p \in Processes |-> Idle] /\ given = [u \in Uids |-> {}]

InitialRegistry ==
    [allocations |-> [n \in Sequences |-> None], next |-> 1, revision |-> 0]

RefsOf(document, u) == {n \in Sequences : document.allocations[n] = u}

\* Mutation: a reference the registry already holds is not found again.
KnownNever(document, u) == {}

\* What allocate and cmd_register look up before they allocate.
Known(document, u) == RefsOf(document, u)

\* validate_registry: no identity has two references.
Valid(document) == \A u \in Uids : \A m, n \in RefsOf(document, u) : m = n

-----------------------------------------------------------------------------
\* cmd_init, under the lock and only if there is no file.
StartInit(p) ==
    /\ at[p].pc = "idle" /\ ~locked
    /\ locked' = TRUE /\ at' = [at EXCEPT ![p] = [Idle EXCEPT !.pc = "init"]]
    /\ UNCHANGED <<registry, artifact, given>>

WriteInit(p) ==
    /\ at[p].pc = "init"
    /\ registry' = IF registry = None THEN InitialRegistry ELSE registry
    /\ locked' = FALSE /\ at' = [at EXCEPT ![p] = Idle]
    /\ UNCHANGED <<artifact, given>>

\* cmd_new in DEFERRED mode: no lock, and whatever the artifact's file says is replaced.
Defer(p, u) ==
    /\ at[p].pc = "idle" /\ registry # None
    /\ artifact' = [artifact EXCEPT ![u] = Draft]
    /\ UNCHANGED <<registry, locked, at, given>>

\* A call that takes the lock next; a caller may state the revision it expects.
Call(p, u, file) ==
    /\ at[p].pc = "idle"
    /\ \E expected \in {None, IF registry = None THEN 0 ELSE registry.revision} :
          at' = [at EXCEPT ![p] = [Idle EXCEPT !.pc = "lock", !.uid = u, !.read = file,
                                               !.expected = expected]]
    /\ UNCHANGED <<registry, locked, artifact, given>>

\* cmd_new in DIRECT mode does not look at the artifact's file.
Direct(p, u) == Call(p, u, Absent)

\* cmd_register reads it before it takes the lock.
Register(p, u) == artifact[u] # Absent /\ Call(p, u, artifact[u])

\* Mutation: a lock file that exists is taken over.
LockAnyway(p) ==
    /\ at[p].pc = "lock" /\ locked' = TRUE /\ at' = [at EXCEPT ![p].pc = "load"]
    /\ UNCHANGED <<registry, artifact, given>>

Lock(p) ==
    /\ at[p].pc = "lock"
    /\ IF locked THEN at' = [at EXCEPT ![p] = Idle] /\ UNCHANGED locked
       ELSE locked' = TRUE /\ at' = [at EXCEPT ![p].pc = "load"]
    /\ UNCHANGED <<registry, artifact, given>>

Load(p) ==
    /\ at[p].pc = "load"
    /\ IF registry # None /\ Valid(registry) /\ at[p].expected \in {None, registry.revision}
       THEN at' = [at EXCEPT ![p].copy = registry, ![p].pc = "allocate"]
       ELSE at' = [at EXCEPT ![p].pc = "unlock"]
    /\ UNCHANGED <<registry, locked, artifact, given>>

Allocated(document, u) ==
    [allocations |-> [document.allocations EXCEPT ![document.next] = u],
     next |-> document.next + 1, revision |-> document.revision + 1]

\* A registered file is only compared, DIRECT refuses an identity that has a
\* reference, and register finds again the one a lost call allocated.
Allocate(p) ==
    LET me == at[p]  known == Known(me.copy, me.uid)
    IN /\ me.pc = "allocate"
       /\ \/ /\ me.read \in Sequences \/ (me.read = Absent /\ known # {})
             /\ at' = [at EXCEPT ![p].pc = "unlock"]
          \/ /\ me.read = Draft
             /\ \E n \in known : at' = [at EXCEPT ![p].ref = n, ![p].pc = "unlock"]
          \/ /\ me.read \notin Sequences /\ known = {} /\ me.copy.next \in Sequences
             /\ at' = [at EXCEPT ![p].copy = Allocated(me.copy, me.uid),
                                 ![p].ref = me.copy.next, ![p].pc = "save"]
    /\ UNCHANGED <<registry, locked, artifact, given>>

\* atomic_write_json of the registry
Save(p) ==
    /\ at[p].pc = "save"
    /\ registry' = at[p].copy /\ at' = [at EXCEPT ![p].pc = "unlock"]
    /\ UNCHANGED <<locked, artifact, given>>

\* The lock is released by removing the file, whoever created it; the call
\* ends here unless it has a reference to hand on.
Unlock(p) ==
    /\ at[p].pc = "unlock" /\ locked' = FALSE
    /\ at' = [at EXCEPT ![p] = IF at[p].ref = None THEN Idle ELSE [@ EXCEPT !.pc = "finish"]]
    /\ UNCHANGED <<registry, artifact, given>>

\* The artifact's file, after the lock is gone.
Finish(p) ==
    /\ at[p].pc = "finish"
    /\ artifact' = [artifact EXCEPT ![at[p].uid] = at[p].ref]
    /\ given' = [given EXCEPT ![at[p].uid] = @ \union {at[p].ref}]
    /\ at' = [at EXCEPT ![p] = Idle]
    /\ UNCHANGED <<registry, locked>>

\* The process dies; its lock file stays.
Crash(p) ==
    /\ at[p].pc # "idle" /\ at' = [at EXCEPT ![p] = Idle]
    /\ UNCHANGED <<registry, locked, artifact, given>>

\* Somebody removes the lock file of a dead process.
Holders == {p \in Processes : at[p].pc \in {"init", "load", "allocate", "save", "unlock"}}
RemoveLock ==
    /\ locked /\ Holders = {} /\ locked' = FALSE
    /\ UNCHANGED <<registry, artifact, at, given>>

Next ==
    \/ \E p \in Processes :
          \/ StartInit(p) \/ WriteInit(p) \/ Lock(p) \/ Load(p) \/ Allocate(p) \/ Save(p)
          \/ Unlock(p) \/ Finish(p) \/ Crash(p)
          \/ \E u \in Uids : Defer(p, u) \/ Direct(p, u) \/ Register(p, u)
    \/ RemoveLock

Spec == Init /\ [][Next]_vars

-----------------------------------------------------------------------------
\* An artifact never gets two references: whatever calls are repeated after a
\* crash, every call that returns one, and the artifact's file, name the one
\* reference the registry holds for it.
OneReferencePerArtifact ==
    \A u \in Uids :
        /\ \A m, n \in given[u] : m = n
        /\ given[u] # {} => registry # None /\ RefsOf(registry, u) = given[u]
        /\ artifact[u] \in Sequences => artifact[u] \in given[u]

\* A reference that was allocated is never given to another artifact, also
\* when the process that allocated it died before anybody learned of it.
ReferencesAreNotRecycled ==
    [][registry # None => \A n \in Sequences :
          registry.allocations[n] # None =>
              registry' # None /\ registry'.allocations[n] = registry.allocations[n]]_vars
=============================================================================
