---------------------- MODULE ArtifactAllocation_proofs ----------------------
(***************************************************************************)
(* An artifact never gets two references and a reference is never given    *)
(* twice, for any number of processes and artifacts.  The argument: at     *)
(* most one process is between taking the lock and releasing it, so the    *)
(* copy it works on is the registry, and what it writes back adds one      *)
(* allocation at a sequence number that nobody has.                        *)
(***************************************************************************)
EXTENDS ArtifactAllocation, TLAPS

Holding(p) == at[p].pc \in {"init", "load", "allocate", "save", "unlock"}

\* Dead processes leave the lock file behind, but nobody works beside another.
LockInv ==
    /\ \A p \in Processes : Holding(p) => locked
    /\ \A p, q \in Processes : Holding(p) /\ Holding(q) => p = q

\* The registry is filled in the order of the sequence numbers.
RegistryInv ==
    registry # None =>
        /\ registry.revision = registry.next - 1
        /\ \A n \in Sequences : n >= registry.next => registry.allocations[n] = None
        /\ Valid(registry)

\* What a process knows is still true when it uses it.
WorkInv ==
    \A p \in Processes :
        /\ at[p].pc \notin {"idle", "init"} => at[p].uid \in Uids
        /\ at[p].pc \in {"lock", "load", "allocate"} => at[p].ref = None
        /\ at[p].pc = "allocate" => registry # None /\ at[p].copy = registry
        /\ at[p].pc = "save" =>
              /\ registry # None /\ RefsOf(registry, at[p].uid) = {}
              /\ registry.next \in Sequences /\ at[p].ref = registry.next
              /\ at[p].copy = Allocated(registry, at[p].uid)
        /\ at[p].pc \in {"unlock", "finish"} /\ at[p].ref # None =>
              registry # None /\ RefsOf(registry, at[p].uid) = {at[p].ref}
        /\ at[p].pc = "finish" => at[p].ref # None

IInv == TypeOK /\ LockInv /\ RegistryInv /\ WorkInv /\ OneReferencePerArtifact

-----------------------------------------------------------------------------
(* The registry as a value                                                  *)

\* An allocation gives the artifact the next reference and leaves the others theirs.
LEMMA AllocatedRefs ==
    ASSUME NEW d \in Documents, d.next \in Sequences, d.allocations[d.next] = None,
           NEW u \in Uids, NEW v \in Uids
    PROVE  RefsOf(Allocated(d, u), v) =
               IF v = u THEN RefsOf(d, v) \union {d.next} ELSE RefsOf(d, v)
<1>1. /\ d.allocations \in [Sequences -> Uids \union {None}]
      /\ None \notin Uids
  BY AllocationAssumption DEF Documents
<1>2. \A n \in Sequences : Allocated(d, u).allocations[n] =
                               IF n = d.next THEN u ELSE d.allocations[n]
  BY <1>1 DEF Allocated
<1>3. d.next \notin RefsOf(d, v)
  BY <1>1 DEF RefsOf
<1> QED
  BY <1>1, <1>2, <1>3 DEF RefsOf

\* An allocation from a registry filled in order is such a registry again.
LEMMA AllocatedDocument ==
    ASSUME NEW d \in Documents, d.next \in Sequences, NEW u \in Uids,
           d.revision = d.next - 1,
           \A n \in Sequences : n >= d.next => d.allocations[n] = None
    PROVE  /\ Allocated(d, u) \in Documents
           /\ Allocated(d, u).revision = Allocated(d, u).next - 1
           /\ \A n \in Sequences : n >= Allocated(d, u).next => Allocated(d, u).allocations[n] = None
           /\ \A n \in Sequences : d.allocations[n] # None =>
                 Allocated(d, u).allocations[n] = d.allocations[n]
<1>1. /\ d.allocations \in [Sequences -> Uids \union {None}]
      /\ d.next \in 1..(MaxSequence + 1) /\ d.revision \in 0..MaxSequence
      /\ MaxSequence \in Nat \ {0} /\ d.next \in 1..MaxSequence
  BY AllocationAssumption DEF Documents, Sequences
<1>2. /\ Allocated(d, u).allocations = [d.allocations EXCEPT ![d.next] = u]
      /\ Allocated(d, u).next = d.next + 1
      /\ Allocated(d, u).revision = d.revision + 1
  BY DEF Allocated
<1>3. Allocated(d, u) \in Documents
  BY <1>1 DEF Allocated, Documents
<1>4. \A n \in Sequences : n >= d.next + 1 => Allocated(d, u).allocations[n] = None
  BY <1>1, <1>2 DEF Sequences
<1>5. \A n \in Sequences : d.allocations[n] # None =>
          Allocated(d, u).allocations[n] = d.allocations[n]
  BY <1>1, <1>2 DEF Sequences
<1> QED
  BY <1>1, <1>2, <1>3, <1>4, <1>5

LEMMA InitialDocument ==
    /\ InitialRegistry \in Documents
    /\ InitialRegistry.revision = InitialRegistry.next - 1
    /\ \A n \in Sequences : InitialRegistry.allocations[n] = None
    /\ Valid(InitialRegistry)
<1>1. /\ InitialRegistry \in Documents
      /\ InitialRegistry.revision = InitialRegistry.next - 1
      /\ \A n \in Sequences : InitialRegistry.allocations[n] = None
  BY AllocationAssumption DEF InitialRegistry, Documents, Sequences
<1>2. \A u \in Uids : RefsOf(InitialRegistry, u) = {}
  BY <1>1, AllocationAssumption DEF RefsOf
<1> QED
  BY <1>1, <1>2 DEF Valid

-----------------------------------------------------------------------------
(* The inductive invariant                                                  *)

LEMMA IdleCall == Idle \in Calls
  BY AllocationAssumption DEF Idle, Calls, Places, ArtifactFiles

LEMMA InitIInv == Init => IInv
<1> SUFFICES ASSUME Init PROVE IInv
  OBVIOUS
<1>1. TypeOK
  BY IdleCall DEF Init, TypeOK, ArtifactFiles
<1>2. \A p \in Processes : at[p].pc = "idle"
  BY DEF Init, Idle
<1>3. LockInv /\ RegistryInv /\ WorkInv
  BY <1>2 DEF Init, LockInv, RegistryInv, WorkInv, Holding
<1>4. OneReferencePerArtifact
  BY AllocationAssumption DEF Init, OneReferencePerArtifact
<1> QED
  BY <1>1, <1>3, <1>4 DEF IInv

\* The steps that touch neither file, and give nothing away.
LEMMA QuietFiles ==
    ASSUME IInv, UNCHANGED <<registry, artifact, given>>
    PROVE  RegistryInv' /\ OneReferencePerArtifact'
BY DEF IInv, RegistryInv, OneReferencePerArtifact, Valid, RefsOf

\* What the others know stays true as long as the registry does.
LEMMA QuietOthers ==
    ASSUME IInv, NEW p \in Processes, UNCHANGED registry,
           \A q \in Processes : q # p => at'[q] = at[q]
    PROVE  \A q \in Processes \ {p} :
               /\ at'[q].pc \notin {"idle", "init"} => at'[q].uid \in Uids
               /\ at'[q].pc \in {"lock", "load", "allocate"} => at'[q].ref = None
               /\ at'[q].pc = "allocate" => registry' # None /\ at'[q].copy = registry'
               /\ at'[q].pc = "save" =>
                     /\ registry' # None /\ RefsOf(registry', at'[q].uid) = {}
                     /\ registry'.next \in Sequences /\ at'[q].ref = registry'.next
                     /\ at'[q].copy = Allocated(registry', at'[q].uid)
               /\ at'[q].pc \in {"unlock", "finish"} /\ at'[q].ref # None =>
                     registry' # None /\ RefsOf(registry', at'[q].uid) = {at'[q].ref}
               /\ at'[q].pc = "finish" => at'[q].ref # None
BY DEF IInv, WorkInv

\* A process that goes to "idle" knows nothing.
LEMMA GoesIdle ==
    ASSUME IInv, NEW p \in Processes, at' = [at EXCEPT ![p] = Idle],
           locked' \in BOOLEAN, UNCHANGED <<registry, artifact, given>>,
           \A q \in Processes : q # p /\ Holding(q) => locked'
    PROVE  IInv'
<1>1. /\ at'[p] = Idle /\ at'[p].pc = "idle"
      /\ \A q \in Processes : q # p => at'[q] = at[q]
  BY DEF IInv, TypeOK, Idle
<1>2. TypeOK'
  BY IdleCall DEF IInv, TypeOK
<1>3. LockInv'
  BY <1>1 DEF IInv, LockInv, Holding
<1>4. WorkInv'
  <2>1. at'[p].pc = "idle"
    BY <1>1
  <2> QED
    BY <1>1, <2>1, QuietOthers DEF WorkInv
<1> QED
  BY <1>2, <1>3, <1>4, QuietFiles DEF IInv

\* A process that takes up a call, goes on with it or takes the lock.
LEMMA CallStep ==
    ASSUME IInv, NEW p \in Processes, NEW u \in Uids, NEW file \in ArtifactFiles,
           Call(p, u, file)
    PROVE  IInv'
<1>1. PICK expected \in {None, IF registry = None THEN 0 ELSE registry.revision} :
          at' = [at EXCEPT ![p] = [Idle EXCEPT !.pc = "lock", !.uid = u, !.read = file,
                                               !.expected = expected]]
  BY DEF Call
<1>2. UNCHANGED <<registry, locked, artifact, given>> /\ at[p].pc = "idle"
  BY DEF Call
<1>3. expected \in Nat \union {None}
  BY <1>1 DEF IInv, TypeOK, Documents
<1>4. /\ at'[p] = [pc |-> "lock", uid |-> u, read |-> file, expected |-> expected,
                   copy |-> None, ref |-> None]
      /\ \A q \in Processes : q # p => at'[q] = at[q]
  BY <1>1 DEF IInv, TypeOK, Idle
<1>5. TypeOK'
  <2>1. at'[p] \in Calls
    BY <1>3, <1>4 DEF Calls, Places
  <2> QED
    BY <1>1, <1>2, <1>4, <2>1 DEF IInv, TypeOK
<1>6. LockInv'
  BY <1>2, <1>4 DEF IInv, LockInv, Holding
<1>7. WorkInv'
  BY <1>2, <1>4, QuietOthers DEF WorkInv
<1> QED
  BY <1>2, <1>5, <1>6, <1>7, QuietFiles DEF IInv

LEMMA LockStep ==
    ASSUME IInv, NEW p \in Processes, Lock(p)
    PROVE  IInv'
<1>1. CASE locked
  <2>1. at' = [at EXCEPT ![p] = Idle] /\ UNCHANGED <<registry, locked, artifact, given>>
    BY <1>1 DEF Lock
  <2> QED
    BY <1>1, <2>1, GoesIdle DEF IInv, TypeOK
<1>2. CASE ~locked
  <2>1. /\ at[p].pc = "lock" /\ at' = [at EXCEPT ![p].pc = "load"] /\ locked'
        /\ UNCHANGED <<registry, artifact, given>>
    BY <1>2 DEF Lock
  <2>2. /\ at'[p] = [at[p] EXCEPT !.pc = "load"] /\ at[p] \in Calls
        /\ \A q \in Processes : q # p => at'[q] = at[q]
    BY <2>1 DEF IInv, TypeOK
  <2>3. TypeOK'
    BY <2>1, <1>2 DEF IInv, TypeOK, Calls, Places, Lock
  <2>4. LockInv'
    BY <1>2, <2>1, <2>2 DEF IInv, LockInv, Holding, Calls
  <2>5. WorkInv'
    <3>1. at'[p].pc = "load" /\ at'[p].uid = at[p].uid /\ at'[p].ref = at[p].ref
      BY <2>2 DEF Calls
    <3> QED
      BY <2>1, <2>2, <3>1, QuietOthers DEF IInv, WorkInv
  <2> QED
    BY <2>1, <2>3, <2>4, <2>5, QuietFiles DEF IInv
<1> QED
  BY <1>1, <1>2

LEMMA LoadStep ==
    ASSUME IInv, NEW p \in Processes, Load(p)
    PROVE  IInv'
<1>1. at[p].pc = "load" /\ UNCHANGED <<registry, locked, artifact, given>>
  BY DEF Load
<1>2. \/ registry # None /\ at' = [at EXCEPT ![p].copy = registry, ![p].pc = "allocate"]
      \/ at' = [at EXCEPT ![p].pc = "unlock"]
  BY DEF Load
<1>3. /\ \/ registry # None /\ at'[p] = [at[p] EXCEPT !.copy = registry, !.pc = "allocate"]
         \/ at'[p] = [at[p] EXCEPT !.pc = "unlock"]
      /\ at[p] \in Calls
      /\ \A q \in Processes : q # p => at'[q] = at[q]
  BY <1>2 DEF IInv, TypeOK
<1>4. TypeOK'
  <2>1. at'[p] \in Calls
    BY <1>3 DEF IInv, TypeOK, Calls, Places
  <2>2. at' \in [Processes -> Calls]
    BY <1>2, <2>1, <1>3 DEF IInv, TypeOK
  <2> QED
    BY <1>1, <2>2 DEF IInv, TypeOK
<1>5. at'[p].pc \in {"allocate", "unlock"} /\ at'[p].uid = at[p].uid /\ at'[p].ref = at[p].ref
  BY <1>3 DEF Calls
<1>6. LockInv'
  BY <1>1, <1>3, <1>5 DEF IInv, LockInv, Holding
<1>7. WorkInv'
  <2>1. at[p].uid \in Uids /\ at[p].ref = None
    BY <1>1 DEF IInv, WorkInv
  <2>2. at'[p].pc = "allocate" => registry' # None /\ at'[p].copy = registry'
    BY <1>1, <1>3 DEF Calls
  <2> QED
    BY <1>1, <1>3, <1>5, <2>1, <2>2, QuietOthers DEF WorkInv
<1> QED
  BY <1>1, <1>4, <1>6, <1>7, QuietFiles DEF IInv

\* A process decides about its copy: another call ends, or it has a reference
\* for its artifact, an old or a new one.
LEMMA AllocateStep ==
    ASSUME IInv, NEW p \in Processes, Allocate(p)
    PROVE  IInv'
<1> DEFINE me == at[p]
<1>1. /\ me.pc = "allocate" /\ UNCHANGED <<registry, locked, artifact, given>>
      /\ me \in Calls /\ me.uid \in Uids /\ me.ref = None
      /\ registry # None /\ me.copy = registry /\ registry \in Documents
  BY DEF Allocate, IInv, TypeOK, WorkInv
<1>2. \/ at' = [at EXCEPT ![p].pc = "unlock"]
      \/ \E n \in RefsOf(registry, me.uid) : at' = [at EXCEPT ![p].ref = n, ![p].pc = "unlock"]
      \/ /\ RefsOf(registry, me.uid) = {} /\ registry.next \in Sequences
         /\ at' = [at EXCEPT ![p].copy = Allocated(registry, me.uid),
                             ![p].ref = registry.next, ![p].pc = "save"]
  BY <1>1 DEF Allocate, Known
<1>3. \A q \in Processes : q # p => at'[q] = at[q]
  BY <1>2 DEF IInv, TypeOK
<1> SUFFICES TypeOK' /\ at'[p].pc \in {"unlock", "save"}
             /\ ( /\ at'[p].uid \in Uids
                  /\ at'[p].pc = "save" =>
                        /\ registry # None /\ RefsOf(registry, at'[p].uid) = {}
                        /\ registry.next \in Sequences /\ at'[p].ref = registry.next
                        /\ at'[p].copy = Allocated(registry, at'[p].uid)
                  /\ at'[p].pc = "unlock" /\ at'[p].ref # None =>
                        registry # None /\ RefsOf(registry, at'[p].uid) = {at'[p].ref} )
  <2>1. LockInv'
    BY <1>1, <1>3 DEF IInv, LockInv, Holding
  <2>2. WorkInv'
    BY <1>1, <1>3, QuietOthers DEF WorkInv, RefsOf, Allocated
  <2> QED
    BY <1>1, <2>1, <2>2, QuietFiles DEF IInv
<1>4. CASE at' = [at EXCEPT ![p].pc = "unlock"]
  <2>1. at'[p] = [me EXCEPT !.pc = "unlock"]
    BY <1>4 DEF IInv, TypeOK
  <2>2. at'[p] \in Calls
    BY <1>1, <2>1 DEF Calls, Places
  <2> QED
    BY <1>1, <1>3, <1>4, <2>1, <2>2 DEF IInv, TypeOK, Calls
<1>5. ASSUME NEW n \in RefsOf(registry, me.uid),
             at' = [at EXCEPT ![p].ref = n, ![p].pc = "unlock"]
      PROVE  /\ TypeOK' /\ at'[p].pc = "unlock" /\ at'[p].uid = me.uid /\ at'[p].ref = n
             /\ RefsOf(registry, me.uid) = {n}
  <2>1. at'[p] = [me EXCEPT !.ref = n, !.pc = "unlock"] /\ n \in Sequences
    BY <1>5 DEF IInv, TypeOK, RefsOf
  <2>2. at'[p] \in Calls /\ at'[p].pc = "unlock" /\ at'[p].uid = me.uid /\ at'[p].ref = n
    BY <1>1, <2>1 DEF Calls, Places
  <2>3. RefsOf(registry, me.uid) = {n}
    BY <1>1 DEF IInv, RegistryInv, Valid
  <2> QED
    BY <1>1, <1>5, <2>2, <2>3 DEF IInv, TypeOK
<1>6. ASSUME RefsOf(registry, me.uid) = {}, registry.next \in Sequences,
             at' = [at EXCEPT ![p].copy = Allocated(registry, me.uid),
                              ![p].ref = registry.next, ![p].pc = "save"]
      PROVE  /\ TypeOK' /\ at'[p].pc = "save" /\ at'[p].uid = me.uid
             /\ at'[p].ref = registry.next /\ at'[p].copy = Allocated(registry, me.uid)
  <2>1. at'[p] = [me EXCEPT !.copy = Allocated(registry, me.uid), !.ref = registry.next,
                            !.pc = "save"]
    BY <1>6 DEF IInv, TypeOK
  <2>2. Allocated(registry, me.uid) \in Documents
    BY <1>1, <1>6, AllocatedDocument DEF IInv, RegistryInv
  <2>3. at'[p] = [pc |-> "save", uid |-> me.uid, read |-> me.read, expected |-> me.expected,
                  copy |-> Allocated(registry, me.uid), ref |-> registry.next]
    BY <1>1, <2>1 DEF Calls
  <2>4. /\ at'[p] \in Calls /\ at'[p].pc = "save" /\ at'[p].uid = me.uid
        /\ at'[p].ref = registry.next /\ at'[p].copy = Allocated(registry, me.uid)
    BY <1>1, <1>6, <2>2, <2>3 DEF Calls, Places
  <2> QED
    BY <1>1, <1>6, <2>4 DEF IInv, TypeOK
<1> QED
  BY <1>1, <1>2, <1>4, <1>5, <1>6

\* The registry is replaced by the copy; nobody else works on a copy, and the
\* references the others have found are still the only ones of their artifacts.
LEMMA SaveStep ==
    ASSUME IInv, NEW p \in Processes, Save(p)
    PROVE  /\ IInv'
           /\ registry' # None
           /\ \A n \in Sequences : registry.allocations[n] # None =>
                 registry'.allocations[n] = registry.allocations[n]
<1> DEFINE me == at[p]
<1>1. /\ me.pc = "save" /\ at' = [at EXCEPT ![p].pc = "unlock"]
      /\ registry' = me.copy /\ UNCHANGED <<locked, artifact, given>>
  BY DEF Save
<1>2. /\ registry # None /\ RefsOf(registry, me.uid) = {} /\ me.uid \in Uids
      /\ registry.next \in Sequences /\ me.ref = registry.next
      /\ registry' = Allocated(registry, me.uid) /\ registry \in Documents
      /\ me \in Calls
  BY <1>1 DEF IInv, TypeOK, WorkInv
<1>3. /\ registry.revision = registry.next - 1
      /\ \A n \in Sequences : n >= registry.next => registry.allocations[n] = None
      /\ registry.allocations[registry.next] = None
  <2>1. registry.next >= registry.next
    BY <1>2 DEF Documents, Sequences, AllocationAssumption
  <2> QED
    BY <1>2, <2>1 DEF IInv, RegistryInv
<1>4. /\ registry' \in Documents /\ registry' # None
      /\ registry'.revision = registry'.next - 1
      /\ \A n \in Sequences : n >= registry'.next => registry'.allocations[n] = None
      /\ \A n \in Sequences : registry.allocations[n] # None =>
            registry'.allocations[n] = registry.allocations[n]
  BY <1>2, <1>3, AllocatedDocument, AllocationAssumption
<1>5. \A v \in Uids : RefsOf(registry', v) =
          IF v = me.uid THEN {me.ref} ELSE RefsOf(registry, v)
  BY <1>2, <1>3, AllocatedRefs
<1>6. /\ at'[p] = [me EXCEPT !.pc = "unlock"]
      /\ \A q \in Processes : q # p => at'[q] = at[q]
  BY <1>1 DEF IInv, TypeOK
<1>7. at'[p] \in Calls /\ at'[p].pc = "unlock" /\ at'[p].uid = me.uid /\ at'[p].ref = me.ref
  BY <1>2, <1>6 DEF Calls, Places
<1>8. TypeOK'
  BY <1>1, <1>4, <1>7 DEF IInv, TypeOK
<1>9. LockInv'
  BY <1>1, <1>6, <1>7 DEF IInv, LockInv, Holding
<1>10. RegistryInv'
  <2>1. Valid(registry)
    BY <1>2 DEF IInv, RegistryInv
  <2>2. Valid(registry')
    BY <1>5, <2>1 DEF Valid
  <2> QED
    BY <1>4, <2>2 DEF RegistryInv
<1>11. WorkInv'
  <2>1. ASSUME NEW q \in Processes, q # p
        PROVE  /\ at'[q] = at[q] /\ at[q].pc \notin {"allocate", "save"}
               /\ at[q].pc \in {"unlock", "finish"} /\ at[q].ref # None =>
                     RefsOf(registry', at[q].uid) = {at[q].ref}
    <3>1. at'[q] = at[q] /\ at[q].pc \notin {"allocate", "save"}
      BY <1>1, <1>6, <2>1 DEF IInv, LockInv, Holding
    <3>2. ASSUME at[q].pc \in {"unlock", "finish"}, at[q].ref # None
          PROVE  RefsOf(registry', at[q].uid) = {at[q].ref}
      <4>1. at[q].uid \in Uids /\ RefsOf(registry, at[q].uid) = {at[q].ref}
        BY <3>2 DEF IInv, WorkInv
      <4>2. at[q].uid # me.uid
        BY <1>2, <4>1
      <4> QED
        BY <1>5, <4>1, <4>2
    <3> QED
      BY <3>1, <3>2
  <2>2. RefsOf(registry', me.uid) = {me.ref}
    BY <1>2, <1>5
  <2>3. ASSUME NEW q \in Processes, q # p
        PROVE  /\ at'[q].pc \notin {"idle", "init"} => at'[q].uid \in Uids
               /\ at'[q].pc \in {"lock", "load", "allocate"} => at'[q].ref = None
               /\ at'[q].pc \notin {"allocate", "save"}
               /\ at'[q].pc \in {"unlock", "finish"} /\ at'[q].ref # None =>
                     registry' # None /\ RefsOf(registry', at'[q].uid) = {at'[q].ref}
               /\ at'[q].pc = "finish" => at'[q].ref # None
    BY <1>4, <2>1, <2>3 DEF IInv, WorkInv
  <2> QED
    BY <1>2, <1>4, <1>7, <2>2, <2>3 DEF WorkInv
<1>12. OneReferencePerArtifact'
  <2>1. given[me.uid] = {}
    BY <1>2 DEF IInv, OneReferencePerArtifact
  <2> QED
    BY <1>1, <1>2, <1>4, <1>5, <2>1 DEF IInv, OneReferencePerArtifact
<1> QED
  BY <1>4, <1>8, <1>9, <1>10, <1>11, <1>12 DEF IInv

LEMMA UnlockStep ==
    ASSUME IInv, NEW p \in Processes, Unlock(p)
    PROVE  IInv'
<1>1. at[p].pc = "unlock" /\ locked' = FALSE /\ UNCHANGED <<registry, artifact, given>>
  BY DEF Unlock
<1>2. \A q \in Processes : q # p => ~Holding(q)
  BY <1>1 DEF IInv, LockInv, Holding
<1>3. CASE at[p].ref = None
  <2>1. at' = [at EXCEPT ![p] = Idle]
    BY <1>3 DEF Unlock
  <2> QED
    BY <1>1, <1>2, <2>1, GoesIdle
<1>4. CASE at[p].ref # None
  <2>1. at' = [at EXCEPT ![p] = [@ EXCEPT !.pc = "finish"]]
    BY <1>4 DEF Unlock
  <2>2. /\ at'[p] = [at[p] EXCEPT !.pc = "finish"] /\ at[p] \in Calls
        /\ \A q \in Processes : q # p => at'[q] = at[q]
    BY <2>1 DEF IInv, TypeOK
  <2>3. at'[p] \in Calls /\ at'[p].pc = "finish" /\ at'[p].uid = at[p].uid /\ at'[p].ref = at[p].ref
    BY <2>2 DEF Calls, Places
  <2>4. TypeOK'
    BY <1>1, <2>1, <2>3 DEF IInv, TypeOK
  <2>5. LockInv'
    BY <1>2, <2>2, <2>3 DEF LockInv, Holding
  <2>6. WorkInv'
    <3>1. /\ at[p].uid \in Uids /\ registry # None
          /\ RefsOf(registry, at[p].uid) = {at[p].ref}
      BY <1>1, <1>4 DEF IInv, WorkInv
    <3> QED
      BY <1>1, <1>4, <2>2, <2>3, <3>1, QuietOthers DEF WorkInv
  <2> QED
    BY <1>1, <2>4, <2>5, <2>6, QuietFiles DEF IInv
<1> QED
  BY <1>3, <1>4

\* The artifact's file gets the reference the registry holds for it.
LEMMA FinishStep ==
    ASSUME IInv, NEW p \in Processes, Finish(p)
    PROVE  IInv'
<1> DEFINE u == at[p].uid
           r == at[p].ref
<1>1. /\ at[p].pc = "finish" /\ at' = [at EXCEPT ![p] = Idle]
      /\ artifact' = [artifact EXCEPT ![u] = r]
      /\ given' = [given EXCEPT ![u] = @ \union {r}]
      /\ UNCHANGED <<registry, locked>>
  BY DEF Finish
<1>2. /\ u \in Uids /\ r # None /\ r \in Sequences
      /\ registry # None /\ RefsOf(registry, u) = {r}
  <2>1. at[p] \in Calls
    BY DEF IInv, TypeOK
  <2> QED
    BY <1>1, <2>1 DEF IInv, WorkInv, Calls
<1>3. /\ at'[p] = Idle /\ at'[p].pc = "idle"
      /\ \A q \in Processes : q # p => at'[q] = at[q]
  BY <1>1 DEF IInv, TypeOK, Idle
<1>4. TypeOK'
  BY <1>1, <1>2, IdleCall DEF IInv, TypeOK, ArtifactFiles
<1>5. LockInv'
  BY <1>1, <1>3 DEF IInv, LockInv, Holding
<1>6. RegistryInv'
  BY <1>1 DEF IInv, RegistryInv, Valid, RefsOf
<1>7. WorkInv'
  BY <1>1, <1>3, QuietOthers DEF WorkInv
<1>8. OneReferencePerArtifact'
  <2>1. given[u] \subseteq {r}
    BY <1>2 DEF IInv, OneReferencePerArtifact
  <2>2. /\ given'[u] = {r} /\ artifact'[u] = r
        /\ \A v \in Uids : v # u => given'[v] = given[v] /\ artifact'[v] = artifact[v]
    BY <1>1, <1>2, <2>1 DEF IInv, TypeOK
  <2>3. \A v \in Uids : RefsOf(registry', v) = RefsOf(registry, v)
    BY <1>1
  <2> QED
    BY <1>1, <1>2, <2>2, <2>3 DEF IInv, OneReferencePerArtifact
<1> QED
  BY <1>4, <1>5, <1>6, <1>7, <1>8 DEF IInv

\* cmd_init takes the lock, and writes an empty registry only where none is.
LEMMA InitSteps ==
    ASSUME IInv, NEW p \in Processes, StartInit(p) \/ WriteInit(p)
    PROVE  IInv' /\ (registry # None => registry' = registry)
<1>1. CASE StartInit(p)
  <2>1. /\ ~locked /\ locked' /\ at' = [at EXCEPT ![p] = [Idle EXCEPT !.pc = "init"]]
        /\ locked' \in BOOLEAN /\ UNCHANGED <<registry, artifact, given>>
    BY <1>1 DEF StartInit
  <2>2. /\ at'[p] = [Idle EXCEPT !.pc = "init"]
        /\ \A q \in Processes : q # p => at'[q] = at[q]
    BY <2>1 DEF IInv, TypeOK
  <2>3. at'[p] \in Calls /\ at'[p].pc = "init"
    BY <2>2, IdleCall DEF Calls, Places, Idle
  <2>4. TypeOK'
    BY <2>1, <2>3 DEF IInv, TypeOK
  <2>5. LockInv'
    BY <2>1, <2>2 DEF IInv, LockInv, Holding
  <2>6. WorkInv'
    BY <2>1, <2>2, <2>3, QuietOthers DEF WorkInv
  <2> QED
    BY <2>1, <2>4, <2>5, <2>6, QuietFiles DEF IInv
<1>2. CASE WriteInit(p)
  <2>1. /\ at[p].pc = "init" /\ locked' = FALSE /\ at' = [at EXCEPT ![p] = Idle]
        /\ UNCHANGED <<artifact, given>>
        /\ registry' = IF registry = None THEN InitialRegistry ELSE registry
    BY <1>2 DEF WriteInit
  <2>2. \A q \in Processes : q # p => ~Holding(q)
    BY <2>1 DEF IInv, LockInv, Holding
  <2>3. CASE registry # None
    BY <2>1, <2>2, <2>3, GoesIdle
  <2>4. CASE registry = None
    <3>1. registry' = InitialRegistry /\ registry' \in Documents /\ registry' # None
      BY <2>1, <2>4, InitialDocument, AllocationAssumption
    <3>2. /\ at'[p] = Idle /\ at'[p].pc = "idle"
          /\ \A q \in Processes : q # p => at'[q] = at[q]
      BY <2>1 DEF IInv, TypeOK, Idle
    <3>3. TypeOK'
      BY <2>1, <3>1, IdleCall DEF IInv, TypeOK
    <3>4. LockInv'
      BY <2>2, <3>2 DEF LockInv, Holding
    <3>5. RegistryInv'
      BY <3>1, InitialDocument DEF RegistryInv
    <3>6. WorkInv'
      BY <2>2, <2>4, <3>2 DEF IInv, WorkInv, Holding
    <3>7. OneReferencePerArtifact'
      BY <2>1, <2>4, <3>1 DEF IInv, OneReferencePerArtifact
    <3> QED
      BY <2>4, <3>3, <3>4, <3>5, <3>6, <3>7 DEF IInv
  <2> QED
    BY <2>3, <2>4
<1> QED
  BY <1>1, <1>2

LEMMA DeferStep ==
    ASSUME IInv, NEW p \in Processes, NEW u \in Uids, Defer(p, u)
    PROVE  IInv'
<1>1. /\ artifact' = [artifact EXCEPT ![u] = Draft]
      /\ UNCHANGED <<registry, locked, at, given>>
  BY DEF Defer
<1>2. TypeOK'
  BY <1>1 DEF IInv, TypeOK, ArtifactFiles
<1>3. (LockInv /\ RegistryInv /\ WorkInv)'
  BY <1>1 DEF IInv, LockInv, RegistryInv, WorkInv, Holding, Valid, RefsOf
<1>4. OneReferencePerArtifact'
  BY <1>1, AllocationAssumption DEF IInv, TypeOK, OneReferencePerArtifact, RefsOf
<1> QED
  BY <1>2, <1>3, <1>4 DEF IInv

\* Every step preserves the inductive invariant, and no step takes a reference
\* back or gives it to another artifact.
LEMMA NextIInv ==
    IInv /\ [Next]_vars =>
        /\ IInv'
        /\ registry # None => \A n \in Sequences :
              registry.allocations[n] # None =>
                  registry' # None /\ registry'.allocations[n] = registry.allocations[n]
<1> DEFINE Kept == registry # None => \A n \in Sequences :
              registry.allocations[n] # None =>
                  registry' # None /\ registry'.allocations[n] = registry.allocations[n]
<1> SUFFICES ASSUME IInv, [Next]_vars PROVE IInv' /\ Kept
  OBVIOUS
<1>1. ASSUME NEW p \in Processes, StartInit(p) \/ WriteInit(p) PROVE IInv' /\ Kept
  BY <1>1, InitSteps
<1>2. ASSUME NEW p \in Processes, Lock(p) PROVE IInv' /\ Kept
  BY <1>2, LockStep DEF Lock
<1>3. ASSUME NEW p \in Processes, Load(p) PROVE IInv' /\ Kept
  BY <1>3, LoadStep DEF Load
<1>4. ASSUME NEW p \in Processes, Allocate(p) PROVE IInv' /\ Kept
  BY <1>4, AllocateStep DEF Allocate
<1>5. ASSUME NEW p \in Processes, Save(p) PROVE IInv' /\ Kept
  BY <1>5, SaveStep
<1>6. ASSUME NEW p \in Processes, Unlock(p) PROVE IInv' /\ Kept
  BY <1>6, UnlockStep DEF Unlock
<1>7. ASSUME NEW p \in Processes, Finish(p) PROVE IInv' /\ Kept
  BY <1>7, FinishStep DEF Finish
<1>8. ASSUME NEW p \in Processes, Crash(p) PROVE IInv' /\ Kept
  <2>1. at' = [at EXCEPT ![p] = Idle] /\ UNCHANGED <<registry, locked, artifact, given>>
    BY <1>8 DEF Crash
  <2> QED
    BY <2>1, GoesIdle DEF IInv, TypeOK, LockInv
<1>9. ASSUME NEW p \in Processes, NEW u \in Uids, Defer(p, u) PROVE IInv' /\ Kept
  BY <1>9, DeferStep DEF Defer
<1>10. ASSUME NEW p \in Processes, NEW u \in Uids, Direct(p, u) \/ Register(p, u)
       PROVE  IInv' /\ Kept
  <2>1. PICK file \in ArtifactFiles : Call(p, u, file)
    BY <1>10 DEF Direct, Register, ArtifactFiles, IInv, TypeOK
  <2> QED
    BY <2>1, CallStep DEF Call
<1>11. CASE RemoveLock
  <2>1. /\ locked' = FALSE /\ UNCHANGED <<registry, artifact, at, given>>
        /\ \A p \in Processes : ~Holding(p)
    BY <1>11 DEF RemoveLock, Holders, Holding
  <2>2. TypeOK' /\ LockInv' /\ WorkInv'
    BY <2>1 DEF IInv, TypeOK, LockInv, WorkInv, Holding
  <2> QED
    BY <2>1, <2>2, QuietFiles DEF IInv
<1>12. CASE UNCHANGED vars
  <2>1. TypeOK' /\ LockInv' /\ WorkInv'
    BY <1>12 DEF vars, IInv, TypeOK, LockInv, WorkInv, Holding
  <2> QED
    BY <1>12, <2>1, QuietFiles DEF vars, IInv
<1> QED
  BY <1>1, <1>2, <1>3, <1>4, <1>5, <1>6, <1>7, <1>8, <1>9, <1>10, <1>11, <1>12 DEF Next

-----------------------------------------------------------------------------
\* The inductive invariant holds in every state of every behaviour.
THEOREM Invariance == Spec => []IInv
<1>1. IInv /\ [Next]_vars => IInv'
  BY NextIInv
<1> QED
  BY InitIInv, <1>1, PTL DEF Spec

\* The two files and the calls of the registration tool keep their shapes.
THEOREM TypeCorrect == Spec => []TypeOK
<1>1. IInv => TypeOK
  BY DEF IInv
<1> QED
  BY <1>1, Invariance, PTL

\* However calls of new and register crash, repeat and interleave, an artifact
\* has one reference, the one its file and the registry name.
THEOREM OneReference == Spec => []OneReferencePerArtifact
<1>1. IInv => OneReferencePerArtifact
  BY DEF IInv
<1> QED
  BY <1>1, Invariance, PTL

\* A reference that was allocated is never given to another artifact.
THEOREM NotRecycled == Spec => ReferencesAreNotRecycled
<1> DEFINE Kept == registry # None => \A n \in Sequences :
              registry.allocations[n] # None =>
                  registry' # None /\ registry'.allocations[n] = registry.allocations[n]
<1>1. IInv /\ [Next]_vars => [Kept]_vars
  BY NextIInv
<1>2. [][Kept]_vars => ReferencesAreNotRecycled
  BY DEF ReferencesAreNotRecycled
<1> QED
  BY <1>1, <1>2, Invariance, PTL DEF Spec
=============================================================================
