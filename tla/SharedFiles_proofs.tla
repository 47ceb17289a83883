------------------------- MODULE SharedFiles_proofs -------------------------
(***************************************************************************)
(* What is written by several, for any number of processes, branches and   *)
(* plans: the registry stays valid and a merge loses nothing, an installer *)
(* that may not be repeated is not, and neither the integration of a       *)
(* client nor a rollback touches what it did not write.                    *)
(***************************************************************************)
EXTENDS SharedFiles, TLAPS

(* A step of the composition is a step of one part or none of it.          *)
LEMMA PartSteps ==
    ASSUME [PartNext]_allVars
    PROVE  /\ [Registry!Next]_(Registry!vars)
           /\ [Provision!Next]_(Provision!vars)
           /\ [Integration!Next]_(Integration!vars)
           /\ [Configuration!Next]_(Configuration!vars)
<1> USE DEF allVars, registryVars, provisionVars, clientVars, configurationVars
<1> USE DEF Registry!vars, Provision!vars, Integration!vars, Configuration!vars
<1>1. CASE AllocationStep
    BY <1>1 DEF AllocationStep
<1>2. CASE RegistryStep
    BY <1>2 DEF RegistryStep
<1>3. CASE ProvisioningStep
    BY <1>3 DEF ProvisioningStep
<1>4. CASE IntegrationStep
    BY <1>4 DEF IntegrationStep
<1>5. CASE ConfigurationStep
    BY <1>5 DEF ConfigurationStep
<1>6. CASE UNCHANGED allVars
    BY <1>6
<1> QED BY <1>1, <1>2, <1>3, <1>4, <1>5, <1>6 DEF PartNext

-----------------------------------------------------------------------------
(* The registry.  What a gate approved is still the merge of base, main    *)
(* and head as long as main is the one it saw.                             *)

PullShape(x) ==
    x = [base |-> x.base, head |-> x.head, edits |-> x.edits, approved |-> x.approved]

ApprovalHolds ==
    /\ merges \in Nat /\ pull = [p \in Pulls |-> pull[p]]
    /\ \A p \in Pulls :
          /\ PullShape(pull[p]) /\ pull[p].approved \in Int
          /\ pull[p].approved =< merges
          /\ pull[p].approved = merges
                => Registry!Mergeable(pull[p].base, main, pull[p].head)

RegistryInv == Registry!Valid(main) /\ ApprovalHolds

\* Every copy of the document holds records.
Registries == [Refs -> Registry!Record \union {None}]
RegistryTypeOK ==
    /\ main \in Registries /\ pull = [p \in Pulls |-> pull[p]]
    /\ \A p \in Pulls : PullShape(pull[p]) /\ pull[p].base \in Registries
                                           /\ pull[p].head \in Registries

\* The fields of a pull request that an edit changes
LEMMA PullUpdate ==
    ASSUME NEW x, PullShape(x), NEW head, NEW n, NEW v
    PROVE  [x EXCEPT !.head = head, !.edits = n, !.approved = v]
              = [base |-> x.base, head |-> head, edits |-> n, approved |-> v]
<1> DEFINE B == {x.base}
<1> DEFINE H == {x.head, head}
<1> DEFINE E == {x.edits, n}
<1> DEFINE A == {x.approved, v}
<1>1. /\ x.base \in B /\ x.head \in H /\ x.edits \in E /\ x.approved \in A
      /\ head \in H /\ n \in E /\ v \in A
    OBVIOUS
<1> HIDE DEF B, H, E, A
<1>2. x \in [base : B, head : H, edits : E, approved : A]
  <2>1. [base |-> x.base, head |-> x.head, edits |-> x.edits, approved |-> x.approved]
            \in [base : B, head : H, edits : E, approved : A]
      BY <1>1
  <2> QED BY <2>1 DEF PullShape
<1> DEFINE z == [x EXCEPT !.head = head, !.edits = n, !.approved = v]
<1>3. /\ z \in [base : B, head : H, edits : E, approved : A]
      /\ z.base = x.base /\ z.head = head /\ z.edits = n /\ z.approved = v
    BY <1>1, <1>2
<1> HIDE DEF z
<1>4. z = [base |-> z.base, head |-> z.head, edits |-> z.edits, approved |-> z.approved]
    BY <1>3
<1> QED BY <1>3, <1>4 DEF z

LEMMA InitRegistry == PartInit => RegistryInv /\ RegistryTypeOK
<1> SUFFICES ASSUME Registry!Init PROVE RegistryInv /\ RegistryTypeOK
    BY DEF PartInit
<1> DEFINE Entry == [uid : Registered, state : {"REGISTERED"}, parent : {None},
                     alias : {None}]
<1> DEFINE Starts(r) == Registry!Valid(r) /\ Registry!Present(r) = 1..2
<1> DEFINE Documents0 == [Refs -> Entry \union {None}]
<1>1. PICK u \in Registered, v \in Registered : u # v
    BY RegistryAssumption DEF Registry!RegistryAssumption
<1>2. /\ None \notin Entry /\ 1 \in Refs /\ 2 \in Refs
    BY RegistryAssumption DEF Registry!RegistryAssumption, Registry!Record
<1> DEFINE first == [uid |-> u, state |-> "REGISTERED", parent |-> None, alias |-> None]
<1> DEFINE second == [uid |-> v, state |-> "REGISTERED", parent |-> None, alias |-> None]
<1> DEFINE both == [r \in Refs |-> IF r = 1 THEN first ELSE IF r = 2 THEN second ELSE None]
<1>3. /\ first \in Entry /\ second \in Entry
      /\ first.uid = u /\ second.uid = v
      /\ first.alias = None /\ second.alias = None
      /\ first.parent = None /\ second.parent = None
    BY <1>1
<1> HIDE DEF Entry, first, second
<1>4. both \in Documents0 /\ both[1] = first /\ both[2] = second
      /\ \A r \in Refs : r = 1 \/ r = 2 \/ both[r] = None
    BY <1>2, <1>3
<1> HIDE DEF both
<1>5. Registry!Present(both) = 1..2
  <2>1. \A r \in Registry!Present(both) : r \in 1..2
      BY <1>4 DEF Registry!Present
  <2>2. 1 \in Registry!Present(both) /\ 2 \in Registry!Present(both)
      BY <1>2, <1>3, <1>4 DEF Registry!Present
  <2>3. \A r \in 1..2 : r = 1 \/ r = 2
      OBVIOUS
  <2> QED BY <2>1, <2>2, <2>3
<1>6. \A r \in 1..2 : both[r].parent = None /\ both[r].alias = None
                      /\ (r = 1 => both[r].uid = u) /\ (r # 1 => both[r].uid = v)
    BY <1>3, <1>4
<1>7. ~Registry!Cyclic(both)
  <2>1. None \notin 1..2
      BY RegistryAssumption DEF Registry!RegistryAssumption
  <2>2. \A r \in 1..2 : both[r].parent \notin 1..2
      BY <1>6, <2>1
  <2>3. ASSUME NEW S \in (SUBSET Registry!Present(both)) \ {{}},
               \A r \in S : both[r].parent \in S
        PROVE  FALSE
    <3>0. S # {}
        BY <2>3
    <3>1. PICK r : r \in S
        BY <3>0
    <3>2. r \in 1..2 /\ both[r].parent \in 1..2
        BY <1>5, <2>3, <3>1
    <3> QED BY <2>2, <3>2
  <2> QED BY <2>3 DEF Registry!Cyclic
<1>8. Registry!Valid(both)
  <2>1. \A r, q \in 1..2 : r # q => both[r].uid # both[q].uid
      BY <1>1, <1>6
  <2> QED BY <1>5, <1>6, <1>7, <2>1 DEF Registry!Valid
<1>9. main = CHOOSE r \in Documents0 : Starts(r)
    BY DEF Registry!Init, Entry
<1>10. Starts(both)
    BY <1>5, <1>8
<1>11. Starts(main) /\ main \in Documents0
  <2> HIDE DEF Starts, Documents0
  <2> QED BY <1>4, <1>9, <1>10
<1>12. Registry!Valid(main)
    BY <1>11 DEF Starts
<1>13. ApprovalHolds
  <2>1. /\ merges = 0 /\ pull = [p \in Pulls |-> pull[p]]
        /\ \A p \in Pulls :
              pull[p] = [base |-> main, head |-> main, edits |-> 0, approved |-> -1]
      BY DEF Registry!Init
  <2>2. \A p \in Pulls : PullShape(pull[p]) /\ pull[p].approved = -1
      BY <2>1 DEF PullShape
  <2> QED BY <2>1, <2>2 DEF ApprovalHolds
<1>14. RegistryTypeOK
  <2>1. Entry \subseteq Registry!Record
      BY DEF Entry, Registry!Record
  <2>2. main \in Registries
      BY <1>11, <2>1 DEF Registries
  <2> QED BY <2>2 DEF RegistryTypeOK, Registry!Init, PullShape
<1> QED BY <1>12, <1>13, <1>14 DEF RegistryInv

\* An edit withdraws the approval.
LEMMA EditKeeps ==
    ASSUME RegistryInv, NEW p \in Pulls, NEW head, Registry!Edit(p, head)
    PROVE  RegistryInv'
<1>1. /\ pull' = [pull EXCEPT ![p].head = head, ![p].edits = @ + 1, ![p].approved = -1]
      /\ main' = main /\ merges' = merges
    BY DEF Registry!Edit
<1> DEFINE more == pull[p].edits + 1
<1> DEFINE new == [base |-> pull[p].base, head |-> head, edits |-> more, approved |-> -1]
<1>2. pull[p] = [base |-> pull[p].base, head |-> pull[p].head, edits |-> pull[p].edits,
                 approved |-> pull[p].approved]
    BY DEF RegistryInv, ApprovalHolds, PullShape
<1>3. pull' = [pull EXCEPT ![p] = [pull[p] EXCEPT !.head = head, !.edits = more,
                                                  !.approved = -1]]
    BY <1>1 DEF RegistryInv, ApprovalHolds
<1> HIDE DEF more
<1>4. [pull[p] EXCEPT !.head = head, !.edits = more, !.approved = -1] = new
    BY PullUpdate DEF RegistryInv, ApprovalHolds, new
<1>5. PullShape(new) /\ new.approved = -1
    BY DEF PullShape
<1> HIDE DEF new
<1>6. /\ pull' = [q \in Pulls |-> pull'[q]] /\ pull'[p] = new
      /\ \A q \in Pulls : q # p => pull'[q] = pull[q]
    BY <1>3, <1>4 DEF RegistryInv, ApprovalHolds
<1>7. -1 # merges /\ -1 =< merges /\ -1 \in Int
    BY DEF RegistryInv, ApprovalHolds
<1>8. ApprovalHolds'
    BY <1>1, <1>5, <1>6, <1>7 DEF RegistryInv, ApprovalHolds
<1> QED BY <1>1, <1>8 DEF RegistryInv

LEMMA GateKeeps ==
    ASSUME RegistryInv, NEW p \in Pulls, Registry!Gate(p) PROVE RegistryInv'
<1>1. /\ Registry!Mergeable(pull[p].base, main, pull[p].head)
      /\ pull' = [pull EXCEPT ![p].approved = merges]
      /\ main' = main /\ merges' = merges
    BY DEF Registry!Gate
<1> DEFINE new == [base |-> pull[p].base, head |-> pull[p].head, edits |-> pull[p].edits,
                   approved |-> merges]
<1>2. pull[p] = [base |-> pull[p].base, head |-> pull[p].head, edits |-> pull[p].edits,
                 approved |-> pull[p].approved]
    BY DEF RegistryInv, ApprovalHolds, PullShape
<1>3. pull' = [pull EXCEPT ![p] = [pull[p] EXCEPT !.approved = merges]]
    BY <1>1 DEF RegistryInv, ApprovalHolds
<1>4. [pull[p] EXCEPT !.approved = merges] = new
    BY <1>2
<1>5. /\ PullShape(new) /\ new.approved = merges
      /\ new.base = pull[p].base /\ new.head = pull[p].head
    BY DEF PullShape
<1> HIDE DEF new
<1>6. /\ pull' = [q \in Pulls |-> pull'[q]] /\ pull'[p] = new
      /\ \A q \in Pulls : q # p => pull'[q] = pull[q]
    BY <1>3, <1>4 DEF RegistryInv, ApprovalHolds
<1>7. ApprovalHolds'
    BY <1>1, <1>5, <1>6 DEF RegistryInv, ApprovalHolds
<1> QED BY <1>1, <1>7 DEF RegistryInv

\* An approval that is up to date covers the merge, and is out of date after it.
LEMMA MergeKeeps ==
    ASSUME RegistryInv, UpToDate, NEW p \in Pulls, Registry!MergePull(p)
    PROVE  RegistryInv'
<1> DEFINE new == [base |-> main', head |-> main', edits |-> 0, approved |-> -1]
<1>1. /\ pull[p].approved = merges
      /\ main' = Registry!Merged(pull[p].base, main, pull[p].head)
      /\ merges' = merges + 1 /\ pull' = [pull EXCEPT ![p] = new]
    BY DEF Registry!MergePull
<1>2. Registry!Valid(main')
    BY <1>1 DEF RegistryInv, ApprovalHolds, Registry!Mergeable
<1>3. PullShape(new) /\ new.approved = -1
    BY DEF PullShape
<1> HIDE DEF new
<1>4. /\ pull' = [q \in Pulls |-> pull'[q]] /\ pull'[p] = new
      /\ \A q \in Pulls : q # p => pull'[q] = pull[q]
    BY <1>1 DEF RegistryInv, ApprovalHolds
<1>5. /\ merges' \in Nat /\ -1 # merges' /\ -1 =< merges' /\ -1 \in Int
      /\ \A i \in Int : i =< merges => i =< merges' /\ i # merges'
    BY <1>1 DEF RegistryInv, ApprovalHolds
<1>6. ApprovalHolds'
    BY <1>3, <1>4, <1>5 DEF RegistryInv, ApprovalHolds
<1> QED BY <1>2, <1>6 DEF RegistryInv

LEMMA NextRegistry ==
    ASSUME RegistryInv, UpToDate, Registry!Next \/ UNCHANGED registryVars
    PROVE  RegistryInv'
<1>1. CASE UNCHANGED registryVars
    BY <1>1 DEF RegistryInv, ApprovalHolds, registryVars
<1>2. CASE Registry!Next
  <2>1. PICK p \in Pulls :
           \/ \E uid \in Registered : Registry!Add(p, uid)
           \/ \E ref \in Refs : Registry!Change(p, ref)
           \/ Registry!Gate(p) \/ Registry!MergePull(p)
      BY <1>2 DEF Registry!Next
  <2>2. ASSUME NEW uid \in Registered, Registry!Add(p, uid)
        PROVE  \E head : Registry!Edit(p, head)
      BY <2>2 DEF Registry!Add
  <2>3. ASSUME NEW ref \in Refs, Registry!Change(p, ref)
        PROVE  \E head : Registry!Edit(p, head)
      BY <2>3 DEF Registry!Change
  <2> QED BY <2>1, <2>2, <2>3, EditKeeps, GateKeeps, MergeKeeps
<1> QED BY <1>1, <1>2

\* If the host merges only branches whose gate saw the current main, main is a
\* valid registry after any number of edits and merges of any branches.
THEOREM RegistryStaysValid ==
    ASSUME UpToDate PROVE PartSpec => []MainStaysValid
<1>1. RegistryInv /\ [PartNext]_allVars => RegistryInv'
    BY PartSteps, NextRegistry DEF Registry!vars, registryVars
<1>2. RegistryInv => MainStaysValid
    BY DEF RegistryInv, MainStaysValid, Registry!MainStaysValid
<1> QED BY InitRegistry, <1>1, <1>2, PTL DEF PartSpec

\* A record that is merged field by field is a record.
LEMMA MergeIsRecord ==
    ASSUME NEW b \in Registry!Record \union {None}, NEW m \in Registry!Record \union {None},
           NEW h \in Registry!Record \union {None}
    PROVE  /\ Registry!MergeRecord(b, m, h) \in Registry!Record \union {None}
           /\ Registry!Objects(b, m, h) /\ ~Registry!OneSided(b, m, h)
                => Registry!MergeRecord(b, m, h) # None
<1>0. None \notin Registry!Record
    BY RegistryAssumption DEF Registry!RegistryAssumption
<1>1. CASE Registry!OneSided(b, m, h) \/ ~Registry!Objects(b, m, h)
    BY <1>1 DEF Registry!MergeRecord, Registry!Pick
<1>2. CASE ~(Registry!OneSided(b, m, h) \/ ~Registry!Objects(b, m, h))
  <2> DEFINE now == [f \in Registry!Fields |-> Registry!Pick(b[f], m[f], h[f])]
  <2>1. b \in Registry!Record /\ m \in Registry!Record /\ h \in Registry!Record
      BY <1>2 DEF Registry!Objects
  <2>2. now \in Registry!Record
      BY <2>1 DEF Registry!Record, Registry!Fields, Registry!Pick
  <2>3. Registry!MergeRecord(b, m, h) = now
      BY <1>2 DEF Registry!MergeRecord
  <2> QED BY <1>0, <2>2, <2>3
<1> QED BY <1>1, <1>2

\* A merge lands what each side added, removed or changed, and drops nothing,
\* whatever base, main and head hold.
LEMMA MergeLands ==
    ASSUME NEW b \in Registry!Record \union {None}, NEW m \in Registry!Record \union {None},
           NEW h \in Registry!Record \union {None}, ~Registry!Conflict(b, m, h)
    PROVE  Registry!LosesNothing(b, h, m, Registry!MergeRecord(b, m, h))
<1> USE DEF Registry!Conflict, Registry!OneSided, Registry!Objects, Registry!Lands,
            Registry!LosesNothing, Registry!Pick
<1>1. CASE Registry!OneSided(b, m, h) \/ ~Registry!Objects(b, m, h)
  <2> DEFINE now == Registry!MergeRecord(b, m, h)
  <2>1. Registry!OneSided(b, m, h) /\ now = Registry!Pick(b, m, h)
      BY <1>1 DEF Registry!MergeRecord
  <2> SUFFICES Registry!LosesNothing(b, h, m, now)
      OBVIOUS
  <2> HIDE DEF now
  <2>2. CASE m = h
    <3>1. now = m /\ now = h
        BY <2>1, <2>2
    <3> QED BY <3>1
  <2>3. CASE m # h /\ h = b
    <3>1. now = m /\ h = b
        BY <2>1, <2>3
    <3> QED BY <3>1
  <2>4. CASE m # h /\ h # b
    <3>1. now = h /\ m = b
        BY <2>1, <2>4
    <3> QED BY <3>1
  <2> QED BY <2>2, <2>3, <2>4
<1>2. CASE ~(Registry!OneSided(b, m, h) \/ ~Registry!Objects(b, m, h))
  <2>1. Registry!MergeRecord(b, m, h) # None
      BY <1>2, MergeIsRecord
  <2>2. \A f \in Registry!Fields :
           Registry!MergeRecord(b, m, h)[f] = Registry!Pick(b[f], m[f], h[f])
      BY <1>2 DEF Registry!MergeRecord
  <2> HIDE DEF Registry!Pick
  <2>3. \A f \in Registry!Fields : Registry!OneSided(b[f], m[f], h[f])
      BY <1>2
  <2> QED BY <1>2, <2>1, <2>2, <2>3 DEF Registry!Pick
<1> QED BY <1>1, <1>2

LEMMA NextRegistryTypes ==
    ASSUME RegistryTypeOK, Registry!Next \/ UNCHANGED registryVars
    PROVE  RegistryTypeOK'
<1>1. CASE UNCHANGED registryVars
    BY <1>1 DEF RegistryTypeOK, registryVars
<1>2. ASSUME NEW p \in Pulls, NEW head \in Registries, Registry!Edit(p, head)
      PROVE  RegistryTypeOK'
  <2> DEFINE more == pull[p].edits + 1
  <2> DEFINE new == [pull[p] EXCEPT !.head = head, !.edits = more, !.approved = -1]
  <2>1. /\ main' = main /\ pull' = [pull EXCEPT ![p] = new]
      BY <1>2 DEF Registry!Edit, RegistryTypeOK
  <2> HIDE DEF more
  <2>2. PullShape(pull[p]) /\ pull[p].base \in Registries
      BY DEF RegistryTypeOK
  <2>3. new = [base |-> pull[p].base, head |-> head, edits |-> more, approved |-> -1]
      BY <2>2, PullUpdate
  <2>4. PullShape(new) /\ new.base \in Registries /\ new.head \in Registries
      BY <1>2, <2>2, <2>3 DEF PullShape
  <2> HIDE DEF new
  <2> QED BY <2>1, <2>4 DEF RegistryTypeOK
<1>3. ASSUME NEW p \in Pulls, NEW uid \in Registered, Registry!Add(p, uid)
      PROVE  RegistryTypeOK'
  <2> DEFINE added == [uid |-> uid, state |-> "REGISTERED", parent |-> None, alias |-> None]
  <2>1. added \in Registry!Record
      BY DEF Registry!Record
  <2> HIDE DEF added
  <2>2. PICK ref \in Refs : Registry!Edit(p, [pull[p].head EXCEPT ![ref] = added])
      BY <1>3 DEF Registry!Add, added
  <2>3. [pull[p].head EXCEPT ![ref] = added] \in Registries
      BY <2>1 DEF RegistryTypeOK, Registries
  <2> QED BY <1>2, <2>2, <2>3
<1>4. ASSUME NEW p \in Pulls, NEW ref \in Refs, Registry!Change(p, ref)
      PROVE  RegistryTypeOK'
  <2> DEFINE head == pull[p].head
  <2>1. head \in Registries /\ head[ref] \in Registry!Record
      BY <1>4 DEF RegistryTypeOK, Registries, Registry!Change, Registry!Present
  <2>2. /\ \A v \in {"REGISTERED", "RETIRED"} : [head[ref] EXCEPT !.state = v] \in Registry!Record
        /\ \A v \in Refs : [head[ref] EXCEPT !.parent = v] \in Registry!Record
        /\ \A v \in Aliases : [head[ref] EXCEPT !.alias = v] \in Registry!Record
      BY <2>1 DEF Registry!Record
  <2>3. ASSUME NEW x \in Registry!Record \union {None}
        PROVE  [head EXCEPT ![ref] = x] \in Registries
      BY <2>1 DEF Registries
  <2>4. \/ Registry!Edit(p, [head EXCEPT ![ref] = None])
        \/ \E v \in {"REGISTERED", "RETIRED"} :
               Registry!Edit(p, [head EXCEPT ![ref] = [head[ref] EXCEPT !.state = v]])
        \/ \E v \in Refs :
               Registry!Edit(p, [head EXCEPT ![ref] = [head[ref] EXCEPT !.parent = v]])
        \/ \E v \in Aliases :
               Registry!Edit(p, [head EXCEPT ![ref] = [head[ref] EXCEPT !.alias = v]])
      BY <1>4 DEF Registry!Change
  <2> HIDE DEF head
  <2> QED BY <1>2, <2>2, <2>3, <2>4
<1>5. ASSUME NEW p \in Pulls, Registry!Gate(p) PROVE RegistryTypeOK'
  <2> DEFINE new == [base |-> pull[p].base, head |-> pull[p].head,
                     edits |-> pull[p].edits, approved |-> merges]
  <2>1. PullShape(pull[p]) /\ pull[p].base \in Registries /\ pull[p].head \in Registries
      BY DEF RegistryTypeOK
  <2>2. [pull[p] EXCEPT !.approved = merges] = new
      BY <2>1 DEF PullShape
  <2>3. /\ main' = main /\ pull' = [pull EXCEPT ![p] = new]
      BY <1>5, <2>2 DEF Registry!Gate, RegistryTypeOK
  <2>4. PullShape(new) /\ new.base \in Registries /\ new.head \in Registries
      BY <2>1 DEF PullShape
  <2> HIDE DEF new
  <2> QED BY <2>3, <2>4 DEF RegistryTypeOK
<1>6. ASSUME NEW p \in Pulls, Registry!MergePull(p) PROVE RegistryTypeOK'
  <2>1. /\ main' = Registry!Merged(pull[p].base, main, pull[p].head)
        /\ pull' = [pull EXCEPT ![p] = [base |-> main', head |-> main', edits |-> 0,
                                        approved |-> -1]]
      BY <1>6 DEF Registry!MergePull
  <2>2. main' \in Registries
      BY <2>1, MergeIsRecord DEF RegistryTypeOK, Registries, Registry!Merged
  <2> DEFINE new == [base |-> main', head |-> main', edits |-> 0, approved |-> -1]
  <2>3. PullShape(new) /\ new.base \in Registries /\ new.head \in Registries
      BY <2>2 DEF PullShape
  <2>4. pull' = [pull EXCEPT ![p] = new]
      BY <2>1
  <2> HIDE DEF new
  <2> QED BY <2>2, <2>3, <2>4 DEF RegistryTypeOK
<1> QED BY <1>1, <1>3, <1>4, <1>5, <1>6 DEF Registry!Next

\* No merge loses an addition, a removal or a change of either side, nor drops a
\* record, for any registries and branches.
THEOREM MergesLoseNothing == PartSpec => NothingIsLost
<1> DEFINE Loses(p) ==
        \E r \in Refs :
           ~Registry!LosesNothing(pull[p].base[r], pull[p].head[r], main[r], main'[r])
<1>1. ASSUME RegistryTypeOK, NEW p \in Pulls, Registry!MergePull(p) PROVE ~Loses(p)
  <2> SUFFICES ASSUME NEW r \in Refs
               PROVE  Registry!LosesNothing(pull[p].base[r], pull[p].head[r], main[r],
                                            main'[r])
      OBVIOUS
  <2>1. /\ ~Registry!Conflicts(pull[p].base, main, pull[p].head)
        /\ main' = Registry!Merged(pull[p].base, main, pull[p].head)
      BY <1>1 DEF Registry!MergePull
  <2>2. main'[r] = Registry!MergeRecord(pull[p].base[r], main[r], pull[p].head[r])
      BY <2>1 DEF Registry!Merged
  <2>3. ~Registry!Conflict(pull[p].base[r], main[r], pull[p].head[r])
      BY <2>1 DEF Registry!Conflicts
  <2>4. /\ pull[p].base[r] \in Registry!Record \union {None}
        /\ pull[p].head[r] \in Registry!Record \union {None}
        /\ main[r] \in Registry!Record \union {None}
      BY <1>1 DEF RegistryTypeOK, Registries
  <2> QED BY <2>2, <2>3, <2>4, MergeLands
<1>2. RegistryTypeOK =>
         [\A p \in Pulls : Registry!MergePull(p) =>
             \A r \in Refs :
                Registry!LosesNothing(pull[p].base[r], pull[p].head[r], main[r],
                                      main'[r])]_(Registry!vars)
    BY <1>1
<1>3. RegistryTypeOK /\ [PartNext]_allVars => RegistryTypeOK'
    BY PartSteps, NextRegistryTypes DEF Registry!vars, registryVars
<1> QED BY InitRegistry, <1>2, <1>3, PTL DEF PartSpec, NothingIsLost, Registry!NothingIsLost

-----------------------------------------------------------------------------
(* Provisioning.  Who is past the lock of a plan is alone there; who       *)
(* downloads or installs has announced it in the checkpoint; and after the *)
(* installer was started, the checkpoint never leads there again.          *)

Steps == {"wait", "load", "decide", "download", "install", "verify", "complete",
          "completed", "fail", "failed"}
Doing == {Provision!Out} \cup [pc : Steps, plan : Provision!Plans]
Marks == {"none", "PREPARED", "IN_PROGRESS"} \cup Provision!Terminal

ProvisionTypeOK ==
    /\ provisioner \in [Provisioners -> Doing]
    /\ checkpoint \in [Provision!Plans -> Marks]
    /\ lock \in [Provision!Plans -> Provisioners \cup {"none"}]
    /\ installs \in [Provision!Plans -> Nat]

Working(c) == provisioner[c].pc \notin {"idle", "wait"}
Announced(c) == provisioner[c].pc \in {"download", "install"}

AloneInThePlan == \A c \in Provisioners : Working(c) => lock[provisioner[c].plan] = c
AnnouncedFirst ==
    \A c \in Provisioners : Announced(c) => checkpoint[provisioner[c].plan] = "IN_PROGRESS"
StartedOnce ==
    \A x \in Provision!Plans :
        installs[x] > 0 /\ ~x.action.idempotent =>
            /\ installs[x] = 1 /\ x.action.install
            /\ checkpoint[x] \notin {"none", "PREPARED"}
            /\ \A c \in Provisioners : Announced(c) => provisioner[c].plan # x

ProvisionInv == ProvisionTypeOK /\ AloneInThePlan /\ AnnouncedFirst /\ StartedOnce

LEMMA InitProvision == PartInit => ProvisionInv
<1> SUFFICES ASSUME Provision!Init PROVE ProvisionInv
    BY DEF PartInit
<1>1. /\ provisioner = [c \in Provisioners |-> Provision!Out]
      /\ checkpoint = [x \in Provision!Plans |-> "none"]
      /\ lock = [x \in Provision!Plans |-> "none"]
      /\ installs = [x \in Provision!Plans |-> 0]
    BY DEF Provision!Init
<1>2. Provision!Out.pc = "idle"
    BY DEF Provision!Out
<1> QED BY <1>1, <1>2
        DEF ProvisionInv, ProvisionTypeOK, AloneInThePlan, AnnouncedFirst, StartedOnce,
            Working, Announced, Doing, Marks

LEMMA DoingFacts ==
    ASSUME ProvisionInv, NEW c \in Provisioners
    PROVE  /\ provisioner[c] \in Doing
           /\ provisioner[c].pc = "idle" \/
                 /\ provisioner[c] \in [pc : Steps, plan : Provision!Plans]
                 /\ provisioner[c].plan \in Provision!Plans
                 /\ provisioner[c].pc \in Steps
<1>1. provisioner[c] \in Doing
    BY DEF ProvisionInv, ProvisionTypeOK
<1>2. Provision!Out.pc = "idle"
    BY DEF Provision!Out
<1> QED BY <1>1, <1>2 DEF Doing

\* A caller moves on within its call.
LEMMA MovesOn ==
    ASSUME ProvisionInv, NEW c \in Provisioners, NEW pc \in Steps,
           provisioner[c].pc # "idle",
           provisioner' = [provisioner EXCEPT ![c].pc = pc]
    PROVE  /\ provisioner' \in [Provisioners -> Doing]
           /\ provisioner'[c].pc = pc /\ provisioner'[c].plan = provisioner[c].plan
           /\ \A d \in Provisioners : d # c => provisioner'[d] = provisioner[d]
<1> DEFINE new == [provisioner[c] EXCEPT !.pc = pc]
<1>1. /\ new \in [pc : Steps, plan : Provision!Plans]
      /\ new.pc = pc /\ new.plan = provisioner[c].plan
    BY DoingFacts
<1>2. provisioner' = [provisioner EXCEPT ![c] = new] /\ provisioner \in [Provisioners -> Doing]
    BY DEF ProvisionInv, ProvisionTypeOK
<1> HIDE DEF new
<1>3. new \in Doing
    BY <1>1 DEF Doing
<1> QED BY <1>1, <1>2, <1>3

\* What every step of a caller does: its place changes, and it keeps off the locks
\* of the others and is past its own lock only as the holder.
StepOfCaller(c) ==
    /\ provisioner' \in [Provisioners -> Doing]
    /\ \A d \in Provisioners : d # c => provisioner'[d] = provisioner[d]
    /\ lock' \in [Provision!Plans -> Provisioners \cup {"none"}]
    /\ \A d \in Provisioners : d # c /\ Working(d) =>
          lock'[provisioner[d].plan] = lock[provisioner[d].plan]
    /\ Working(c)' => lock'[provisioner'[c].plan] = c

LEMMA StaysAlone ==
    ASSUME ProvisionInv, NEW c \in Provisioners, StepOfCaller(c)
    PROVE  AloneInThePlan'
<1> QED BY DEF StepOfCaller, ProvisionInv, AloneInThePlan, Working

\* Nobody else is past the lock of the plan that a caller works on.
LEMMA NobodyElse ==
    ASSUME ProvisionInv, NEW c \in Provisioners, Working(c), NEW d \in Provisioners,
           d # c, Working(d)
    PROVE  provisioner[d].plan # provisioner[c].plan
<1> QED BY DEF ProvisionInv, AloneInThePlan

LEMMA PlacesOnly ==
    ASSUME ProvisionInv, NEW c \in Provisioners, StepOfCaller(c),
           Announced(c)' => Announced(c) /\ provisioner'[c].plan = provisioner[c].plan,
           UNCHANGED <<checkpoint, installs>>
    PROVE  ProvisionInv'
<1>1. AloneInThePlan'
    BY StaysAlone
<1>2. \A d \in Provisioners : Announced(d)' =>
         Announced(d) /\ provisioner'[d].plan = provisioner[d].plan
    BY DEF StepOfCaller, Announced
<1>3. AnnouncedFirst' /\ StartedOnce'
    BY <1>2 DEF ProvisionInv, AnnouncedFirst, StartedOnce
<1> QED BY <1>1, <1>3 DEF ProvisionInv, ProvisionTypeOK, StepOfCaller

LEMMA SavesMark ==
    ASSUME ProvisionInv, NEW c \in Provisioners, StepOfCaller(c), Working(c),
           NEW status \in Marks, Provision!Saves(c, status), UNCHANGED installs,
           status \in {"none", "PREPARED"} => checkpoint[provisioner[c].plan] = "none",
           Announced(c)' => /\ provisioner'[c].plan = provisioner[c].plan
                            /\ status = "IN_PROGRESS"
                            /\ \/ installs[provisioner[c].plan] = 0
                               \/ provisioner[c].plan.action.idempotent
    PROVE  ProvisionInv'
<1> DEFINE x == provisioner[c].plan
<1>1. AloneInThePlan'
    BY StaysAlone
<1>2. x \in Provision!Plans
    BY DoingFacts DEF Working
<1>3. /\ checkpoint' \in [Provision!Plans -> Marks] /\ checkpoint'[x] = status
      /\ \A y \in Provision!Plans : y # x => checkpoint'[y] = checkpoint[y]
    BY <1>2 DEF ProvisionInv, ProvisionTypeOK, Provision!Saves
<1>4. \A d \in Provisioners : d # c /\ Announced(d)' =>
         Announced(d) /\ provisioner'[d].plan = provisioner[d].plan
    BY DEF StepOfCaller, Announced
<1>5. \A d \in Provisioners : d # c /\ Announced(d) =>
         provisioner[d].plan # x /\ provisioner[d].plan \in Provision!Plans
  <2>1. \A d \in Provisioners : Announced(d) => Working(d)
      BY DEF Announced, Working
  <2> QED BY <2>1, NobodyElse, DoingFacts DEF Working
<1>6. AnnouncedFirst'
    BY <1>3, <1>4, <1>5 DEF ProvisionInv, AnnouncedFirst
<1>7. ASSUME NEW y \in Provision!Plans, installs[y] > 0, ~y.action.idempotent
      PROVE  /\ installs[y] = 1 /\ y.action.install
             /\ checkpoint'[y] \notin {"none", "PREPARED"}
             /\ \A d \in Provisioners : Announced(d)' => provisioner'[d].plan # y
  <2>1. /\ installs[y] = 1 /\ y.action.install
        /\ checkpoint[y] \notin {"none", "PREPARED"}
        /\ \A d \in Provisioners : Announced(d) => provisioner[d].plan # y
      BY <1>7 DEF ProvisionInv, StartedOnce
  <2>2. checkpoint'[y] \notin {"none", "PREPARED"}
      BY <1>3, <2>1
  <2>3. \A d \in Provisioners : Announced(d)' => provisioner'[d].plan # y
      BY <1>4, <1>7, <2>1
  <2> QED BY <2>1, <2>2, <2>3
<1>8. StartedOnce'
    BY <1>7 DEF StartedOnce
<1> QED BY <1>1, <1>3, <1>6, <1>8 DEF ProvisionInv, ProvisionTypeOK, StepOfCaller

LEMMA Starts ==
    ASSUME ProvisionInv, NEW c \in Provisioners, StepOfCaller(c), Announced(c),
           provisioner[c].plan.action.install,
           installs' = [installs EXCEPT ![provisioner[c].plan] = @ + 1],
           ~Announced(c)', UNCHANGED checkpoint
    PROVE  ProvisionInv'
<1> DEFINE x == provisioner[c].plan
<1>1. AloneInThePlan'
    BY StaysAlone
<1>2. x \in Provision!Plans /\ Working(c)
    BY DoingFacts DEF Working, Announced
<1>3. /\ installs' \in [Provision!Plans -> Nat] /\ installs'[x] = installs[x] + 1
      /\ \A y \in Provision!Plans : y # x => installs'[y] = installs[y]
      /\ \A y \in Provision!Plans : installs[y] \in Nat
    BY <1>2 DEF ProvisionInv, ProvisionTypeOK
<1>4. \A d \in Provisioners : Announced(d)' =>
         d # c /\ Announced(d) /\ provisioner'[d].plan = provisioner[d].plan
    BY DEF StepOfCaller, Announced
<1>5. \A d \in Provisioners : d # c /\ Announced(d) => provisioner[d].plan # x
  <2>1. \A d \in Provisioners : Announced(d) => Working(d)
      BY DEF Announced, Working
  <2> QED BY <1>2, <2>1, NobodyElse
<1>6. AnnouncedFirst'
    BY <1>4 DEF ProvisionInv, AnnouncedFirst
<1>7. ~x.action.idempotent => installs[x] = 0
    BY <1>2, <1>3 DEF ProvisionInv, StartedOnce
<1>8. checkpoint[x] = "IN_PROGRESS"
    BY DEF ProvisionInv, AnnouncedFirst
<1>9. StartedOnce'
    BY <1>2, <1>3, <1>4, <1>5, <1>7, <1>8 DEF ProvisionInv, StartedOnce
<1> QED BY <1>1, <1>3, <1>6, <1>9 DEF ProvisionInv, ProvisionTypeOK, StepOfCaller

\* The ways a caller goes: on under its lock, or out of it
LEMMA GoesOn ==
    ASSUME ProvisionInv, NEW c \in Provisioners, Working(c), NEW pc \in Steps,
           Provision!Goes(c, pc)
    PROVE  /\ StepOfCaller(c)
           /\ provisioner'[c].pc = pc /\ provisioner'[c].plan = provisioner[c].plan
<1>1. provisioner' = [provisioner EXCEPT ![c].pc = pc] /\ lock' = lock
    BY DEF Provision!Goes
<1>2. /\ provisioner' \in [Provisioners -> Doing]
      /\ provisioner'[c].pc = pc /\ provisioner'[c].plan = provisioner[c].plan
      /\ \A d \in Provisioners : d # c => provisioner'[d] = provisioner[d]
    BY <1>1, MovesOn DEF Working
<1>3. lock[provisioner[c].plan] = c
    BY DEF ProvisionInv, AloneInThePlan
<1> QED BY <1>1, <1>2, <1>3 DEF StepOfCaller, ProvisionInv, ProvisionTypeOK

LEMMA GoesOut ==
    ASSUME ProvisionInv, NEW c \in Provisioners,
           provisioner' = [provisioner EXCEPT ![c] = Provision!Out]
    PROVE  /\ provisioner' \in [Provisioners -> Doing] /\ provisioner'[c].pc = "idle"
           /\ \A d \in Provisioners : d # c => provisioner'[d] = provisioner[d]
<1>1. Provision!Out.pc = "idle" /\ Provision!Out \in Doing
    BY DEF Provision!Out, Doing
<1> QED BY <1>1 DEF ProvisionInv, ProvisionTypeOK

LEMMA ReturnsBack ==
    ASSUME ProvisionInv, NEW c \in Provisioners, Working(c), Provision!Returns(c)
    PROVE  StepOfCaller(c) /\ ~Announced(c)'
<1>1. /\ provisioner' = [provisioner EXCEPT ![c] = Provision!Out]
      /\ lock' = [lock EXCEPT ![provisioner[c].plan] = "none"]
    BY DEF Provision!Returns
<1>2. /\ provisioner' \in [Provisioners -> Doing] /\ provisioner'[c].pc = "idle"
      /\ \A d \in Provisioners : d # c => provisioner'[d] = provisioner[d]
    BY <1>1, GoesOut
<1>3. \A d \in Provisioners : d # c /\ Working(d) => provisioner[d].plan # provisioner[c].plan
    BY NobodyElse
<1>4. \A d \in Provisioners : Working(d) => provisioner[d].plan \in Provision!Plans
    BY DoingFacts DEF Working
<1>5. /\ lock' \in [Provision!Plans -> Provisioners \cup {"none"}]
      /\ \A x \in Provision!Plans : x # provisioner[c].plan => lock'[x] = lock[x]
    BY <1>1 DEF ProvisionInv, ProvisionTypeOK
<1> QED BY <1>2, <1>3, <1>4, <1>5 DEF StepOfCaller, Working, Announced

-----------------------------------------------------------------------------
(* The steps of a call                                                     *)

LEMMA CallKeeps ==
    ASSUME ProvisionInv, NEW c \in Provisioners, NEW x \in Provision!Plans,
           Provision!Call(c, x)
    PROVE  ProvisionInv'
<1>1. /\ provisioner' = [provisioner EXCEPT ![c] = Provision!In(x, "wait")]
      /\ lock' = lock /\ UNCHANGED <<checkpoint, installs>>
    BY DEF Provision!Call
<1>2. /\ Provision!In(x, "wait") \in Doing /\ Provision!In(x, "wait").pc = "wait"
    BY DEF Provision!In, Doing, Steps
<1>3. /\ provisioner' \in [Provisioners -> Doing] /\ provisioner'[c].pc = "wait"
      /\ \A d \in Provisioners : d # c => provisioner'[d] = provisioner[d]
    BY <1>1, <1>2 DEF ProvisionInv, ProvisionTypeOK
<1>4. StepOfCaller(c) /\ ~Announced(c)'
    BY <1>1, <1>3 DEF StepOfCaller, Working, Announced, ProvisionInv, ProvisionTypeOK
<1> QED BY <1>1, <1>4, PlacesOnly

LEMMA LockTimeoutKeeps ==
    ASSUME ProvisionInv, NEW c \in Provisioners, Provision!LockTimeout(c)
    PROVE  ProvisionInv'
<1>1. /\ provisioner' = [provisioner EXCEPT ![c] = Provision!Out]
      /\ lock' = lock /\ UNCHANGED <<checkpoint, installs>>
    BY DEF Provision!LockTimeout
<1>2. /\ provisioner' \in [Provisioners -> Doing] /\ provisioner'[c].pc = "idle"
      /\ \A d \in Provisioners : d # c => provisioner'[d] = provisioner[d]
    BY <1>1, GoesOut
<1>3. StepOfCaller(c) /\ ~Announced(c)'
    BY <1>1, <1>2 DEF StepOfCaller, Working, Announced, ProvisionInv, ProvisionTypeOK
<1> QED BY <1>1, <1>3, PlacesOnly

\* The lock is free, so nobody is past it.
LEMMA LockKeeps ==
    ASSUME ProvisionInv, NEW c \in Provisioners, Provision!Lock(c)
    PROVE  ProvisionInv'
<1> DEFINE x == provisioner[c].plan
<1>1. /\ provisioner[c].pc = "wait" /\ lock[x] = "none" /\ lock' = [lock EXCEPT ![x] = c]
      /\ provisioner' = [provisioner EXCEPT ![c].pc = "load"]
      /\ UNCHANGED <<checkpoint, installs>>
    BY DEF Provision!Lock
<1>2. x \in Provision!Plans
    BY <1>1, DoingFacts
<1>3. "load" \in Steps /\ provisioner[c].pc # "idle"
    BY <1>1 DEF Steps
<1>4. /\ provisioner' \in [Provisioners -> Doing]
      /\ provisioner'[c].pc = "load" /\ provisioner'[c].plan = x
      /\ \A d \in Provisioners : d # c => provisioner'[d] = provisioner[d]
    BY <1>1, <1>3, MovesOn
<1>5. "none" \notin Provisioners
    BY ProvisionAssumption DEF Provision!ProvisionAssumption
<1>6. \A d \in Provisioners : Working(d) =>
         provisioner[d].plan # x /\ provisioner[d].plan \in Provision!Plans
    BY <1>1, <1>5, DoingFacts DEF ProvisionInv, AloneInThePlan, Working
<1>7. /\ lock' \in [Provision!Plans -> Provisioners \cup {"none"}] /\ lock'[x] = c
      /\ \A y \in Provision!Plans : y # x => lock'[y] = lock[y]
    BY <1>1, <1>2 DEF ProvisionInv, ProvisionTypeOK
<1>8. StepOfCaller(c) /\ ~Announced(c)'
    BY <1>4, <1>6, <1>7 DEF StepOfCaller, Announced
<1> QED BY <1>1, <1>8, PlacesOnly

LEMMA LoadKeeps ==
    ASSUME ProvisionInv, NEW c \in Provisioners, Provision!Load(c)
    PROVE  ProvisionInv'
<1>1. /\ provisioner[c].pc = "load" /\ Provision!Goes(c, "decide") /\ UNCHANGED installs
      /\ IF checkpoint[provisioner[c].plan] = "none" THEN Provision!Saves(c, "PREPARED")
         ELSE UNCHANGED checkpoint
    BY DEF Provision!Load
<1>2. Working(c) /\ "decide" \in Steps
    BY <1>1 DEF Working, Steps
<1>3. StepOfCaller(c) /\ provisioner'[c].pc = "decide"
    BY <1>1, <1>2, GoesOn
<1>4. ~Announced(c)' /\ "PREPARED" \in Marks
    BY <1>3 DEF Announced, Marks
<1>5. CASE checkpoint[provisioner[c].plan] = "none"
    BY <1>1, <1>2, <1>3, <1>4, <1>5, SavesMark
<1>6. CASE checkpoint[provisioner[c].plan] # "none"
    BY <1>1, <1>3, <1>4, <1>6, PlacesOnly
<1> QED BY <1>5, <1>6

\* A plan whose installer was started and may not be repeated is either at its end or
\* ambiguous, so the download is not begun again.
LEMMA DecideKeeps ==
    ASSUME ProvisionInv, NEW c \in Provisioners, Provision!Decide(c)
    PROVE  ProvisionInv'
<1> DEFINE x == provisioner[c].plan
<1>1. /\ provisioner[c].pc = "decide" /\ UNCHANGED installs
      /\ \/ Provision!Returns(c) /\ UNCHANGED checkpoint
         \/ Provision!Saves(c, "MANUAL_REQUIRED") /\ Provision!Returns(c)
         \/ Provision!Saves(c, "COMPLETED") /\ Provision!Returns(c)
         \/ /\ checkpoint[x] \notin Provision!Terminal /\ ~Provision!Ambiguous(x)
            /\ Provision!Saves(c, "IN_PROGRESS") /\ Provision!Goes(c, "download")
    BY DEF Provision!Decide
<1>2. Working(c)
    BY <1>1 DEF Working
<1>3. x \in Provision!Plans /\ checkpoint[x] \in Marks /\ installs[x] \in Nat
    BY <1>2, DoingFacts DEF Working, ProvisionInv, ProvisionTypeOK
<1>4. /\ {"MANUAL_REQUIRED", "COMPLETED", "IN_PROGRESS"} \subseteq Marks
      /\ "download" \in Steps
    BY DEF Marks, Provision!Terminal, Steps
<1>5. CASE Provision!Returns(c) /\ UNCHANGED checkpoint
  <2>1. StepOfCaller(c) /\ ~Announced(c)'
      BY <1>2, <1>5, ReturnsBack
  <2> QED BY <1>1, <1>5, <2>1, PlacesOnly
<1>6. ASSUME NEW status \in {"MANUAL_REQUIRED", "COMPLETED"},
             Provision!Saves(c, status), Provision!Returns(c)
      PROVE  ProvisionInv'
  <2>1. StepOfCaller(c) /\ ~Announced(c)'
      BY <1>2, <1>6, ReturnsBack
  <2>2. status \in Marks /\ status \notin {"none", "PREPARED"}
      BY <1>4, <1>6
  <2> QED BY <1>1, <1>2, <1>6, <2>1, <2>2, SavesMark
<1>7. CASE /\ checkpoint[x] \notin Provision!Terminal /\ ~Provision!Ambiguous(x)
           /\ Provision!Saves(c, "IN_PROGRESS") /\ Provision!Goes(c, "download")
  <2>1. StepOfCaller(c) /\ provisioner'[c].plan = x
      BY <1>2, <1>4, <1>7, GoesOn
  <2>2. installs[x] = 0 \/ x.action.idempotent
    <3>1. ASSUME installs[x] # 0, ~x.action.idempotent PROVE FALSE
      <4>1. x.action.install /\ checkpoint[x] \notin {"none", "PREPARED"}
          BY <1>3, <3>1 DEF ProvisionInv, StartedOnce
      <4>2. checkpoint[x] = "IN_PROGRESS"
          BY <1>3, <1>7, <4>1 DEF Marks
      <4> QED BY <1>7, <3>1, <4>1, <4>2 DEF Provision!Ambiguous
    <3> QED BY <3>1
  <2> QED BY <1>1, <1>2, <1>4, <1>7, <2>1, <2>2, SavesMark
<1> QED BY <1>1, <1>5, <1>6, <1>7

\* Steps under the lock that leave checkpoint and installer alone
LEMMA GoesQuietly ==
    ASSUME ProvisionInv, NEW c \in Provisioners, Working(c), NEW pc \in Steps,
           Provision!Goes(c, pc), pc \in {"download", "install"} => Announced(c),
           UNCHANGED <<checkpoint, installs>>
    PROVE  ProvisionInv'
<1>1. /\ StepOfCaller(c)
      /\ provisioner'[c].pc = pc /\ provisioner'[c].plan = provisioner[c].plan
    BY GoesOn
<1>2. Announced(c)' => Announced(c)
    BY <1>1 DEF Announced
<1> QED BY <1>1, <1>2, PlacesOnly

LEMMA DownloadKeeps ==
    ASSUME ProvisionInv, NEW c \in Provisioners, Provision!Download(c)
    PROVE  ProvisionInv'
<1>1. /\ provisioner[c].pc = "download" /\ UNCHANGED <<checkpoint, installs>>
      /\ Provision!Goes(c, "install") \/ Provision!Goes(c, "fail")
    BY DEF Provision!Download
<1>2. Working(c) /\ Announced(c) /\ "install" \in Steps /\ "fail" \in Steps
    BY <1>1 DEF Working, Announced, Steps
<1> QED BY <1>1, <1>2, GoesQuietly

LEMMA InstallKeeps ==
    ASSUME ProvisionInv, NEW c \in Provisioners, Provision!Install(c)
    PROVE  ProvisionInv'
<1>1. /\ provisioner[c].pc = "install" /\ provisioner[c].plan.action.install
      /\ installs' = [installs EXCEPT ![provisioner[c].plan] = @ + 1]
      /\ UNCHANGED checkpoint
      /\ Provision!Goes(c, "verify") \/ Provision!Goes(c, "fail")
    BY DEF Provision!Install
<1>2. Working(c) /\ Announced(c) /\ "verify" \in Steps /\ "fail" \in Steps
    BY <1>1 DEF Working, Announced, Steps
<1>3. StepOfCaller(c) /\ provisioner'[c].pc \in {"verify", "fail"}
    BY <1>1, <1>2, GoesOn
<1>4. ~Announced(c)'
    BY <1>3 DEF Announced
<1> QED BY <1>1, <1>2, <1>3, <1>4, Starts

LEMMA MoveKeeps ==
    ASSUME ProvisionInv, NEW c \in Provisioners, Provision!Move(c)
    PROVE  ProvisionInv'
<1>1. /\ provisioner[c].pc = "install" /\ UNCHANGED <<checkpoint, installs>>
      /\ Provision!Goes(c, "verify")
    BY DEF Provision!Move
<1>2. Working(c) /\ "verify" \in Steps
    BY <1>1 DEF Working, Steps
<1> QED BY <1>1, <1>2, GoesQuietly

LEMMA VerifyKeeps ==
    ASSUME ProvisionInv, NEW c \in Provisioners, Provision!Verify(c)
    PROVE  ProvisionInv'
<1>1. /\ provisioner[c].pc = "verify" /\ UNCHANGED <<checkpoint, installs>>
      /\ Provision!Goes(c, "complete") \/ Provision!Goes(c, "fail")
    BY DEF Provision!Verify
<1>2. Working(c) /\ "complete" \in Steps /\ "fail" \in Steps
    BY <1>1 DEF Working, Steps
<1> QED BY <1>1, <1>2, GoesQuietly

LEMMA CleanKeeps ==
    ASSUME ProvisionInv, NEW c \in Provisioners, Provision!Clean(c)
    PROVE  ProvisionInv'
<1>1. /\ UNCHANGED <<checkpoint, installs>>
      /\ provisioner[c].pc \in {"complete", "failed"}
      /\ Provision!Goes(c, "completed") \/ Provision!Returns(c)
    BY DEF Provision!Clean
<1>2. Working(c) /\ "completed" \in Steps
    BY <1>1 DEF Working, Steps
<1>3. CASE Provision!Goes(c, "completed")
    BY <1>1, <1>2, <1>3, GoesQuietly
<1>4. CASE Provision!Returns(c)
  <2>1. StepOfCaller(c) /\ ~Announced(c)'
      BY <1>2, <1>4, ReturnsBack
  <2> QED BY <1>1, <2>1, PlacesOnly
<1> QED BY <1>1, <1>3, <1>4

LEMMA FinishKeeps ==
    ASSUME ProvisionInv, NEW c \in Provisioners, Provision!Finish(c)
    PROVE  ProvisionInv'
<1>1. /\ UNCHANGED installs /\ provisioner[c].pc \in {"completed", "fail"}
      /\ \/ Provision!Saves(c, "COMPLETED") /\ Provision!Returns(c)
         \/ Provision!Saves(c, "FAILED") /\ Provision!Goes(c, "failed")
    BY DEF Provision!Finish
<1>2. /\ Working(c) /\ "failed" \in Steps /\ "COMPLETED" \in Marks /\ "FAILED" \in Marks
    BY <1>1 DEF Working, Steps, Marks, Provision!Terminal
<1>3. CASE Provision!Saves(c, "COMPLETED") /\ Provision!Returns(c)
  <2>1. StepOfCaller(c) /\ ~Announced(c)'
      BY <1>2, <1>3, ReturnsBack
  <2> QED BY <1>1, <1>2, <1>3, <2>1, SavesMark
<1>4. CASE Provision!Saves(c, "FAILED") /\ Provision!Goes(c, "failed")
  <2>1. StepOfCaller(c) /\ provisioner'[c].pc = "failed"
      BY <1>2, <1>4, GoesOn
  <2>2. ~Announced(c)'
      BY <2>1 DEF Announced
  <2> QED BY <1>1, <1>2, <1>4, <2>1, <2>2, SavesMark
<1> QED BY <1>1, <1>3, <1>4

\* The lock of a dead caller is free, and it is its only one.
LEMMA CrashKeeps ==
    ASSUME ProvisionInv, NEW c \in Provisioners, Provision!Crash(c)
    PROVE  ProvisionInv'
<1>1. /\ provisioner' = [provisioner EXCEPT ![c] = Provision!Out]
      /\ lock' = [x \in DOMAIN lock |-> IF lock[x] = c THEN "none" ELSE lock[x]]
      /\ UNCHANGED <<checkpoint, installs>>
    BY DEF Provision!Crash
<1>2. /\ provisioner' \in [Provisioners -> Doing] /\ provisioner'[c].pc = "idle"
      /\ \A d \in Provisioners : d # c => provisioner'[d] = provisioner[d]
    BY <1>1, GoesOut
<1>3. /\ lock' \in [Provision!Plans -> Provisioners \cup {"none"}]
      /\ \A x \in Provision!Plans : lock[x] # c => lock'[x] = lock[x]
    BY <1>1 DEF ProvisionInv, ProvisionTypeOK
<1>4. \A d \in Provisioners : Working(d) =>
         provisioner[d].plan \in Provision!Plans /\ lock[provisioner[d].plan] = d
    BY DoingFacts DEF Working, ProvisionInv, AloneInThePlan
<1>5. StepOfCaller(c) /\ ~Announced(c)'
    BY <1>2, <1>3, <1>4 DEF StepOfCaller, Working, Announced
<1> QED BY <1>1, <1>5, PlacesOnly

LEMMA NextProvision ==
    ASSUME ProvisionInv, Provision!Next \/ UNCHANGED provisionVars
    PROVE  ProvisionInv'
<1>1. CASE UNCHANGED <<checkpoint, lock, provisioner, installs>>
    BY <1>1 DEF ProvisionInv, ProvisionTypeOK, AloneInThePlan, AnnouncedFirst, StartedOnce,
               Working, Announced
<1>2. ASSUME NEW c \in Provisioners, Provision!Works(c) PROVE ProvisionInv'
    BY <1>2, CallKeeps, LockTimeoutKeeps, LockKeeps, LoadKeeps, DecideKeeps, DownloadKeeps,
       InstallKeeps, MoveKeeps, VerifyKeeps, CleanKeeps, FinishKeeps, CrashKeeps
       DEF Provision!Works
<1>3. CASE UNCHANGED provisionVars
    BY <1>1, <1>3 DEF provisionVars
<1>4. ASSUME NEW x \in Provision!Plans, Provision!Expire(x) PROVE ProvisionInv'
    BY <1>1, <1>4 DEF Provision!Expire
<1>5. ASSUME NEW t \in Provision!Targets, Provision!Reconcile(t) PROVE ProvisionInv'
    BY <1>1, <1>5 DEF Provision!Reconcile
<1> QED BY <1>2, <1>3, <1>4, <1>5 DEF Provision!Next

\* An installer that is not idempotent is started once for its plan, for any number of
\* processes, plans and recipes, wherever processes die.
THEOREM InstallersRunOnce == PartSpec => []InstallerNeverReplayed
<1>1. ProvisionInv /\ [PartNext]_allVars => ProvisionInv'
    BY PartSteps, NextProvision DEF Provision!vars, provisionVars
<1>2. ProvisionInv => InstallerNeverReplayed
    BY DEF ProvisionInv, ProvisionTypeOK, StartedOnce, InstallerNeverReplayed,
           Provision!InstallerNeverReplayed
<1> QED BY InitProvision, <1>1, <1>2, PTL DEF PartSpec

-----------------------------------------------------------------------------
(* Client integration, where nobody acts between the check of a call and   *)
(* its write.  What is written, kept and restored is a merge into the file *)
(* that the plan saw, or that file.                                        *)

Rests == Versions \cup {"empty"}
Entries == Versions \cup {Integration!NoEntry, Integration!Ours}
Written == [exists : {TRUE}, entries : [Integration!Ids -> Entries], rest : Rests,
            pretty : BOOLEAN]
Files == Written \cup {Integration!NoFile}
PlanSet ==
    [request : Integrations, before : Files,
     change : {"MANUAL_GUIDANCE", "NO_CONFIG_REQUIRED", "NO_CHANGE", "MERGE_ENTRY"}]
CallSteps ==
    {"backup", "prepare", "write", "applied", "restore", "restored"}
FilePlaces == {Integration!Idle} \cup [pc : CallSteps, plan : PlanSet, body : Files]
Manifests ==
    [status : {"PREPARED", "APPLIED", "ROLLED_BACK"}, before : Files, after : Files]

Outcome(p) == Integration!Merged(Integration!Read(p.before), p.request.entry)

IntegrationTypeOK ==
    /\ file \in Files /\ plans \subseteq PlanSet
    /\ integrator \in [Integrators -> FilePlaces]
    /\ manifest \in [DOMAIN manifest -> Manifests]
OneIntegrates ==
    \A c, d \in Integrators :
        integrator[c].pc # "idle" /\ integrator[d].pc # "idle" => c = d
\* What a caller is about to write is what its plan comes to
KeepsToThePlan(c) ==
    LET p == integrator[c].plan
    IN  /\ integrator[c].pc \in {"backup", "prepare", "write", "applied"} =>
              integrator[c].body = Outcome(p)
        /\ integrator[c].pc \in {"backup", "prepare", "write"} => file = p.before
        /\ integrator[c].pc = "restore" =>
              /\ file = Outcome(p) /\ integrator[c].body = p.before
              /\ p.before.exists => p \in DOMAIN backup
StoreIsTrue ==
    /\ \A p \in DOMAIN manifest :
          manifest[p].before = p.before /\ manifest[p].after = Outcome(p)
    /\ \A p \in DOMAIN backup : backup[p] = p.before

IntegrationInv ==
    /\ IntegrationTypeOK /\ OneIntegrates /\ StoreIsTrue
    /\ \A c \in Integrators : KeepsToThePlan(c)

\* Setting one entry of a document, which lays it out anew
SetTo(d, i, v) == [d EXCEPT !.entries[i] = v, !.pretty = TRUE]

LEMMA EntrySet ==
    ASSUME NEW d \in Written, NEW i \in Integration!Ids, NEW v \in Entries
    PROVE  SetTo(d, i, v)
              = [exists |-> TRUE, entries |-> [d.entries EXCEPT ![i] = v],
                 rest |-> d.rest, pretty |-> TRUE]
<1> DEFINE E == [Integration!Ids -> Entries]
<1> DEFINE more == [d.entries EXCEPT ![i] = v]
<1>1. d.entries \in E /\ more \in E
    BY DEF Written
<1>2. SetTo(d, i, v) = [d EXCEPT !.entries = more, !.pretty = TRUE]
    BY DEF Written, SetTo
<1>3. d \in [exists : {TRUE}, entries : E, rest : Rests, pretty : BOOLEAN]
    BY DEF Written
<1> HIDE DEF E, more
<1> DEFINE z == [d EXCEPT !.entries = more, !.pretty = TRUE]
<1>4. /\ z \in [exists : {TRUE}, entries : E, rest : Rests, pretty : BOOLEAN]
      /\ z.entries = more /\ z.rest = d.rest /\ z.pretty = TRUE /\ z.exists = TRUE
    BY <1>1, <1>3
<1> HIDE DEF z
<1>5. z = [exists |-> z.exists, entries |-> z.entries, rest |-> z.rest, pretty |-> z.pretty]
    BY <1>4
<1>6. z = [exists |-> TRUE, entries |-> more, rest |-> d.rest, pretty |-> TRUE]
    BY <1>4, <1>5
<1> QED BY <1>2, <1>6 DEF z, more

\* A merge leaves the rest of a document as it was.
LEMMA MergeLeavesTheRest ==
    ASSUME NEW d \in Written, NEW i \in Integration!Ids
    PROVE  /\ Integration!Merged(d, i) \in Written
           /\ Integration!Merged(d, i).exists
           /\ Integration!Unaffected(Integration!Merged(d, i), i) = Integration!Unaffected(d, i)
<1> DEFINE ours == [d.entries EXCEPT ![i] = Integration!Ours]
<1> DEFINE m == [exists |-> TRUE, entries |-> ours, rest |-> d.rest, pretty |-> TRUE]
<1>1. Integration!Ours \in Entries /\ Integration!NoEntry \in Entries
    BY DEF Entries
<1> DEFINE none(x) == [x.entries EXCEPT ![i] = Integration!NoEntry]
<1>2. Integration!Merged(d, i) = m
  <2>1. Integration!Merged(d, i) = SetTo(d, i, Integration!Ours)
      BY DEF Integration!Merged, SetTo
  <2> QED BY <1>1, <2>1, EntrySet
<1>3. d.entries \in [Integration!Ids -> Entries] /\ d.rest \in Rests
    BY DEF Written
<1>4. m \in Written
    BY <1>1, <1>3 DEF Written
<1>5. ASSUME NEW x \in Written
      PROVE  Integration!Unaffected(x, i)
                = [exists |-> TRUE, entries |-> none(x), rest |-> x.rest, pretty |-> TRUE]
  <2>1. Integration!Unaffected(x, i) = SetTo(x, i, Integration!NoEntry)
      BY DEF Integration!Unaffected, SetTo
  <2> QED BY <1>1, <2>1, EntrySet
<1>6. none(m) = none(d) /\ m.rest = d.rest /\ m.exists
    BY <1>3
<1> HIDE DEF m, none
<1> QED BY <1>2, <1>4, <1>5, <1>6

LEMMA ReadIsADocument ==
    ASSUME NEW d \in Files
    PROVE  /\ Integration!Read(d) \in Written
           /\ d.exists => d \in Written /\ Integration!Read(d) = d
<1>1. Integration!Blank \in Written
    BY DEF Integration!Blank, Integration!Document, Written, Entries, Rests
<1>2. CASE d = Integration!NoFile
    BY <1>1, <1>2 DEF Integration!Read, Integration!NoFile
<1>3. CASE d \in Written
    BY <1>3 DEF Integration!Read, Written
<1> QED BY <1>2, <1>3 DEF Files

LEMMA OutcomeFacts ==
    ASSUME NEW p \in PlanSet
    PROVE  /\ p.before \in Files /\ p.request \in Integrations
           /\ p.request.entry \in Integration!Ids
           /\ Outcome(p) \in Files /\ Outcome(p).exists
           /\ Integration!Unaffected(Outcome(p), p.request.entry)
                 = Integration!Unaffected(Integration!Read(p.before), p.request.entry)
<1>1. p.before \in Files /\ p.request \in Integrations
    BY DEF PlanSet
<1>2. p.request.entry \in Integration!Ids
    BY <1>1 DEF Integration!Ids
<1>3. Integration!Read(p.before) \in Written
    BY <1>1, ReadIsADocument
<1> QED BY <1>1, <1>2, <1>3, MergeLeavesTheRest DEF Outcome, Files

LEMMA InitIntegration == PartInit => IntegrationInv
<1> SUFFICES ASSUME Integration!Init PROVE IntegrationInv
    BY DEF PartInit
<1>1. /\ file \in Integration!Documents \cup {Integration!NoFile} /\ plans = {}
      /\ manifest = Integration!Nobody /\ backup = Integration!Nobody
      /\ integrator = [c \in Integrators |-> Integration!Idle]
    BY DEF Integration!Init
<1>2. Integration!Documents \subseteq Written
    BY DEF Integration!Documents, Written, Entries, Rests
<1>3. DOMAIN Integration!Nobody = {} /\ Integration!Nobody \in [{} -> Manifests]
    BY DEF Integration!Nobody
<1>4. Integration!Idle.pc = "idle"
    BY DEF Integration!Idle
<1>5. IntegrationTypeOK
    BY <1>1, <1>2, <1>3 DEF IntegrationTypeOK, Files, FilePlaces
<1> QED BY <1>1, <1>3, <1>4, <1>5
        DEF IntegrationInv, OneIntegrates, StoreIsTrue, KeepsToThePlan

LEMMA CallFacts ==
    ASSUME IntegrationInv, NEW c \in Integrators, integrator[c].pc # "idle"
    PROVE  /\ integrator[c] \in [pc : CallSteps, plan : PlanSet, body : Files]
           /\ integrator[c].plan \in PlanSet /\ integrator[c].body \in Files
           /\ KeepsToThePlan(c)
           /\ \A d \in Integrators : d # c => integrator[d].pc = "idle"
<1>1. integrator[c] \in FilePlaces
    BY DEF IntegrationInv, IntegrationTypeOK
<1>2. Integration!Idle.pc = "idle"
    BY DEF Integration!Idle
<1> QED BY <1>1, <1>2 DEF FilePlaces, IntegrationInv, OneIntegrates

\* A step of the only caller at work
LEMMA OneCallerSteps ==
    ASSUME IntegrationInv, NEW c \in Integrators, NEW place \in FilePlaces,
           \A d \in Integrators : d # c => integrator[d].pc = "idle",
           integrator' = [integrator EXCEPT ![c] = place],
           file' \in Files, plans' = plans, manifest' \in [DOMAIN manifest' -> Manifests],
           StoreIsTrue', KeepsToThePlan(c)'
    PROVE  IntegrationInv'
<1>1. /\ integrator' \in [Integrators -> FilePlaces]
      /\ \A d \in Integrators : d # c => integrator'[d].pc = "idle"
    BY DEF IntegrationInv, IntegrationTypeOK
<1>2. \A d \in Integrators : d # c => KeepsToThePlan(d)'
    BY <1>1 DEF KeepsToThePlan
<1> QED BY <1>1, <1>2 DEF IntegrationInv, IntegrationTypeOK, OneIntegrates

LEMMA PlaceMoved ==
    ASSUME IntegrationInv, NEW c \in Integrators, integrator[c].pc # "idle",
           NEW pc \in CallSteps, integrator' = [integrator EXCEPT ![c].pc = pc]
    PROVE  \E place \in FilePlaces :
              /\ integrator' = [integrator EXCEPT ![c] = place] /\ integrator'[c] = place
              /\ place.pc = pc /\ place.plan = integrator[c].plan
              /\ place.body = integrator[c].body
<1> DEFINE place == [integrator[c] EXCEPT !.pc = pc]
<1>1. /\ place \in [pc : CallSteps, plan : PlanSet, body : Files]
      /\ place.pc = pc /\ place.plan = integrator[c].plan /\ place.body = integrator[c].body
    BY CallFacts
<1>2. /\ integrator' = [integrator EXCEPT ![c] = place]
      /\ integrator \in [Integrators -> FilePlaces]
    BY DEF IntegrationInv, IntegrationTypeOK
<1> HIDE DEF place
<1>3. integrator'[c] = place /\ place \in FilePlaces
    BY <1>1, <1>2 DEF FilePlaces
<1> QED BY <1>1, <1>2, <1>3

\* A call begins when nobody else is at work.
LEMMA ApplyKeeps ==
    ASSUME IntegrationInv, ~Windows, NEW c \in Integrators, NEW p \in plans,
           Integration!Apply(c, p)
    PROVE  IntegrationInv'
<1> DEFINE body == Integration!Merged(Integration!Read(file), p.request.entry)
<1> DEFINE place == Integration!Entered(p, "backup", body)
<1>1. /\ \A d \in Integrators : integrator[d].pc = "idle"
      /\ file = p.before /\ integrator' = [integrator EXCEPT ![c] = place]
      /\ UNCHANGED <<file, plans, manifest, backup>>
    BY DEF Integration!Apply, Integration!Window
<1>2. p \in PlanSet
    BY DEF IntegrationInv, IntegrationTypeOK
<1>3. body = Outcome(p) /\ body \in Files
    BY <1>1, <1>2, OutcomeFacts DEF Outcome
<1> HIDE DEF body
<1>4. /\ place.pc = "backup" /\ place.plan = p /\ place.body = body
      /\ place \in [pc : CallSteps, plan : PlanSet, body : Files]
    BY <1>2, <1>3 DEF Integration!Entered, CallSteps
<1> HIDE DEF place
<1>5. place \in FilePlaces
    BY <1>4 DEF FilePlaces
<1>6. integrator'[c] = place
    BY <1>1 DEF IntegrationInv, IntegrationTypeOK
<1>7. KeepsToThePlan(c)'
    BY <1>1, <1>3, <1>4, <1>6 DEF KeepsToThePlan, Outcome
<1>8. StoreIsTrue' /\ file' \in Files /\ manifest' \in [DOMAIN manifest' -> Manifests]
    BY <1>1 DEF IntegrationInv, IntegrationTypeOK, StoreIsTrue, Outcome
<1> QED BY <1>1, <1>5, <1>7, <1>8, OneCallerSteps

LEMMA RollbackKeeps ==
    ASSUME IntegrationInv, ~Windows, NEW c \in Integrators, NEW p \in plans,
           Integration!Rollback(c, p)
    PROVE  IntegrationInv'
<1> DEFINE place == Integration!Entered(p, "restore", manifest[p].before)
<1>1. /\ \A d \in Integrators : integrator[d].pc = "idle"
      /\ integrator' = [integrator EXCEPT ![c] = place]
      /\ Integration!Saved(p).status = "APPLIED" /\ file = manifest[p].after
      /\ manifest[p].before.exists => p \in DOMAIN backup
      /\ UNCHANGED <<file, plans, manifest, backup>>
    BY DEF Integration!Rollback, Integration!Window, Integration!Unchanged
<1>2. p \in PlanSet
    BY DEF IntegrationInv, IntegrationTypeOK
<1>3. p \in DOMAIN manifest
    BY <1>1 DEF Integration!Saved, Integration!NoManifest
<1>4. manifest[p].before = p.before /\ file = Outcome(p) /\ p.before \in Files
    BY <1>1, <1>2, <1>3, OutcomeFacts DEF IntegrationInv, StoreIsTrue
<1>5. /\ place.pc = "restore" /\ place.plan = p /\ place.body = p.before
      /\ place \in [pc : CallSteps, plan : PlanSet, body : Files]
    BY <1>2, <1>4 DEF Integration!Entered, CallSteps
<1> HIDE DEF place
<1>6. place \in FilePlaces
    BY <1>5 DEF FilePlaces
<1>7. integrator'[c] = place
    BY <1>1 DEF IntegrationInv, IntegrationTypeOK
<1>8. KeepsToThePlan(c)'
    BY <1>1, <1>4, <1>5, <1>7 DEF KeepsToThePlan, Outcome
<1>9. StoreIsTrue' /\ file' \in Files /\ manifest' \in [DOMAIN manifest' -> Manifests]
    BY <1>1 DEF IntegrationInv, IntegrationTypeOK, StoreIsTrue, Outcome
<1> QED BY <1>1, <1>6, <1>8, <1>9, OneCallerSteps

LEMMA BackupKeeps ==
    ASSUME IntegrationInv, NEW c \in Integrators, Integration!Backup(c)
    PROVE  IntegrationInv'
<1> DEFINE p == integrator[c].plan
<1>1. /\ integrator[c].pc = "backup" /\ integrator' = [integrator EXCEPT ![c].pc = "prepare"]
      /\ backup' = IF p.before.exists THEN Integration!Put(backup, p, p.before) ELSE backup
      /\ UNCHANGED <<file, plans, manifest>>
    BY DEF Integration!Backup
<1>2. /\ \A d \in Integrators : d # c => integrator[d].pc = "idle"
      /\ KeepsToThePlan(c)
    BY <1>1, CallFacts
<1>3. PICK place \in FilePlaces :
         /\ integrator' = [integrator EXCEPT ![c] = place] /\ integrator'[c] = place
         /\ place.pc = "prepare" /\ place.plan = p /\ place.body = integrator[c].body
    BY <1>1, PlaceMoved DEF CallSteps
<1>4. KeepsToThePlan(c)'
    BY <1>1, <1>2, <1>3 DEF KeepsToThePlan, Outcome
<1>5. \A x \in DOMAIN backup' : backup'[x] = x.before
  <2> DEFINE kept == Integration!Put(backup, p, p.before)
  <2>1. \A x \in DOMAIN kept : kept[x] = IF x = p THEN p.before ELSE backup[x]
      BY DEF Integration!Put
  <2>2. DOMAIN kept = DOMAIN backup \cup {p}
      BY DEF Integration!Put
  <2> HIDE DEF kept
  <2>3. \A x \in DOMAIN kept : kept[x] = x.before
      BY <2>1, <2>2 DEF IntegrationInv, StoreIsTrue
  <2>4. backup' = kept \/ backup' = backup
      BY <1>1 DEF kept
  <2> QED BY <2>3, <2>4 DEF IntegrationInv, StoreIsTrue
<1>6. StoreIsTrue' /\ file' \in Files /\ manifest' \in [DOMAIN manifest' -> Manifests]
    BY <1>1, <1>5 DEF IntegrationInv, IntegrationTypeOK, StoreIsTrue, Outcome
<1> QED BY <1>1, <1>2, <1>3, <1>4, <1>6, OneCallerSteps

LEMMA PrepareKeeps ==
    ASSUME IntegrationInv, NEW c \in Integrators, Integration!Prepare(c)
    PROVE  IntegrationInv'
<1> DEFINE p == integrator[c].plan
<1> DEFINE entry == [status |-> "PREPARED", before |-> p.before, after |-> integrator[c].body]
<1>1. /\ integrator[c].pc = "prepare" /\ integrator' = [integrator EXCEPT ![c].pc = "write"]
      /\ manifest' = Integration!Put(manifest, p, entry)
      /\ UNCHANGED <<file, plans, backup>>
    BY DEF Integration!Prepare
<1>2. /\ \A d \in Integrators : d # c => integrator[d].pc = "idle"
      /\ KeepsToThePlan(c) /\ p \in PlanSet /\ integrator[c].body \in Files
    BY <1>1, CallFacts
<1>3. PICK place \in FilePlaces :
         /\ integrator' = [integrator EXCEPT ![c] = place] /\ integrator'[c] = place
         /\ place.pc = "write" /\ place.plan = p /\ place.body = integrator[c].body
    BY <1>1, PlaceMoved DEF CallSteps
<1>4. KeepsToThePlan(c)'
    BY <1>1, <1>2, <1>3 DEF KeepsToThePlan, Outcome
<1>5. entry \in Manifests /\ entry.before = p.before /\ entry.after = Outcome(p)
    BY <1>1, <1>2, OutcomeFacts DEF Manifests, KeepsToThePlan
<1> HIDE DEF entry, p
<1>6. /\ manifest' \in [DOMAIN manifest' -> Manifests]
      /\ \A x \in DOMAIN manifest' :
            manifest'[x].before = x.before /\ manifest'[x].after = Outcome(x)
  <2>1. /\ DOMAIN manifest' = DOMAIN manifest \cup {p}
        /\ manifest' = [x \in DOMAIN manifest' |-> IF x = p THEN entry ELSE manifest[x]]
      BY <1>1 DEF Integration!Put
  <2>2. /\ manifest \in [DOMAIN manifest -> Manifests]
        /\ \A x \in DOMAIN manifest :
              manifest[x].before = x.before /\ manifest[x].after = Outcome(x)
      BY DEF IntegrationInv, IntegrationTypeOK, StoreIsTrue
  <2>3. \A x \in DOMAIN manifest' : IF x = p THEN manifest'[x] = entry
                                    ELSE x \in DOMAIN manifest /\ manifest'[x] = manifest[x]
      BY <2>1
  <2>4. \A x \in DOMAIN manifest' : manifest'[x] \in Manifests
      BY <1>5, <2>2, <2>3
  <2>5. manifest' \in [DOMAIN manifest' -> Manifests]
      BY <2>1, <2>4
  <2> QED BY <1>5, <2>2, <2>3, <2>5
<1>7. StoreIsTrue' /\ file' \in Files
    BY <1>1, <1>6 DEF IntegrationInv, IntegrationTypeOK, StoreIsTrue, Outcome
<1> QED BY <1>1, <1>2, <1>3, <1>4, <1>6, <1>7, OneCallerSteps

LEMMA WriteKeeps ==
    ASSUME IntegrationInv, NEW c \in Integrators, Integration!Write(c)
    PROVE  IntegrationInv'
<1> DEFINE p == integrator[c].plan
<1>1. /\ integrator[c].pc = "write" /\ integrator' = [integrator EXCEPT ![c].pc = "applied"]
      /\ file' = integrator[c].body /\ UNCHANGED <<plans, manifest, backup>>
    BY DEF Integration!Write
<1>2. /\ \A d \in Integrators : d # c => integrator[d].pc = "idle"
      /\ KeepsToThePlan(c) /\ integrator[c].body \in Files
    BY <1>1, CallFacts
<1>3. PICK place \in FilePlaces :
         /\ integrator' = [integrator EXCEPT ![c] = place] /\ integrator'[c] = place
         /\ place.pc = "applied" /\ place.plan = p /\ place.body = integrator[c].body
    BY <1>1, PlaceMoved DEF CallSteps
<1>4. KeepsToThePlan(c)'
    BY <1>1, <1>2, <1>3 DEF KeepsToThePlan, Outcome
<1>5. StoreIsTrue' /\ manifest' \in [DOMAIN manifest' -> Manifests]
    BY <1>1 DEF IntegrationInv, IntegrationTypeOK, StoreIsTrue, Outcome
<1> QED BY <1>1, <1>2, <1>3, <1>4, <1>5, OneCallerSteps

\* A caller leaves, at its end or because it dies.
LEMMA LeavesTheFile ==
    ASSUME IntegrationInv, NEW c \in Integrators, integrator[c].pc # "idle",
           integrator' = [integrator EXCEPT ![c] = Integration!Idle],
           UNCHANGED <<file, plans>>, StoreIsTrue',
           manifest' \in [DOMAIN manifest' -> Manifests]
    PROVE  IntegrationInv'
<1>1. Integration!Idle.pc = "idle" /\ Integration!Idle \in FilePlaces
    BY DEF Integration!Idle, FilePlaces
<1>2. integrator'[c] = Integration!Idle
    BY DEF IntegrationInv, IntegrationTypeOK
<1>3. KeepsToThePlan(c)' /\ file' \in Files
    BY <1>1, <1>2 DEF KeepsToThePlan, IntegrationInv, IntegrationTypeOK
<1> QED BY <1>1, <1>3, CallFacts, OneCallerSteps

LEMMA AppliedKeeps ==
    ASSUME IntegrationInv, NEW c \in Integrators, Integration!Applied(c)
    PROVE  IntegrationInv'
<1> DEFINE p == integrator[c].plan
<1> DEFINE entry == [status |-> "APPLIED", before |-> p.before, after |-> integrator[c].body]
<1>1. /\ integrator[c].pc = "applied"
      /\ integrator' = [integrator EXCEPT ![c] = Integration!Idle]
      /\ manifest' = [manifest EXCEPT ![p] = entry] /\ UNCHANGED <<file, plans, backup>>
    BY DEF Integration!Applied
<1>2. KeepsToThePlan(c) /\ p \in PlanSet /\ integrator[c].body \in Files
    BY <1>1, CallFacts
<1>3. entry \in Manifests /\ entry.before = p.before /\ entry.after = Outcome(p)
    BY <1>1, <1>2, OutcomeFacts DEF Manifests, KeepsToThePlan
<1> HIDE DEF entry, p
<1>4. /\ manifest' \in [DOMAIN manifest' -> Manifests]
      /\ \A x \in DOMAIN manifest' :
            manifest'[x].before = x.before /\ manifest'[x].after = Outcome(x)
    BY <1>1, <1>3 DEF IntegrationInv, IntegrationTypeOK, StoreIsTrue
<1>5. StoreIsTrue'
    BY <1>1, <1>4 DEF IntegrationInv, StoreIsTrue, Outcome
<1> QED BY <1>1, <1>4, <1>5, LeavesTheFile

LEMMA RestoreKeeps ==
    ASSUME IntegrationInv, NEW c \in Integrators, Integration!Restore(c)
    PROVE  IntegrationInv'
<1> DEFINE p == integrator[c].plan
<1>1. /\ integrator[c].pc = "restore" /\ integrator' = [integrator EXCEPT ![c].pc = "restored"]
      /\ file' = IF integrator[c].body.exists THEN backup[p] ELSE Integration!NoFile
      /\ UNCHANGED <<plans, manifest, backup>>
    BY DEF Integration!Restore
<1>2. /\ \A d \in Integrators : d # c => integrator[d].pc = "idle"
      /\ KeepsToThePlan(c) /\ p \in PlanSet
    BY <1>1, CallFacts
<1>3. PICK place \in FilePlaces :
         /\ integrator' = [integrator EXCEPT ![c] = place] /\ integrator'[c] = place
         /\ place.pc = "restored" /\ place.plan = p /\ place.body = integrator[c].body
    BY <1>1, PlaceMoved DEF CallSteps
<1>4. KeepsToThePlan(c)'
    BY <1>3 DEF KeepsToThePlan
<1>5. file' \in Files
    BY <1>1, <1>2, OutcomeFacts DEF KeepsToThePlan, IntegrationInv, StoreIsTrue, Files
<1>6. StoreIsTrue' /\ manifest' \in [DOMAIN manifest' -> Manifests]
    BY <1>1 DEF IntegrationInv, IntegrationTypeOK, StoreIsTrue, Outcome
<1> QED BY <1>1, <1>2, <1>3, <1>4, <1>5, <1>6, OneCallerSteps

LEMMA RestoredKeeps ==
    ASSUME IntegrationInv, NEW c \in Integrators, Integration!Restored(c)
    PROVE  IntegrationInv'
<1> DEFINE p == integrator[c].plan
<1>1. /\ integrator[c].pc = "restored"
      /\ integrator' = [integrator EXCEPT ![c] = Integration!Idle]
      /\ manifest' = [manifest EXCEPT ![p].status = "ROLLED_BACK"]
      /\ UNCHANGED <<file, plans, backup>>
    BY DEF Integration!Restored
<1> HIDE DEF p
<1>2. /\ manifest' \in [DOMAIN manifest' -> Manifests] /\ DOMAIN manifest' = DOMAIN manifest
      /\ \A x \in DOMAIN manifest :
            manifest'[x].before = manifest[x].before /\ manifest'[x].after = manifest[x].after
  <2> DEFINE new == [manifest[p] EXCEPT !.status = "ROLLED_BACK"]
  <2>1. manifest' = [manifest EXCEPT ![p] = new] /\ manifest \in [DOMAIN manifest -> Manifests]
      BY <1>1 DEF IntegrationInv, IntegrationTypeOK
  <2>2. p \in DOMAIN manifest => /\ new \in Manifests /\ new.before = manifest[p].before
                                 /\ new.after = manifest[p].after
      BY <2>1 DEF Manifests
  <2> HIDE DEF new
  <2> QED BY <2>1, <2>2
<1>3. StoreIsTrue'
    BY <1>1, <1>2 DEF IntegrationInv, StoreIsTrue, Outcome
<1> QED BY <1>1, <1>2, <1>3, LeavesTheFile

LEMMA PlanKeeps ==
    ASSUME IntegrationInv, NEW r \in Integrations, Integration!Plan(r)
    PROVE  IntegrationInv'
<1>1. /\ plans' = plans \cup {Integration!PlanOf(r)}
      /\ UNCHANGED <<file, manifest, backup, integrator>>
    BY DEF Integration!Plan
<1>2. file \in Files /\ Integration!NoFile \in Files
    BY DEF IntegrationInv, IntegrationTypeOK, Files
<1>3. Integration!Change(r) \in
         {"MANUAL_GUIDANCE", "NO_CONFIG_REQUIRED", "NO_CHANGE", "MERGE_ENTRY"}
    BY DEF Integration!Change
<1>4. Integration!PlanOf(r) \in PlanSet
    BY <1>2, <1>3 DEF Integration!PlanOf, PlanSet
<1>5. IntegrationTypeOK'
    BY <1>1, <1>4 DEF IntegrationInv, IntegrationTypeOK
<1> QED BY <1>1, <1>5
        DEF IntegrationInv, OneIntegrates, StoreIsTrue, KeepsToThePlan, Outcome

LEMMA EditOfTheUser ==
    ASSUME IntegrationInv, ~Windows, Integration!Edit
    PROVE  IntegrationInv'
<1>1. /\ \A c \in Integrators : integrator[c].pc = "idle"
      /\ file' \in Integration!Documents
      /\ UNCHANGED <<plans, manifest, backup, integrator>>
    BY DEF Integration!Edit, Integration!Window
<1>2. file' \in Files
    BY <1>1 DEF Integration!Documents, Files, Written, Entries, Rests
<1> QED BY <1>1, <1>2
        DEF IntegrationInv, IntegrationTypeOK, OneIntegrates, StoreIsTrue, KeepsToThePlan,
            Outcome

LEMMA NextIntegration ==
    ASSUME IntegrationInv, ~Windows, Integration!Next \/ UNCHANGED clientVars
    PROVE  IntegrationInv'
<1>1. CASE UNCHANGED clientVars
    BY <1>1 DEF clientVars, IntegrationInv, IntegrationTypeOK, OneIntegrates, StoreIsTrue,
               KeepsToThePlan, Outcome
<1>2. ASSUME NEW c \in Integrators, Integration!Crash(c) PROVE IntegrationInv'
  <2>1. /\ integrator[c].pc # "idle"
        /\ integrator' = [integrator EXCEPT ![c] = Integration!Idle]
        /\ UNCHANGED <<file, plans, manifest, backup>>
      BY <1>2 DEF Integration!Crash
  <2>2. StoreIsTrue' /\ manifest' \in [DOMAIN manifest' -> Manifests]
      BY <2>1 DEF IntegrationInv, IntegrationTypeOK, StoreIsTrue, Outcome
  <2> QED BY <2>1, <2>2, LeavesTheFile
<1>3. ASSUME NEW c \in Integrators, Integration!Integrates(c) PROVE IntegrationInv'
    BY <1>2, <1>3, ApplyKeeps, RollbackKeeps, BackupKeeps, PrepareKeeps, WriteKeeps,
       AppliedKeeps, RestoreKeeps, RestoredKeeps DEF Integration!Integrates
<1> QED BY <1>1, <1>3, PlanKeeps, EditOfTheUser DEF Integration!Next

\* The caller at work is the only one who writes.
LEMMA OnlyItsOwnEntry ==
    ASSUME IntegrationInv, ~Windows, Integration!Next \/ UNCHANGED clientVars,
           NEW c \in Integrators, integrator[c].pc \in {"write", "restore"}, file' # file
    PROVE  Integration!Unaffected(Integration!Read(file'), integrator[c].plan.request.entry)
            = Integration!Unaffected(Integration!Read(file), integrator[c].plan.request.entry)
<1> DEFINE p == integrator[c].plan
<1>1. p \in PlanSet /\ KeepsToThePlan(c) /\ integrator[c].pc # "idle"
    BY CallFacts
<1>2. /\ p.before \in Files /\ Outcome(p) \in Files /\ Outcome(p).exists
      /\ Integration!Read(Outcome(p)) = Outcome(p)
      /\ Integration!Unaffected(Outcome(p), p.request.entry)
            = Integration!Unaffected(Integration!Read(p.before), p.request.entry)
    BY <1>1, OutcomeFacts, ReadIsADocument
<1>3. Integration!Write(c) \/ Integration!Restore(c)
  <2>1. Integration!Next /\ Integration!Window
      BY <1>1 DEF clientVars, Integration!Window
  <2>2. PICK d \in Integrators : Integration!Integrates(d)
      BY <2>1 DEF Integration!Next, Integration!Edit, Integration!Plan
  <2>3. Integration!Write(d) \/ Integration!Restore(d)
      BY <2>1, <2>2
         DEF Integration!Integrates, Integration!Apply, Integration!Rollback,
             Integration!Backup, Integration!Prepare, Integration!Applied,
             Integration!Restored, Integration!Crash
  <2>4. integrator[d].pc # "idle"
      BY <2>3 DEF Integration!Write, Integration!Restore
  <2>5. d = c
      BY <1>1, <2>4 DEF IntegrationInv, OneIntegrates
  <2> QED BY <2>3, <2>5
<1>4. CASE Integration!Write(c)
  <2>1. file' = Outcome(p) /\ file = p.before
      BY <1>1, <1>4 DEF Integration!Write, KeepsToThePlan
  <2> QED BY <1>2, <2>1
<1>5. CASE Integration!Restore(c)
  <2>1. /\ file = Outcome(p) /\ integrator[c].body = p.before
        /\ p.before.exists => file' = backup[p] /\ p \in DOMAIN backup
        /\ ~p.before.exists => file' = Integration!NoFile
      BY <1>1, <1>5 DEF Integration!Restore, KeepsToThePlan
  <2>2. Integration!Read(file') = Integration!Read(p.before)
    <3>1. CASE p.before.exists
        BY <2>1, <3>1 DEF IntegrationInv, StoreIsTrue
    <3>2. CASE ~p.before.exists
        BY <2>1, <3>2 DEF Integration!Read, Integration!NoFile
    <3> QED BY <3>1, <3>2
  <2> QED BY <1>2, <2>1, <2>2
<1> QED BY <1>3, <1>4, <1>5

\* Where nobody acts between a call's check and its write, an apply and a rollback
\* change their own entry only, for any callers, plans, editors and crashes.
THEOREM IntegrationsTouchTheirOwn ==
    ASSUME ~Windows PROVE PartSpec => OthersAreUntouched
<1>1. IntegrationInv /\ [PartNext]_allVars => IntegrationInv'
    BY PartSteps, NextIntegration DEF Integration!vars, clientVars
<1>2. IntegrationInv /\ [PartNext]_allVars =>
         [\A c \in Integrators : integrator[c].pc \in {"write", "restore"} /\ file' # file =>
            LET id == integrator[c].plan.request.entry
            IN  Integration!Unaffected(Integration!Read(file'), id)
                  = Integration!Unaffected(Integration!Read(file), id)]_(Integration!vars)
    BY PartSteps, OnlyItsOwnEntry DEF Integration!vars, clientVars
<1> QED BY InitIntegration, <1>1, <1>2, PTL
        DEF PartSpec, OthersAreUntouched, Integration!OthersAreUntouched

-----------------------------------------------------------------------------
(* The configuration of the adapters, edited by one command at a time.     *)
(* Documents are numbered as they are made, and the record, when it speaks *)
(* of the document there is, names the one that document replaced.         *)

Numbered == [connections : Configuration!Contents, stamp : Nat]
EditorPlaces ==
    {Configuration!Idle}
    \cup [pc : {"asked"}, id : Connections, new : Configuration!Contents]
    \cup [pc : {"record", "write"}, previous : Numbered, new : Numbered]
    \cup [pc : {"restore", "forget"}, previous : Numbered]

ConfigurationTypeOK ==
    /\ document \in Numbered /\ stamps \in 0..MaxSaves
    /\ record \in {Configuration!NoRecord}
                  \cup [exists : {TRUE}, previous : Numbered, applied : Numbered]
    /\ editor \in [Editors -> EditorPlaces]
    /\ replaced \in [0..MaxSaves -> Numbered]
OneEdits ==
    \A d, e \in Editors : editor[d].pc # "idle" /\ editor[e].pc # "idle" => d = e
RecordIsTrue ==
    /\ document.stamp =< stamps
    /\ record.exists =>
          /\ record.previous.stamp < record.applied.stamp
          /\ document = record.applied => record.previous = replaced[document.stamp]
\* What an editor has read is still so
ReadIsCurrent(e) ==
    /\ editor[e].pc \in {"record", "write"} =>
          /\ editor[e].previous = document
          /\ editor[e].new.stamp = stamps /\ document.stamp < stamps
    /\ editor[e].pc = "write" =>
          record.exists /\ record.applied = editor[e].new /\ record.previous = document
    /\ editor[e].pc = "restore" =>
          /\ record.exists /\ editor[e].previous = record.previous
          /\ document = record.applied

ConfigurationInv ==
    /\ ConfigurationTypeOK /\ OneEdits /\ RecordIsTrue
    /\ \A e \in Editors : ReadIsCurrent(e)

LEMMA InitConfiguration == PartInit => ConfigurationInv
<1> SUFFICES ASSUME Configuration!Init PROVE ConfigurationInv
    BY DEF PartInit
<1>1. /\ document \in [connections : Configuration!Contents, stamp : {0}]
      /\ record = Configuration!NoRecord /\ stamps = 0
      /\ editor = [e \in Editors |-> Configuration!Idle]
      /\ replaced = [s \in 0..MaxSaves |-> document]
    BY DEF Configuration!Init
<1>2. /\ Configuration!Idle.pc = "idle" /\ Configuration!NoRecord.exists = FALSE
      /\ MaxSaves \in Nat
    BY ConfigurationAssumption
       DEF Configuration!Idle, Configuration!NoRecord, Configuration!ConfigurationAssumption
<1>3. document \in Numbered /\ document.stamp = 0
    BY <1>1 DEF Numbered
<1> HIDE DEF Numbered
<1>4. \A e \in Editors : editor[e] = Configuration!Idle
    BY <1>1
<1>5. ConfigurationTypeOK
    BY <1>1, <1>2, <1>3 DEF ConfigurationTypeOK, EditorPlaces
<1>6. OneEdits /\ \A e \in Editors : ReadIsCurrent(e)
    BY <1>2, <1>4 DEF OneEdits, ReadIsCurrent
<1>7. RecordIsTrue
    BY <1>1, <1>2, <1>3 DEF RecordIsTrue
<1> QED BY <1>5, <1>6, <1>7 DEF ConfigurationInv

LEMMA EditorFacts ==
    ASSUME ConfigurationInv, NEW e \in Editors
    PROVE  /\ editor[e].pc = "asked" => editor[e].new \in Configuration!Contents
           /\ editor[e].pc \in {"record", "write"} =>
                 /\ editor[e] \in [pc : {"record", "write"}, previous : Numbered, new : Numbered]
                 /\ editor[e].previous \in Numbered /\ editor[e].new \in Numbered
           /\ editor[e].pc \in {"restore", "forget"} =>
                 /\ editor[e] \in [pc : {"restore", "forget"}, previous : Numbered]
                 /\ editor[e].previous \in Numbered
           /\ ReadIsCurrent(e)
           /\ editor[e].pc # "idle" =>
                 \A d \in Editors : d # e => editor[d].pc = "idle"
<1>1. editor[e] \in EditorPlaces
    BY DEF ConfigurationInv, ConfigurationTypeOK
<1>2. Configuration!Idle.pc = "idle"
    BY DEF Configuration!Idle
<1> QED BY <1>1, <1>2 DEF EditorPlaces, ConfigurationInv, OneEdits

\* A step of the only editor at work
LEMMA OneEditorSteps ==
    ASSUME ConfigurationInv, NEW e \in Editors, NEW place \in EditorPlaces,
           \A d \in Editors : d # e => editor[d].pc = "idle",
           editor' = [editor EXCEPT ![e] = place],
           document' \in Numbered, stamps' \in 0..MaxSaves,
           record' \in {Configuration!NoRecord}
                       \cup [exists : {TRUE}, previous : Numbered, applied : Numbered],
           replaced' \in [0..MaxSaves -> Numbered],
           RecordIsTrue', ReadIsCurrent(e)'
    PROVE  ConfigurationInv'
<1>1. /\ editor' \in [Editors -> EditorPlaces]
      /\ \A d \in Editors : d # e => editor'[d].pc = "idle"
    BY DEF ConfigurationInv, ConfigurationTypeOK
<1>2. \A d \in Editors : d # e => ReadIsCurrent(d)'
    BY <1>1 DEF ReadIsCurrent
<1> QED BY <1>1, <1>2 DEF ConfigurationInv, ConfigurationTypeOK, OneEdits

\* A step that only changes what its editor is about to do
LEMMA EditorMoves ==
    ASSUME ConfigurationInv, NEW e \in Editors, NEW place \in EditorPlaces,
           \A d \in Editors : d # e => editor[d].pc = "idle",
           editor' = [editor EXCEPT ![e] = place],
           UNCHANGED <<document, record, stamps, replaced>>,
           place.pc \in {"idle", "asked", "forget"} \/ ReadIsCurrent(e)'
    PROVE  ConfigurationInv'
<1>1. editor'[e] = place
    BY DEF ConfigurationInv, ConfigurationTypeOK
<1>2. ReadIsCurrent(e)'
    BY <1>1 DEF ReadIsCurrent
<1>3. RecordIsTrue'
    BY DEF ConfigurationInv, RecordIsTrue
<1>4. /\ document' \in Numbered /\ stamps' \in 0..MaxSaves
      /\ record' \in {Configuration!NoRecord}
                     \cup [exists : {TRUE}, previous : Numbered, applied : Numbered]
      /\ replaced' \in [0..MaxSaves -> Numbered]
    BY DEF ConfigurationInv, ConfigurationTypeOK
<1> QED BY <1>2, <1>3, <1>4, OneEditorSteps

LEMMA IdlePlace ==
    Configuration!Idle.pc = "idle" /\ Configuration!Idle \in EditorPlaces
BY DEF Configuration!Idle, EditorPlaces

LEMMA TakesKeeps ==
    ASSUME ConfigurationInv, ~Overlap, NEW e \in Editors, NEW id \in Connections,
           NEW setting \in Settings \cup {Configuration!NoSetting},
           Configuration!Takes(e, id, setting)
    PROVE  ConfigurationInv'
<1> DEFINE new == [document.connections EXCEPT ![id] = setting]
<1> DEFINE place == [pc |-> "asked", id |-> id, new |-> new]
<1>1. /\ \A d \in Editors : editor[d].pc = "idle"
      /\ editor' = [editor EXCEPT ![e] = place]
      /\ UNCHANGED <<document, record, stamps, replaced>>
    BY DEF Configuration!Takes, Configuration!Starts
<1>2. new \in Configuration!Contents
    BY DEF ConfigurationInv, ConfigurationTypeOK, Numbered, Configuration!Contents
<1> HIDE DEF new
<1>3. place \in EditorPlaces /\ place.pc = "asked"
    BY <1>2 DEF EditorPlaces
<1> HIDE DEF place
<1> QED BY <1>1, <1>3, EditorMoves

LEMMA SaveKeeps ==
    ASSUME ConfigurationInv, NEW e \in Editors, Configuration!Save(e)
    PROVE  ConfigurationInv'
<1> DEFINE new == [connections |-> editor[e].new, stamp |-> stamps + 1]
<1> DEFINE place == [pc |-> "record", previous |-> document, new |-> new]
<1>1. /\ editor[e].pc = "asked" /\ UNCHANGED <<document, record, replaced>>
      /\ \/ /\ stamps < MaxSaves /\ stamps' = stamps + 1
            /\ editor' = [editor EXCEPT ![e] = place]
         \/ editor' = [editor EXCEPT ![e] = Configuration!Idle] /\ stamps' = stamps
    BY DEF Configuration!Save, Configuration!Leaves
<1>2. /\ \A d \in Editors : d # e => editor[d].pc = "idle"
      /\ editor[e].new \in Configuration!Contents
    BY <1>1, EditorFacts
<1>3. CASE editor' = [editor EXCEPT ![e] = Configuration!Idle] /\ stamps' = stamps
    BY <1>1, <1>2, <1>3, IdlePlace, EditorMoves
<1>4. CASE /\ stamps < MaxSaves /\ stamps' = stamps + 1
           /\ editor' = [editor EXCEPT ![e] = place]
  <2>1. /\ document \in Numbered /\ document.stamp \in Nat /\ stamps \in 0..MaxSaves
        /\ MaxSaves \in Nat /\ document.stamp =< stamps
      BY ConfigurationAssumption
         DEF ConfigurationInv, ConfigurationTypeOK, RecordIsTrue, Numbered,
             Configuration!ConfigurationAssumption
  <2>2. stamps' \in 0..MaxSaves /\ document.stamp < stamps' /\ stamps' \in Nat
      BY <1>4, <2>1
  <2>3. new \in Numbered /\ new.stamp = stamps'
      BY <1>2, <1>4, <2>2 DEF Numbered
  <2> HIDE DEF new
  <2>4. /\ place \in EditorPlaces /\ place.pc = "record"
        /\ place.previous = document /\ place.new = new
      BY <2>1, <2>3 DEF EditorPlaces
  <2> HIDE DEF place
  <2>5. editor'[e] = place
      BY <1>4 DEF ConfigurationInv, ConfigurationTypeOK
  <2>6. ReadIsCurrent(e)'
      BY <1>1, <2>2, <2>3, <2>4, <2>5 DEF ReadIsCurrent
  <2>7. RecordIsTrue'
      BY <1>1, <2>1, <2>2 DEF ConfigurationInv, RecordIsTrue
  <2>8. /\ document' \in Numbered
        /\ record' \in {Configuration!NoRecord}
                       \cup [exists : {TRUE}, previous : Numbered, applied : Numbered]
        /\ replaced' \in [0..MaxSaves -> Numbered]
      BY <1>1 DEF ConfigurationInv, ConfigurationTypeOK
  <2> QED BY <1>2, <1>4, <2>2, <2>4, <2>6, <2>7, <2>8, OneEditorSteps
<1> QED BY <1>1, <1>3, <1>4

LEMMA KeepRecordKeeps ==
    ASSUME ConfigurationInv, NEW e \in Editors, Configuration!KeepRecord(e)
    PROVE  ConfigurationInv'
<1> DEFINE place == [editor[e] EXCEPT !.pc = "write"]
<1>1. /\ editor[e].pc = "record" /\ UNCHANGED <<document, stamps, replaced>>
      /\ record' = [exists |-> TRUE, previous |-> editor[e].previous,
                    applied |-> editor[e].new]
      /\ editor' = [editor EXCEPT ![e] = place]
    BY DEF Configuration!KeepRecord, Configuration!Goes, ConfigurationInv,
           ConfigurationTypeOK
<1>2. /\ \A d \in Editors : d # e => editor[d].pc = "idle"
      /\ editor[e] \in [pc : {"record", "write"}, previous : Numbered, new : Numbered]
      /\ editor[e].previous \in Numbered /\ editor[e].new \in Numbered
      /\ editor[e].previous = document /\ editor[e].new.stamp = stamps
      /\ document.stamp < stamps
    BY <1>1, EditorFacts DEF ReadIsCurrent
<1>3. /\ place \in [pc : {"record", "write"}, previous : Numbered, new : Numbered]
      /\ place.pc = "write" /\ place.previous = editor[e].previous
      /\ place.new = editor[e].new
    BY <1>2
<1> HIDE DEF place
<1>4. place \in EditorPlaces /\ editor'[e] = place
    BY <1>1, <1>3 DEF EditorPlaces, ConfigurationInv, ConfigurationTypeOK
<1>5. /\ record' \in [exists : {TRUE}, previous : Numbered, applied : Numbered]
      /\ record'.exists /\ record'.previous = document /\ record'.applied = editor[e].new
    BY <1>1, <1>2
<1>6. ReadIsCurrent(e)'
    BY <1>1, <1>2, <1>3, <1>4, <1>5 DEF ReadIsCurrent
<1>7. document # editor[e].new
    BY <1>2 DEF Numbered, ConfigurationInv, ConfigurationTypeOK
<1>8. RecordIsTrue'
    BY <1>1, <1>2, <1>5, <1>7 DEF ConfigurationInv, RecordIsTrue
<1>9. /\ document' \in Numbered /\ stamps' \in 0..MaxSaves
      /\ replaced' \in [0..MaxSaves -> Numbered]
    BY <1>1 DEF ConfigurationInv, ConfigurationTypeOK
<1> QED BY <1>1, <1>2, <1>4, <1>5, <1>6, <1>8, <1>9, OneEditorSteps

LEMMA WriteDocumentKeeps ==
    ASSUME ConfigurationInv, NEW e \in Editors, Configuration!Write(e)
    PROVE  ConfigurationInv'
<1> DEFINE new == editor[e].new
<1>1. /\ editor[e].pc = "write" /\ document' = new /\ UNCHANGED <<record, stamps>>
      /\ replaced' = [replaced EXCEPT ![new.stamp] = document]
      /\ editor' = [editor EXCEPT ![e] = Configuration!Idle]
    BY DEF Configuration!Write, Configuration!Leaves
<1>2. /\ \A d \in Editors : d # e => editor[d].pc = "idle"
      /\ new \in Numbered /\ new.stamp = stamps /\ document.stamp < stamps
      /\ record.exists /\ record.applied = new /\ record.previous = document
    BY <1>1, EditorFacts DEF ReadIsCurrent
<1> HIDE DEF new
<1>3. /\ stamps \in 0..MaxSaves /\ document \in Numbered
      /\ replaced \in [0..MaxSaves -> Numbered]
    BY DEF ConfigurationInv, ConfigurationTypeOK
<1>4. /\ replaced' \in [0..MaxSaves -> Numbered] /\ replaced'[new.stamp] = document
    BY <1>1, <1>2, <1>3
<1>5. RecordIsTrue'
    BY <1>1, <1>2, <1>3, <1>4 DEF RecordIsTrue
<1>6. editor'[e] = Configuration!Idle
    BY <1>1 DEF ConfigurationInv, ConfigurationTypeOK
<1>7. ReadIsCurrent(e)'
    BY <1>6, IdlePlace DEF ReadIsCurrent
<1>8. /\ document' \in Numbered /\ stamps' \in 0..MaxSaves
      /\ record' \in {Configuration!NoRecord}
                     \cup [exists : {TRUE}, previous : Numbered, applied : Numbered]
    BY <1>1, <1>2, <1>3 DEF ConfigurationInv, ConfigurationTypeOK
<1> QED BY <1>1, <1>2, <1>4, <1>5, <1>7, <1>8, IdlePlace, OneEditorSteps

LEMMA RollbackOfASave ==
    ASSUME ConfigurationInv, ~Overlap, NEW e \in Editors, Configuration!Rollback(e)
    PROVE  ConfigurationInv'
<1> DEFINE place == [pc |-> "restore", previous |-> record.previous]
<1>1. /\ \A d \in Editors : editor[d].pc = "idle"
      /\ record.exists /\ document = record.applied
      /\ editor' = [editor EXCEPT ![e] = place]
      /\ UNCHANGED <<document, record, stamps, replaced>>
    BY DEF Configuration!Rollback, Configuration!Starts, Configuration!Undoable
<1>2. record.previous \in Numbered
  <2>1. Configuration!NoRecord.exists = FALSE
      BY DEF Configuration!NoRecord
  <2>2. record \in [exists : {TRUE}, previous : Numbered, applied : Numbered]
      BY <1>1, <2>1 DEF ConfigurationInv, ConfigurationTypeOK
  <2> QED BY <2>2
<1>3. /\ place \in EditorPlaces /\ place.pc = "restore"
      /\ place.previous = record.previous
    BY <1>2 DEF EditorPlaces
<1> HIDE DEF place
<1>4. editor'[e] = place
    BY <1>1 DEF ConfigurationInv, ConfigurationTypeOK
<1>5. ReadIsCurrent(e)'
    BY <1>1, <1>3, <1>4 DEF ReadIsCurrent
<1> QED BY <1>1, <1>3, <1>5, EditorMoves

LEMMA RestoreDocumentKeeps ==
    ASSUME ConfigurationInv, NEW e \in Editors, Configuration!Restore(e)
    PROVE  ConfigurationInv'
<1> DEFINE place == [editor[e] EXCEPT !.pc = "forget"]
<1>1. /\ editor[e].pc = "restore" /\ document' = editor[e].previous
      /\ UNCHANGED <<record, stamps, replaced>>
      /\ editor' = [editor EXCEPT ![e] = place]
    BY DEF Configuration!Restore, Configuration!Goes, ConfigurationInv, ConfigurationTypeOK
<1>2. /\ \A d \in Editors : d # e => editor[d].pc = "idle"
      /\ editor[e] \in [pc : {"restore", "forget"}, previous : Numbered]
      /\ editor[e].previous \in Numbered
      /\ record.exists /\ editor[e].previous = record.previous /\ document = record.applied
    BY <1>1, EditorFacts DEF ReadIsCurrent
<1>3. /\ place \in [pc : {"restore", "forget"}, previous : Numbered]
      /\ place.pc = "forget"
    BY <1>2
<1> HIDE DEF place
<1>4. place \in EditorPlaces /\ editor'[e] = place
    BY <1>1, <1>3 DEF EditorPlaces, ConfigurationInv, ConfigurationTypeOK
<1>5. ReadIsCurrent(e)'
    BY <1>3, <1>4 DEF ReadIsCurrent
<1>6. /\ document.stamp =< stamps /\ record.previous.stamp < record.applied.stamp
      /\ record.previous.stamp \in Nat /\ document.stamp \in Nat /\ stamps \in Nat
    BY <1>2 DEF ConfigurationInv, ConfigurationTypeOK, RecordIsTrue, Numbered
<1>7. RecordIsTrue'
    BY <1>1, <1>2, <1>6 DEF RecordIsTrue
<1>8. /\ document' \in Numbered /\ stamps' \in 0..MaxSaves
      /\ record' \in {Configuration!NoRecord}
                     \cup [exists : {TRUE}, previous : Numbered, applied : Numbered]
      /\ replaced' \in [0..MaxSaves -> Numbered]
    BY <1>1, <1>2 DEF ConfigurationInv, ConfigurationTypeOK
<1> QED BY <1>1, <1>2, <1>4, <1>5, <1>7, <1>8, OneEditorSteps

LEMMA ForgetKeeps ==
    ASSUME ConfigurationInv, NEW e \in Editors, Configuration!Forget(e)
    PROVE  ConfigurationInv'
<1>1. /\ editor[e].pc = "forget" /\ record' = Configuration!NoRecord
      /\ UNCHANGED <<document, stamps, replaced>>
      /\ editor' = [editor EXCEPT ![e] = Configuration!Idle]
    BY DEF Configuration!Forget, Configuration!Leaves
<1>2. /\ \A d \in Editors : d # e => editor[d].pc = "idle"
      /\ editor'[e] = Configuration!Idle
    BY <1>1, EditorFacts DEF ConfigurationInv, ConfigurationTypeOK
<1>3. ReadIsCurrent(e)'
    BY <1>2, IdlePlace DEF ReadIsCurrent
<1>4. RecordIsTrue'
    BY <1>1 DEF ConfigurationInv, RecordIsTrue, Configuration!NoRecord
<1>5. /\ document' \in Numbered /\ stamps' \in 0..MaxSaves
      /\ replaced' \in [0..MaxSaves -> Numbered]
    BY <1>1 DEF ConfigurationInv, ConfigurationTypeOK
<1> QED BY <1>1, <1>2, <1>3, <1>4, <1>5, IdlePlace, OneEditorSteps

LEMMA EditorLeaves ==
    ASSUME ConfigurationInv, NEW e \in Editors,
           Configuration!Abort(e) \/ Configuration!Crash(e)
    PROVE  ConfigurationInv'
<1>1. /\ editor[e].pc # "idle" /\ UNCHANGED <<document, record, stamps, replaced>>
      /\ editor' = [editor EXCEPT ![e] = Configuration!Idle]
    BY DEF Configuration!Abort, Configuration!Crash, Configuration!Leaves
<1> QED BY <1>1, EditorFacts, IdlePlace, EditorMoves

LEMMA NextConfiguration ==
    ASSUME ConfigurationInv, ~Overlap, Configuration!Next \/ UNCHANGED configurationVars
    PROVE  ConfigurationInv'
<1>1. CASE UNCHANGED configurationVars
    BY <1>1 DEF configurationVars, ConfigurationInv, ConfigurationTypeOK, OneEdits,
               RecordIsTrue, ReadIsCurrent
<1>2. ASSUME NEW e \in Editors, NEW id \in Connections,
             \/ Configuration!Assist(e, id) \/ Configuration!Configure(e, id)
             \/ Configuration!Remove(e, id)
      PROVE  ConfigurationInv'
    BY <1>2, TakesKeeps
       DEF Configuration!Assist, Configuration!Configure, Configuration!Remove
<1>3. ASSUME NEW e \in Editors, Configuration!Commands(e) PROVE ConfigurationInv'
    BY <1>2, <1>3, SaveKeeps, KeepRecordKeeps, WriteDocumentKeeps, RollbackOfASave,
       RestoreDocumentKeeps, ForgetKeeps, EditorLeaves DEF Configuration!Commands
<1> QED BY <1>1, <1>3 DEF Configuration!Next

\* Where one command works at a time, a rollback puts back the document that the save it
\* undoes had replaced, after any saves, rollbacks and interruptions.
THEOREM RollbacksUndoTheSave ==
    ASSUME ~Overlap PROVE PartSpec => RollbackUndoesTheSave
<1>1. ConfigurationInv /\ [PartNext]_allVars => ConfigurationInv'
    BY PartSteps, NextConfiguration DEF Configuration!vars, configurationVars
<1>2. ASSUME ConfigurationInv, NEW e \in Editors, Configuration!Restore(e)
      PROVE  document' = replaced[document.stamp]
    BY <1>2 DEF Configuration!Restore, ConfigurationInv, ReadIsCurrent, RecordIsTrue
<1>3. ConfigurationInv /\ [PartNext]_allVars =>
         [\A e \in Editors : Configuration!Restore(e) =>
             document' = replaced[document.stamp]]_(Configuration!vars)
    BY <1>2
<1> QED BY InitConfiguration, <1>1, <1>3, PTL
        DEF PartSpec, RollbackUndoesTheSave, Configuration!RollbackUndoesTheSave
=============================================================================
