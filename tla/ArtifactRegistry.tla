-------------------------- MODULE ArtifactRegistry --------------------------
(***************************************************************************)
(* The Git-native artifact registry: pull requests edit copies of one JSON *)
(* document, a gate merges base, main and head object by object and        *)
(* validates the result, and the host merges the branch.  The gate runs    *)
(* when a pull request changes; main may move between gate and merge       *)
(* unless the host requires branches to be up to date.                     *)
(***************************************************************************)
EXTENDS Integers, FiniteSets, FiniteSetsExt

CONSTANTS
    Pulls,       \* open pull requests
    Refs,        \* canonical references of one prefix: their sequence numbers
    Uids,        \* machine identities of artifacts
    Aliases,     \* historical names
    Missing,     \* MISSING: no such record, parent or alias
    MaxEdits,    \* bound: edits of one pull request
    MaxMerges,   \* bound: merges into main
    UpToDate     \* the host merges only branches whose gate saw the current main

Fields == {"uid", "state", "parent", "alias"}
Record == [uid : Uids, state : {"REGISTERED", "RETIRED"}, parent : Refs \union {Missing},
           alias : Aliases \union {Missing}]

\* The registry that the pull requests start from holds two artifacts.
RegistryAssumption ==
    /\ Refs \in SUBSET (Nat \ {0}) /\ 1..2 \subseteq Refs
    /\ \E u, v \in Uids : u # v
    /\ Missing \notin Refs
    /\ Missing \notin Record
    /\ UpToDate \in BOOLEAN /\ MaxEdits \in Nat /\ MaxMerges \in Nat

VARIABLES
    main,      \* the registry of the target branch
    merges,    \* commits on main so far
    pull       \* pull[p]: its base, its head, and the main its gate approved

vars == <<main, merges, pull>>

Present(registry) == {r \in Refs : registry[r] # Missing}

-----------------------------------------------------------------------------
(* validate_registry *)

\* A parent relation has a cycle iff some artifacts all have their parent
\* among themselves.
Cyclic(registry) ==
    \E S \in (SUBSET Present(registry)) \ {{}} : \A r \in S : registry[r].parent \in S

Valid(registry) ==
    /\ \A r, q \in Present(registry) :
          r # q => /\ registry[r].uid # registry[q].uid
                   /\ registry[r].alias # Missing => registry[r].alias # registry[q].alias
    /\ \A r \in Present(registry) :
          registry[r].parent # Missing => registry[r].parent \in Present(registry) \ {r}
    /\ ~Cyclic(registry)

\* validate_transition: nothing registered is removed, reassigned or reactivated.
Legal(old, new) ==
    \A r \in Present(old) :
        /\ r \in Present(new)
        /\ old[r].uid = new[r].uid
        /\ old[r].state = "RETIRED" => new[r].state = "RETIRED"

\* The highest sequence in use or reserved, plus one; gaps are not filled.
NextReference(registry, reserved) ==
    LET used == Present(registry) \union reserved
    IN IF used = {} THEN 1 ELSE Max(used) + 1

-----------------------------------------------------------------------------
(* semantic_merge *)

\* A value that only one side changed is taken from that side.
OneSided(b, m, h) == m = h \/ h = b \/ m = b
\* Mutation: the tests of the two sides swapped.
PickSwapped(b, m, h) == IF m = h \/ m = b THEN m ELSE h

Pick(b, m, h) == IF m = h \/ h = b THEN m ELSE h

Objects(b, m, h) == Missing \notin {b, m, h}

MergeRecord(b, m, h) ==
    IF OneSided(b, m, h) \/ ~Objects(b, m, h) THEN Pick(b, m, h)
    ELSE [f \in Fields |-> Pick(b[f], m[f], h[f])]

\* Concurrent adds, deletions of what the other side changed, and fields both
\* sides changed.
Conflict(b, m, h) ==
    /\ ~OneSided(b, m, h)
    /\ Objects(b, m, h) => \E f \in Fields : ~OneSided(b[f], m[f], h[f])

Merged(b, m, h) == [r \in Refs |-> MergeRecord(b[r], m[r], h[r])]

Conflicts(b, m, h) == \E r \in Refs : Conflict(b[r], m[r], h[r])

\* Mutation: the candidate is not validated.
MergeableUnvalidated(b, m, h) ==
    ~Conflicts(b, m, h) /\ Legal(b, Merged(b, m, h)) /\ Legal(m, Merged(b, m, h))

Mergeable(b, m, h) ==
    LET result == Merged(b, m, h)
    IN ~Conflicts(b, m, h) /\ Legal(b, result) /\ Legal(m, result) /\ Valid(result)

-----------------------------------------------------------------------------
Init ==
    /\ main = CHOOSE r \in [Refs -> [uid : Uids, state : {"REGISTERED"}, parent : {Missing},
                                     alias : {Missing}] \union {Missing}] :
                 Valid(r) /\ Present(r) = 1..2
    /\ merges = 0
    /\ pull = [p \in Pulls |-> [base |-> main, head |-> main, edits |-> 0, approved |-> -1]]

Introduced(p) == Present(pull[p].head) \ Present(pull[p].base)

\* Any change of a head is an event that runs its gate anew.
Edit(p, head) ==
    /\ pull[p].edits < MaxEdits /\ head # pull[p].head
    /\ pull' = [pull EXCEPT ![p].head = head, ![p].edits = @ + 1, ![p].approved = -1]
    /\ UNCHANGED <<main, merges>>

\* A new artifact under the reference that allocate printed; the references
\* of other pull requests are reserved only if the caller passes them.
Add(p, uid) ==
    \E reserved \in {{}, UNION {Introduced(q) : q \in Pulls \ {p}}} :
        LET ref == NextReference(pull[p].head, reserved)
        IN /\ ref \in Refs
           /\ Edit(p, [pull[p].head EXCEPT ![ref] =
                 [uid |-> uid, state |-> "REGISTERED", parent |-> Missing, alias |-> Missing]])

\* What people do to a record of the document by hand.
Change(p, ref) ==
    /\ ref \in Present(pull[p].head)
    /\ \/ Edit(p, [pull[p].head EXCEPT ![ref] = Missing])
       \/ \E value \in {"REGISTERED", "RETIRED"} : Edit(p, [pull[p].head EXCEPT ![ref].state = value])
       \/ \E value \in Refs : Edit(p, [pull[p].head EXCEPT ![ref].parent = value])
       \/ \E value \in Aliases : Edit(p, [pull[p].head EXCEPT ![ref].alias = value])

\* github_preflight: an identity another open pull request also introduces.
Collides(p) ==
    \E q \in Pulls \ {p} :
        \/ \E r \in Introduced(p) \intersect Introduced(q) : pull[p].head[r] # pull[q].head[r]
        \/ \E r \in Introduced(p), s \in Introduced(q) :
              \/ pull[p].head[r].uid = pull[q].head[s].uid
              \/ pull[p].head[r].alias = pull[q].head[s].alias /\ pull[p].head[r].alias # Missing

\* The workflow: validate the head, compare it with the other pull requests,
\* merge with main as it is now.
Gate(p) ==
    /\ pull[p].approved # merges /\ pull[p].head # pull[p].base
    /\ Valid(pull[p].head) /\ ~Collides(p)
    /\ Mergeable(pull[p].base, main, pull[p].head)
    /\ pull' = [pull EXCEPT ![p].approved = merges]
    /\ UNCHANGED <<main, merges>>

\* The host (external) merges the text, which fails on a textual conflict.
\* The next pull request starts from the new main.
MergePull(p) ==
    /\ merges < MaxMerges /\ pull[p].approved >= 0
    /\ UpToDate => pull[p].approved = merges
    /\ ~Conflicts(pull[p].base, main, pull[p].head)
    /\ main' = Merged(pull[p].base, main, pull[p].head)
    /\ merges' = merges + 1
    /\ pull' = [pull EXCEPT ![p] = [base |-> main', head |-> main', edits |-> 0, approved |-> -1]]

Next ==
    \E p \in Pulls :
        \/ \E uid \in Uids : Add(p, uid)
        \/ \E ref \in Refs : Change(p, ref)
        \/ Gate(p) \/ MergePull(p)

Spec == Init /\ [][Next]_vars

-----------------------------------------------------------------------------
\* The registry on the target branch is valid after every merge, although
\* pull requests were valid only each by itself.
\* (CENTRAL_ARTIFACT_REGISTRY_POLICY.md: the authoritative merge check is
\* against the current target branch; registry_semantic.py, semantic_merge.)
MainStaysValid == Valid(main)

\* What one side made of a record is what is there now: an addition and a removal
\* as a whole, a change of an existing record field by field.
Lands(was, side, now) ==
    IF Missing \in {was, side} THEN side # was => now = side
    ELSE \A f \in Fields : side[f] # was[f] => now # Missing /\ now[f] = side[f]
LosesNothing(was, ours, theirs, now) ==
    /\ Lands(was, ours, now) /\ Lands(was, theirs, now)
    /\ Missing \notin {ours, theirs} => now # Missing
\* A merge lands every addition and change of the pull request, reverts none that
\* reached main after the pull request branched off, and drops no record that
\* both sides have.
NothingIsLost ==
    [][\A p \in Pulls : MergePull(p) =>
         \A r \in Refs :
            LosesNothing(pull[p].base[r], pull[p].head[r], main[r], main'[r])]_vars
=============================================================================
