--------------------------- MODULE Evidence_proofs ---------------------------
(***************************************************************************)
(* What is observed, remembered and decided upon, for any number of        *)
(* callers, models and files.                                              *)
(***************************************************************************)
EXTENDS Evidence, FiniteSetTheorems, WellFoundedInduction, TLAPS

(* A step of the composition is a step of one part or none of it.          *)
LEMMA PartSteps ==
    ASSUME [PartNext]_allVars
    PROVE  /\ [Ledger!Next]_(Ledger!vars)
           /\ [Cost!Next]_(Cost!vars)
           /\ [Dispatch!Next]_(Dispatch!vars)
           /\ [Rules!Next]_(Rules!vars)
           /\ [Router!Next]_(Router!vars)
           /\ [Fragments!Next]_(Fragments!vars)
           /\ [Planner!Next]_(Planner!vars)
           /\ [Lifecycle!Next]_(Lifecycle!vars)
<1> USE DEF allVars, storeVars, ledgerVars, costVars, dispatchVars, cacheVars,
            routerVars, fragmentVars, planVars, lifecycleVars
<1> USE DEF Ledger!vars, Cost!vars, Dispatch!vars, Rules!vars, Router!vars, Fragments!vars,
            Planner!vars, Lifecycle!vars
<1>1. CASE StoreStep
    BY <1>1 DEF StoreStep
<1>2. CASE LedgerStep
    BY <1>2 DEF LedgerStep
<1>3. CASE CostStep
    BY <1>3 DEF CostStep
<1>4. CASE DispatchStep
    BY <1>4 DEF DispatchStep
<1>5. CASE RulesStep
    BY <1>5 DEF RulesStep
<1>6. CASE RouterStep
    BY <1>6 DEF RouterStep
<1>7. CASE FragmentStep
    BY <1>7 DEF FragmentStep
<1>8. CASE PlannerStep
    BY <1>8 DEF PlannerStep
<1>9. CASE LifecycleStep
    BY <1>9 DEF LifecycleStep
<1>10. CASE UNCHANGED allVars
    BY <1>10
<1> QED BY <1>1, <1>2, <1>3, <1>4, <1>5, <1>6, <1>7, <1>8, <1>9, <1>10 DEF PartNext

\* Numbers are well-founded: a set of them has a least one.
LEMMA LeastNatural ==
    ASSUME NEW T, T \subseteq Nat, T # {}
    PROVE  \E m \in T : \A n \in T : m =< n
<1> DEFINE R == OpToRel(<, Nat)
<1> DEFINE Q == {ss \in Nat \X Nat : ss[1] < ss[2]}
<1>1. IsWellFoundedOn(R, Nat)
    BY NatLessThanWellFounded
<1>2. R = Q
    BY DEF OpToRel
<1>3. IsWellFoundedOn(Q, Nat)
    BY <1>1, <1>2
<1>4. PICK x \in T : \A y \in T : ~(<<y, x>> \in Q)
  <2> HIDE DEF Q
  <2> QED BY <1>3, WFMin
<1>5. ASSUME NEW y \in T PROVE x =< y
  <2>1. <<y, x>> \in Nat \X Nat /\ <<y, x>>[1] = y /\ <<y, x>>[2] = x
      OBVIOUS
  <2>2. ~(y < x)
      BY <1>4, <2>1
  <2> QED BY <2>2
<1> QED BY <1>5

-----------------------------------------------------------------------------
(* The lifecycle of a session.  The decision is the one for the counts the *)
(* client asked with, and no count it knows exceeds the real one.          *)

Count == Nat \union {None}
Question == [context : Count, delta : Count, boundary : Lifecycle!Boundaries]

LifecycleInv ==
    /\ context \in Nat /\ delta \in Nat /\ asked \in Question
    /\ asked.context # None => asked.context =< context
    /\ asked.delta # None => asked.delta =< delta
    /\ action \in {Lifecycle!Lifecycle(asked), "CONTINUE"}

\* More is known and more has passed: the decision is not a lesser one.
LEMMA Heavier ==
    ASSUME NEW r \in Question, NEW s \in Question,
           r.context # None => s.context # None /\ s.context >= r.context,
           r.delta # None => s.delta # None /\ s.delta >= r.delta,
           r.boundary \in {s.boundary, "NONE"}
    PROVE  Lifecycle!Weight(Lifecycle!Lifecycle(s))
              >= Lifecycle!Weight(Lifecycle!Lifecycle(r))
<1>1. {Soft, Hard, CheckpointDelta} \subseteq Nat
    BY LifecycleAssumption DEF Lifecycle!LifecycleAssumption
<1>2. /\ Lifecycle!AtLeast(r.context, Hard) => Lifecycle!AtLeast(s.context, Hard)
      /\ Lifecycle!AtLeast(r.context, Soft) => Lifecycle!AtLeast(s.context, Soft)
      /\ Lifecycle!AtLeast(r.delta, CheckpointDelta)
            => Lifecycle!AtLeast(s.delta, CheckpointDelta)
    BY <1>1 DEF Lifecycle!AtLeast, Question, Count
<1>3. /\ Lifecycle!AtLeast(r.context, Hard) => Lifecycle!AtLeast(r.context, Soft)
      /\ Lifecycle!AtLeast(s.context, Hard) => Lifecycle!AtLeast(s.context, Soft)
    BY <1>1, LifecycleAssumption
       DEF Lifecycle!AtLeast, Question, Count, Lifecycle!LifecycleAssumption
<1>4. r.boundary = s.boundary \/ r.boundary \notin Lifecycle!Natural \union {"USER_REQUESTED"}
    BY DEF Lifecycle!Natural
<1> QED BY <1>2, <1>3, <1>4 DEF Lifecycle!Lifecycle, Lifecycle!Weight

LEMMA InitLifecycle == PartInit => LifecycleInv
BY DEF PartInit, Lifecycle!Init, LifecycleInv, Question, Count, Lifecycle!Boundaries,
       Lifecycle!Lifecycle, Lifecycle!AtLeast

LEMMA NextLifecycle ==
    ASSUME LifecycleInv, [Lifecycle!Next]_(Lifecycle!vars) PROVE LifecycleInv'
<1>1. CASE UNCHANGED Lifecycle!vars
    BY <1>1 DEF LifecycleInv, Lifecycle!vars, Lifecycle!Lifecycle, Lifecycle!AtLeast
<1>2. CASE Lifecycle!Checkpointed
    BY <1>2 DEF LifecycleInv, Lifecycle!Checkpointed, Question, Count
<1>3. ASSUME NEW b \in Lifecycle!Boundaries, NEW c \in (1..Window) \union {None},
             NEW d \in (1..Window) \union {None}, Lifecycle!Turn(b, c, d)
      PROVE  LifecycleInv'
    BY <1>3 DEF LifecycleInv, Lifecycle!Turn, Question, Count
<1> QED BY <1>1, <1>2, <1>3 DEF Lifecycle!Next

LEMMA LifecycleStepKeeps ==
    ASSUME LifecycleInv, [Lifecycle!Next]_(Lifecycle!vars), context' > context,
           asked.context # None => asked'.context # None,
           asked.delta # None => asked'.delta # None,
           asked.boundary \in {asked'.boundary, "NONE"}
    PROVE  Lifecycle!Weight(action') >= Lifecycle!Weight(action)
<1>1. PICK b \in Lifecycle!Boundaries, c \in (1..Window) \union {None},
           d \in (1..Window) \union {None} : Lifecycle!Turn(b, c, d)
    BY DEF LifecycleInv, Lifecycle!Next, Lifecycle!vars, Lifecycle!Checkpointed
<1>2. /\ asked' \in Question /\ asked \in Question /\ action' = Lifecycle!Lifecycle(asked')
      /\ asked.context # None => asked'.context >= asked.context
      /\ asked.delta # None => asked'.delta >= asked.delta
    BY <1>1 DEF LifecycleInv, Lifecycle!Turn, Question, Count
<1>3. Lifecycle!Weight(action') >= Lifecycle!Weight(Lifecycle!Lifecycle(asked))
    BY <1>2, Heavier
<1>4. CASE action = "CONTINUE"
    BY <1>2, <1>4 DEF Lifecycle!Weight, Lifecycle!Lifecycle
<1> QED BY <1>3, <1>4 DEF LifecycleInv

THEOREM SessionsAreToldMore == PartSpec => LifecycleNeverWeakens
<1>1. LifecycleInv /\ [PartNext]_allVars => LifecycleInv'
    BY PartSteps, NextLifecycle
<1>2. LifecycleInv /\ [PartNext]_allVars
        => [context' > context
            /\ (asked.context # None => asked'.context # None)
            /\ (asked.delta # None => asked'.delta # None)
            /\ asked.boundary \in {asked'.boundary, "NONE"}
              => Lifecycle!Weight(action') >= Lifecycle!Weight(action)]_(Lifecycle!vars)
    BY PartSteps, LifecycleStepKeeps
<1> QED BY InitLifecycle, <1>1, <1>2, PTL
        DEF PartSpec, LifecycleNeverWeakens, Lifecycle!LifecycleNeverWeakens

-----------------------------------------------------------------------------
(* The receipts of dispatches.  What a trusted issuer attests is in ran    *)
(* when it is verified, and ran only grows.                                *)

DispatchInv ==
    /\ dispatchNow \in Nat
    /\ \A h \in handoffs : h.created \in Nat /\ h.until \in Nat
    /\ AttestedDidRun

LEMMA InitDispatch == PartInit => DispatchInv
BY DEF PartInit, Dispatch!Init, DispatchInv, AttestedDidRun, Dispatch!AttestedDidRun

LEMMA NextDispatch ==
    ASSUME DispatchInv, [Dispatch!Next]_(Dispatch!vars) PROVE DispatchInv'
<1> USE DEF DispatchInv, AttestedDidRun, Dispatch!AttestedDidRun
<1>1. CASE UNCHANGED Dispatch!vars
    BY <1>1 DEF Dispatch!vars
<1>2. ASSUME NEW r \in Dispatch!Requests, Dispatch!Create(r) PROVE DispatchInv'
    BY <1>2, DispatchAssumption
       DEF Dispatch!Create, Dispatch!Handoff, Dispatch!DispatchAssumption
<1>3. ASSUME NEW h \in handoffs, NEW r \in Dispatch!Receipts, Dispatch!Verify(h, r)
      PROVE  DispatchInv'
  <2>1. /\ r.observed \in 0..dispatchNow /\ r.observed >= h.created /\ h.until > dispatchNow
        /\ r.handoff = h
        /\ r.issuer = Trusted => Dispatch!Honest(r)
      BY <1>3 DEF Dispatch!Verify, Dispatch!Accepted, Dispatch!Concerns, Dispatch!Receipts
  <2>2. /\ verdict'.handoff = h /\ verdict'.name = r.actual /\ verdict'.at = r.observed
        /\ verdict'.status = Dispatch!Verdict(r)
        /\ UNCHANGED <<dispatchNow, handoffs, ran>>
      BY <1>3 DEF Dispatch!Verify
  <2>3. CASE verdict'.status = "ATTESTED"
    <3>1. r.issuer = Trusted /\ r.status = "ATTESTED"
        BY <2>2, <2>3 DEF Dispatch!Verdict, Dispatch!Attests
    <3>2. [handoff |-> h, name |-> r.actual, at |-> r.observed] \in ran
        BY <2>1, <3>1 DEF Dispatch!Honest, Dispatch!Reported
    <3> QED BY <2>1, <2>2, <3>2
  <2> QED BY <2>2, <2>3
<1>4. ASSUME NEW h \in handoffs, NEW name \in Dispatch!Names, Dispatch!Run(h, name)
      PROVE  DispatchInv'
    BY <1>4 DEF Dispatch!Run
<1>5. CASE Dispatch!Tick
    BY <1>5 DEF Dispatch!Tick
<1> QED BY <1>1, <1>2, <1>3, <1>4, <1>5 DEF Dispatch!Next

\* Whatever receipts untrusted issuers make up, and whatever receipts of other
\* handoffs arrive, what verify_dispatch_receipt attests did run for this handoff,
\* after it was made and while it held.
THEOREM AttestationsAreTrue == PartSpec => []AttestedDidRun
<1>1. DispatchInv /\ [PartNext]_allVars => DispatchInv'
    BY PartSteps, NextDispatch
<1>2. DispatchInv => AttestedDidRun
    BY DEF DispatchInv
<1> QED BY InitDispatch, <1>1, <1>2, PTL DEF PartSpec

-----------------------------------------------------------------------------
(* The evidence of costs.  Who holds the lock of a source is the only one  *)
(* that contacts it, and a contact is in the record before the lock is     *)
(* given back, unless the call dies in between.                            *)

Holding == {"read", "fetch", "keep", "fail"}
CostPlaces ==
    {Cost!Idle} \union [pc : {"wait"} \union Holding, i : 1..Len(Sources),
                         observed : Nat, net : BOOLEAN]

CostTypeOK ==
    /\ costNow \in Nat
    /\ costAt \in [Callers -> CostPlaces]
    /\ costLock \in [Source -> Callers \union {"none"}]
    /\ costRecord = [s \in Source |-> costRecord[s]]
    /\ costContacts \in [Source -> [ever : BOOLEAN, last : Nat]]

HoldersHaveTheLock ==
    \A c \in Callers : costAt[c].pc \in Holding => costLock[Cost!Mine(c)] = c
CallsTakeNoTime ==
    \A c \in Callers : costAt[c].pc # "idle" => costAt[c].observed = costNow
Contacting(s) ==
    \E c \in Callers : costAt[c].pc \in {"keep", "fail"} /\ Cost!Mine(c) = s
Spaced(s) ==
    /\ costRecord[s].exists = TRUE /\ costRecord[s].next \in Nat
    /\ costRecord[s].next >= costContacts[s].last + Refresh
ContactsAreRecorded ==
    \A s \in Source : costContacts[s].ever => Contacting(s) \/ Spaced(s)
ContactsAreDue ==
    /\ \A c \in Callers : costAt[c].pc \in {"keep", "fail"} =>
          costContacts[Cost!Mine(c)].last = costNow
    /\ \A c \in Callers : costAt[c].pc = "fetch" /\ costContacts[Cost!Mine(c)].ever =>
          costNow >= costContacts[Cost!Mine(c)].last + Refresh

CostInv ==
    /\ CostTypeOK /\ HoldersHaveTheLock /\ CallsTakeNoTime
    /\ ContactsAreRecorded /\ ContactsAreDue

LEMMA CostConstants ==
    /\ Refresh \in Nat /\ Len(Sources) \in Nat /\ 1 \in 1..Len(Sources)
    /\ Cost!Source = Source
    /\ \A i \in 1..Len(Sources) : Sources[i] \in Source
    /\ "none" \notin Callers
BY CostAssumption DEF Cost!CostAssumption, Cost!Source, Source

\* Where a call that is under way is
LEMMA CostPlace ==
    ASSUME CostTypeOK, NEW c \in Callers, costAt[c].pc # "idle"
    PROVE  /\ costAt[c] \in [pc : {"wait"} \union Holding, i : 1..Len(Sources),
                              observed : Nat, net : BOOLEAN]
           /\ Cost!Mine(c) = Sources[costAt[c].i] /\ Cost!Mine(c) \in Source
<1>1. costAt[c] \in CostPlaces
    BY DEF CostTypeOK
<1>2. Cost!Idle.pc = "idle"
    BY DEF Cost!Idle
<1>3. costAt[c] \in [pc : {"wait"} \union Holding, i : 1..Len(Sources),
                      observed : Nat, net : BOOLEAN]
    BY <1>1, <1>2 DEF CostPlaces
<1> QED BY <1>3, CostConstants DEF Cost!Mine

\* Two holders of one lock are one.
LEMMA HoldersAreAlone ==
    ASSUME CostInv, NEW c \in Callers, NEW d \in Callers,
           costAt[c].pc \in Holding, costAt[d].pc \in Holding,
           Cost!Mine(c) = Cost!Mine(d)
    PROVE  c = d
BY DEF CostInv, HoldersHaveTheLock

LEMMA InitCost == PartInit => CostInv
<1> SUFFICES ASSUME Cost!Init PROVE CostInv
    BY DEF PartInit
<1>1. Cost!Idle.pc = "idle"
    BY DEF Cost!Idle
<1>2. /\ \A c \in Callers : costAt[c].pc = "idle"
      /\ \A s \in Source : costContacts[s].ever = FALSE
    BY <1>1, CostConstants DEF Cost!Init
<1>3. CostTypeOK
    BY CostConstants DEF Cost!Init, CostTypeOK, CostPlaces
<1> QED BY <1>2, <1>3
        DEF CostInv, HoldersHaveTheLock, CallsTakeNoTime, ContactsAreRecorded,
            ContactsAreDue, Holding

\* A step of a call that neither contacts the source nor writes its record
LEMMA QuietCost ==
    ASSUME CostInv, NEW c \in Callers, NEW place \in CostPlaces,
           costAt' = [costAt EXCEPT ![c] = place],
           UNCHANGED <<costNow, costRecord, costContacts>>,
           costLock' \in [Source -> Callers \union {"none"}],
           \A d \in Callers \ {c} :
              costAt[d].pc \in Holding => costLock'[Cost!Mine(d)] = costLock[Cost!Mine(d)],
           place.pc # "idle" => place.observed = costNow,
           place.pc \in Holding => costLock'[Sources[place.i]] = c,
           place.pc \notin {"keep", "fail"}, costAt[c].pc \notin {"keep", "fail"},
           place.pc = "fetch" /\ costContacts[Sources[place.i]].ever =>
              costNow >= costContacts[Sources[place.i]].last + Refresh
    PROVE  CostInv'
<1>1. /\ costAt' \in [Callers -> CostPlaces] /\ costAt'[c] = place
      /\ \A d \in Callers \ {c} : costAt'[d] = costAt[d]
    BY DEF CostInv, CostTypeOK
<1>2. CostTypeOK'
    BY <1>1 DEF CostInv, CostTypeOK
<1>3. \A d \in Callers \ {c} : Cost!Mine(d)' = Cost!Mine(d)
    BY <1>1 DEF Cost!Mine
<1>4. Cost!Mine(c)' = Sources[place.i]
    BY <1>1 DEF Cost!Mine
<1>5. HoldersHaveTheLock'
    BY <1>1, <1>3, <1>4 DEF CostInv, HoldersHaveTheLock
<1>6. CallsTakeNoTime'
    BY <1>1 DEF CostInv, CallsTakeNoTime
<1>7. \A s \in Source : Contacting(s) => Contacting(s)'
    BY <1>1, <1>3 DEF Contacting
<1>8. ContactsAreRecorded'
    BY <1>7 DEF CostInv, ContactsAreRecorded, Spaced
<1>9. ContactsAreDue'
    BY <1>1, <1>3, <1>4 DEF CostInv, ContactsAreDue
<1> QED BY <1>2, <1>5, <1>6, <1>8, <1>9 DEF CostInv

LEMMA CostTurns ==
    ASSUME NEW x \in [pc : {"wait"} \union Holding, i : 1..Len(Sources),
                       observed : Nat, net : BOOLEAN]
    PROVE  /\ Cost!After(x) \in CostPlaces /\ Cost!After(x).pc \in {"idle", "wait"}
           /\ Cost!After(x).pc # "idle" => Cost!After(x).observed = x.observed
<1>1. CASE x.i = Len(Sources)
    BY <1>1 DEF Cost!After, CostPlaces, Cost!Idle
<1>2. CASE x.i # Len(Sources)
  <2>1. x.i + 1 \in 1..Len(Sources) /\ "wait" \in {"wait"} \union Holding
      BY <1>2, CostConstants
  <2> DEFINE y == [x EXCEPT !.pc = "wait", !.i = @ + 1]
  <2>2. /\ y \in [pc : {"wait"} \union Holding, i : 1..Len(Sources),
                   observed : Nat, net : BOOLEAN]
        /\ y.pc = "wait" /\ y.observed = x.observed
      BY <2>1
  <2>3. Cost!After(x) = y
      BY <1>2 DEF Cost!After
  <2> QED BY <2>2, <2>3 DEF CostPlaces
<1> QED BY <1>1, <1>2

LEMMA CallCost ==
    ASSUME CostInv, NEW c \in Callers, NEW n \in BOOLEAN, Cost!Call(c, n) PROVE CostInv'
<1> DEFINE place == [pc |-> "wait", i |-> 1, observed |-> costNow, net |-> n]
<1>1. /\ place \in CostPlaces /\ place.pc = "wait" /\ place.observed = costNow
    BY CostConstants DEF CostInv, CostTypeOK, CostPlaces
<1>2. /\ costAt' = [costAt EXCEPT ![c] = place] /\ costAt[c].pc = "idle"
      /\ UNCHANGED <<costNow, costRecord, costContacts, costLock>>
    BY DEF Cost!Call
<1> HIDE DEF place
<1> QED BY <1>1, <1>2, QuietCost DEF CostInv, CostTypeOK, Holding

LEMMA LockCost == ASSUME CostInv, NEW c \in Callers, Cost!Lock(c) PROVE CostInv'
<1>0. costAt[c].pc = "wait" /\ costLock[Cost!Mine(c)] = "none" /\ CostTypeOK
    BY DEF Cost!Lock, CostInv
<1> DEFINE place == [costAt[c] EXCEPT !.pc = "read"]
<1>1. /\ place \in CostPlaces /\ place.pc = "read" /\ place.i = costAt[c].i
      /\ place.observed = costAt[c].observed
    BY <1>0, CostPlace DEF CostPlaces, Holding
<1>2. /\ costAt' = [costAt EXCEPT ![c] = place]
      /\ costLock' = [costLock EXCEPT ![Cost!Mine(c)] = c]
      /\ UNCHANGED <<costNow, costRecord, costContacts>>
    BY <1>0 DEF Cost!Lock, CostTypeOK
<1> HIDE DEF place
<1>3. Cost!Mine(c) \in Source /\ Cost!Mine(c) = Sources[place.i]
    BY <1>0, <1>1, CostPlace
<1>4. /\ costLock' \in [Source -> Callers \union {"none"}] /\ costLock'[Sources[place.i]] = c
      /\ \A s \in Source \ {Cost!Mine(c)} : costLock'[s] = costLock[s]
    BY <1>0, <1>2, <1>3 DEF CostTypeOK
<1>5. \A d \in Callers \ {c} :
          costAt[d].pc \in Holding => costLock'[Cost!Mine(d)] = costLock[Cost!Mine(d)]
  <2> SUFFICES ASSUME NEW d \in Callers, costAt[d].pc \in Holding
               PROVE  Cost!Mine(d) # Cost!Mine(c) /\ Cost!Mine(d) \in Source
      BY <1>4
  <2>1. costLock[Cost!Mine(d)] = d
      BY DEF CostInv, HoldersHaveTheLock
  <2> QED BY <1>0, <2>1, CostConstants, CostPlace DEF Holding
<1> QED BY <1>0, <1>1, <1>2, <1>4, <1>5, QuietCost DEF CostInv, CallsTakeNoTime, Holding

LEMMA LockTimeoutCost == ASSUME CostInv, NEW c \in Callers, Cost!LockTimeout(c) PROVE CostInv'
<1>1. Cost!Idle \in CostPlaces /\ Cost!Idle.pc = "idle"
    BY DEF Cost!Idle, CostPlaces
<1> QED BY <1>1, QuietCost DEF Cost!LockTimeout, CostInv, CostTypeOK, Holding

\* The lock of a source is given back.
LEMMA UnlockCost ==
    ASSUME CostInv, NEW c \in Callers, costAt[c].pc \in Holding, Cost!Unlock(c)
    PROVE  /\ costLock' \in [Source -> Callers \union {"none"}]
           /\ \A d \in Callers \ {c} :
                 costAt[d].pc \in Holding => costLock'[Cost!Mine(d)] = costLock[Cost!Mine(d)]
<1>1. CostTypeOK
    BY DEF CostInv
<1>2. costLock' \in [Source -> Callers \union {"none"}]
    BY <1>1 DEF CostTypeOK, Cost!Unlock
<1>3. ASSUME NEW d \in Callers \ {c}, costAt[d].pc \in Holding
      PROVE  costLock'[Cost!Mine(d)] = costLock[Cost!Mine(d)]
  <2>1. Cost!Mine(d) # Cost!Mine(c)
      BY <1>3, HoldersAreAlone
  <2>2. Cost!Mine(d) \in Source /\ Cost!Mine(c) \in Source
      BY <1>1, <1>3, CostPlace DEF Holding
  <2> QED BY <1>1, <2>1, <2>2 DEF CostTypeOK, Cost!Unlock
<1> QED BY <1>2, <1>3

LEMMA ReadCost == ASSUME CostInv, NEW c \in Callers, Cost!Read(c) PROVE CostInv'
<1>0. /\ costAt[c].pc = "read" /\ costAt[c].pc \in Holding /\ CostTypeOK
      /\ UNCHANGED <<costNow, costRecord, costContacts>>
    BY DEF Cost!Read, CostInv, Holding
<1>1. costAt[c] \in [pc : {"wait"} \union Holding, i : 1..Len(Sources),
                     observed : Nat, net : BOOLEAN]
      /\ Cost!Mine(c) = Sources[costAt[c].i] /\ Cost!Mine(c) \in Source
    BY <1>0, CostPlace
<1>2. costAt[c].observed = costNow /\ costLock[Cost!Mine(c)] = c
    BY <1>0 DEF CostInv, CallsTakeNoTime, HoldersHaveTheLock
<1>3. CASE Cost!MayAsk(c)
  <2> DEFINE place == [costAt[c] EXCEPT !.pc = "fetch"]
  <2>1. /\ place \in CostPlaces /\ place.pc = "fetch" /\ place.i = costAt[c].i
        /\ place.observed = costAt[c].observed
      BY <1>1 DEF CostPlaces, Holding
  <2>2. costAt' = [costAt EXCEPT ![c] = place] /\ costLock' = costLock
      BY <1>0, <1>3 DEF Cost!Read, CostTypeOK
  <2> HIDE DEF place
  <2>3. costContacts[Sources[place.i]].ever =>
           costNow >= costContacts[Sources[place.i]].last + Refresh
    <3> SUFFICES ASSUME costContacts[Cost!Mine(c)].ever
                 PROVE  costNow >= costContacts[Cost!Mine(c)].last + Refresh
        BY <1>1, <2>1
    <3>1. ~Contacting(Cost!Mine(c))
      <4> SUFFICES ASSUME NEW d \in Callers, costAt[d].pc \in {"keep", "fail"},
                          Cost!Mine(d) = Cost!Mine(c)
                   PROVE  FALSE
          BY DEF Contacting
      <4>1. d = c
          BY <1>0, HoldersAreAlone DEF Holding
      <4> QED BY <1>0, <4>1
    <3>2. Spaced(Cost!Mine(c))
        BY <1>1, <3>1 DEF CostInv, ContactsAreRecorded
    <3>3. costNow >= costRecord[Cost!Mine(c)].next
        BY <1>2, <1>3, <3>2 DEF Cost!MayAsk, Spaced
    <3>4. /\ costContacts[Cost!Mine(c)].last \in Nat /\ costNow \in Nat
          /\ costRecord[Cost!Mine(c)].next \in Nat
        BY <1>0, <1>1, <3>2 DEF CostTypeOK, Spaced
    <3> QED BY <3>2, <3>3, <3>4, CostConstants DEF Spaced
  <2> QED BY <1>0, <1>1, <1>2, <2>1, <2>2, <2>3, QuietCost DEF CostTypeOK
<1>4. CASE ~Cost!MayAsk(c)
  <2>1. /\ costAt' = [costAt EXCEPT ![c] = Cost!After(costAt[c])] /\ Cost!Unlock(c)
      BY <1>0, <1>4 DEF Cost!Read, Cost!Turn
  <2> QED BY <1>0, <1>1, <1>2, <2>1, CostTurns, UnlockCost, QuietCost DEF Holding
<1> QED BY <1>3, <1>4

\* The contact that is made now is the last one of its source.
LEMMA FetchCost ==
    ASSUME CostInv, NEW c \in Callers, Cost!Fetch(c), CostEndings \subseteq {"answer", "refused"}
    PROVE  CostInv'
<1>0. /\ costAt[c].pc = "fetch" /\ costAt[c].pc \in Holding /\ CostTypeOK
      /\ UNCHANGED <<costNow, costRecord>>
    BY DEF Cost!Fetch, CostInv, Holding
<1>1. costAt[c] \in [pc : {"wait"} \union Holding, i : 1..Len(Sources),
                     observed : Nat, net : BOOLEAN]
      /\ Cost!Mine(c) = Sources[costAt[c].i] /\ Cost!Mine(c) \in Source
    BY <1>0, CostPlace
<1>2. PICK pc \in {"keep", "fail"} : costAt' = [costAt EXCEPT ![c].pc = pc]
    BY DEF Cost!Fetch
<1> DEFINE place == [costAt[c] EXCEPT !.pc = pc]
<1>3. /\ place \in CostPlaces /\ place.pc = pc /\ place.i = costAt[c].i
      /\ place.observed = costAt[c].observed
    BY <1>1, <1>2 DEF CostPlaces, Holding
<1>4. costLock' = costLock
    BY DEF Cost!Fetch
<1>5. /\ costAt' \in [Callers -> CostPlaces] /\ costAt'[c] = place
      /\ \A d \in Callers \ {c} : costAt'[d] = costAt[d]
    BY <1>0, <1>2, <1>3 DEF CostTypeOK
<1> HIDE DEF place
<1> DEFINE contact == [ever |-> TRUE, last |-> costNow]
<1>6. costContacts' = [costContacts EXCEPT ![Cost!Mine(c)] = contact]
    BY DEF Cost!Fetch
<1>7. /\ contact \in [ever : BOOLEAN, last : Nat] /\ contact.last = costNow
    BY <1>0 DEF CostTypeOK
<1> HIDE DEF contact
<1>8. /\ costContacts' \in [Source -> [ever : BOOLEAN, last : Nat]]
      /\ costContacts'[Cost!Mine(c)] = contact
      /\ \A s \in Source \ {Cost!Mine(c)} : costContacts'[s] = costContacts[s]
    BY <1>0, <1>1, <1>6, <1>7 DEF CostTypeOK
<1>9. /\ \A d \in Callers : Cost!Mine(d)' = Cost!Mine(d)
      /\ \A d \in Callers : costAt'[d].pc \in Holding <=> costAt[d].pc \in Holding
  <2>1. ASSUME NEW d \in Callers \ {c} PROVE costAt'[d] = costAt[d]
      BY <1>5
  <2>2. costAt'[c].i = costAt[c].i /\ costAt'[c].pc \in Holding
      BY <1>2, <1>3, <1>5 DEF Holding
  <2> QED BY <1>0, <2>1, <2>2 DEF Cost!Mine
<1>10. CostTypeOK'
    BY <1>0, <1>4, <1>5, <1>8 DEF CostTypeOK
<1>11. HoldersHaveTheLock'
    BY <1>4, <1>9 DEF CostInv, HoldersHaveTheLock
<1>12. CallsTakeNoTime'
    BY <1>0, <1>3, <1>5 DEF CostInv, CallsTakeNoTime
<1>13. ASSUME NEW d \in Callers \ {c}, costAt[d].pc \in Holding
       PROVE  /\ Cost!Mine(d) \in Source
              /\ costContacts'[Cost!Mine(d)] = costContacts[Cost!Mine(d)]
    BY <1>0, <1>8, <1>13, HoldersAreAlone, CostPlace DEF Holding
<1>14. ContactsAreDue'
    BY <1>0, <1>2, <1>3, <1>5, <1>7, <1>8, <1>9, <1>13
       DEF CostInv, ContactsAreDue, Holding
<1>15. ContactsAreRecorded'
  <2> SUFFICES ASSUME NEW s \in Source, costContacts'[s].ever
               PROVE  Contacting(s)' \/ Spaced(s)'
      BY DEF ContactsAreRecorded
  <2>1. CASE s = Cost!Mine(c)
      BY <1>2, <1>3, <1>5, <1>9, <2>1 DEF Contacting
  <2>2. CASE s # Cost!Mine(c)
    <3>1. Contacting(s) \/ Spaced(s)
        BY <1>8, <2>2 DEF CostInv, ContactsAreRecorded
    <3>2. Spaced(s) => Spaced(s)'
        BY <1>0, <1>8, <2>2 DEF Spaced
    <3>3. Contacting(s) => Contacting(s)'
        BY <1>5, <1>9, <2>2 DEF Contacting
    <3> QED BY <3>1, <3>2, <3>3
  <2> QED BY <2>1, <2>2
<1> QED BY <1>10, <1>11, <1>12, <1>14, <1>15 DEF CostInv

\* The record says when the source may be contacted again.
LEMMA KeptCost ==
    ASSUME CostInv, NEW c \in Callers, costAt[c].pc \in {"keep", "fail"},
           NEW e, Cost!Kept(c, e), Cost!Turn(c), Cost!Unlock(c),
           UNCHANGED <<costNow, costContacts>>
    PROVE  CostInv'
<1>0. costAt[c].pc \in Holding /\ CostTypeOK
    BY DEF CostInv, Holding
<1>1. /\ costAt[c] \in [pc : {"wait"} \union Holding, i : 1..Len(Sources),
                     observed : Nat, net : BOOLEAN]
      /\ Cost!Mine(c) = Sources[costAt[c].i] /\ Cost!Mine(c) \in Source
    BY <1>0, CostPlace DEF Holding
<1>2. /\ costAt[c].observed = costNow /\ costLock[Cost!Mine(c)] = c
      /\ costContacts[Cost!Mine(c)].last = costNow
    BY <1>0 DEF CostInv, CallsTakeNoTime, HoldersHaveTheLock, ContactsAreDue, Holding
<1> DEFINE place == Cost!After(costAt[c])
<1>3. costAt' = [costAt EXCEPT ![c] = place]
    BY DEF Cost!Turn
<1>4. /\ place \in CostPlaces /\ place.pc \in {"idle", "wait"}
      /\ place.pc # "idle" => place.observed = costNow
    BY <1>1, <1>2, CostTurns
<1> HIDE DEF place
<1>5. /\ costAt' \in [Callers -> CostPlaces] /\ costAt'[c] = place
      /\ \A d \in Callers \ {c} : costAt'[d] = costAt[d]
    BY <1>0, <1>3, <1>4 DEF CostTypeOK
<1>6. /\ costLock' \in [Source -> Callers \union {"none"}]
      /\ \A d \in Callers \ {c} :
            costAt[d].pc \in Holding => costLock'[Cost!Mine(d)] = costLock[Cost!Mine(d)]
    BY <1>0, UnlockCost
<1> DEFINE entry == [exists |-> TRUE, next |-> costAt[c].observed + Refresh, evidence |-> e]
<1>7. costRecord' = [costRecord EXCEPT ![Cost!Mine(c)] = entry]
    BY DEF Cost!Kept
<1>8. entry.exists = TRUE /\ entry.next = costNow + Refresh
    BY <1>2
<1> HIDE DEF entry
<1>9. /\ costRecord' = [s \in Source |-> costRecord'[s]]
      /\ costRecord'[Cost!Mine(c)] = entry
      /\ \A s \in Source \ {Cost!Mine(c)} : costRecord'[s] = costRecord[s]
    BY <1>0, <1>1, <1>7 DEF CostTypeOK
<1>10. \A d \in Callers \ {c} : Cost!Mine(d)' = Cost!Mine(d)
    BY <1>5 DEF Cost!Mine
<1>11. CostTypeOK'
    BY <1>0, <1>5, <1>6, <1>9 DEF CostTypeOK
<1>12. HoldersHaveTheLock'
    BY <1>4, <1>5, <1>6, <1>10 DEF CostInv, HoldersHaveTheLock, Holding
<1>13. CallsTakeNoTime'
    BY <1>4, <1>5 DEF CostInv, CallsTakeNoTime
<1>14. ContactsAreDue'
    BY <1>4, <1>5, <1>10 DEF CostInv, ContactsAreDue
<1>15. ContactsAreRecorded'
  <2> SUFFICES ASSUME NEW s \in Source, costContacts[s].ever
               PROVE  Contacting(s)' \/ Spaced(s)'
      BY DEF ContactsAreRecorded
  <2>1. CASE s = Cost!Mine(c)
    <3>1. costNow \in Nat
        BY <1>0 DEF CostTypeOK
    <3> QED BY <1>2, <1>8, <1>9, <2>1, <3>1, CostConstants DEF Spaced
  <2>2. CASE s # Cost!Mine(c)
    <3>1. Contacting(s) \/ Spaced(s)
        BY DEF CostInv, ContactsAreRecorded
    <3>2. Spaced(s) => Spaced(s)'
        BY <1>9, <2>2 DEF Spaced
    <3>3. Contacting(s) => Contacting(s)'
        BY <1>5, <1>10, <2>2 DEF Contacting
    <3> QED BY <3>1, <3>2, <3>3
  <2> QED BY <2>1, <2>2
<1> QED BY <1>11, <1>12, <1>13, <1>14, <1>15 DEF CostInv

LEMMA TickCost == ASSUME CostInv, Cost!Tick PROVE CostInv'
<1>1. /\ \A c \in Callers : costAt[c].pc = "idle"
      /\ costNow' = costNow + 1
      /\ UNCHANGED <<costRecord, costLock, costAt, costContacts>>
    BY DEF Cost!Tick
<1>2. CostTypeOK'
    BY <1>1 DEF CostInv, CostTypeOK
<1> QED BY <1>1, <1>2
        DEF CostInv, HoldersHaveTheLock, CallsTakeNoTime, ContactsAreRecorded, Spaced,
            Contacting, ContactsAreDue, Cost!Mine

LEMMA NextCost ==
    ASSUME CostInv, [Cost!Next]_(Cost!vars), CostEndings \subseteq {"answer", "refused"}
    PROVE  CostInv'
<1>1. CASE UNCHANGED Cost!vars
    BY <1>1 DEF Cost!vars, CostInv, CostTypeOK, HoldersHaveTheLock, CallsTakeNoTime,
                ContactsAreRecorded, Spaced, Contacting, ContactsAreDue, Cost!Mine
<1>2. ASSUME NEW c \in Callers, Cost!Keep(c) \/ Cost!Fail(c) PROVE CostInv'
    BY <1>2, KeptCost DEF Cost!Keep, Cost!Fail
<1> QED BY <1>1, <1>2, TickCost, CallCost, LockCost, LockTimeoutCost, ReadCost, FetchCost
        DEF Cost!Next, Cost!Refreshes

\* AI_PROVISIONING.md: whoever refreshes, and whether a contact was answered or refused,
\* a source is contacted once per refresh period (refresh_cost_evidence); a call that
\* dies between the contact and the record is the exception.
THEOREM SourcesAreSpared ==
    ASSUME CostEndings \subseteq {"answer", "refused"}
    PROVE  PartSpec => ContactsAreSpaced
<1>1. CostInv /\ [PartNext]_allVars => CostInv'
    BY PartSteps, NextCost
<1>2. CostInv /\ [PartNext]_allVars
        => [\A c \in Callers : Cost!Fetch(c) =>
              LET s == Cost!Mine(c)
              IN  ~costContacts[s].ever \/ costNow >= costContacts[s].last + Refresh]_(Cost!vars)
    BY PartSteps DEF CostInv, ContactsAreDue, Cost!Fetch
<1> QED BY InitCost, <1>1, <1>2, PTL DEF PartSpec, ContactsAreSpaced, Cost!ContactsAreSpaced

-----------------------------------------------------------------------------
(* The ledger of evaluations.  A caller that is about to write holds the   *)
(* lock, and what it has loaded is what the file still holds; a lock that  *)
(* a dead caller left behind keeps the others out.                         *)

LEMMA SameCardinality ==
    \A S : /\ Ledger!IsFiniteSet(S) <=> IsFiniteSet(S)
          /\ Ledger!Cardinality(S) = Cardinality(S)
BY DEF Ledger!IsFiniteSet, IsFiniteSet, Ledger!Cardinality, Cardinality

\* What plan_evaluation and record_outcome ask for
Operation(op) ==
    \/ op.kind = "reserve" /\ Len(op.trials) \in Nat
    \/ /\ op.kind = "settle" /\ op.id.arm \in Ledger!Arms
       /\ op.id = Ledger!Id(op.id.pair, op.id.arm)

LedgerShape(x) == x = [pc |-> x.pc, op |-> x.op, loaded |-> x.loaded]

WritersHaveLoaded ==
    /\ ledgerAt = [p \in Callers |-> ledgerAt[p]]
    /\ \A p \in Callers :
          /\ LedgerShape(ledgerAt[p])
          /\ ledgerAt[p].pc \in {"call", "release"} => ledgerLock = p
          /\ ledgerAt[p].pc \in {"wait", "call"} => Operation(ledgerAt[p].op)
          /\ ledgerAt[p].pc = "call" => ledgerAt[p].loaded = ledger

LEMMA LedgerLoads ==
    ASSUME NEW x, LedgerShape(x), NEW v, NEW w
    PROVE  [x EXCEPT !.pc = v, !.loaded = w]
              = [pc |-> v, op |-> x.op, loaded |-> w]
<1> DEFINE P == {x.pc, v}
<1> DEFINE O == {x.op, x.op}
<1> DEFINE L == {x.loaded, w}
<1>1. /\ x.pc \in P /\ v \in P /\ x.op \in O /\ x.op \in O
      /\ x.loaded \in L /\ w \in L
    OBVIOUS
<1> HIDE DEF P, O, L
<1>2. x \in [pc : P, op : O, loaded : L]
  <2>1. [pc |-> x.pc, op |-> x.op, loaded |-> x.loaded] \in [pc : P, op : O, loaded : L]
      BY <1>1
  <2> QED BY <2>1 DEF LedgerShape
<1> DEFINE z == [x EXCEPT !.pc = v, !.loaded = w]
<1>3. /\ z \in [pc : P, op : O, loaded : L]
      /\ z.pc = v /\ z.op = x.op /\ z.loaded = w
    BY <1>1, <1>2
<1> HIDE DEF z
<1>4. z = [pc |-> z.pc, op |-> z.op, loaded |-> z.loaded]
    BY <1>3
<1> QED BY <1>3, <1>4 DEF z

LEMMA LedgerEnters ==
    ASSUME NEW x, LedgerShape(x), NEW w
    PROVE  [x EXCEPT !.pc = "wait", !.op = w]
              = [pc |-> "wait", op |-> w, loaded |-> x.loaded]
<1> DEFINE P == {x.pc, "wait"}
<1> DEFINE O == {x.op, w}
<1> DEFINE L == {x.loaded, x.loaded}
<1>1. /\ x.pc \in P /\ "wait" \in P /\ x.op \in O /\ w \in O
      /\ x.loaded \in L /\ x.loaded \in L
    OBVIOUS
<1> HIDE DEF P, O, L
<1>2. x \in [pc : P, op : O, loaded : L]
  <2>1. [pc |-> x.pc, op |-> x.op, loaded |-> x.loaded] \in [pc : P, op : O, loaded : L]
      BY <1>1
  <2> QED BY <2>1 DEF LedgerShape
<1> DEFINE z == [x EXCEPT !.pc = "wait", !.op = w]
<1>3. /\ z \in [pc : P, op : O, loaded : L]
      /\ z.pc = "wait" /\ z.op = w /\ z.loaded = x.loaded
    BY <1>1, <1>2
<1> HIDE DEF z
<1>4. z = [pc |-> z.pc, op |-> z.op, loaded |-> z.loaded]
    BY <1>3
<1> QED BY <1>3, <1>4 DEF z

\* A caller moves; the others are where they were.
LEMMA LedgerMove ==
    ASSUME WritersHaveLoaded, NEW p \in Callers, NEW pc, NEW op, NEW loaded, NEW place,
           place = [pc |-> pc, op |-> op, loaded |-> loaded],
           ledgerAt' = [ledgerAt EXCEPT ![p] = place],
           \A q \in Callers \ {p} : ledgerAt[q].pc \in {"call", "release"} =>
              ledgerLock' = q /\ ledger' = ledger,
           pc \in {"call", "release"} => ledgerLock' = p,
           pc \in {"wait", "call"} => Operation(op),
           pc = "call" => loaded = ledger'
    PROVE  WritersHaveLoaded'
<1>1. /\ place.pc = pc /\ place.op = op /\ place.loaded = loaded /\ LedgerShape(place)
    BY DEF LedgerShape
<1>2. /\ ledgerAt' = [q \in Callers |-> ledgerAt'[q]] /\ ledgerAt'[p] = place
      /\ \A q \in Callers \ {p} : ledgerAt'[q] = ledgerAt[q]
    BY DEF WritersHaveLoaded
<1> QED BY <1>1, <1>2 DEF WritersHaveLoaded

LEMMA InitLedger == PartInit => WritersHaveLoaded
<1> SUFFICES ASSUME Ledger!Init PROVE WritersHaveLoaded
    BY DEF PartInit
<1>1. Ledger!Idle.pc = "idle" /\ LedgerShape(Ledger!Idle)
    BY DEF Ledger!Idle, LedgerShape
<1> QED BY <1>1 DEF Ledger!Init, WritersHaveLoaded

LEMMA StartLedger ==
    ASSUME WritersHaveLoaded, NEW p \in Callers, NEW op, Operation(op), Ledger!Calls(p, op)
    PROVE  WritersHaveLoaded'
<1>1. /\ ledgerAt[p].pc = "idle" /\ UNCHANGED <<ledger, ledgerLock>>
      /\ ledgerAt' = [ledgerAt EXCEPT ![p] = [ledgerAt[p] EXCEPT !.pc = "wait", !.op = op]]
    BY DEF Ledger!Calls, WritersHaveLoaded
<1>a. LedgerShape(ledgerAt[p])
    BY DEF WritersHaveLoaded
<1>2. [ledgerAt[p] EXCEPT !.pc = "wait", !.op = op]
         = [pc |-> "wait", op |-> op, loaded |-> ledgerAt[p].loaded]
    BY <1>a, LedgerEnters
<1> QED BY <1>1, <1>2, LedgerMove DEF WritersHaveLoaded

LEMMA NextLedger ==
    ASSUME WritersHaveLoaded, [Ledger!Next]_(Ledger!vars) PROVE WritersHaveLoaded'
<1> USE DEF WritersHaveLoaded
<1>1. CASE UNCHANGED Ledger!vars
    BY <1>1 DEF Ledger!vars, LedgerShape
<1>2. CASE Ledger!Tick
    BY <1>2 DEF Ledger!Tick, LedgerShape
<1>3. ASSUME NEW p \in Callers, Ledger!Plan(p) PROVE WritersHaveLoaded'
  <2>1. PICK candidates \in SUBSET Candidates, samples \in 1..2 :
           Ledger!Calls(p, [kind |-> "reserve", now |-> ledgerClock,
              trials |-> [k \in 1..Ledger!Cardinality(candidates) * samples |->
                 Ledger!SetToSeq(candidates)[((k - 1) \div samples) + 1]]])
      BY <1>3 DEF Ledger!Plan
  <2> DEFINE trials == [k \in 1..Ledger!Cardinality(candidates) * samples |->
                          Ledger!SetToSeq(candidates)[((k - 1) \div samples) + 1]]
  <2> DEFINE op == [kind |-> "reserve", now |-> ledgerClock, trials |-> trials]
  <2>2. Ledger!Cardinality(candidates) * samples \in Nat
    <3>1. IsFiniteSet(candidates)
        BY LedgerAssumption, SameCardinality, FS_Subset DEF Ledger!LedgerAssumption
    <3>2. Ledger!Cardinality(candidates) \in Nat /\ samples \in Nat
        BY <3>1, SameCardinality, FS_CardinalityType
    <3> QED BY <3>2
  <2>3. Len(trials) \in Nat
      BY <2>2
  <2> HIDE DEF trials
  <2>4. Operation(op)
      BY <2>3 DEF Operation
  <2> QED BY <2>1, <2>4, StartLedger DEF trials
<1>4. ASSUME NEW p \in Callers, Ledger!RecordOutcome(p) PROVE WritersHaveLoaded'
  <2>1. PICK i \in DOMAIN ledger.pairs, arm \in Ledger!Arms, class \in Classes, cost \in Costs :
           Ledger!Calls(p, [kind |-> "settle", now |-> ledgerClock, id |-> Ledger!Id(i, arm),
                            class |-> class, cost |-> cost])
      BY <1>4 DEF Ledger!RecordOutcome
  <2> QED BY <2>1, StartLedger DEF Operation, Ledger!Id
<1>5. ASSUME NEW p \in Callers, Ledger!Acquire(p) PROVE WritersHaveLoaded'
  <2>1. /\ ledgerAt[p].pc = "wait" /\ ledgerLock = "none" /\ ledgerLock' = p /\ ledger' = ledger
        /\ ledgerAt' = [ledgerAt EXCEPT ![p] =
                          [ledgerAt[p] EXCEPT !.pc = "call", !.loaded = ledger]]
      BY <1>5 DEF Ledger!Acquire, Ledger!Moves
  <2>2. [ledgerAt[p] EXCEPT !.pc = "call", !.loaded = ledger]
           = [pc |-> "call", op |-> ledgerAt[p].op, loaded |-> ledger]
      BY LedgerLoads
  <2>3. "none" \notin Callers
      BY LedgerAssumption DEF Ledger!LedgerAssumption
  <2> QED BY <2>1, <2>2, <2>3, LedgerMove
<1>6. ASSUME NEW p \in Callers, Ledger!TimedOut(p) PROVE WritersHaveLoaded'
    BY <1>6, LedgerMove DEF Ledger!TimedOut, Ledger!Moves, Ledger!Idle
<1>7. ASSUME NEW p \in Callers, Ledger!Write(p) PROVE WritersHaveLoaded'
  <2>1. /\ ledgerAt[p].pc = "call" /\ ledgerLock' = ledgerLock
        /\ ledgerAt' = [ledgerAt EXCEPT ![p] =
                          [ledgerAt[p] EXCEPT !.pc = "release", !.loaded = Ledger!Empty]]
      BY <1>7 DEF Ledger!Write, Ledger!Moves
  <2>2. [ledgerAt[p] EXCEPT !.pc = "release", !.loaded = Ledger!Empty]
           = [pc |-> "release", op |-> ledgerAt[p].op, loaded |-> Ledger!Empty]
      BY LedgerLoads
  <2> QED BY <2>1, <2>2, LedgerMove
<1>8. ASSUME NEW p \in Callers, Ledger!Release(p) PROVE WritersHaveLoaded'
    BY <1>8, LedgerMove DEF Ledger!Release, Ledger!Moves, Ledger!Idle
<1>9. ASSUME NEW p \in Callers, Ledger!Crash(p) PROVE WritersHaveLoaded'
  <2>1. [Ledger!Idle EXCEPT !.pc = "dead"]
           = [pc |-> "dead", op |-> Ledger!Idle.op, loaded |-> Ledger!Idle.loaded]
      BY DEF Ledger!Idle
  <2> QED BY <1>9, <2>1, LedgerMove DEF Ledger!Crash, Ledger!Moves
<1>10. ASSUME NEW p \in Callers, Ledger!Recover(p) PROVE WritersHaveLoaded'
    BY <1>10, LedgerMove DEF Ledger!Recover, Ledger!Moves, Ledger!Idle
<1> QED BY <1>1, <1>2, <1>3, <1>4, <1>5, <1>6, <1>7, <1>8, <1>9, <1>10 DEF Ledger!Next

\* Of what a caller does, only the replacement of the file changes the file.
LEMMA OnlyWritesChange ==
    ASSUME [Ledger!Next]_(Ledger!vars), ledger' # ledger
    PROVE  \E p \in Callers : Ledger!Write(p)
<1>1. Ledger!Next
    BY DEF Ledger!vars
<1>2. ASSUME NEW p, NEW op, Ledger!Calls(p, op) PROVE ledger' = ledger
    BY <1>2 DEF Ledger!Calls
<1>3. ASSUME NEW p, Ledger!Plan(p) PROVE ledger' = ledger
    BY <1>2, <1>3, Zenon DEF Ledger!Plan
<1>4. ASSUME NEW p, Ledger!RecordOutcome(p) PROVE ledger' = ledger
    BY <1>2, <1>4, Zenon DEF Ledger!RecordOutcome
<1>5. ASSUME NEW p, \/ Ledger!Acquire(p) \/ Ledger!TimedOut(p) \/ Ledger!Release(p)
                    \/ Ledger!Crash(p) \/ Ledger!Recover(p)
      PROVE  ledger' = ledger
    BY <1>5, Zenon DEF Ledger!Acquire, Ledger!TimedOut, Ledger!Release, Ledger!Crash,
                       Ledger!Recover
<1>6. Ledger!Tick => ledger' = ledger
    BY DEF Ledger!Tick
<1> QED BY <1>1, <1>3, <1>4, <1>5, <1>6, Zenon DEF Ledger!Next

\* Nobody's update of runtime-state.json is lost, with any number of callers that wait,
\* time out and die with the lock: what replaces the file is the effect of one
\* operation on the file as it then is (RuntimeStore.mutate).
THEOREM UpdatesAreNotLost == PartSpec => NoLostUpdate
<1>1. WritersHaveLoaded /\ [PartNext]_allVars => WritersHaveLoaded'
    BY PartSteps, NextLedger
<1>2. ASSUME WritersHaveLoaded, [Ledger!Next]_(Ledger!vars), ledger' # ledger
      PROVE  Ledger!AppliesOne
  <2>1. PICK p \in Callers : Ledger!Write(p)
      BY <1>2, OnlyWritesChange
  <2>2. ledgerAt[p].pc = "call"
      BY <2>1 DEF Ledger!Write, Ledger!Moves
  <2>3. ledgerAt[p].loaded = ledger /\ ledgerAt[p].op.kind # "none"
      BY <1>2, <2>2 DEF WritersHaveLoaded, Operation
  <2> QED BY <1>2, <2>1, <2>3 DEF Ledger!Write, Ledger!AppliesOne
<1>3. WritersHaveLoaded /\ [PartNext]_allVars
        => [ledger' # ledger => Ledger!AppliesOne]_(Ledger!vars)
    BY <1>2, PartSteps
<1> QED BY InitLedger, <1>1, <1>3, PTL DEF PartSpec, NoLostUpdate, Ledger!NoLostUpdate

\* The pairs that were observed: both arms are settled.
Whole(s, c) == {i \in DOMAIN s.pairs : s.pairs[i].candidate = c
                                         /\ DOMAIN s.pairs[i].settled = Ledger!Arms}
PairFields == {"status", "candidate", "day", "expires", "settled"}
\* The arms of an active pair that are not settled are reserved.
Reserves(s) ==
    \A i \in DOMAIN s.pairs : \A arm \in Ledger!Arms :
        s.pairs[i].status = "ACTIVE" =>
           (Ledger!Id(i, arm) \in s.open <=> arm \notin DOMAIN s.pairs[i].settled)
Sound(s) ==
    /\ DOMAIN s = {"known", "observations", "spend", "open", "pairs"}
    /\ DOMAIN s.observations = Candidates
    /\ Len(s.pairs) \in Nat /\ s.pairs = [i \in 1..Len(s.pairs) |-> s.pairs[i]]
    /\ \A i \in 1..Len(s.pairs) : DOMAIN s.pairs[i] = PairFields
    /\ \A id \in s.open : id.pair \in 1..Len(s.pairs)
    /\ \A c \in Candidates : s.observations[c] = Cardinality(Whole(s, c))
    /\ Reserves(s)

LEMMA IdFields ==
    \A i, arm : Ledger!Id(i, arm).pair = i /\ Ledger!Id(i, arm).arm = arm
BY DEF Ledger!Id

LEMMA SoundFrom ==
    ASSUME NEW r, NEW n \in Nat,
           DOMAIN r = {"known", "observations", "spend", "open", "pairs"},
           DOMAIN r.observations = Candidates,
           Len(r.pairs) = n, r.pairs = [i \in 1..n |-> r.pairs[i]],
           \A i \in 1..n : DOMAIN r.pairs[i] = PairFields,
           \A id \in r.open : id.pair \in 1..n,
           \A c \in Candidates : r.observations[c] = Cardinality(Whole(r, c)),
           Reserves(r)
    PROVE  Sound(r)
<1>1. r.pairs = [i \in 1..Len(r.pairs) |-> r.pairs[i]]
    OBVIOUS
<1> QED BY <1>1 DEF Sound

LEMMA ExpiryIsSound ==
    ASSUME NEW s, Sound(s), NEW t
    PROVE  Sound(Ledger!WithoutExpired(s, t))
<1> DEFINE n == Len(s.pairs)
<1> DEFINE over == {id \in s.open : Ledger!Expired(s.pairs[id.pair], t)}
<1> DEFINE pairs == [i \in DOMAIN s.pairs |->
                       IF s.pairs[i].status = "ACTIVE" /\ \E id \in over : id.pair = i
                         THEN [s.pairs[i] EXCEPT !.status = "EXPIRED"] ELSE s.pairs[i]]
<1> DEFINE r == Ledger!WithoutExpired(s, t)
<1>1. r = [s EXCEPT !.open = s.open \ over, !.pairs = pairs]
    BY DEF Ledger!WithoutExpired
<1>2. over \subseteq s.open
    OBVIOUS
<1> HIDE DEF over
<1>3. n \in Nat /\ DOMAIN s.pairs = 1..n
    BY DEF Sound
<1>4. DOMAIN pairs = 1..n /\ \A i \in 1..n :
         /\ DOMAIN pairs[i] = PairFields
         /\ pairs[i].candidate = s.pairs[i].candidate /\ pairs[i].settled = s.pairs[i].settled
         /\ pairs[i].status = "ACTIVE" =>
               s.pairs[i].status = "ACTIVE" /\ ~\E id \in over : id.pair = i
  <2>1. \A i \in 1..n : DOMAIN s.pairs[i] = PairFields
      BY DEF Sound
  <2> QED BY <1>3, <2>1 DEF PairFields
<1>5. pairs = [i \in 1..n |-> pairs[i]]
    BY <1>3
<1> HIDE DEF pairs
<1>6. /\ r.open = s.open \ over /\ r.pairs = pairs /\ r.observations = s.observations
      /\ DOMAIN r = DOMAIN s
    BY <1>1 DEF Sound
<1> HIDE DEF r
<1>7. Len(pairs) = n
    BY <1>3, <1>5
<1>8. \A c : Whole(r, c) = Whole(s, c)
    BY <1>3, <1>4, <1>6 DEF Whole
<1>9. Reserves(r)
  <2> SUFFICES ASSUME NEW i \in 1..n, NEW arm \in Ledger!Arms, pairs[i].status = "ACTIVE"
               PROVE  Ledger!Id(i, arm) \in s.open \ over <=> arm \notin DOMAIN pairs[i].settled
      BY <1>4, <1>6 DEF Reserves
  <2>1. Ledger!Id(i, arm) \in s.open <=> arm \notin DOMAIN s.pairs[i].settled
      BY <1>3, <1>4 DEF Sound, Reserves
  <2>2. Ledger!Id(i, arm) \notin over
      BY <1>4, IdFields
  <2> QED BY <1>4, <2>1, <2>2
<1>10. \A id \in r.open : id.pair \in 1..n
    BY <1>6 DEF Sound
<1> HIDE DEF n
<1>11. \A i \in 1..n : DOMAIN pairs[i] = PairFields
    BY <1>4
<1>12. \A c \in Candidates : r.observations[c] = Cardinality(Whole(r, c))
    BY <1>6, <1>8 DEF Sound
<1>13. /\ DOMAIN r.observations = Candidates
       /\ DOMAIN r = {"known", "observations", "spend", "open", "pairs"}
    BY <1>6 DEF Sound
<1>14. n \in Nat
    BY <1>3
<1>15. Len(r.pairs) = n /\ r.pairs = [i \in 1..n |-> r.pairs[i]]
    BY <1>5, <1>6, <1>7
<1>16. \A i \in 1..n : DOMAIN r.pairs[i] = PairFields
    BY <1>6, <1>11
<1>17. Sound(r)
    BY <1>9, <1>10, <1>12, <1>13, <1>14, <1>15, <1>16, SoundFrom
<1> QED BY <1>17 DEF r

LEMMA AppendOne ==
    ASSUME NEW n \in Nat, NEW pairs, pairs = [i \in 1..n |-> pairs[i]], NEW x
    PROVE  /\ Append(pairs, x) = [i \in 1..n + 1 |-> Append(pairs, x)[i]]
           /\ Len(Append(pairs, x)) = n + 1
           /\ Append(pairs, x)[n + 1] = x
           /\ \A i \in 1..n : Append(pairs, x)[i] = pairs[i]
<1> DEFINE T == {pairs[i] : i \in 1..n} \cup {x}
<1>1. \A i \in 1..n : pairs[i] \in T
    OBVIOUS
<1>2. x \in T
    OBVIOUS
<1> HIDE DEF T
<1>3. pairs \in Seq(T) /\ Len(pairs) = n
  <2>1. [i \in 1..n |-> pairs[i]] \in [1..n -> T]
      BY <1>1
  <2> QED BY <2>1
<1>4. Append(pairs, x) \in Seq(T) /\ Len(Append(pairs, x)) = n + 1
    BY <1>2, <1>3
<1> QED BY <1>2, <1>3, <1>4

\* A trial that is accepted adds a pair of which nothing is settled.
LEMMA AcceptIsSound ==
    ASSUME NEW s, Sound(s), NEW c, NEW t
    PROVE  Sound(Ledger!Accept(s, c, t))
<1> DEFINE n == Len(s.pairs)
<1> DEFINE new == [status |-> "ACTIVE", candidate |-> c, day |-> Ledger!Day(t),
                   expires |-> t + DayLength, settled |-> [arm \in {} |-> 0]]
<1> DEFINE ids == {Ledger!Id(n + 1, arm) : arm \in Ledger!Arms}
<1> DEFINE pairs == Append(s.pairs, new)
<1> DEFINE r == [s EXCEPT !.open = s.open \cup ids, !.pairs = pairs]
<1>1. Ledger!Accept(s, c, t) \in {s, r}
    BY DEF Ledger!Accept
<1>2. n \in Nat /\ s.pairs = [i \in 1..n |-> s.pairs[i]] /\ DOMAIN s.pairs = 1..n
    BY DEF Sound
<1>3. /\ DOMAIN new = PairFields /\ new.settled = [arm \in {} |-> 0]
    BY DEF PairFields
<1>4. DOMAIN new.settled = {} /\ Ledger!Arms # {}
    BY DEF Ledger!Arms
<1> HIDE DEF new
<1>5. /\ pairs = [i \in 1..n + 1 |-> pairs[i]] /\ Len(pairs) = n + 1 /\ pairs[n + 1] = new
      /\ \A i \in 1..n : pairs[i] = s.pairs[i]
    BY <1>2, AppendOne
<1> HIDE DEF pairs
<1>6. DOMAIN pairs = 1..n + 1
    BY <1>5
<1>7. \A i \in 1..n + 1 : i \in 1..n \/ i = n + 1
    BY <1>2
<1>8. /\ r.open = s.open \cup ids /\ r.pairs = pairs /\ r.observations = s.observations
      /\ DOMAIN r = DOMAIN s
    BY DEF Sound
<1> HIDE DEF r
<1>9. \A id \in ids : id.pair = n + 1
    BY IdFields
<1>10. \A arm \in Ledger!Arms : Ledger!Id(n + 1, arm) \in ids
    OBVIOUS
<1> HIDE DEF ids
<1>11. \A d : Whole(r, d) = Whole(s, d)
  <2> SUFFICES ASSUME NEW d PROVE Whole(r, d) = Whole(s, d)
      OBVIOUS
  <2>1. n + 1 \notin Whole(r, d)
      BY <1>4, <1>5, <1>8 DEF Whole
  <2>2. ASSUME NEW i \in 1..n PROVE i \in Whole(r, d) <=> i \in Whole(s, d)
    <3>1. i \in 1..n + 1
        BY <1>2
    <3>2. i \in DOMAIN pairs /\ i \in DOMAIN s.pairs /\ pairs[i] = s.pairs[i]
        BY <1>2, <1>5, <1>6, <3>1
    <3> QED BY <1>8, <3>2 DEF Whole
  <2>3. Whole(r, d) \subseteq 1..n + 1 /\ Whole(s, d) \subseteq 1..n
      BY <1>2, <1>6, <1>8 DEF Whole
  <2> QED BY <1>2, <1>7, <2>1, <2>2, <2>3
<1>12. Reserves(r)
  <2> SUFFICES ASSUME NEW i \in 1..n + 1, NEW arm \in Ledger!Arms, pairs[i].status = "ACTIVE"
               PROVE  Ledger!Id(i, arm) \in s.open \cup ids
                         <=> arm \notin DOMAIN pairs[i].settled
      BY <1>6, <1>8 DEF Reserves
  <2>1. CASE i = n + 1
      BY <1>4, <1>5, <1>10, <2>1
  <2>2. CASE i \in 1..n
    <3>1. Ledger!Id(i, arm) \notin ids
        BY <1>2, <1>9, <2>2, IdFields
    <3>2. Ledger!Id(i, arm) \in s.open <=> arm \notin DOMAIN s.pairs[i].settled
        BY <1>2, <1>5, <2>2 DEF Sound, Reserves
    <3> QED BY <1>5, <2>2, <3>1, <3>2
  <2> QED BY <1>7, <2>1, <2>2
<1>13. \A id \in r.open : id.pair \in 1..n + 1
  <2>1. \A id \in s.open : id.pair \in 1..n
      BY DEF Sound
  <2> QED BY <1>2, <1>8, <1>9, <2>1
<1>14. \A i \in 1..n + 1 : DOMAIN pairs[i] = PairFields
  <2>1. \A i \in 1..n : DOMAIN s.pairs[i] = PairFields
      BY DEF Sound
  <2> QED BY <1>3, <1>5, <1>7, <2>1
<1>15. \A d \in Candidates : r.observations[d] = Cardinality(Whole(r, d))
    BY <1>8, <1>11 DEF Sound
<1> HIDE DEF n
<1>16. n + 1 \in Nat /\ DOMAIN r.observations = Candidates
       /\ DOMAIN r = {"known", "observations", "spend", "open", "pairs"}
    BY <1>2, <1>8 DEF Sound
<1>17. Sound(r)
    BY <1>5, <1>8, <1>12, <1>13, <1>14, <1>15, <1>16 DEF Sound
<1> QED BY <1>1, <1>17

\* What Reserve makes of the trials, one after the other; its recursion has a solution.
Turns(f, N, first, trials, t) ==
    [n \in 0..N |-> IF n = 0 THEN first ELSE Ledger!Accept(f[n - 1], trials[n], t)]

LEMMA ReserveDefined ==
    ASSUME NEW N \in Nat, NEW first, NEW trials, NEW t
    PROVE  \E f : f = Turns(f, N, first, trials, t)
<1> USE DEF Turns
<1> DEFINE solves(f, m) == f = Turns(f, m, first, trials, t)
<1> DEFINE T == {m \in Nat : ~\E f : solves(f, m)}
<1> SUFFICES ASSUME T # {} PROVE FALSE
    OBVIOUS
<1>1. PICK m \in T : \A n \in T : m =< n
    BY LeastNatural
<1>2. m # 0
  <2> DEFINE f == [n \in 0..0 |-> first]
  <2>1. solves(f, 0)
      OBVIOUS
  <2> HIDE DEF f, solves
  <2> QED BY <1>1, <2>1
<1>3. m - 1 \in Nat /\ m \in Nat /\ ~(m =< m - 1)
    BY <1>2
<1>4. PICK f : solves(f, m - 1)
  <2> HIDE DEF solves
  <2> QED BY <1>1, <1>3
<1> DEFINE g == [n \in 0..m |-> IF n = m THEN Ledger!Accept(f[m - 1], trials[m], t) ELSE f[n]]
<1>5. \A n \in 0..m : g[n] = IF n = 0 THEN first ELSE Ledger!Accept(g[n - 1], trials[n], t)
  <2> SUFFICES ASSUME NEW n \in 0..m
               PROVE  g[n] = IF n = 0 THEN first ELSE Ledger!Accept(g[n - 1], trials[n], t)
      OBVIOUS
  <2>1. CASE n = m
    <3>1. m - 1 \in 0..m /\ m - 1 # m
        BY <1>3
    <3>2. g[m] = Ledger!Accept(f[m - 1], trials[m], t) /\ g[m - 1] = f[m - 1]
        BY <1>3, <3>1
    <3> HIDE DEF g
    <3> QED BY <1>2, <2>1, <3>2
  <2>2. CASE n # m
    <3>1. n \in 0..m - 1 /\ (n # 0 => n - 1 \in 0..m /\ n - 1 # m)
        BY <1>3, <2>2
    <3>2. f[n] = IF n = 0 THEN first ELSE Ledger!Accept(f[n - 1], trials[n], t)
        BY <1>4, <3>1
    <3>3. g[n] = f[n] /\ (n # 0 => g[n - 1] = f[n - 1])
        BY <2>2, <3>1
    <3> HIDE DEF g, solves
    <3> QED BY <3>2, <3>3
  <2> QED BY <2>1, <2>2
<1>6. g = [n \in 0..m |-> IF n = 0 THEN first ELSE Ledger!Accept(g[n - 1], trials[n], t)]
  <2>1. g = [n \in 0..m |-> g[n]]
      OBVIOUS
  <2> HIDE DEF g
  <2> QED BY <1>5, <2>1
<1>7. solves(g, m)
  <2> HIDE DEF g
  <2> QED BY <1>6
<1> HIDE DEF g, solves
<1> QED BY <1>1, <1>7

LEMMA ReserveIsSound ==
    ASSUME NEW s, Sound(s), NEW op, Len(op.trials) \in Nat
    PROVE  Sound(Ledger!Reserve(s, op).state)
<1> DEFINE N == Len(op.trials)
<1> DEFINE first == Ledger!WithoutExpired(s, op.now)
<1> DEFINE F == CHOOSE f : f = Turns(f, N, first, op.trials, op.now)
<1>1. Ledger!Reserve(s, op).state = F[N]
    BY DEF Ledger!Reserve, Turns
<1>2. Sound(first)
    BY ExpiryIsSound
<1> HIDE DEF first
<1>3. \E f : f = Turns(f, N, first, op.trials, op.now)
    BY ReserveDefined
<1>4. F = Turns(F, N, first, op.trials, op.now)
    BY <1>3
<1> HIDE DEF F
<1>5. \A n \in 0..N : F[n] = IF n = 0 THEN first
                            ELSE Ledger!Accept(F[n - 1], op.trials[n], op.now)
  <2> DEFINE turns == Turns(F, N, first, op.trials, op.now)
  <2>1. \A n \in 0..N : turns[n] = IF n = 0 THEN first
                               ELSE Ledger!Accept(F[n - 1], op.trials[n], op.now)
      BY DEF Turns
  <2> HIDE DEF turns
  <2>2. F = turns
      BY <1>4 DEF turns
  <2> QED BY <2>1, <2>2
<1> DEFINE T == {n \in 0..N : ~Sound(F[n])}
<1>6. T = {}
  <2> SUFFICES ASSUME T # {} PROVE FALSE
      OBVIOUS
  <2>1. PICK m \in T : \A n \in T : m =< n
    <3>1. T \subseteq Nat
        OBVIOUS
    <3> QED BY <3>1, LeastNatural
  <2>2. m # 0 /\ m \in 0..N
      BY <1>2, <1>5
  <2>3. m - 1 \in 0..N /\ ~(m =< m - 1)
      BY <2>2
  <2>4. Sound(F[m - 1])
      BY <2>1, <2>3
  <2>5. F[m] = Ledger!Accept(F[m - 1], op.trials[m], op.now)
      BY <1>5, <2>2
  <2>6. Sound(F[m])
      BY <2>4, <2>5, AcceptIsSound
  <2> QED BY <2>1, <2>6
<1>7. N \in 0..N
    OBVIOUS
<1> QED BY <1>1, <1>6, <1>7

\* r is s with the arm of pair i settled, which has become x.
SettlesArm(s, i, arm, x, r) ==
    /\ DOMAIN r = {"known", "observations", "spend", "open", "pairs"}
    /\ DOMAIN r.observations = Candidates
    /\ i \in 1..Len(s.pairs) /\ s.pairs[i].status = "ACTIVE" /\ arm \in Ledger!Arms
    /\ r.pairs = [s.pairs EXCEPT ![i] = x] /\ r.open = s.open \ {Ledger!Id(i, arm)}
    /\ DOMAIN x = PairFields /\ DOMAIN x.settled = DOMAIN s.pairs[i].settled \cup {arm}
    /\ \A c \in Candidates : r.observations[c] = Cardinality(Whole(r, c))

\* One arm of a reserved pair is settled.
LEMMA PairIsSound ==
    ASSUME NEW s, Sound(s), NEW i, NEW arm, NEW x, NEW r, SettlesArm(s, i, arm, x, r)
    PROVE  Sound(r)
<1> DEFINE n == Len(s.pairs)
<1>0. /\ i \in 1..n /\ arm \in Ledger!Arms /\ s.pairs[i].status = "ACTIVE"
      /\ DOMAIN r = {"known", "observations", "spend", "open", "pairs"}
      /\ DOMAIN r.observations = Candidates
      /\ r.pairs = [s.pairs EXCEPT ![i] = x] /\ r.open = s.open \ {Ledger!Id(i, arm)}
      /\ DOMAIN x = PairFields /\ DOMAIN x.settled = DOMAIN s.pairs[i].settled \cup {arm}
      /\ \A c \in Candidates : r.observations[c] = Cardinality(Whole(r, c))
    BY DEF SettlesArm
<1>1. /\ n \in Nat /\ s.pairs = [j \in 1..n |-> s.pairs[j]] /\ DOMAIN s.pairs = 1..n
      /\ \A j \in 1..n : DOMAIN s.pairs[j] = PairFields
      /\ \A id \in s.open : id.pair \in 1..n
    BY DEF Sound
<1>2. /\ r.pairs = [j \in 1..n |-> r.pairs[j]]
      /\ \A j \in 1..n : r.pairs[j] = IF j = i THEN x ELSE s.pairs[j]
    BY <1>0, <1>1
<1>3. Len(r.pairs) = n /\ DOMAIN r.pairs = 1..n
    BY <1>0, <1>1, <1>2
<1>4. \A j \in 1..n : DOMAIN r.pairs[j] = PairFields
    BY <1>0, <1>1, <1>2
<1>5. Reserves(r)
  <2> SUFFICES ASSUME NEW j \in 1..n, NEW a \in Ledger!Arms, r.pairs[j].status = "ACTIVE"
               PROVE  Ledger!Id(j, a) \in s.open \ {Ledger!Id(i, arm)}
                         <=> a \notin DOMAIN r.pairs[j].settled
      BY <1>0, <1>3 DEF Reserves
  <2>1. Ledger!Id(j, a) = Ledger!Id(i, arm) <=> j = i /\ a = arm
      BY IdFields
  <2>2. s.pairs[j].status = "ACTIVE" =>
           (Ledger!Id(j, a) \in s.open <=> a \notin DOMAIN s.pairs[j].settled)
      BY <1>1 DEF Sound, Reserves
  <2>3. CASE j = i
      BY <1>0, <1>2, <2>1, <2>2, <2>3
  <2>4. CASE j # i
      BY <1>0, <1>2, <2>1, <2>2, <2>4
  <2> QED BY <2>3, <2>4
<1>6. \A id \in r.open : id.pair \in 1..n
    BY <1>0, <1>1
<1> HIDE DEF n
<1> QED BY <1>0, <1>1, <1>2, <1>3, <1>4, <1>5, <1>6, SoundFrom

LEMMA SettleIsSound ==
    ASSUME NEW s, Sound(s), NEW op, op.id.arm \in Ledger!Arms,
           op.id = Ledger!Id(op.id.pair, op.id.arm), ~Ledger!Settle(s, op).error
    PROVE  Sound(Ledger!Settle(s, op).state)
<1> DEFINE n == Len(s.pairs)
<1> DEFINE id == op.id
<1> DEFINE i == id.pair
<1> DEFINE arm == id.arm
<1> DEFINE pair == s.pairs[i]
<1> DEFINE key == <<Ledger!Model(s, id), op.class>>
<1> DEFINE booked == [s EXCEPT !.known = @ \cup {key}, !.open = @ \ {id},
                               !.spend[Ledger!Day(op.now)] = @ + op.cost]
<1> DEFINE settled == [pair EXCEPT !.settled = [a \in DOMAIN @ \cup {id.arm} |->
                         IF a = id.arm THEN [cost |-> op.cost, day |-> Ledger!Day(op.now)]
                         ELSE @[a]]]
<1> DEFINE armDone == [booked EXCEPT !.pairs[i] = settled]
<1> DEFINE completed == [armDone EXCEPT !.pairs[i].status = "COMPLETED",
                                        !.observations[pair.candidate] = @ + 1]
<1> DEFINE Fails(x) == [error |-> TRUE, state |-> x]
<1> DEFINE Works(x) == [error |-> FALSE, state |-> x]
<1>0. Ledger!Settle(s, op)
        = IF id \notin s.open \/ Ledger!Expired(pair, op.now) THEN Fails(s)
          ELSE IF pair.status # "ACTIVE" \/ arm \in DOMAIN pair.settled THEN Fails(booked)
          ELSE IF ~Ledger!AllSettled(settled) THEN Works(armDone)
          ELSE IF <<pair.candidate, Asked>> \notin booked.known THEN Fails(armDone)
          ELSE Works(completed)
    BY Zenon DEF Ledger!Settle
<1> HIDE DEF completed, armDone, settled, booked
<1>1. /\ id \in s.open /\ pair.status = "ACTIVE" /\ arm \notin DOMAIN pair.settled
      /\ \/ ~Ledger!AllSettled(settled) /\ Ledger!Settle(s, op).state = armDone
         \/ Ledger!AllSettled(settled) /\ Ledger!Settle(s, op).state = completed
    BY <1>0
<1> HIDE DEF id, i, arm, pair, n
<1>2. /\ n \in Nat /\ DOMAIN s.pairs = 1..n /\ i \in 1..n
      /\ DOMAIN pair = PairFields /\ DOMAIN s.observations = Candidates
      /\ DOMAIN s = {"known", "observations", "spend", "open", "pairs"}
      /\ \A c \in Candidates : s.observations[c] = Cardinality(Whole(s, c))
  <2>1. /\ n \in Nat /\ DOMAIN s.pairs = 1..n /\ DOMAIN s.observations = Candidates
        /\ DOMAIN s = {"known", "observations", "spend", "open", "pairs"}
        /\ \A c \in Candidates : s.observations[c] = Cardinality(Whole(s, c))
        /\ \A j \in 1..n : DOMAIN s.pairs[j] = PairFields
        /\ \A d \in s.open : d.pair \in 1..n
      BY DEF Sound, n
  <2>2. i \in 1..n
      BY <1>1, <2>1 DEF i, id
  <2> QED BY <2>1, <2>2 DEF pair
<1>i. arm \in Ledger!Arms /\ id = Ledger!Id(i, arm) /\ pair = s.pairs[i]
    BY DEF arm, id, i, pair
<1>3. /\ DOMAIN settled = PairFields
      /\ settled.candidate = pair.candidate /\ settled.status = pair.status
      /\ DOMAIN settled.settled = DOMAIN pair.settled \cup {arm}
    BY <1>2 DEF PairFields, settled, arm
<1>4. /\ DOMAIN booked = DOMAIN s /\ booked.pairs = s.pairs
      /\ booked.open = s.open \ {Ledger!Id(i, arm)} /\ booked.observations = s.observations
    BY <1>2, <1>i DEF booked
<1>5. /\ DOMAIN armDone = DOMAIN s /\ armDone.pairs = [s.pairs EXCEPT ![i] = settled]
      /\ armDone.open = s.open \ {Ledger!Id(i, arm)} /\ armDone.observations = s.observations
    BY <1>2, <1>4 DEF armDone
<1> DEFINE done == [settled EXCEPT !.status = "COMPLETED"]
<1>7. /\ DOMAIN done = PairFields /\ done.candidate = pair.candidate
      /\ DOMAIN done.settled = DOMAIN pair.settled \cup {arm}
    BY <1>3 DEF PairFields
<1>6. /\ DOMAIN completed = DOMAIN s
      /\ completed.pairs = [armDone.pairs EXCEPT ![i].status = "COMPLETED"]
      /\ completed.open = s.open \ {Ledger!Id(i, arm)}
      /\ completed.observations = [s.observations EXCEPT ![pair.candidate] = @ + 1]
    BY <1>2, <1>5 DEF completed
<1>8. completed.pairs = [s.pairs EXCEPT ![i] = done]
  <2>1. armDone.pairs[i] = settled
      BY <1>2, <1>5
  <2> QED BY <1>2, <1>5, <1>6, <2>1
<1> HIDE DEF done
<1>9. \A c : i \notin Whole(s, c)
  <2>1. pair.status = "ACTIVE" => DOMAIN pair.settled # Ledger!Arms
      BY <1>1, <1>i
  <2> QED BY <1>1, <1>i DEF Whole
<1>10. CASE ~Ledger!AllSettled(settled) /\ Ledger!Settle(s, op).state = armDone
  <2>1. DOMAIN settled.settled # Ledger!Arms
      BY <1>10 DEF Ledger!AllSettled
  <2>2. \A c : Whole(armDone, c) = Whole(s, c)
      BY <1>2, <1>5, <1>9, <2>1 DEF Whole
  <2>3. \A c \in Candidates : armDone.observations[c] = Cardinality(Whole(armDone, c))
      BY <1>2, <1>5, <2>2
  <2>4. Sound(armDone)
    <3>1. i \in 1..Len(s.pairs) /\ s.pairs[i].status = "ACTIVE"
        BY <1>1, <1>2, <1>i DEF n
    <3>2. /\ DOMAIN armDone = {"known", "observations", "spend", "open", "pairs"}
          /\ DOMAIN armDone.observations = Candidates
          /\ DOMAIN settled.settled = DOMAIN s.pairs[i].settled \cup {arm}
        BY <1>2, <1>3, <1>5, <1>i
    <3>3. SettlesArm(s, i, arm, settled, armDone)
        BY <1>i, <1>3, <1>5, <2>3, <3>1, <3>2 DEF SettlesArm
    <3> QED BY <3>3, PairIsSound
  <2> QED BY <1>10, <2>4
<1>11. CASE Ledger!AllSettled(settled) /\ Ledger!Settle(s, op).state = completed
  <2>1. DOMAIN done.settled = Ledger!Arms
      BY <1>3, <1>7, <1>11 DEF Ledger!AllSettled
  <2>2. ASSUME NEW c
        PROVE  Whole(completed, c) = IF c = pair.candidate THEN Whole(s, c) \cup {i}
                                     ELSE Whole(s, c)
      BY <1>2, <1>7, <1>8, <1>9, <2>1 DEF Whole
  <2>3. ASSUME NEW c
        PROVE  Cardinality(Whole(s, c) \cup {i}) = Cardinality(Whole(s, c)) + 1
    <3>1. Whole(s, c) \subseteq 1..n
        BY <1>2 DEF Whole
    <3>2. IsFiniteSet(1..n)
        BY <1>2, FS_Interval
    <3>3. IsFiniteSet(Whole(s, c))
        BY <3>1, <3>2, FS_Subset
    <3> QED BY <1>9, <3>3, FS_AddElement
  <2>4. \A c \in Candidates : completed.observations[c] = Cardinality(Whole(completed, c))
      BY <1>2, <1>6, <2>2, <2>3
  <2>5. DOMAIN completed.observations = Candidates
      BY <1>2, <1>6
  <2>6. Sound(completed)
    <3>1. i \in 1..Len(s.pairs) /\ s.pairs[i].status = "ACTIVE"
        BY <1>1, <1>2, <1>i DEF n
    <3>2. /\ DOMAIN completed = {"known", "observations", "spend", "open", "pairs"}
          /\ DOMAIN done.settled = DOMAIN s.pairs[i].settled \cup {arm}
        BY <1>2, <1>6, <1>7, <1>i
    <3>3. SettlesArm(s, i, arm, done, completed)
        BY <1>i, <1>6, <1>7, <1>8, <2>4, <2>5, <3>1, <3>2 DEF SettlesArm
    <3> QED BY <3>3, PairIsSound
  <2> QED BY <1>11, <2>6
<1> QED BY <1>1, <1>10, <1>11

\* An observation of the ledger stands for a pair of which every arm was settled in time,
\* and what is open is what is not settled, for any number of callers, trials and
\* candidates, however the arms, retries and errors interleave (record_outcome).
THEOREM ObservationsArePaired == PartSpec => []EvidenceIsPaired
<1>1. PartInit => Sound(ledger)
  <2> SUFFICES ASSUME ledger = Ledger!Empty PROVE Sound(ledger)
      BY DEF PartInit, Ledger!Init
  <2>1. /\ DOMAIN ledger = {"known", "observations", "spend", "open", "pairs"}
        /\ ledger.observations = [c \in Candidates |-> 0]
        /\ ledger.open = {} /\ ledger.pairs = <<>>
      BY DEF Ledger!Empty
  <2>2. Len(ledger.pairs) = 0 /\ DOMAIN ledger.pairs = {} /\ 1..0 = {}
      BY <2>1
  <2>3. \A c : Whole(ledger, c) = {}
      BY <2>2 DEF Whole
  <2>4. ledger.pairs = [i \in 1..0 |-> ledger.pairs[i]]
      BY <2>1, <2>2
  <2>5. Cardinality({}) = 0
      BY FS_EmptySet
  <2> QED BY <2>1, <2>2, <2>3, <2>4, <2>5, SoundFrom DEF Reserves
<1>2. ASSUME WritersHaveLoaded, Sound(ledger), [Ledger!Next]_(Ledger!vars)
      PROVE  Sound(ledger')
  <2>1. CASE ledger' = ledger
      BY <1>2, <2>1
  <2>2. ASSUME NEW p \in Callers, Ledger!Write(p), ledger' # ledger
        PROVE  Sound(ledger')
    <3> DEFINE op == ledgerAt[p].op
    <3>1. ledgerAt[p].pc = "call"
        BY <2>2 DEF Ledger!Write, Ledger!Moves
    <3>2. ledgerAt[p].loaded = ledger /\ Operation(op)
        BY <1>2, <3>1 DEF WritersHaveLoaded
    <3>3. ~Ledger!Result(ledger, op).error /\ ledger' = Ledger!Result(ledger, op).state
        BY <2>2, <3>2 DEF Ledger!Write
    <3> HIDE DEF op
    <3>4. CASE op.kind = "reserve" /\ Len(op.trials) \in Nat
        BY <1>2, <3>3, <3>4, ReserveIsSound DEF Ledger!Result
    <3>5. CASE /\ op.kind = "settle" /\ op.id.arm \in Ledger!Arms
               /\ op.id = Ledger!Id(op.id.pair, op.id.arm)
        BY <1>2, <3>3, <3>5, SettleIsSound DEF Ledger!Result
    <3> QED BY <3>2, <3>4, <3>5 DEF Operation
  <2>3. ASSUME ledger' # ledger PROVE Sound(ledger')
      BY <1>2, <2>2, <2>3, OnlyWritesChange
  <2> QED BY <2>1, <2>3
<1>3. WritersHaveLoaded /\ Sound(ledger) /\ [PartNext]_allVars
        => (WritersHaveLoaded /\ Sound(ledger))'
    BY <1>2, PartSteps, NextLedger
<1>4. Sound(ledger) => EvidenceIsPaired
    BY SameCardinality DEF Sound, Reserves, Whole, EvidenceIsPaired, Ledger!EvidenceIsPaired
<1> QED BY InitLedger, <1>1, <1>3, <1>4, PTL DEF PartSpec

-----------------------------------------------------------------------------
(* Plans.  The capabilities are ranked by a total order, so that the one   *)
(* that is chosen is one of the eligible ones, and a plan does not outlive *)
(* any evidence it stands on.                                              *)

LEMMA LeastOf ==
    ASSUME NEW T, T \subseteq Nat, T # {}
    PROVE  Planner!Least(T) \in T /\ \A n \in T : Planner!Least(T) =< n
BY LeastNatural DEF Planner!Least

LEMMA DescriptorFacts ==
    ASSUME NEW given \in Descriptors, NEW c \in Planner!WellFormed(given)
    PROVE  /\ {c.id, c.checked, c.expires} \subseteq Nat
           /\ c.cost = None \/ c.cost \in Nat
           /\ c.deterministic \in BOOLEAN
           /\ \A d \in Planner!WellFormed(given) : d.id = c.id => d = c
<1>1. c \in Planner!ToSet(given)
    BY DEF Planner!WellFormed
<1>2. ASSUME NEW d \in Planner!WellFormed(given), d.id = c.id PROVE d = c
  <2>1. PICK i \in DOMAIN given : given[i] = c
      BY DEF Planner!WellFormed, Planner!ToSet
  <2>2. PICK j \in DOMAIN given : given[j] = d
      BY DEF Planner!WellFormed, Planner!ToSet
  <2>3. Planner!Valid(c) /\ Planner!Valid(d)
      BY DEF Planner!WellFormed
  <2> QED BY <1>2, <2>1, <2>2, <2>3 DEF Planner!WellFormed
<1> QED BY <1>1, <1>2, PlannerAssumption DEF Planner!PlannerAssumption

\* The first of the ranked capabilities is one of them.
LEMMA BestOf ==
    ASSUME NEW given \in Descriptors, NEW S, S \subseteq Planner!WellFormed(given), S # {}
    PROVE  Planner!Best(S) \in S
<1> SUFFICES \E c \in S : \A d \in S \ {c} : Planner!Before(c, d)
    BY DEF Planner!Best
<1>0. None \notin Nat
    BY PlannerAssumption DEF Planner!PlannerAssumption
<1>1. \A c \in S : /\ c.id \in Nat
                   /\ c.cost = None \/ c.cost \in Nat
                   /\ c.deterministic \in BOOLEAN
                   /\ \A d \in S : d.id = c.id => d = c
    BY DescriptorFacts
<1>2. PICK A \in SUBSET S :
          /\ A # {} /\ \A c, d \in A : c.deterministic = d.deterministic
          /\ \A c \in A, d \in S \ A : c.deterministic /\ ~d.deterministic
  <2> DEFINE D == {c \in S : c.deterministic}
  <2>0. \A c \in S : c.deterministic = TRUE \/ c.deterministic = FALSE
      BY <1>1
  <2>1. CASE D # {}
    <3>1. D \in SUBSET S /\ \A c \in D : c.deterministic = TRUE
        BY <2>0
    <3>2. \A c \in S \ D : c.deterministic = FALSE
        BY <2>0
    <3> HIDE DEF D
    <3> QED BY <2>1, <3>1, <3>2
  <2>2. CASE D = {}
    <3>1. \A c \in S : c.deterministic = FALSE
        BY <2>0, <2>2
    <3>2. S \in SUBSET S /\ S \ S = {}
        OBVIOUS
    <3> QED BY <3>1, <3>2
  <2> QED BY <2>1, <2>2
<1>3. PICK B \in SUBSET A :
          /\ B # {} /\ \A c, d \in B : c.cost = d.cost
          /\ \A c \in B, d \in A \ B : Planner!Cheaper(c, d)
  <2> DEFINE K == {c \in A : c.cost # None}
  <2> DEFINE T == {c.cost : c \in K}
  <2>1. CASE K # {}
    <3>1. T \subseteq Nat /\ T # {}
        BY <1>1, <1>2, <2>1
    <3>2. PICK m \in T : \A n \in T : m =< n
        BY <3>1, LeastNatural
    <3> DEFINE C == {c \in K : c.cost = m}
    <3>3. C \in SUBSET A /\ C # {} /\ \A c, d \in C : c.cost = d.cost
        BY <3>2
    <3>4. ASSUME NEW c \in C, NEW d \in A \ C PROVE Planner!Cheaper(c, d)
      <4>1. c.cost = m /\ c.cost # None /\ m \in Nat
          BY <3>1, <3>2
      <4>2. CASE d.cost = None
          BY <4>1, <4>2 DEF Planner!Cheaper
      <4>3. CASE d.cost # None
        <5>1. d.cost \in T /\ d.cost # m
            BY <3>4, <4>3
        <5>2. d.cost \in Nat
            BY <3>1, <5>1
        <5>3. m =< d.cost
            BY <3>2, <5>1
        <5>4. m < d.cost
            BY <4>1, <5>1, <5>2, <5>3
        <5> QED BY <4>1, <5>4 DEF Planner!Cheaper
      <4> QED BY <4>2, <4>3
    <3> QED BY <3>3, <3>4
  <2>2. CASE K = {}
      BY <1>2, <2>2
  <2> QED BY <2>1, <2>2
<1> DEFINE T == {c.id : c \in B}
<1>4. T \subseteq Nat /\ T # {}
  <2>1. ASSUME NEW c \in B PROVE c.id \in Nat
    <3>1. c \in S
        BY <1>2, <1>3
    <3> QED BY <1>1, <3>1
  <2> QED BY <1>3, <2>1
<1>5. PICK m \in T : \A n \in T : m =< n
    BY <1>4, LeastNatural
<1>6. PICK c \in B : c.id = m
    BY <1>5
<1>7. ASSUME NEW d \in S \ {c} PROVE Planner!Before(c, d)
  <2>1. CASE d \notin A
      BY <1>2, <1>3, <1>6, <2>1 DEF Planner!Before
  <2>2. CASE d \in A \ B
      BY <1>2, <1>3, <1>6, <2>2 DEF Planner!Before
  <2>3. CASE d \in B
    <3>1. d.id \in T /\ d.id # c.id
        BY <1>1, <1>2, <1>3, <1>6, <1>7, <2>3
    <3> HIDE DEF T
    <3>2. d.id \in Nat /\ m \in Nat /\ m =< d.id
        BY <1>4, <1>5, <3>1
    <3>3. c.id < d.id
        BY <1>6, <3>1, <3>2
    <3> QED BY <1>2, <1>3, <1>6, <2>3, <3>3 DEF Planner!Before
  <2> QED BY <2>1, <2>2, <2>3
<1> QED BY <1>3, <1>6, <1>7

\* Who is chosen is among those that were eligible.
LEMMA ChosenOf ==
    ASSUME NEW given \in Descriptors, NEW S, S \subseteq Planner!WellFormed(given)
    PROVE  Planner!Chosen(S) \subseteq S
BY BestOf DEF Planner!Chosen

\* A plan holds no longer than the evidence about the capabilities it chose.
LEMMA PlanBounds ==
    ASSUME NEW req \in Orders, NEW given \in Descriptors, NEW t \in Nat,
           NEW W, W \subseteq Planner!WellFormed(given),
           NEW V, V \subseteq Planner!WellFormed(given)
    PROVE  /\ Planner!ValidUntil(req, t, W, V) \in Nat
           /\ \A c \in Planner!Chosen(W) \union Planner!Chosen(V) :
                 Planner!ValidUntil(req, t, W, V) =< c.expires
           /\ req.deadline # None => Planner!ValidUntil(req, t, W, V) =< req.deadline
<1> DEFINE C == Planner!Chosen(W) \union Planner!Chosen(V)
<1> DEFINE D == IF req.deadline = None THEN {} ELSE {req.deadline}
<1> DEFINE T == {t + PlanTime} \union {c.expires : c \in C} \union D
<1>1. \A c \in C : c.expires \in Nat
  <2> SUFFICES ASSUME NEW c \in C PROVE c.expires \in Nat
      OBVIOUS
  <2>1. c \in Planner!WellFormed(given)
      BY ChosenOf
  <2> QED BY <2>1, DescriptorFacts
<1>2. D \subseteq Nat /\ t + PlanTime \in Nat
    BY PlannerAssumption DEF Planner!PlannerAssumption
<1>3. T \subseteq Nat /\ T # {}
  <2> HIDE DEF C, D
  <2> QED BY <1>1, <1>2
<1>4. Planner!ValidUntil(req, t, W, V) = Planner!Least(T)
    BY DEF Planner!ValidUntil
<1>5. (\A c \in C : c.expires \in T) /\ (req.deadline # None => req.deadline \in T)
  <2> HIDE DEF C
  <2> QED OBVIOUS
<1> HIDE DEF T
<1> QED BY <1>3, <1>4, <1>5, LeastOf

PlanInv ==
    /\ planNow \in Nat
    /\ plan = None \/ \E req \in Orders, given \in Descriptors, t \in 0..planNow :
                         plan = Planner!Plan(req, given, t)

LEMMA InitPlan == PartInit => PlanInv
BY DEF PartInit, Planner!Init, PlanInv

LEMMA NextPlan == ASSUME PlanInv, [Planner!Next]_(Planner!vars) PROVE PlanInv'
<1>1. CASE UNCHANGED Planner!vars
    BY <1>1 DEF Planner!vars, PlanInv
<1>2. CASE Planner!Tick
  <2>1. planNow' \in Nat /\ 0..planNow \subseteq 0..planNow' /\ plan' = plan
      BY <1>2 DEF Planner!Tick, PlanInv
  <2> QED BY <2>1 DEF PlanInv
<1>3. ASSUME NEW req \in Orders, NEW given \in Descriptors, Planner!MakePlan(req, given)
      PROVE  PlanInv'
  <2>1. planNow' = planNow /\ planNow \in Nat /\ plan' = Planner!Plan(req, given, planNow)
      BY <1>3 DEF Planner!MakePlan, PlanInv
  <2>2. planNow \in 0..planNow'
      BY <2>1
  <2> QED BY <2>1, <2>2 DEF PlanInv
<1> QED BY <1>1, <1>2, <1>3 DEF Planner!Next

\* While an executable plan of ai_work.plan has not expired, its deadline has not passed
\* and both capabilities it chose are healthy on evidence that still holds, for any
\* catalogs of capabilities and any requests.
THEOREM PlansHold == PartSpec => []PlanHoldsUntilItExpires
<1>1. PlanInv /\ [PartNext]_allVars => PlanInv'
    BY PartSteps, NextPlan
<1>2. PlanInv => PlanHoldsUntilItExpires
  <2> SUFFICES ASSUME PlanInv, plan # None, planNow < plan.until
               PROVE  /\ plan.request.deadline # None => planNow < plan.request.deadline
                      /\ \A c \in Planner!Chosen(plan.workers)
                                \union Planner!Chosen(plan.validators) :
                            ~Planner!Unusable(c, planNow)
      BY DEF PlanHoldsUntilItExpires, Planner!PlanHoldsUntilItExpires
  <2>1. PICK req \in Orders, given \in Descriptors, t \in 0..planNow :
           plan = Planner!Plan(req, given, t)
      BY DEF PlanInv
  <2> DEFINE W == Planner!Workers(req, given, t)
  <2> DEFINE V == Planner!Validators(req, given, t, W)
  <2> DEFINE C == Planner!Chosen(W) \union Planner!Chosen(V)
  <2>2. /\ plan.workers = W /\ plan.validators = V /\ plan.request = req
        /\ plan.until = Planner!ValidUntil(req, t, W, V)
      BY <2>1 DEF Planner!Plan
  <2>3. /\ W \subseteq Planner!WellFormed(given) /\ V \subseteq Planner!WellFormed(given)
        /\ \A c \in W \union V : ~Planner!Unusable(c, t)
      BY DEF Planner!Workers, Planner!Validators, Planner!Eligible
  <2>4. t \in Nat /\ planNow \in Nat /\ t =< planNow
      BY DEF PlanInv
  <2> HIDE DEF W, V
  <2>5. /\ Planner!ValidUntil(req, t, W, V) \in Nat
        /\ \A c \in C : Planner!ValidUntil(req, t, W, V) =< c.expires
        /\ req.deadline # None => Planner!ValidUntil(req, t, W, V) =< req.deadline
      BY <2>3, <2>4, PlanBounds
  <2>6. req.deadline = None \/ req.deadline \in Nat
      BY PlannerAssumption DEF Planner!PlannerAssumption
  <2>7. ASSUME NEW c \in C PROVE ~Planner!Unusable(c, planNow)
    <3>1. c \in W \union V /\ c \in Planner!WellFormed(given)
        BY <2>3, ChosenOf
    <3>2. c.expires \in Nat /\ c.checked \in Nat
        BY <3>1, DescriptorFacts
    <3>3. ~Planner!Unusable(c, t) /\ planNow < c.expires
        BY <2>2, <2>3, <2>4, <2>5, <2>7, <3>1, <3>2
    <3> QED BY <2>4, <3>2, <3>3 DEF Planner!Unusable
  <2> QED BY <2>2, <2>4, <2>5, <2>6, <2>7
<1> QED BY InitPlan, <1>1, <1>2, PTL DEF PartSpec

-----------------------------------------------------------------------------
(* Rule context cache: what may be reused                                    *)

\* Nothing a source depends on is invalid when the source itself is not.
LEMMA DependenciesStayValid ==
    ASSUME NEW changed, NEW new, NEW q \in DOMAIN new,
           \A p \in DOMAIN new : new[p].dependencies \subseteq DOMAIN new,
           q \notin Rules!DependentClosure(changed, new)
    PROVE  /\ q \notin changed
           /\ \A r \in Rules!Reach([p \in DOMAIN new |-> new[p].dependencies], q) :
                 r \in DOMAIN new /\ r \notin changed
<1> DEFINE graph == [p \in DOMAIN new |-> new[p].dependencies]
<1>1. PICK S \in SUBSET DOMAIN new :
         /\ changed \subseteq S
         /\ \A p \in DOMAIN new : new[p].dependencies \cap S # {} => p \in S
         /\ q \notin S
    BY DEF Rules!DependentClosure
<1> DEFINE T == DOMAIN new \ S
<1>2. DOMAIN graph = DOMAIN new /\ \A p \in DOMAIN new : graph[p] = new[p].dependencies
    OBVIOUS
<1> HIDE DEF graph
<1>3. T \in SUBSET DOMAIN graph /\ q \in T
    BY <1>1, <1>2
<1>4. \A p \in T : graph[p] \subseteq T
    BY <1>1, <1>2
<1>5. \A r \in Rules!Reach(graph, q) : r \in T
    BY <1>3, <1>4 DEF Rules!Reach, Rules!ClosedUnder
<1> QED BY <1>1, <1>5 DEF graph

\* Two records of one scope and one graph that differ only in what is changed give a
\* source the same key, unless the source depends on a changed one.
LEMMA SameKey ==
    ASSUME NEW old, NEW new, NEW changed, NEW q \in DOMAIN new.sources,
           DOMAIN old.sources = DOMAIN new.sources,
           old.cwd = new.cwd, old.discovery = new.discovery, old.chain = new.chain,
           Rules!ToSet(new.chain) \subseteq DOMAIN new.sources,
           changed \cap Rules!ToSet(new.chain) = {},
           \A p \in DOMAIN new.sources :
              /\ new.sources[p].dependencies \subseteq DOMAIN new.sources
              /\ old.sources[p].dependencies = new.sources[p].dependencies
              /\ p \notin changed => old.sources[p].semantic = new.sources[p].semantic,
           q \notin Rules!DependentClosure(changed, new.sources)
    PROVE  Rules!AnalysisKey(old, q) = Rules!AnalysisKey(new, q)
<1>1. /\ q \notin changed
      /\ \A r \in Rules!Reach([p \in DOMAIN new.sources |-> new.sources[p].dependencies], q) :
            r \in DOMAIN new.sources /\ r \notin changed
    BY DependenciesStayValid
<1>2. Rules!Graph(old) = Rules!Graph(new)
    BY DEF Rules!Graph
<1>3. \A r \in Rules!Reach(Rules!Graph(new), q) :
         /\ old.sources[r].semantic = new.sources[r].semantic
         /\ old.sources[r].dependencies = new.sources[r].dependencies
    BY <1>1 DEF Rules!Graph
<1>4. \A i \in DOMAIN new.chain :
         old.sources[old.chain[i]].semantic = new.sources[new.chain[i]].semantic
  <2>1. \A i \in DOMAIN new.chain : new.chain[i] \in Rules!ToSet(new.chain)
      BY DEF Rules!ToSet
  <2> QED BY <2>1
<1>5. Rules!ScopeContext(old) = Rules!ScopeContext(new)
    BY <1>4 DEF Rules!ScopeContext
<1> DEFINE R == Rules!Reach(Rules!Graph(new), q)
<1>6. [r \in R |-> <<old.sources[r].semantic, old.sources[r].dependencies>>]
         = [r \in R |-> <<new.sources[r].semantic, new.sources[r].dependencies>>]
    BY <1>3
<1>7. old.sources[q].semantic = new.sources[q].semantic
    BY <1>1
<1> HIDE DEF R
<1> QED BY <1>2, <1>5, <1>6, <1>7 DEF Rules!AnalysisKey, R

LEMMA EmptyChange ==
    ASSUME NEW new, NEW q
    PROVE  q \notin Rules!DependentClosure({}, new)
<1>1. {} \in SUBSET DOMAIN new
    OBVIOUS
<1> QED BY <1>1 DEF Rules!DependentClosure

\* What compare_records lets the agent reuse has kept its key.
LEMMA ReuseKeepsKeys ==
    ASSUME NEW old, NEW snapshot,
           old = Rules!NoRecord \/ Rules!ValidSources(old),
           NEW q \in Rules!Compare(old, snapshot).reuse
    PROVE  Rules!AnalysisKey(old, q) = Rules!AnalysisKey(snapshot.record, q)
<1> DEFINE new == snapshot.record
<1> DEFINE content == {p \in DOMAIN new.sources :
                          Rules!ContentChanged(old.sources[p], new.sources[p])}
<1> DEFINE git == {p \in DOMAIN new.sources :
                          Rules!GitChanged(old.sources[p], new.sources[p])}
<1> DEFINE changed == content \cup git
<1>1. \A reasons : Rules!Miss(reasons, new).reuse = {}
    BY DEF Rules!Miss, Rules!Plan
<1>2. /\ old # Rules!NoRecord
      /\ Rules!ScopeReasons(old, new) = {}
      /\ Rules!SourceSetReasons(old.sources, new.sources) = {}
      /\ q \in Rules!CompareSources(new.chain, old.sources, new.sources).reuse
    BY <1>1 DEF Rules!Compare
<1>3. old.cwd = new.cwd /\ old.discovery = new.discovery /\ old.chain = new.chain
    BY <1>2 DEF Rules!ScopeReasons
<1>4. DOMAIN old.sources = DOMAIN new.sources
    BY <1>2 DEF Rules!SourceSetReasons
<1>5. /\ ~\E p \in DOMAIN new.sources :
            Rules!TopologyChanged(old.sources[p], new.sources[p])
      /\ changed \cap Rules!ToSet(new.chain) = {}
      /\ q \in DOMAIN new.sources
      /\ changed = {} \/ q \notin Rules!DependentClosure(changed, new.sources)
  <2> DEFINE invalid == Rules!DependentClosure(changed, new.sources)
  <2>1. \A status, reasons, again, reuse :
           Rules!Plan(status, reasons, again, reuse).reuse = reuse
      BY DEF Rules!Plan
  <2>2. Rules!CompareSources(new.chain, old.sources, new.sources) =
           IF \E p \in DOMAIN new.sources :
                 Rules!TopologyChanged(old.sources[p], new.sources[p])
             THEN Rules!Plan("CACHE_MISS", {"DEPENDENCY_GRAPH_CHANGED"},
                             DOMAIN new.sources, {})
           ELSE IF changed \cap Rules!ToSet(new.chain) # {}
             THEN Rules!Plan("CACHE_MISS", {"INSTRUCTION_CHAIN_FULL_INVALIDATION"},
                             DOMAIN new.sources, {})
           ELSE IF changed # {}
             THEN Rules!Plan("PARTIAL_INVALIDATION",
                    (IF content # {} THEN {"RULE_CONTENT_CHANGED"} ELSE {})
                    \cup (IF git # {} THEN {"RULE_GIT_STATE_CHANGED"} ELSE {}),
                    invalid, DOMAIN new.sources \ invalid)
           ELSE Rules!Plan("CACHE_HIT",
                  IF \E p \in DOMAIN new.sources : old.sources[p].raw # new.sources[p].raw
                    THEN {"EOL_REPRESENTATION_EQUIVALENT"} ELSE {"CACHE_RECORD_VALID"},
                  {}, DOMAIN new.sources)
      BY DEF Rules!CompareSources
  <2> HIDE DEF invalid, changed, content, git, new
  <2>3. /\ ~\E p \in DOMAIN new.sources :
              Rules!TopologyChanged(old.sources[p], new.sources[p])
        /\ changed \cap Rules!ToSet(new.chain) = {}
        /\ q \in IF changed # {} THEN DOMAIN new.sources \ invalid ELSE DOMAIN new.sources
      BY <1>2, <2>1, <2>2
  <2> QED BY <2>3 DEF invalid
<1>6. \A p \in DOMAIN new.sources :
         /\ old.sources[p].dependencies = new.sources[p].dependencies
         /\ p \notin changed => old.sources[p].semantic = new.sources[p].semantic
    BY <1>5 DEF Rules!TopologyChanged, Rules!ContentChanged
<1>7. /\ Rules!ToSet(new.chain) \subseteq DOMAIN new.sources
      /\ \A p \in DOMAIN new.sources :
            new.sources[p].dependencies \subseteq DOMAIN new.sources
    BY <1>2, <1>3, <1>4, <1>6 DEF Rules!ValidSources
<1> HIDE DEF changed, new
<1>8. q \notin Rules!DependentClosure(changed, new.sources)
    BY <1>5, EmptyChange
<1>9. q \in DOMAIN new.sources /\ changed \cap Rules!ToSet(new.chain) = {}
    BY <1>5
<1>10. \A p \in DOMAIN new.sources :
          /\ new.sources[p].dependencies \subseteq DOMAIN new.sources
          /\ old.sources[p].dependencies = new.sources[p].dependencies
          /\ p \notin changed => old.sources[p].semantic = new.sources[p].semantic
    BY <1>6, <1>7
<1>11. Rules!AnalysisKey(old, q) = Rules!AnalysisKey(new, q)
    BY <1>3, <1>4, <1>7, <1>8, <1>9, <1>10, SameKey
<1> QED BY <1>11 DEF new

\* What a call returned compares what it read with what it saw.
Fields == {"pc", "chain", "queue", "processed", "graph", "sources", "reasons", "first",
           "initial", "since", "read", "result"}
Answered(a) ==
    /\ a.result = Rules!Compare(a.read, [record |-> a.first, reasons |-> a.reasons])
    /\ a.read = Rules!NoRecord \/ a.read = a.first \/ Rules!ValidSources(a.read)
AnswersInv ==
    /\ DOMAIN cacheAt = Processes
    /\ \A p \in Processes :
          /\ DOMAIN cacheAt[p] = Fields
          /\ cacheAt[p].pc \in {"release", "done"}
                /\ cacheAt[p].result.status \notin {"none", "CACHE_OPERATION_FAILED"}
             => Answered(cacheAt[p])

LEMMA IdlePlace ==
    /\ DOMAIN Rules!Idle = Fields
    /\ Rules!Idle.pc = "idle" /\ Rules!Idle.result.status = "none"
BY DEF Rules!Idle, Fields

\* A step of one process gives it a new place; the places of the others stay.
LEMMA NewPlace ==
    ASSUME AnswersInv, NEW p \in Processes, NEW a,
           cacheAt' = [cacheAt EXCEPT ![p] = a],
           DOMAIN a = Fields,
           a.pc \in {"release", "done"}
              /\ a.result.status \notin {"none", "CACHE_OPERATION_FAILED"} => Answered(a)
    PROVE  AnswersInv'
BY DEF AnswersInv, Answered

\* Most steps only go on.
LEMMA GoesOn ==
    ASSUME AnswersInv, NEW p \in Processes, NEW a,
           Rules!Step(p, cacheAt[p].pc, a),
           DOMAIN a = Fields, a.pc \notin {"release", "done"}
    PROVE  AnswersInv'
BY NewPlace DEF Rules!Step

LEMMA ReturnsAnswer ==
    ASSUME NEW p, NEW previous, NEW record, NEW reasons,
           previous = Rules!NoRecord \/ previous = record \/ Rules!ValidSources(previous)
    PROVE  LET a == Rules!Returns(p, previous, [record |-> record, reasons |-> reasons])
           IN  /\ DOMAIN a = Fields
               /\ Answered(a)
               /\ DOMAIN [a EXCEPT !.pc = "release"] = Fields
               /\ Answered([a EXCEPT !.pc = "release"])
<1> DEFINE snapshot == [record |-> record, reasons |-> reasons]
<1> DEFINE a == Rules!Returns(p, previous, snapshot)
<1> DEFINE b == [a EXCEPT !.pc = "release"]
<1>1. snapshot.record = record /\ snapshot.reasons = reasons
    OBVIOUS
<1> HIDE DEF snapshot
<1>2. /\ DOMAIN a = Fields
      /\ a.result = Rules!Compare(previous, snapshot)
      /\ a.read = previous /\ a.first = record /\ a.reasons = reasons
    BY <1>1, IdlePlace DEF Rules!Returns, Fields
<1> HIDE DEF a
<1>3. /\ DOMAIN b = Fields
      /\ b.result = a.result /\ b.read = a.read /\ b.first = a.first
      /\ b.reasons = a.reasons
    BY <1>2 DEF Fields
<1> HIDE DEF b
<1>4. Answered(a) /\ Answered(b)
    BY <1>2, <1>3 DEF Answered, snapshot
<1> QED BY <1>2, <1>3, <1>4 DEF a, b, snapshot

LEMMA InitAnswers == PartInit => AnswersInv
<1> SUFFICES ASSUME PartInit PROVE AnswersInv
    OBVIOUS
<1>1. PICK s \in Scenarios :
         cacheAt = [p \in Processes |-> IF p \in s.crew THEN Rules!Idle
                                        ELSE [Rules!Idle EXCEPT !.pc = "done"]]
    BY DEF PartInit, Rules!Init
<1>2. LET a == [Rules!Idle EXCEPT !.pc = "done"]
      IN  DOMAIN a = Fields /\ a.result.status = "none"
    BY IdlePlace DEF Fields
<1> QED BY <1>1, <1>2, IdlePlace DEF AnswersInv

LEMMA FailedAnswers == ASSUME AnswersInv, NEW p \in Processes, Rules!Failed(p) PROVE AnswersInv'
<1> DEFINE a == [Rules!Idle EXCEPT !.pc = "done",
                                   !.result = [status |-> "CACHE_OPERATION_FAILED"]]
<1>1. cacheAt' = [cacheAt EXCEPT ![p] = a]
    BY DEF Rules!Failed
<1>2. DOMAIN a = Fields /\ a.result.status = "CACHE_OPERATION_FAILED"
    BY IdlePlace DEF Fields
<1> HIDE DEF a
<1> QED BY <1>1, <1>2, NewPlace

LEMMA WorkAnswers ==
    ASSUME AnswersInv, NEW p \in Processes, Rules!Works(p)
    PROVE  AnswersInv'
<1> DEFINE a == cacheAt[p]
<1>1. DOMAIN a = Fields
    BY DEF AnswersInv
<1>2. \A from, place : Rules!Step(p, from, place) =>
                           a.pc = from /\ cacheAt' = [cacheAt EXCEPT ![p] = place]
    BY DEF Rules!Step
<1>3. \A from, place : Rules!Local(p, from, place) => Rules!Step(p, a.pc, place)
    BY <1>2 DEF Rules!Local
<1>4. \A from, place : Rules!Step(p, from, place) => Rules!Step(p, a.pc, place)
    BY <1>2
<1>5. CASE Rules!Begin(p)
  <2> DEFINE place == Rules!NewSnapshot(a)
  <2>1. DOMAIN place = Fields /\ place.pc = "chain"
      BY <1>1 DEF Rules!NewSnapshot, Rules!Pass, Fields
  <2>2. Rules!Local(p, "idle", place)
      BY <1>5 DEF Rules!Begin
  <2> HIDE DEF place
  <2> QED BY <1>3, <2>1, <2>2, GoesOn
<1>6. CASE Rules!ReadChain(p)
  <2> DEFINE files == [q \in Paths |-> Rules!File(q)]
  <2> DEFINE chain == Rules!Chain(files)
  <2> DEFINE extra == {q \in Options[p].extra \ Rules!ToSet(chain) : files[q].present}
  <2> DEFINE queue == chain \o Rules!SetToSeq(extra)
  <2> DEFINE graph == [q \in Rules!ToSet(chain) \cup extra |-> {}]
  <2> DEFINE reasons == Rules!ChainReasons(files, Options[p].limit)
                          \cup (IF \E q \in Options[p].extra : ~files[q].present
                                  THEN {"UNRESOLVED_REFERENCE"} ELSE {})
  <2> DEFINE place == [a EXCEPT !.pc = "pass", !.chain = chain, !.queue = queue,
                               !.processed = {}, !.graph = graph, !.reasons = reasons]
  <2>1. Rules!Local(p, "chain", place)
      BY <1>6 DEF Rules!ReadChain
  <2> HIDE DEF chain, queue, graph, reasons
  <2>2. DOMAIN place = Fields /\ place.pc = "pass"
      BY <1>1 DEF Fields
  <2> HIDE DEF place
  <2> QED BY <1>3, <2>1, <2>2, GoesOn
<1>7. CASE Rules!Discover(p)
  <2> DEFINE path == Head(a.queue)
  <2> DEFINE file == Rules!File(path)
  <2> DEFINE kind == IF path \in Rules!ToSet(a.chain) THEN "instruction" ELSE "rule"
  <2> DEFINE found == {q \in Rules!References(file) : Rules!File(q).present}
  <2> DEFINE new == found \ DOMAIN a.graph
  <2> DEFINE known == [q \in DOMAIN a.graph \cup new |->
                         IF q = path THEN found ELSE IF q \in new THEN {} ELSE a.graph[q]]
  <2> DEFINE again == [a EXCEPT !.queue = Tail(@)]
  <2> DEFINE skip == [a EXCEPT !.queue = Tail(@), !.processed = @ \cup {path},
                        !.reasons = @ \cup (IF kind = "instruction"
                          THEN {"RULE_SOURCE_ENCODING_UNSUPPORTED"} ELSE {})]
  <2> DEFINE follow == [a EXCEPT !.queue = Tail(@) \o Rules!SetToSeq(new),
                          !.graph = known, !.processed = @ \cup {path},
                          !.reasons = @ \cup (IF file.broken \/ found # Rules!References(file)
                                                THEN {"UNRESOLVED_REFERENCE"} ELSE {})]
  <2>1. \/ Rules!Failed(p)
        \/ Rules!Local(p, "pass", again)
        \/ Rules!Local(p, "pass", skip)
        \/ Rules!Local(p, "pass", follow)
      BY <1>7 DEF Rules!Discover
  <2>2. DOMAIN skip = Fields /\ skip.pc = a.pc /\ DOMAIN again = Fields /\ again.pc = a.pc
      BY <1>1 DEF Fields
  <2>3. DOMAIN follow = Fields /\ follow.pc = a.pc
      BY <1>1 DEF Fields
  <2>4. \A from, to : Rules!Local(p, from, to) => a.pc = from
      BY <1>2 DEF Rules!Local
  <2> HIDE DEF again, skip, follow
  <2> QED BY <1>3, <2>1, <2>2, <2>3, <2>4, FailedAnswers, GoesOn
<1>8. CASE Rules!ReadBytes(p)
  <2> DEFINE path == CHOOSE q \in Rules!Remaining(a) : TRUE
  <2> DEFINE kind == IF path \in Rules!ToSet(a.chain) THEN "instruction" ELSE "rule"
  <2> DEFINE place == [a EXCEPT !.pc = "git",
                        !.sources = [q \in DOMAIN @ \cup {path} |->
                           IF q = path
                             THEN Rules!Fingerprint(kind, Rules!File(q), Rules!NoGit, a.graph[q])
                             ELSE @[q]]]
  <2>1. Rules!Failed(p) \/ Rules!Local(p, "pass", place)
      BY <1>8 DEF Rules!ReadBytes
  <2> HIDE DEF path, kind
  <2>2. DOMAIN place = Fields /\ place.pc = "git"
      BY <1>1 DEF Fields
  <2> HIDE DEF place
  <2> QED BY <1>3, <2>1, <2>2, FailedAnswers, GoesOn
<1>9. CASE Rules!ReadGit(p)
  <2> DEFINE path == CHOOSE q \in DOMAIN a.sources : a.sources[q].git = Rules!NoGit
  <2> DEFINE git == Rules!GitState(version, gitIndex, head, path)
  <2> DEFINE place == [a EXCEPT !.pc = "pass", !.sources[path].git = git]
  <2>1. Rules!Local(p, "git", place)
      BY <1>9 DEF Rules!ReadGit
  <2> HIDE DEF path, git
  <2>2. DOMAIN place = Fields /\ place.pc = "pass"
      BY <1>1 DEF Fields
  <2> HIDE DEF place
  <2> QED BY <1>3, <2>1, <2>2, GoesOn
<1>10. CASE Rules!SecondPass(p)
  <2>1. \A first :
           LET place == [Rules!Pass(a) EXCEPT !.first = first]
           IN  DOMAIN place = Fields /\ place.pc = "chain"
      BY <1>1 DEF Rules!Pass, Fields
  <2>2. \E first : Rules!Local(p, "pass", [Rules!Pass(a) EXCEPT !.first = first])
      BY <1>10 DEF Rules!SecondPass
  <2> QED BY <1>3, <2>1, <2>2, GoesOn
<1>11. CASE Rules!Check(p)
  <2> DEFINE place == Rules!Returns(p, Rules!Valid(cache), Rules!Snapshot(p, Rules!Reasons(p)))
  <2>1. Rules!Valid(cache) = Rules!NoRecord \/ Rules!ValidSources(Rules!Valid(cache))
      BY DEF Rules!Valid
  <2>2. DOMAIN place = Fields /\ Answered(place)
      BY <2>1, ReturnsAnswer DEF Rules!Snapshot
  <2>3. Rules!Step(p, a.pc, place)
      BY <1>3, <1>11 DEF Rules!Check
  <2> HIDE DEF place
  <2> QED BY <1>2, <2>2, <2>3, NewPlace
<1>12. CASE Rules!FirstSnapshot(p)
  <2> DEFINE over == Rules!Returns(p, Rules!NoRecord, Rules!Snapshot(p, Rules!Reasons(p)))
  <2> DEFINE place == [a EXCEPT !.pc = "lock", !.initial = Rules!Captured(p)]
  <2>1. DOMAIN over = Fields /\ Answered(over)
      BY ReturnsAnswer DEF Rules!Snapshot
  <2>2. DOMAIN place = Fields /\ place.pc = "lock"
      BY <1>1 DEF Fields
  <2>3. Rules!Step(p, a.pc, over) \/ Rules!Step(p, a.pc, place)
      BY <1>3, <1>12 DEF Rules!FirstSnapshot
  <2> HIDE DEF over, place
  <2> QED BY <1>2, <2>1, <2>2, <2>3, NewPlace, GoesOn
<1>13. CASE Rules!Acquire(p)
  <2> DEFINE place == Rules!NewSnapshot(a)
  <2>1. DOMAIN place = Fields /\ place.pc = "chain"
      BY <1>1 DEF Rules!NewSnapshot, Rules!Pass, Fields
  <2>2. Rules!Step(p, "lock", place)
      BY <1>13 DEF Rules!Acquire
  <2> HIDE DEF place
  <2> QED BY <1>4, <2>1, <2>2, GoesOn
<1>14. CASE Rules!TimedOut(p)
    BY <1>14, FailedAnswers DEF Rules!TimedOut
<1>15. CASE Rules!Write(p)
  <2> DEFINE place == [Rules!Returns(p, Rules!Captured(p), Rules!Snapshot(p, {}))
                        EXCEPT !.pc = "release"]
  <2>1. DOMAIN place = Fields /\ Answered(place)
      BY ReturnsAnswer DEF Rules!Snapshot
  <2>2. Rules!Step(p, "pass", place)
      BY <1>15 DEF Rules!Write
  <2> HIDE DEF place
  <2> QED BY <1>2, <2>1, <2>2, NewPlace
<1>16. CASE Rules!Decline(p)
  <2> DEFINE place == [Rules!Returns(p, Rules!NoRecord,
                                    Rules!Snapshot(p, {"SOURCE_CHANGED_DURING_DISCOVERY"}))
                        EXCEPT !.pc = "release"]
  <2>1. DOMAIN place = Fields /\ Answered(place)
      BY ReturnsAnswer DEF Rules!Snapshot
  <2>2. Rules!Step(p, "pass", place)
      BY <1>16 DEF Rules!Decline
  <2> HIDE DEF place
  <2> QED BY <1>2, <2>1, <2>2, NewPlace
<1>17. CASE Rules!Release(p)
  <2> DEFINE place == [a EXCEPT !.pc = "done"]
  <2>1. a.pc = "release" /\ cacheAt' = [cacheAt EXCEPT ![p] = place]
      BY <1>2, <1>17 DEF Rules!Release
  <2>2. /\ DOMAIN place = Fields
        /\ place.result = a.result /\ place.read = a.read
        /\ place.first = a.first /\ place.reasons = a.reasons
      BY <1>1 DEF Fields
  <2> HIDE DEF place
  <2> QED BY <2>1, <2>2, NewPlace DEF AnswersInv, Answered
<1>18. CASE Rules!Crash(p)
  <2> DEFINE place == [Rules!Idle EXCEPT !.pc = "dead"]
  <2>1. DOMAIN place = Fields /\ place.pc = "dead"
      BY IdlePlace DEF Fields
  <2>2. cacheAt' = [cacheAt EXCEPT ![p] = place]
      BY <1>18 DEF Rules!Crash
  <2> HIDE DEF place
  <2> QED BY <2>1, <2>2, NewPlace
<1> QED BY <1>5, <1>6, <1>7, <1>8, <1>9, <1>10, <1>11, <1>12, <1>13, <1>14, <1>15,
           <1>16, <1>17, <1>18 DEF Rules!Works

LEMMA NextAnswers == ASSUME AnswersInv, [Rules!Next]_(Rules!vars) PROVE AnswersInv'
<1>1. CASE UNCHANGED Rules!vars
    BY <1>1 DEF Rules!vars, AnswersInv, Answered
<1>2. CASE \E p \in Paths : Rules!Edit(p) \/ Rules!Stage(p) \/ Rules!Commit(p)
    BY <1>2 DEF Rules!Edit, Rules!Stage, Rules!Commit, Rules!Changed, AnswersInv, Answered
<1> QED BY <1>1, <1>2, WorkAnswers DEF Rules!Next

\* What a call of rule_context_cache.py lets the agent reuse was analysed under the key
\* it has now, for any files that name each other in any way, cycles included, and
\* whatever earlier call or hand wrote the record.
THEOREM ReuseStaysFresh == PartSpec => []ReuseIsFresh
<1>1. AnswersInv /\ [PartNext]_allVars => AnswersInv'
    BY PartSteps, NextAnswers
<1>2. AnswersInv => ReuseIsFresh
  <2> SUFFICES ASSUME AnswersInv, NEW p \in Processes, cacheAt[p].pc = "done",
                      cacheAt[p].result.status # "none",
                      cacheAt[p].result.status # "CACHE_OPERATION_FAILED",
                      NEW q \in cacheAt[p].result.reuse
               PROVE  Rules!AnalysisKey(cacheAt[p].read, q)
                         = Rules!AnalysisKey(cacheAt[p].first, q)
      BY DEF ReuseIsFresh, Rules!ReuseIsFresh
  <2> DEFINE snapshot == [record |-> cacheAt[p].first, reasons |-> cacheAt[p].reasons]
  <2>1. Answered(cacheAt[p])
      BY DEF AnswersInv
  <2>2. q \in Rules!Compare(cacheAt[p].read, snapshot).reuse
      BY <2>1 DEF Answered
  <2>3. snapshot.record = cacheAt[p].first
      OBVIOUS
  <2> HIDE DEF snapshot
  <2> QED BY <2>1, <2>2, <2>3, ReuseKeepsKeys DEF Answered
<1> QED BY InitAnswers, <1>1, <1>2, PTL DEF PartSpec

-----------------------------------------------------------------------------
(* Model router: until when a decision holds                                 *)

LEMMA Divided ==
    ASSUME NEW t \in Int, NEW n \in Nat \ {0}
    PROVE  /\ t \div n \in Int /\ t % n \in 0..n - 1
           /\ t = (t \div n) * n + (t % n)
OBVIOUS

LEMMA DividedOnce ==
    ASSUME NEW n \in Nat \ {0}, NEW q \in Int, NEW r \in 0..n - 1
    PROVE  (q * n + r) \div n = q /\ (q * n + r) % n = r
OBVIOUS

LEMMA Multiples ==
    ASSUME NEW n \in Nat \ {0}, NEW p \in Int, NEW q \in Int, p < q
    PROVE  p * n + n =< q * n
OBVIOUS

LEMMA Shifted ==
    ASSUME NEW n \in Nat \ {0}, NEW a \in Int, NEW k \in Int
    PROVE  (a + k * n) % n = a % n
<1>1. PICK q \in Int, r \in 0..n - 1 : a = q * n + r /\ r = a % n
    BY Divided
<1>2. a + k * n = (q + k) * n + r
    BY <1>1
<1>3. ((q + k) * n + r) % n = r
    BY DividedOnce
<1> QED BY <1>1, <1>2, <1>3

\* The day before, as a weekday.
LEMMA DayBefore ==
    ASSUME NEW n \in Nat \ {0}, NEW d \in Int
    PROVE  ((d % n) + n - 1) % n = (d - 1) % n
<1>1. PICK q \in Int, r \in 0..n - 1 : d = q * n + r /\ r = d % n
    BY Divided
<1>2. r + n - 1 = (d - 1) + (1 - q) * n
    BY <1>1
<1>3. ((d - 1) + (1 - q) * n) % n = (d - 1) % n
    BY d - 1 \in Int, 1 - q \in Int, Shifted
<1>4. (r + n - 1) % n = (d - 1) % n
    BY <1>2, <1>3
<1> QED BY <1>1, <1>4

\* The window of a schedule that begins on day d
Starts(s, d) == d * Hours + s.start
Ends(s, d) == (IF s.end =< s.start THEN d + 1 ELSE d) * Hours + s.end
Within(s, d, t) == d % Days \in s.days /\ Starts(s, d) =< t /\ t < Ends(s, d)

LEMMA Calendar == Hours \in Nat \ {0} /\ Days \in Nat \ {0}
BY RouterAssumption DEF Router!RouterAssumption
LEMMA ScheduleFacts ==
    ASSUME NEW s \in Router!Schedule
    PROVE  /\ s.start \in 0..Hours - 1 /\ s.end \in 0..Hours - 1
           /\ s.days \subseteq 0..Days - 1
BY DEF Router!Schedule

\* A window is over before the day after next.
LEMMA WindowDays ==
    ASSUME NEW s \in Router!Schedule, NEW d \in Int, NEW t \in Int,
           Starts(s, d) =< t, t < Ends(s, d)
    PROVE  d =< t \div Hours /\ t \div Hours =< d + 1
<1> USE Calendar, ScheduleFacts
<1> DEFINE D == t \div Hours
<1>1. D \in Int /\ D * Hours =< t /\ t < D * Hours + Hours
  <2>1. D \in Int /\ t % Hours \in 0..Hours - 1 /\ t = D * Hours + (t % Hours)
      BY Divided
  <2> QED BY <2>1
<1>2. d * Hours =< t /\ t < (d + 1) * Hours + Hours
  <2>1. (d + 1) * Hours = d * Hours + Hours /\ d * Hours \in Int
      OBVIOUS
  <2> QED BY <2>1 DEF Starts, Ends
<1> HIDE DEF D
<1>3. ~(D < d)
    BY <1>1, <1>2, Multiples
<1>4. ~(d + 1 < D)
    BY <1>1, <1>2, Multiples
<1> QED BY <1>1, <1>3, <1>4 DEF D

\* schedule_active asks whether a window of the schedule holds the time.
LEMMA ActiveWithin ==
    ASSUME NEW s \in Router!Schedule, NEW t \in Nat
    PROVE  Router!Active(s, t) <=>
              \E d \in {(t \div Hours) - 1, t \div Hours} : Within(s, d, t)
<1> USE Calendar, ScheduleFacts
<1> DEFINE D == t \div Hours
<1> DEFINE h == t % Hours
<1>1. D \in Int /\ h \in 0..Hours - 1 /\ t = D * Hours + h
    BY Divided
<1>2. Router!Hour(t) = h /\ Router!Weekday(t) = D % Days
    BY DEF Router!Hour, Router!Weekday
<1>3. ((D % Days) + Days - 1) % Days = (D - 1) % Days
    BY <1>1, DayBefore
<1> HIDE DEF D, h
<1>4. /\ (D - 1) * Hours = D * Hours - Hours /\ (D + 1) * Hours = D * Hours + Hours
      /\ D * Hours \in Int
    BY <1>1
<1>5. Within(s, D, t) <=>
        /\ D % Days \in s.days /\ s.start =< h
        /\ s.end =< s.start \/ h < s.end
    BY <1>1, <1>4 DEF Within, Starts, Ends
<1>6. Within(s, D - 1, t) <=>
        (D - 1) % Days \in s.days /\ s.end =< s.start /\ h < s.end
  <2>1. (D - 1) + 1 = D
      BY <1>1
  <2> QED BY <1>1, <1>4, <2>1 DEF Within, Starts, Ends
<1>7. Router!Active(s, t) <=> Within(s, D, t) \/ Within(s, D - 1, t)
  <2> HIDE DEF Within
  <2> QED BY <1>1, <1>2, <1>3, <1>5, <1>6 DEF Router!Active
<1> QED BY <1>7 DEF D

\* Every window of a schedule that holds the time makes it active.
LEMMA WithinActive ==
    ASSUME NEW s \in Router!Schedule, NEW t \in Nat, NEW d \in Int, Within(s, d, t)
    PROVE  Router!Active(s, t)
<1>1. d =< t \div Hours /\ t \div Hours =< d + 1 /\ t \div Hours \in Int
    BY WindowDays, Calendar, Divided DEF Within
<1>2. d \in {(t \div Hours) - 1, t \div Hours}
    BY <1>1
<1> QED BY <1>2, ActiveWithin
LEMMA SmallestOf ==
    ASSUME NEW T, T \subseteq Nat, T # {}
    PROVE  Router!Min(T) \in T /\ \A n \in T : Router!Min(T) =< n
BY LeastNatural DEF Router!Min

\* next_schedule_boundary is no later than any start or end after t it looks at.
LEMMA BoundaryFirst ==
    ASSUME NEW schedules \in SUBSET Router!Schedule, NEW t \in Nat
    PROVE  LET b == Router!NextBoundary(schedules, t)
               D == t \div Hours
           IN  /\ b = Router!Never \/ b \in Nat
               /\ \A s \in schedules : \A d \in (D - 1)..(D + Days + 1) :
                     d % Days \in s.days =>
                        /\ Starts(s, d) > t => b \in Nat /\ b =< Starts(s, d)
                        /\ Ends(s, d) > t => b \in Nat /\ b =< Ends(s, d)
<1> USE Calendar
<1> DEFINE D == t \div Hours
<1> DEFINE b == Router!NextBoundary(schedules, t)
<1> DEFINE windows == {w \in schedules \X ((D - 1)..(D + (Days + 1))) :
                          w[2] % Days \in w[1].days}
<1> DEFINE instants == {Starts(w[1], w[2]) : w \in windows} \cup {Ends(w[1], w[2]) : w \in windows}
<1> DEFINE after == {i \in instants : i > t}
<1>1. b = IF after = {} THEN Router!Never ELSE Router!Min(after)
    BY DEF Router!NextBoundary, Router!BoundaryUpTo, Starts, Ends
<1>2. D \in Int
    BY Divided
<1>3. \A s \in schedules : \A d \in (D - 1)..(D + Days + 1) :
         Starts(s, d) \in Int /\ Ends(s, d) \in Int
  <2> SUFFICES ASSUME NEW s \in schedules, NEW d \in (D - 1)..(D + Days + 1)
               PROVE  Starts(s, d) \in Int /\ Ends(s, d) \in Int
      OBVIOUS
  <2>1. d \in Int /\ s.start \in Int /\ s.end \in Int
      BY <1>2, ScheduleFacts
  <2> QED BY <2>1 DEF Starts, Ends
<1>4. \A s \in schedules : \A d \in (D - 1)..(D + Days + 1) :
         d % Days \in s.days => Starts(s, d) \in instants /\ Ends(s, d) \in instants
  <2> SUFFICES ASSUME NEW s \in schedules, NEW d \in (D - 1)..(D + Days + 1),
                      d % Days \in s.days
               PROVE  Starts(s, d) \in instants /\ Ends(s, d) \in instants
      OBVIOUS
  <2> DEFINE w == <<s, d>>
  <2>1. w[1] = s /\ w[2] = d /\ w \in windows
      BY <1>2
  <2> HIDE DEF w, windows
  <2> QED BY <2>1
<1>5. \A i \in instants : i \in Int
  <2>1. \A w \in windows : w[1] \in schedules /\ w[2] \in (D - 1)..(D + Days + 1)
      BY <1>2
  <2> HIDE DEF windows
  <2> QED BY <1>3, <2>1
<1> HIDE DEF D, b, windows, instants
<1>6. after \subseteq Nat
    BY <1>5
<1>7. after # {} => b \in after /\ \A i \in after : b =< i
    BY <1>1, <1>6, SmallestOf
<1>8. b = Router!Never \/ b \in Nat
    BY <1>1, <1>6, <1>7
<1>9. ASSUME NEW s \in schedules, NEW d \in (D - 1)..(D + Days + 1), d % Days \in s.days
      PROVE  /\ Starts(s, d) > t => b \in Nat /\ b =< Starts(s, d)
             /\ Ends(s, d) > t => b \in Nat /\ b =< Ends(s, d)
  <2>1. /\ Starts(s, d) > t => Starts(s, d) \in after
        /\ Ends(s, d) > t => Ends(s, d) \in after
      BY <1>4, <1>9
  <2> HIDE DEF after
  <2> QED BY <1>6, <1>7, <2>1
<1> QED BY <1>8, <1>9 DEF D, b

\* Until the next boundary the same schedules are active.
LEMMA ActiveStays ==
    ASSUME NEW schedules \in SUBSET Router!Schedule, NEW t \in Nat, NEW u \in Nat, t =< u,
           Router!NextBoundary(schedules, t) \in Nat =>
              u < Router!NextBoundary(schedules, t),
           NEW s \in schedules
    PROVE  Router!Active(s, t) <=> Router!Active(s, u)
<1> USE Calendar
<1> DEFINE b == Router!NextBoundary(schedules, t)
<1> DEFINE D == t \div Hours
<1>1. D \in Int /\ u \div Hours \in Int
    BY Divided
<1>2. s \in Router!Schedule /\ s.start \in 0..Hours - 1 /\ s.end \in 0..Hours - 1
    BY ScheduleFacts
<1>3. \A d \in Int : Starts(s, d) \in Int /\ Ends(s, d) \in Int
    BY <1>2 DEF Starts, Ends
<1>4. \A d \in (D - 1)..(D + Days + 1) : d % Days \in s.days =>
         /\ Starts(s, d) > t => b \in Nat /\ b =< Starts(s, d)
         /\ Ends(s, d) > t => b \in Nat /\ b =< Ends(s, d)
    BY BoundaryFirst
<1>5. b \in Nat => u < b
    OBVIOUS
<1> HIDE DEF b
<1>6. ASSUME Router!Active(s, t) PROVE Router!Active(s, u)
  <2>1. PICK d \in {D - 1, D} : Within(s, d, t)
      BY <1>2, <1>6, ActiveWithin
  <2>2. d \in Int /\ d \in (D - 1)..(D + Days + 1)
      BY <1>1, <2>1
  <2>3. u < Ends(s, d)
      BY <1>3, <1>4, <1>5, <2>1, <2>2 DEF Within
  <2>4. Within(s, d, u)
      BY <1>3, <2>1, <2>2, <2>3 DEF Within
  <2> QED BY <1>2, <2>2, <2>4, WithinActive
<1>7. ASSUME Router!Active(s, u), ~Router!Active(s, t) PROVE FALSE
  <2>1. PICK d \in {(u \div Hours) - 1, u \div Hours} : Within(s, d, u)
      BY <1>2, <1>7, ActiveWithin
  <2>2. d \in Int
      BY <1>1
  <2>3. t < Starts(s, d) /\ d % Days \in s.days /\ Starts(s, d) =< u
    <3>1. ~Within(s, d, t)
        BY <1>2, <1>7, <2>2, WithinActive
    <3> QED BY <1>3, <2>1, <2>2, <3>1 DEF Within
  <2>4. D =< d
    <3>1. t < D * Hours + Hours /\ D * Hours =< t
        BY Divided
    <3>2. d < D => d * Hours + Hours =< D * Hours
        BY <1>1, <2>2, Multiples
    <3>3. d * Hours \in Int /\ D * Hours \in Int
        BY <1>1, <2>2
    <3> QED BY <1>1, <1>2, <2>2, <2>3, <3>1, <3>2, <3>3 DEF Starts
  \* A window of the same weekday begins within a week of t
  <2> DEFINE k == (d - D) \div Days
  <2> DEFINE e == D + ((d - D) % Days)
  <2>5. k \in Int /\ (d - D) % Days \in 0..Days - 1 /\ d - D = k * Days + ((d - D) % Days)
    <3>1. d - D \in Int
        BY <1>1, <2>2
    <3> QED BY <3>1, Divided
  <2>6. k >= 0
    <3>1. k < 0 => k * Days + Days =< 0 * Days
        BY <2>5, Multiples
    <3>2. k * Days \in Int
        BY <2>5
    <3> QED BY <1>1, <2>2, <2>4, <2>5, <3>1, <3>2
  <2>7. e \in Int /\ d = e + k * Days /\ D =< e /\ e < D + Days
      BY <1>1, <2>2, <2>5
  <2> HIDE DEF e, k
  <2>8. /\ e % Days = d % Days
        /\ (e + Days) % Days = d % Days
    <3>1. e % Days = (e + k * Days) % Days
        BY <2>5, <2>7, Shifted
    <3>2. PICK one \in Int : one = 1
        OBVIOUS
    <3>3. (e + one * Days) % Days = e % Days
        BY <2>7, Shifted
    <3>4. e + one * Days = e + Days
        BY <2>7, <3>2
    <3> QED BY <2>7, <3>1, <3>3, <3>4
  <2>9. \A f \in Int : f =< d => Starts(s, f) =< Starts(s, d)
    <3> SUFFICES ASSUME NEW f \in Int, f < d PROVE Starts(s, f) =< Starts(s, d)
        BY <1>3, <2>2
    <3>1. f * Hours + Hours =< d * Hours
        BY <2>2, Multiples
    <3>2. f * Hours \in Int /\ d * Hours \in Int
        BY <2>2
    <3> QED BY <1>2, <3>1, <3>2 DEF Starts
  <2>10. \A f \in (D - 1)..(D + Days + 1) :
            f % Days \in s.days /\ f =< d => Starts(s, f) =< t
    <3> SUFFICES ASSUME NEW f \in (D - 1)..(D + Days + 1), f % Days \in s.days, f =< d,
                        t < Starts(s, f)
                 PROVE  FALSE
        BY <1>1, <1>3
    <3>1. b \in Nat /\ b =< Starts(s, f) /\ u < b
        BY <1>4, <1>5
    <3>2. Starts(s, f) =< Starts(s, d)
        BY <1>1, <2>9
    <3> QED BY <1>1, <1>3, <2>2, <2>3, <3>1, <3>2
  <2>11. d # e
    <3> SUFFICES ASSUME d = e PROVE FALSE
        OBVIOUS
    <3>1. d \in (D - 1)..(D + Days + 1)
        BY <1>1, <2>7
    <3>2. Starts(s, d) =< t
        BY <2>2, <2>3, <2>10, <3>1
    <3> QED BY <1>3, <2>2, <2>3, <3>2
  <2>12. e + Days =< d
    <3>1. k # 0
        BY <2>7, <2>11
    <3>2. 0 * Days + Days =< k * Days
        BY <2>5, <2>6, <3>1, Multiples
    <3>3. k * Days \in Int
        BY <2>5
    <3> QED BY <2>7, <3>2, <3>3
  <2>13. Starts(s, e + Days) =< t
    <3>1. e \in (D - 1)..(D + Days + 1) /\ e =< d
        BY <1>1, <2>2, <2>7, <2>12
    <3>2. Starts(s, e) =< t
        BY <2>3, <2>8, <2>10, <3>1
    <3>3. D < e => D * Hours + Hours =< e * Hours
        BY <1>1, <2>7, Multiples
    <3>4. t < D * Hours + Hours
        BY Divided
    <3>5. D * Hours \in Int /\ e * Hours \in Int
        BY <1>1, <2>7
    <3>6. e = D
        BY <1>1, <1>2, <2>7, <3>2, <3>3, <3>4, <3>5 DEF Starts
    <3>7. e + Days \in (D - 1)..(D + Days + 1)
        BY <1>1, <3>6
    <3> QED BY <2>3, <2>8, <2>10, <2>12, <3>7
  <2>14. t < Starts(s, e + Days)
    <3>1. t < D * Hours + Hours
        BY Divided
    <3>2. D * Hours + Hours =< (e + Days) * Hours
        BY <1>1, <2>7, Multiples
    <3>3. D * Hours \in Int /\ (e + Days) * Hours \in Int
        BY <1>1, <2>7
    <3> QED BY <1>2, <3>1, <3>2, <3>3 DEF Starts
  <2> QED BY <1>3, <2>7, <2>13, <2>14
<1> QED BY <1>6, <1>7
LEMMA TariffStays ==
    ASSUME NEW m, m.schedules \in SUBSET Router!Schedule,
           NEW t \in Nat, NEW u \in Nat, t =< u,
           Router!NextBoundary(m.schedules, t) \in Nat =>
              u < Router!NextBoundary(m.schedules, t)
    PROVE  Router!Tariff(m, t) = Router!Tariff(m, u)
<1>1. \A s \in m.schedules : Router!Active(s, t) <=> Router!Active(s, u)
    BY ActiveStays
<1>2. {s \in m.schedules : Router!Active(s, t)} = {s \in m.schedules : Router!Active(s, u)}
    BY <1>1
<1> QED BY <1>2 DEF Router!Tariff

\* A model costs at u what it costs at t.
Steady(m, asker, t, u) ==
    /\ Router!UsageCost(m, asker, t) = Router!UsageCost(m, asker, u)
    /\ \A req : Router!SwitchCost(req, m, asker, t) = Router!SwitchCost(req, m, asker, u)

LEMMA CostStays ==
    ASSUME NEW m, NEW asker, NEW t, NEW u,
           Router!Tariff(m, t) = Router!Tariff(m, u),
           Router!Live(asker, t) <=> Router!Live(asker, u)
    PROVE  Steady(m, asker, t, u)
<1>1. Router!Affine(asker, m, t) <=> Router!Affine(asker, m, u)
    BY DEF Router!Affine
<1>2. Router!UsageCost(m, asker, t) = Router!UsageCost(m, asker, u)
    BY <1>1 DEF Router!UsageCost
<1>3. \A req : Router!SwitchCost(req, m, asker, t) = Router!SwitchCost(req, m, asker, u)
    BY <1>1 DEF Router!SwitchCost
<1> QED BY <1>2, <1>3 DEF Steady

\* Two recursive definitions with the same step are the same function.
LEMMA EconomicsStay ==
    ASSUME NEW chain, NEW req, NEW asker, NEW t, NEW u, Len(chain) \in Nat,
           \A i \in 1..Len(chain) : Steady(chain[i], asker, t, u)
    PROVE  Router!Economics(chain, req, asker, t) = Router!Economics(chain, req, asker, u)
<1> DEFINE after(e, m, x) ==
        [spend |-> e.spend + e.reach * Router!UsageCost(m, asker, x),
         switching |-> e.switching + e.reach * Router!SwitchCost(req, m, asker, x),
         pressure |-> e.pressure + e.reach * m.pressure,
         reach |-> (e.reach * (Router!Quarter - m.success)) \div Router!Quarter]
<1> DEFINE base == [spend |-> 0, switching |-> 0, pressure |-> 0, reach |-> Router!Scale]
<1> DEFINE body(f, x) == [n \in 0..Len(chain) |-> IF n = 0 THEN base
                                                 ELSE after(f[n - 1], chain[n], x)]
<1>1. \A e : \A i \in 1..Len(chain) : after(e, chain[i], t) = after(e, chain[i], u)
    BY DEF Steady
<1> HIDE DEF after, base
<1>2. \A f : body(f, t) = body(f, u)
  <2> SUFFICES ASSUME NEW f, NEW n \in 0..Len(chain), n # 0
               PROVE  after(f[n - 1], chain[n], t) = after(f[n - 1], chain[n], u)
      OBVIOUS
  <2>1. n \in 1..Len(chain)
      OBVIOUS
  <2> QED BY <1>1, <2>1
<1> HIDE DEF body
<1>3. (CHOOSE f : f = body(f, t)) = (CHOOSE f : f = body(f, u))
    BY <1>2
<1>4. \A x : Router!Economics(chain, req, asker, x) = (CHOOSE f : f = body(f, x))[Len(chain)]
    BY DEF Router!Economics, body, after, base
<1> QED BY <1>3, <1>4

LEMMA ChainFacts ==
    ASSUME NEW M, NEW n \in Nat \ {0}, NEW chain \in Router!Attempts(M, n)
    PROVE  /\ Len(chain) = n /\ \A i \in 1..n : chain[i] \in M
           /\ Len(Router!Front(chain)) = n - 1
           /\ \A i \in 1..n - 1 : Router!Front(chain)[i] \in M
<1>1. chain \in [1..n -> M]
    BY DEF Router!Attempts
<1>2. chain \in Seq(M) /\ Len(chain) = n
    BY <1>1
<1>3. Router!Front(chain) = [i \in 1..n - 1 |-> chain[i]]
    BY <1>2 DEF Router!Front
<1> QED BY <1>1, <1>2, <1>3

LEMMA ChainStays ==
    ASSUME NEW M, NEW n \in Nat \ {0}, NEW chain \in Router!Attempts(M, n),
           NEW req, NEW asker, NEW t, NEW u, \A m \in M : Steady(m, asker, t, u)
    PROVE  /\ Router!Economics(chain, req, asker, t) = Router!Economics(chain, req, asker, u)
           /\ Router!Kept(chain, req, asker, t) <=> Router!Kept(chain, req, asker, u)
<1>1. /\ Len(chain) = n /\ \A i \in 1..n : chain[i] \in M
      /\ Len(Router!Front(chain)) = n - 1
      /\ \A i \in 1..n - 1 : Router!Front(chain)[i] \in M
    BY ChainFacts
<1>2. Router!Economics(chain, req, asker, t) = Router!Economics(chain, req, asker, u)
    BY <1>1, EconomicsStay
<1>3. Router!Economics(Router!Front(chain), req, asker, t)
         = Router!Economics(Router!Front(chain), req, asker, u)
  <2>1. n - 1 \in Nat
      OBVIOUS
  <2> QED BY <1>1, <2>1, EconomicsStay
<1> QED BY <1>2, <1>3 DEF Router!Kept

\* With the models, their costs and the session as they were, the search ends as it did.
LEMMA ChoiceStays ==
    ASSUME NEW given, NEW req, NEW asker, NEW t, NEW u,
           Router!Eligible(given, req, asker, t) = Router!Eligible(given, req, asker, u),
           \A m \in Router!Eligible(given, req, asker, t) : Steady(m, asker, t, u),
           req.tier # "LOCAL"
    PROVE  Router!Route(given, req, asker, t).chain = Router!Route(given, req, asker, u).chain
<1> DEFINE M == Router!Eligible(given, req, asker, t)
<1> DEFINE lengths == 1..Router!Min({Router!Cardinality(M), req.fallbacks + 1})
<1> DEFINE tried == UNION {Router!Attempts(M, n) : n \in lengths}
<1> DEFINE kept(x) == {c \in tried : Router!Kept(c, req, asker, x)}
<1> DEFINE best(x) == CHOOSE c \in kept(x) : \A o \in kept(x) \ {c} :
                                                Router!Better(c, o, req, asker, x)
<1>1. \A x \in {t, u} : Router!Route(given, req, asker, x).chain
                           = IF kept(x) = {} THEN <<>> ELSE best(x)
  <2> DEFINE all(E, x) ==
          {c \in UNION {Router!Attempts(E, n) :
                          n \in 1..Router!Min({Router!Cardinality(E), req.fallbacks + 1})} :
             Router!Kept(c, req, asker, x)}
  <2> DEFINE first(S, x) == CHOOSE c \in S : \A o \in S \ {c} :
                                               Router!Better(c, o, req, asker, x)
  <2> DEFINE E(x) == Router!Eligible(given, req, asker, x)
  <2>1. ASSUME NEW x \in {t, u}
        PROVE  \E until : Router!Route(given, req, asker, x)
                 = IF all(E(x), x) = {} THEN Router!NoRoute(until)
                   ELSE [status |-> "ROUTED", chain |-> first(all(E(x), x), x), until |-> until]
      BY Zenon DEF Router!Route
  <2>2. \A x \in {t, u} : all(E(x), x) = kept(x)
      OBVIOUS
  <2>3. \A x \in {t, u} : first(kept(x), x) = best(x)
      OBVIOUS
  <2> HIDE DEF all, first, kept, best, E
  <2> QED BY <2>1, <2>2, <2>3 DEF Router!NoRoute
<1>2. \A c \in tried : \E n \in Nat \ {0} : c \in Router!Attempts(M, n)
    OBVIOUS
<1> HIDE DEF tried, lengths, M
<1>3. \A c \in tried :
         /\ Router!Economics(c, req, asker, t) = Router!Economics(c, req, asker, u)
         /\ Router!Kept(c, req, asker, t) <=> Router!Kept(c, req, asker, u)
  <2>1. \A m \in M : Steady(m, asker, t, u)
      BY DEF M
  <2> QED BY <1>2, <2>1, ChainStays
<1>4. kept(t) = kept(u)
    BY <1>3
<1>5. \A c, o \in kept(t) :
         Router!Better(c, o, req, asker, t) <=> Router!Better(c, o, req, asker, u)
    BY <1>3 DEF Router!Better
<1>6. best(t) = best(u)
  <2> HIDE DEF kept
  <2> QED BY <1>4, <1>5
<1> QED BY <1>1, <1>4, <1>6

\* What is decided is decided for the session as it is, at some time until now.
RouterInv ==
    /\ routerClock \in Nat /\ catalog \in Catalogs /\ request \in Routings
    /\ session.expires \in Nat
    /\ routed.status \in {"ROUTED", "NO_ROUTE"} =>
          \E t \in 0..routerClock : routed = Router!Route(catalog, request, session, t)

LEMMA InitRouter == PartInit => RouterInv
BY DEF PartInit, Router!Init, RouterInv, Router!NoSession, Router!NoDecision

LEMMA NextRouter == ASSUME RouterInv, [Router!Next]_(Router!vars) PROVE RouterInv'
<1>1. CASE UNCHANGED Router!vars
    BY <1>1 DEF Router!vars, RouterInv
<1>2. CASE Router!Ask
  <2>1. routerClock \in 0..routerClock
      BY DEF RouterInv
  <2> QED BY <1>2, <2>1 DEF Router!Ask, RouterInv
<1>3. CASE Router!Use
  <2>1. Hours \div 2 \in Nat
      BY Calendar
  <2>2. routerClock + (Hours \div 2) \in Nat
      BY <2>1 DEF RouterInv
  <2> QED BY <1>3, <2>2 DEF Router!Use, RouterInv, Router!NoDecision
<1>4. CASE Router!Tick
  <2>1. routerClock' \in Nat /\ 0..routerClock \subseteq 0..routerClock'
      BY <1>4 DEF Router!Tick, RouterInv
  <2> QED BY <1>4, <2>1 DEF Router!Tick, RouterInv
<1> QED BY <1>1, <1>2, <1>3, <1>4 DEF Router!Next

\* A decision ends with its catalog, and before the tariff of a model changes.
LEMMA DecisionEnds ==
    ASSUME NEW given \in Catalogs, NEW req \in Routings, NEW asker, NEW t \in Nat,
           req.tier # "LOCAL"
    PROVE  LET until == Router!Route(given, req, asker, t).until
           IN  /\ until \in Nat /\ until =< given.expires
               /\ \A m \in Router!Priced(given, req, t) :
                     LET b == Router!NextBoundary(m.schedules, t)
                     IN  b \in Nat => until =< b
<1> DEFINE P == Router!Priced(given, req, t)
<1> DEFINE boundary(m) == Router!NextBoundary(m.schedules, t)
<1> DEFINE end(m) == IF boundary(m) = Router!Never THEN given.expires
                     ELSE Router!Min({boundary(m), given.expires})
<1> DEFINE ends == {end(m) : m \in P}
<1> DEFINE until == Router!Route(given, req, asker, t).until
<1>1. given.expires \in Nat /\ \A m \in P : m.schedules \in SUBSET Router!Schedule
    BY RouterAssumption DEF Router!RouterAssumption, Router!Priced, Router!Model
<1>2. until = IF P = {} THEN given.expires ELSE Router!Min(ends)
    BY DEF Router!Route, Router!NoRoute, Router!Boundaries
<1>3. \A m \in P : boundary(m) = Router!Never \/ boundary(m) \in Nat
    BY <1>1, BoundaryFirst
<1> HIDE DEF P, boundary, until
<1>4. \A m \in P :
         /\ end(m) \in Nat /\ end(m) =< given.expires
         /\ boundary(m) \in Nat => end(m) =< boundary(m)
  <2> SUFFICES ASSUME NEW m \in P
               PROVE  /\ end(m) \in Nat /\ end(m) =< given.expires
                      /\ boundary(m) \in Nat => end(m) =< boundary(m)
      OBVIOUS
  <2>1. CASE boundary(m) = Router!Never
      BY <1>1, <2>1 DEF Router!Never
  <2>2. CASE boundary(m) \in Nat
    <3>1. boundary(m) # Router!Never
        BY <2>2 DEF Router!Never
    <3>2. /\ Router!Min({boundary(m), given.expires}) \in {boundary(m), given.expires}
          /\ \A n \in {boundary(m), given.expires} : Router!Min({boundary(m), given.expires}) =< n
        BY <1>1, <2>2, SmallestOf
    <3> QED BY <1>1, <2>2, <3>1, <3>2
  <2> QED BY <1>3, <2>1, <2>2
<1> HIDE DEF end
<1>5. /\ ends \subseteq Nat
      /\ P # {} => ends # {}
      /\ \A n \in ends : n =< given.expires
      /\ \A m \in P : end(m) \in ends
  <2>1. \A n \in ends : \E m \in P : n = end(m)
      OBVIOUS
  <2>2. \A m \in P : end(m) \in ends
      OBVIOUS
  <2> HIDE DEF ends
  <2> QED BY <1>4, <2>1, <2>2
<1> HIDE DEF ends
<1>6. ASSUME P # {}
      PROVE  until \in ends /\ \A n \in ends : until =< n
    BY <1>2, <1>5, <1>6, SmallestOf
<1>7. until \in Nat /\ until =< given.expires
  <2>1. CASE P = {}
      BY <1>1, <1>2, <2>1
  <2>2. CASE P # {}
      BY <1>5, <1>6, <2>2
  <2> QED BY <2>1, <2>2
<1>8. ASSUME NEW m \in P, boundary(m) \in Nat PROVE until =< boundary(m)
  <2>1. until =< end(m) /\ end(m) \in Nat /\ end(m) =< boundary(m)
      BY <1>4, <1>5, <1>6, <1>8
  <2> QED BY <1>7, <1>8, <2>1
<1> QED BY <1>7, <1>8 DEF P, boundary, until

\* A decision of ModelRouter.route that has not expired is the one it would make now,
\* as long as the session it was made for is alive, or there was none (valid_until
\* takes no account of the session's expires_at), for any catalog with any tariffs,
\* any request and any length of days and weeks.
THEOREM DecisionsStayCurrent == PartSpec => []DecisionIsCurrent
<1>1. RouterInv /\ [PartNext]_allVars => RouterInv'
    BY PartSteps, NextRouter
<1>2. RouterInv => DecisionIsCurrent
  <2> SUFFICES ASSUME RouterInv, routed.status \in {"ROUTED", "NO_ROUTE"},
                      routerClock < routed.until,
                      Router!Live(session, routerClock) \/ session = Router!NoSession
               PROVE  Router!Route(catalog, request, session, routerClock).chain = routed.chain
      BY DEF DecisionIsCurrent, Router!DecisionIsCurrent
  <2> DEFINE u == routerClock
  <2>1. PICK t \in 0..u : routed = Router!Route(catalog, request, session, t)
      BY DEF RouterInv
  <2>2. t \in Nat /\ u \in Nat /\ t =< u /\ catalog \in Catalogs /\ request \in Routings
      BY DEF RouterInv
  <2>3. request.tier # "LOCAL"
      BY <2>1 DEF Router!Route
  <2>4. /\ routed.until \in Nat /\ routed.until =< catalog.expires
        /\ \A m \in Router!Priced(catalog, request, t) :
              Router!NextBoundary(m.schedules, t) \in Nat =>
                 u < Router!NextBoundary(m.schedules, t)
    <3>1. /\ routed.until \in Nat /\ routed.until =< catalog.expires
          /\ \A m \in Router!Priced(catalog, request, t) :
                Router!NextBoundary(m.schedules, t) \in Nat =>
                   routed.until =< Router!NextBoundary(m.schedules, t)
        BY <2>1, <2>2, <2>3, DecisionEnds
    <3> QED BY <2>2, <3>1
  <2>5. catalog.expires \in Nat /\ \A m \in catalog.models : m \in Router!Model
      BY <2>2, RouterAssumption DEF Router!RouterAssumption
  <2>6. ~(t >= catalog.expires) /\ ~(u >= catalog.expires)
      BY <2>2, <2>4, <2>5
  <2>7. Router!Priced(catalog, request, t) = Router!Priced(catalog, request, u)
      BY <2>6 DEF Router!Priced, Router!RejectedUnpriced
  <2>8. Router!Live(session, t) <=> Router!Live(session, u)
      BY <2>2 DEF RouterInv, Router!Live, Router!NoSession
  <2>9. \A m \in Router!Priced(catalog, request, t) : Steady(m, session, t, u)
    <3> SUFFICES ASSUME NEW m \in Router!Priced(catalog, request, t)
                 PROVE  Steady(m, session, t, u)
        OBVIOUS
    <3>1. m.schedules \in SUBSET Router!Schedule
        BY <2>5 DEF Router!Priced, Router!Model
    <3>2. Router!Tariff(m, t) = Router!Tariff(m, u)
        BY <2>2, <2>4, <3>1, TariffStays
    <3> QED BY <2>8, <3>2, CostStays
  <2>10. Router!Eligible(catalog, request, session, t)
           = Router!Eligible(catalog, request, session, u)
      BY <2>7, <2>9 DEF Router!Eligible, Steady
  <2>11. \A m \in Router!Eligible(catalog, request, session, t) : Steady(m, session, t, u)
      BY <2>9 DEF Router!Eligible
  <2> QED BY <2>1, <2>3, <2>10, <2>11, ChoiceStays
<1> QED BY InitRouter, <1>1, <1>2, PTL DEF PartSpec

-----------------------------------------------------------------------------
(* Fragments.  What a call has not selected yet is among what it has still  *)
(* to look at; with one caller at a time nobody else writes the index       *)
(* between its reading and its writing.                                     *)

First(r) == Fragments!Min(r.todo)

LEMMA FirstIsLeft ==
    ASSUME NEW r, r.todo \subseteq DOMAIN Providers, r.todo # {}
    PROVE  First(r) \in r.todo /\ Providers[First(r)] \in Fragments!Provider
<1>1. DOMAIN Providers \subseteq Nat
    BY FragmentAssumption DEF Fragments!FragmentAssumption
<1>2. \E m \in r.todo : \A n \in r.todo : m =< n
    BY <1>1, LeastNatural
<1>3. First(r) \in r.todo
    BY <1>2 DEF First, Fragments!Min
<1> QED BY <1>3 DEF Fragments!Provider, Fragments!ToSet

\* What is published and holds has been selected by the call r, or its turn comes.
Finds(r, files, listed, pub, t) ==
    /\ DOMAIN r = {"pc", "req", "given", "read", "todo", "selected"}
    /\ r.pc \in {"turn", "list", "publish"}
    /\ r.todo \subseteq DOMAIN Providers /\ DOMAIN r.selected = Fragments!Provider
    /\ r.pc # "turn" => r.todo # {} /\ r.selected[Providers[First(r)]] # None
    /\ r.pc = "publish" => r.read = listed
    /\ \A p \in pub : Fragments!Usable(files[p], t) =>
          r.selected[p] # None \/ \E i \in r.todo : Providers[i] = p

FragmentInv ==
    /\ fragmentAt = [c \in Aggregators |-> fragmentAt[c]]
    /\ stored = [p \in Fragments!Provider |-> stored[p]]
    /\ published \subseteq index /\ published \subseteq Fragments!Provider
    /\ \A c \in Aggregators :
          \/ fragmentAt[c] = Fragments!Idle
          \/ Finds(fragmentAt[c], stored, index, published, fragmentNow)

\* A step of the one caller that is on its way.
LEMMA OneCallGoesOn ==
    ASSUME FragmentInv, NEW c \in Aggregators, \A d \in Aggregators : d = c,
           NEW r, fragmentAt' = [fragmentAt EXCEPT ![c] = r],
           stored' = [p \in Fragments!Provider |-> stored'[p]],
           published' \subseteq index', published' \subseteq Fragments!Provider,
           \/ r = Fragments!Idle
           \/ Finds(r, stored', index', published', fragmentNow')
    PROVE  FragmentInv'
BY DEF FragmentInv

LEMMA FragmentBegins ==
    ASSUME FragmentInv, NEW c \in Aggregators, \A d \in Aggregators : d = c,
           Fragments!Begin(c)
    PROVE  FragmentInv'
<1>1. PICK req \in Aggregations,
           given \in [Fragments!Provider -> Fragments!Answers \union {None, Malformed}] :
         fragmentAt' = [fragmentAt EXCEPT ![c] =
            [pc |-> "turn", req |-> req, given |-> given, read |-> {},
             todo |-> {i \in DOMAIN Providers :
                          given[Providers[i]] # None \/ Providers[i] \in index},
             selected |-> [p \in Fragments!Provider |-> None]]]
    BY DEF Fragments!Begin
<1> DEFINE todo == {i \in DOMAIN Providers :
                       given[Providers[i]] # None \/ Providers[i] \in index}
<1> DEFINE r == [pc |-> "turn", req |-> req, given |-> given, read |-> {}, todo |-> todo,
                 selected |-> [p \in Fragments!Provider |-> None]]
<1>2. UNCHANGED <<fragmentNow, stored, index, published>>
    BY DEF Fragments!Begin
<1>3. \A p \in published : \E i \in todo : Providers[i] = p
    BY DEF FragmentInv, Fragments!Provider, Fragments!ToSet
<1>4. Finds(r, stored, index, published, fragmentNow)
  <2> HIDE DEF todo
  <2>1. todo \subseteq DOMAIN Providers
      BY DEF todo
  <2> QED BY <1>3, <2>1 DEF Finds
<1> HIDE DEF r
<1>5. fragmentAt' = [fragmentAt EXCEPT ![c] = r]
    BY <1>1 DEF r
<1> QED BY <1>2, <1>4, <1>5, OneCallGoesOn DEF FragmentInv

LEMMA FragmentTaken ==
    ASSUME FragmentInv, NEW c \in Aggregators, \A d \in Aggregators : d = c,
           Fragments!TakeCurrent(c)
    PROVE  FragmentInv'
<1> DEFINE o == fragmentAt[c]
<1> DEFINE turn == Providers[First(o)]
<1> DEFINE new == o.given[turn]
<1> DEFINE r == [o EXCEPT !.pc = "list", !.selected = [o.selected EXCEPT ![turn] = new]]
<1>1. o.pc = "turn" /\ o.todo # {} /\ Fragments!Usable(new, fragmentNow)
    BY DEF Fragments!TakeCurrent, Fragments!Given, Fragments!Turn, First
<1>2. /\ stored' = [stored EXCEPT ![turn] = new]
      /\ UNCHANGED <<fragmentNow, index, published>>
    BY DEF Fragments!TakeCurrent, Fragments!Given, Fragments!Turn, First
<1>3. fragmentAt' = [fragmentAt EXCEPT ![c] = r]
    BY DEF FragmentInv, Fragments!TakeCurrent, Fragments!Given, Fragments!Turn,
           Fragments!Select, First
<1>4. Finds(o, stored, index, published, fragmentNow)
    BY <1>1 DEF FragmentInv, Fragments!Idle
<1> HIDE DEF o
<1>5. First(o) \in o.todo /\ turn \in Fragments!Provider
    BY <1>1, <1>4, FirstIsLeft DEF Finds
<1> HIDE DEF turn
<1>6. new # None
    BY <1>1 DEF Fragments!Usable
<1> HIDE DEF new
<1> DEFINE selected == [o.selected EXCEPT ![turn] = new]
<1>7. /\ DOMAIN selected = Fragments!Provider
      /\ \A p \in Fragments!Provider :
            selected[p] = IF p = turn THEN new ELSE o.selected[p]
    BY <1>4, <1>5 DEF Finds
<1> HIDE DEF selected
<1>8. /\ DOMAIN r = {"pc", "req", "given", "read", "todo", "selected"}
      /\ r.pc = "list" /\ r.todo = o.todo /\ r.selected = selected
    BY <1>4 DEF Finds, selected
<1> HIDE DEF r
<1>9. First(r) = First(o)
    BY <1>8 DEF First
<1>10. /\ stored' = [p \in Fragments!Provider |-> stored'[p]]
       /\ \A p \in Fragments!Provider : p # turn => stored'[p] = stored[p]
    BY <1>2, <1>5 DEF FragmentInv
<1>11. published \subseteq index /\ published \subseteq Fragments!Provider
    BY DEF FragmentInv
<1>12. \A p \in published : Fragments!Usable(stored'[p], fragmentNow) =>
          r.selected[p] # None \/ \E i \in r.todo : Providers[i] = p
  <2> SUFFICES ASSUME NEW p \in published, Fragments!Usable(stored'[p], fragmentNow)
               PROVE  r.selected[p] # None \/ \E i \in r.todo : Providers[i] = p
      OBVIOUS
  <2>1. CASE p = turn
      BY <1>6, <1>7, <1>8, <1>11, <2>1
  <2>2. CASE p # turn
      BY <1>4, <1>7, <1>8, <1>10, <1>11, <2>2 DEF Finds
  <2> QED BY <2>1, <2>2
<1>13. r.todo \subseteq DOMAIN Providers /\ DOMAIN r.selected = Fragments!Provider
    BY <1>4, <1>7, <1>8 DEF Finds
<1>14. r.todo # {} /\ r.selected[Providers[First(r)]] # None
    BY <1>1, <1>5, <1>6, <1>7, <1>8, <1>9 DEF turn
<1>15. Finds(r, stored', index', published', fragmentNow')
    BY <1>2, <1>8, <1>12, <1>13, <1>14 DEF Finds
<1> QED BY <1>2, <1>3, <1>10, <1>11, <1>15, OneCallGoesOn

LEMMA IndexRead ==
    ASSUME FragmentInv, NEW c \in Aggregators, \A d \in Aggregators : d = c,
           Fragments!ReadIndex(c)
    PROVE  FragmentInv'
<1> DEFINE o == fragmentAt[c]
<1> DEFINE r == [o EXCEPT !.pc = "publish", !.read = index]
<1>1. /\ o.pc = "list" /\ fragmentAt' = [fragmentAt EXCEPT ![c] = r]
      /\ UNCHANGED <<fragmentNow, stored, index, published>>
    BY DEF FragmentInv, Fragments!ReadIndex
<1>2. Finds(o, stored, index, published, fragmentNow)
    BY <1>1 DEF FragmentInv, Fragments!Idle
<1> HIDE DEF o
<1>3. /\ DOMAIN r = {"pc", "req", "given", "read", "todo", "selected"}
      /\ r.pc = "publish" /\ r.todo = o.todo /\ r.selected = o.selected /\ r.read = index
    BY <1>2 DEF Finds
<1> HIDE DEF r
<1>4. First(r) = First(o)
    BY <1>3 DEF First
<1>5. Finds(r, stored, index, published, fragmentNow)
    BY <1>1, <1>2, <1>3, <1>4 DEF Finds
<1> QED BY <1>1, <1>5, OneCallGoesOn DEF FragmentInv

LEMMA IndexWritten ==
    ASSUME FragmentInv, NEW c \in Aggregators, \A d \in Aggregators : d = c,
           Fragments!WriteIndex(c)
    PROVE  FragmentInv'
<1> DEFINE o == fragmentAt[c]
<1> DEFINE turn == Providers[First(o)]
<1> DEFINE r == [o EXCEPT !.pc = "turn", !.todo = o.todo \ {First(o)}]
<1>1. /\ o.pc = "publish" /\ fragmentAt' = [fragmentAt EXCEPT ![c] = r]
      /\ index' = o.read \union {turn} /\ published' = published \union {turn}
      /\ UNCHANGED <<fragmentNow, stored>>
    BY DEF FragmentInv, Fragments!WriteIndex, Fragments!Listed, Fragments!Turn,
           Fragments!Left, First
<1>2. Finds(o, stored, index, published, fragmentNow)
    BY <1>1 DEF FragmentInv, Fragments!Idle
<1> HIDE DEF o
<1>3. /\ o.read = index /\ o.selected[turn] # None
      /\ First(o) \in o.todo /\ turn \in Fragments!Provider
    BY <1>1, <1>2, FirstIsLeft DEF Finds
<1>4. /\ DOMAIN r = {"pc", "req", "given", "read", "todo", "selected"}
      /\ r.pc = "turn" /\ r.todo = o.todo \ {First(o)} /\ r.selected = o.selected
    BY <1>2 DEF Finds
<1> HIDE DEF r
<1>5. ASSUME NEW p \in published \union {turn}, Fragments!Usable(stored[p], fragmentNow)
      PROVE  r.selected[p] # None \/ \E i \in r.todo : Providers[i] = p
  <2>1. CASE p = turn
      BY <1>3, <1>4, <2>1
  <2>2. CASE p # turn
      BY <1>2, <1>4, <1>5, <2>2 DEF Finds
  <2> QED BY <2>1, <2>2
<1>6. Finds(r, stored', index', published', fragmentNow')
    BY <1>1, <1>2, <1>4, <1>5 DEF Finds
<1>7. published' \subseteq index' /\ published' \subseteq Fragments!Provider
    BY <1>1, <1>3 DEF FragmentInv
<1>8. stored' = [p \in Fragments!Provider |-> stored'[p]]
    BY <1>1 DEF FragmentInv
<1> QED BY <1>1, <1>6, <1>7, <1>8, OneCallGoesOn

LEMMA FragmentFallsBack ==
    ASSUME FragmentInv, NEW c \in Aggregators, \A d \in Aggregators : d = c,
           Fragments!FallBack(c)
    PROVE  FragmentInv'
<1> DEFINE o == fragmentAt[c]
<1> DEFINE turn == Providers[First(o)]
<1> DEFINE selected == IF Fragments!Usable(stored[turn], fragmentNow)
                       THEN [o.selected EXCEPT ![turn] = stored[turn]] ELSE o.selected
<1> DEFINE r == [o EXCEPT !.todo = o.todo \ {First(o)}, !.selected = selected]
<1>1. /\ o.pc = "turn" /\ o.todo # {}
      /\ UNCHANGED <<fragmentNow, stored, index, published>>
    BY DEF Fragments!FallBack
<1>2. fragmentAt' = [fragmentAt EXCEPT ![c] = r]
  <2>1. fragmentAt' = [fragmentAt EXCEPT ![c].todo = Fragments!Left(c),
                                         ![c].selected =
                           IF Fragments!Usable(stored[Fragments!Turn(c)], fragmentNow)
                           THEN Fragments!Select(c, stored[Fragments!Turn(c)])
                           ELSE fragmentAt[c].selected]
      BY DEF Fragments!FallBack
  <2>2. Fragments!Left(c) = o.todo \ {First(o)} /\ Fragments!Turn(c) = turn
      BY DEF Fragments!Left, Fragments!Turn, First
  <2>3. Fragments!Select(c, stored[turn]) = [o.selected EXCEPT ![turn] = stored[turn]]
      BY <2>2 DEF Fragments!Select
  <2>4. selected = IF Fragments!Usable(stored[Fragments!Turn(c)], fragmentNow)
                   THEN Fragments!Select(c, stored[Fragments!Turn(c)])
                   ELSE fragmentAt[c].selected
      BY <2>2, <2>3
  <2> HIDE DEF selected, turn
  <2>5. fragmentAt' = [fragmentAt EXCEPT ![c].todo = o.todo \ {First(o)},
                                         ![c].selected = selected]
      BY <2>1, <2>2, <2>4
  <2> QED BY <2>5 DEF FragmentInv
<1>3. Finds(o, stored, index, published, fragmentNow)
    BY <1>1 DEF FragmentInv, Fragments!Idle
<1> HIDE DEF o
<1>4. First(o) \in o.todo /\ turn \in Fragments!Provider
    BY <1>1, <1>3, FirstIsLeft DEF Finds
<1>5. /\ DOMAIN selected = Fragments!Provider
      /\ \A p \in Fragments!Provider : p # turn => selected[p] = o.selected[p]
      /\ Fragments!Usable(stored[turn], fragmentNow) => selected[turn] # None
  <2> HIDE DEF turn
  <2>1. DOMAIN o.selected = Fragments!Provider
      BY <1>3 DEF Finds
  <2> QED BY <1>4, <2>1 DEF Fragments!Usable
<1> HIDE DEF selected
<1>6. /\ DOMAIN r = {"pc", "req", "given", "read", "todo", "selected"}
      /\ r.pc = "turn" /\ r.todo = o.todo \ {First(o)} /\ r.selected = selected
    BY <1>1, <1>3 DEF Finds
<1> HIDE DEF r
<1>7. ASSUME NEW p \in published, Fragments!Usable(stored[p], fragmentNow)
      PROVE  r.selected[p] # None \/ \E i \in r.todo : Providers[i] = p
  <2>1. p \in Fragments!Provider
      BY DEF FragmentInv
  <2>2. CASE p = turn
      BY <1>5, <1>6, <1>7, <2>2
  <2>3. CASE p # turn
      BY <1>3, <1>5, <1>6, <1>7, <2>1, <2>3 DEF Finds
  <2> QED BY <2>2, <2>3
<1>8. Finds(r, stored, index, published, fragmentNow)
    BY <1>3, <1>5, <1>6, <1>7 DEF Finds
<1> QED BY <1>1, <1>2, <1>8, OneCallGoesOn DEF FragmentInv

\* What a call of aggregate_fragments finds stored, published and in force is in what it
\* routes on, for any number of providers and whatever they answer, and wherever earlier
\* calls died, as long as one call runs at a time: the index is written without a lock.
THEOREM StoredFragmentsAreFound ==
    ASSUME \A c, d \in Aggregators : c = d
    PROVE  PartSpec => StoredIsFound
<1>1. PartInit => FragmentInv
  <2> SUFFICES ASSUME Fragments!Init PROVE FragmentInv
      BY DEF PartInit
  <2> QED BY DEF Fragments!Init, FragmentInv
<1>2. FragmentInv /\ [Fragments!Next]_(Fragments!vars) => FragmentInv'
  <2> SUFFICES ASSUME FragmentInv, [Fragments!Next]_(Fragments!vars) PROVE FragmentInv'
      OBVIOUS
  <2>1. CASE UNCHANGED Fragments!vars
      BY <2>1 DEF FragmentInv, Fragments!vars
  <2>2. CASE Fragments!Tick
      BY <2>2 DEF FragmentInv, Fragments!Tick
  <2>3. ASSUME NEW c \in Aggregators, Fragments!Aggregates(c) PROVE FragmentInv'
    <3>1. CASE Fragments!Route(c) \/ Fragments!Crash(c)
      <4>1. /\ fragmentAt' = [fragmentAt EXCEPT ![c] = Fragments!Idle]
            /\ UNCHANGED <<stored, index, published>>
          BY <3>1 DEF Fragments!Route, Fragments!Crash
      <4> QED BY <4>1, OneCallGoesOn DEF FragmentInv
    <3> QED BY <2>3, <3>1, FragmentBegins, FragmentTaken, IndexRead, IndexWritten,
               FragmentFallsBack DEF Fragments!Aggregates
  <2> QED BY <2>1, <2>2, <2>3 DEF Fragments!Next
<1>3. FragmentInv => \A c \in Aggregators : Fragments!Route(c) =>
         \A p \in published : Fragments!Usable(stored[p], fragmentNow)
            => fragmentAt[c].selected[p] # None
    BY DEF FragmentInv, Fragments!Route, Fragments!Idle, Finds
<1>4. FragmentInv /\ [PartNext]_allVars => FragmentInv'
    BY <1>2, PartSteps
<1> QED BY <1>1, <1>3, <1>4, PTL DEF PartSpec, StoredIsFound, Fragments!StoredIsFound

-----------------------------------------------------------------------------
(* Rule context cache: a snapshot is one worktree.  What both passes of a    *)
(* snapshot agree on did not change between them, for versions only grow and *)
(* no content returns.                                                       *)

LEMMA Elements ==
    ASSUME NEW S \in SUBSET Paths
    PROVE  Rules!SetToSeq(S) \in Seq(Paths) /\ Rules!ToSet(Rules!SetToSeq(S)) = S
<1> DEFINE n == Cardinality(S)
<1> DEFINE s == Rules!SetToSeq(S)
<1>1. IsFiniteSet(Paths) /\ Rules!Cardinality(S) = n
    BY RecordAssumption DEF Rules!RecordAssumption, Rules!IsFiniteSet, IsFiniteSet,
                            Rules!Cardinality, Cardinality
<1>2. IsFiniteSet(S)
    BY <1>1, FS_Subset
<1>3. n \in Nat /\ ExistsBijection(1..n, S)
    BY <1>2, FS_CardinalityType
<1>4. \E f \in [1..n -> S] : Rules!IsInjective(f)
    BY <1>3 DEF ExistsBijection, Bijection, Injection, IsInjective, Rules!IsInjective
<1>5. s \in [1..n -> S] /\ Rules!IsInjective(s)
    BY <1>1, <1>4 DEF Rules!SetToSeq
<1> HIDE DEF s
<1>6. s \in Injection(1..n, S)
    BY <1>5 DEF Injection, IsInjective, Rules!IsInjective
<1>7. Cardinality(1..n) = n
    BY <1>3, FS_Interval
<1> HIDE DEF n
<1>8. s \in Surjection(1..n, S)
  <2>1. Cardinality(1..n) = Cardinality(S)
      BY <1>7 DEF n
  <2> QED BY <1>2, <1>6, <2>1, FS_Injection
<1>9. Rules!ToSet(s) = S
    BY <1>5, <1>8 DEF Surjection, Rules!ToSet
<1>10. s \in Seq(Paths)
  <2>1. s \in [1..n -> Paths]
      BY <1>5
  <2> QED BY <1>3, <2>1
<1> QED BY <1>9, <1>10 DEF s

LEMMA Queue ==
    ASSUME NEW s \in Seq(Paths), NEW u \in Seq(Paths)
    PROVE  /\ s \o u \in Seq(Paths)
           /\ Rules!ToSet(s \o u) = Rules!ToSet(s) \cup Rules!ToSet(u)
           /\ Rules!ToSet(s) \subseteq Paths
           /\ s # <<>> => /\ Head(s) \in Rules!ToSet(s) /\ Tail(s) \in Seq(Paths)
                         /\ Rules!ToSet(s) = {Head(s)} \cup Rules!ToSet(Tail(s))
<1> USE DEF Rules!ToSet
<1>1. s \o u \in Seq(Paths) /\ Rules!ToSet(s) \subseteq Paths
    OBVIOUS
<1>2. Rules!ToSet(s \o u) = Rules!ToSet(s) \cup Rules!ToSet(u)
  <2> DEFINE w == s \o u
  <2>1. /\ DOMAIN w = 1..Len(s) + Len(u)
        /\ \A i \in 1..Len(s) : w[i] = s[i] /\ i \in DOMAIN w
        /\ \A i \in 1..Len(u) : w[Len(s) + i] = u[i] /\ Len(s) + i \in DOMAIN w
      OBVIOUS
  <2>2. ASSUME NEW i \in DOMAIN w
        PROVE  w[i] \in Rules!ToSet(s) \cup Rules!ToSet(u)
      OBVIOUS
  <2>3. DOMAIN s = 1..Len(s) /\ DOMAIN u = 1..Len(u)
      OBVIOUS
  <2> HIDE DEF w
  <2>4. Rules!ToSet(w) \subseteq Rules!ToSet(s) \cup Rules!ToSet(u)
      BY <2>2
  <2>5. Rules!ToSet(s) \subseteq Rules!ToSet(w) /\ Rules!ToSet(u) \subseteq Rules!ToSet(w)
      BY <2>1, <2>3
  <2> QED BY <2>4, <2>5 DEF w
<1>3. ASSUME s # <<>>
      PROVE  /\ Head(s) \in Rules!ToSet(s) /\ Tail(s) \in Seq(Paths)
             /\ Rules!ToSet(s) = {Head(s)} \cup Rules!ToSet(Tail(s))
  <2> DEFINE w == Tail(s)
  <2>1. /\ Len(s) \in Nat \ {0} /\ Head(s) = s[1] /\ w \in Seq(Paths)
        /\ DOMAIN s = 1..Len(s) /\ DOMAIN w = 1..Len(s) - 1
      BY <1>3
  <2>2. \A i \in 1..Len(s) - 1 : w[i] = s[i + 1]
      BY <1>3
  <2> HIDE DEF w
  <2>3. ASSUME NEW i \in 1..Len(s), i # 1 PROVE i - 1 \in DOMAIN w /\ s[i] = w[i - 1]
    <3>1. i - 1 \in 1..Len(s) - 1 /\ (i - 1) + 1 = i
        BY <2>1, <2>3
    <3> QED BY <2>1, <2>2, <3>1
  <2>4. Rules!ToSet(w) \subseteq Rules!ToSet(s)
    <3> SUFFICES ASSUME NEW i \in DOMAIN w PROVE w[i] \in Rules!ToSet(s)
        OBVIOUS
    <3>1. i + 1 \in DOMAIN s /\ w[i] = s[i + 1]
        BY <2>1, <2>2
    <3> QED BY <3>1
  <2>5. Rules!ToSet(s) \subseteq {s[1]} \cup Rules!ToSet(w)
    <3> SUFFICES ASSUME NEW i \in DOMAIN s, i # 1 PROVE s[i] \in Rules!ToSet(w)
        OBVIOUS
    <3> QED BY <2>1, <2>3
  <2>6. s[1] \in Rules!ToSet(s)
      BY <2>1
  <2> QED BY <2>1, <2>4, <2>5, <2>6 DEF w
<1> QED BY <1>1, <1>2, <1>3

LEMMA InstructionIsPath ==
    ASSUME NEW files, NEW names \in Seq(Paths)
    PROVE  Rules!Instruction(files, names) \in Seq(Paths)
<1> DEFINE filled == {i \in DOMAIN names : Rules!NonEmpty(files[names[i]])}
<1>1. CASE filled = {}
    BY <1>1 DEF Rules!Instruction
<1>2. CASE filled # {}
  <2>1. filled \subseteq Nat
      OBVIOUS
  <2>2. Rules!Min(filled) \in filled
      BY <1>2, <2>1, LeastNatural DEF Rules!Min
  <2>3. Rules!Instruction(files, names) = <<names[Rules!Min(filled)]>>
      BY <1>2 DEF Rules!Instruction
  <2> QED BY <2>2, <2>3
<1> QED BY <1>1, <1>2

\* The chain over the first N directories.
Chained(f, N, files) ==
    [d \in 0..N |-> IF d = 0 THEN <<>>
                    ELSE f[d - 1] \o Rules!Instruction(files, Directories[d])]

LEMMA ChainDefined ==
    ASSUME NEW N \in Nat, NEW files
    PROVE  \E f : f = Chained(f, N, files)
<1> USE DEF Chained
<1> DEFINE solves(f, m) == f = Chained(f, m, files)
<1> DEFINE T == {m \in Nat : ~\E f : solves(f, m)}
<1> SUFFICES ASSUME T # {} PROVE FALSE
    OBVIOUS
<1>1. PICK m \in T : \A n \in T : m =< n
    BY LeastNatural
<1>2. m # 0
  <2> DEFINE f == [n \in 0..0 |-> <<>>]
  <2>1. solves(f, 0)
      OBVIOUS
  <2> HIDE DEF f, solves
  <2> QED BY <1>1, <2>1
<1>3. m - 1 \in Nat /\ m \in Nat /\ ~(m =< m - 1)
    BY <1>2
<1>4. PICK f : solves(f, m - 1)
  <2> HIDE DEF solves
  <2> QED BY <1>1, <1>3
<1> DEFINE add(n) == Rules!Instruction(files, Directories[n])
<1> DEFINE g == [n \in 0..m |-> IF n = m THEN f[m - 1] \o add(m) ELSE f[n]]
<1>5. \A n \in 0..m : g[n] = IF n = 0 THEN <<>> ELSE g[n - 1] \o add(n)
  <2> SUFFICES ASSUME NEW n \in 0..m
               PROVE  g[n] = IF n = 0 THEN <<>> ELSE g[n - 1] \o add(n)
      OBVIOUS
  <2>1. CASE n = m
    <3>1. m - 1 \in 0..m /\ m - 1 # m
        BY <1>3
    <3>2. g[m] = f[m - 1] \o add(m) /\ g[m - 1] = f[m - 1]
      <4> HIDE DEF add
      <4> QED BY <1>3, <3>1
    <3> HIDE DEF g, add
    <3> QED BY <1>2, <2>1, <3>2
  <2>2. CASE n # m
    <3>1. n \in 0..m - 1 /\ (n # 0 => n - 1 \in 0..m /\ n - 1 # m)
        BY <1>3, <2>2
    <3>2. f[n] = IF n = 0 THEN <<>> ELSE f[n - 1] \o add(n)
        BY <1>4, <3>1
    <3>3. g[n] = f[n] /\ (n # 0 => g[n - 1] = f[n - 1])
        BY <2>2, <3>1
    <3> HIDE DEF g, solves, add
    <3> QED BY <3>2, <3>3
  <2> QED BY <2>1, <2>2
<1>6. g = [n \in 0..m |-> IF n = 0 THEN <<>> ELSE g[n - 1] \o add(n)]
  <2>1. g = [n \in 0..m |-> g[n]]
      OBVIOUS
  <2> HIDE DEF g, add
  <2> QED BY <1>5, <2>1
<1>7. solves(g, m)
  <2> HIDE DEF g
  <2> QED BY <1>6
<1> HIDE DEF g, solves
<1> QED BY <1>1, <1>7

LEMMA ChainIsSeq == ASSUME NEW files PROVE Rules!Chain(files) \in Seq(Paths)
<1> DEFINE N == Len(Directories)
<1> DEFINE F == CHOOSE f : f = Chained(f, N, files)
<1>0. N \in Nat /\ \A d \in 1..N : Directories[d] \in Seq(Paths)
    BY RecordAssumption DEF Rules!RecordAssumption
<1>1. Rules!Chain(files) = F[N]
    BY DEF Rules!Chain, Chained
<1> HIDE DEF N
<1>2. F = Chained(F, N, files)
  <2>1. \E f : f = Chained(f, N, files)
      BY <1>0, ChainDefined
  <2> QED BY <2>1
<1> HIDE DEF F
<1>3. \A n \in 0..N : F[n] = IF n = 0 THEN <<>>
                             ELSE F[n - 1] \o Rules!Instruction(files, Directories[n])
  <2> DEFINE c == Chained(F, N, files)
  <2>1. \A n \in 0..N : c[n] = IF n = 0 THEN <<>>
                               ELSE F[n - 1] \o Rules!Instruction(files, Directories[n])
      BY DEF Chained
  <2> HIDE DEF c
  <2>2. F = c
      BY <1>2 DEF c
  <2> QED BY <2>1, <2>2
<1> DEFINE T == {n \in 0..N : F[n] \notin Seq(Paths)}
<1>4. T = {}
  <2> SUFFICES ASSUME T # {} PROVE FALSE
      OBVIOUS
  <2>1. PICK m \in T : \A n \in T : m =< n
    <3>1. T \subseteq Nat
        BY <1>0
    <3> QED BY <3>1, LeastNatural
  <2>2. m # 0 /\ m \in 1..N
    <3>1. F[0] = <<>> /\ <<>> \in Seq(Paths)
        BY <1>0, <1>3
    <3>2. F[0] \in Seq(Paths)
        BY <3>1
    <3> QED BY <1>0, <2>1, <3>2
  <2>3. m - 1 \in 0..N /\ ~(m =< m - 1)
      BY <1>0, <2>2
  <2>4. F[m - 1] \in Seq(Paths) /\ Rules!Instruction(files, Directories[m]) \in Seq(Paths)
      BY <1>0, <2>1, <2>2, <2>3, InstructionIsPath
  <2>5. F[m] = F[m - 1] \o Rules!Instruction(files, Directories[m])
      BY <1>3, <2>2
  <2>6. F[m] \in Seq(Paths)
      BY <2>4, <2>5
  <2> QED BY <2>6
<1>5. N \in 0..N
    BY <1>0
<1> QED BY <1>1, <1>4, <1>5

-----------------------------------------------------------------------------
(* Worktrees.  No version comes back, in the files, in the index or in HEAD. *)

Content(w, q) == Versions[q][w.version[q]]
Files(w) == [q \in Paths |-> Content(w, q)]
GitOf(w, q) == Rules!GitState(w.version, w.index, w.head, q)
\* An editor does not restore what a file held before.
NothingReturns ==
    \A q \in Paths : \A m, n \in DOMAIN Versions[q] :
        LET old == Versions[q][m]
            new == Versions[q][n]
        IN  old.present /\ new.present /\ old.text = new.text /\ old.eol = new.eol => m = n

NoLater(v, w) ==
    \A q \in Paths : /\ v.version[q] =< w.version[q]
                     /\ v.index[q] =< w.index[q] /\ v.head[q] =< w.head[q]
Worktree(w) ==
    /\ w.version = [q \in Paths |-> w.version[q]] /\ w.index = [q \in Paths |-> w.index[q]]
    /\ w.head = [q \in Paths |-> w.head[q]]
    /\ \A q \in Paths : /\ w.version[q] \in DOMAIN Versions[q]
                        /\ w.index[q] \in Nat /\ w.head[q] \in Nat
                        /\ w.head[q] =< w.index[q] /\ w.index[q] =< w.version[q]
\* A history, the current worktree last.
Histories(H) ==
    /\ Len(H) \in Nat \ {0} /\ H = [i \in 1..Len(H) |-> H[i]]
    /\ \A i \in 1..Len(H) : Worktree(H[i])
    /\ \A i, j \in 1..Len(H) : i =< j => NoLater(H[i], H[j])
HistoryInv ==
    /\ Histories(history)
    /\ version = history[Len(history)].version /\ gitIndex = history[Len(history)].index
    /\ head = history[Len(history)].head
Grown(H, G) ==
    /\ Len(H) \in Nat /\ Len(G) \in Nat /\ Len(H) =< Len(G)
    /\ \A i \in 1..Len(H) : G[i] = H[i]

LEMMA Positions == \A q \in Paths : DOMAIN Versions[q] \subseteq Nat
BY CacheAssumption DEF Rules!CacheAssumption

LEMMA Itself == ASSUME NEW w, Worktree(w) PROVE NoLater(w, w)
<1>1. \A q \in Paths : w.version[q] \in Nat /\ w.index[q] \in Nat /\ w.head[q] \in Nat
    BY Positions DEF Worktree
<1> QED BY <1>1 DEF NoLater

LEMMA Sooner ==
    ASSUME NEW u, NEW v, NEW w, Worktree(u), Worktree(v), Worktree(w),
           NoLater(u, v), NoLater(v, w)
    PROVE  NoLater(u, w)
<1>1. \A x, y, z \in Nat : x =< y /\ y =< z => x =< z
    OBVIOUS
<1>2. \A q \in Paths :
         /\ u.version[q] \in Nat /\ u.index[q] \in Nat /\ u.head[q] \in Nat
         /\ v.version[q] \in Nat /\ v.index[q] \in Nat /\ v.head[q] \in Nat
         /\ w.version[q] \in Nat /\ w.index[q] \in Nat /\ w.head[q] \in Nat
    BY Positions DEF Worktree
<1> QED BY <1>1, <1>2 DEF NoLater

\* A later worktree is appended.
LEMMA HistoryGrows ==
    ASSUME NEW H, Histories(H), NEW w, Worktree(w), NoLater(H[Len(H)], w)
    PROVE  /\ Histories(Append(H, w)) /\ Grown(H, Append(H, w))
           /\ Append(H, w)[Len(Append(H, w))] = w
<1> DEFINE n == Len(H)
<1> DEFINE G == Append(H, w)
<1>1. n \in Nat \ {0} /\ H = [i \in 1..n |-> H[i]]
    BY DEF Histories
<1>2. /\ Len(G) = n + 1 /\ G = [i \in 1..n + 1 |-> G[i]] /\ G[n + 1] = w
      /\ \A i \in 1..n : G[i] = H[i]
    BY <1>1, AppendOne
<1> HIDE DEF G, n
<1>3. \A i \in 1..n + 1 : i = n + 1 \/ i \in 1..n
    BY <1>1
<1>4. \A i \in 1..n + 1 : Worktree(G[i])
    BY <1>2, <1>3 DEF Histories, n
<1>5. ASSUME NEW i \in 1..n + 1, NEW j \in 1..n + 1, i =< j PROVE NoLater(G[i], G[j])
  <2>1. CASE j \in 1..n
    <3>1. i \in 1..n
        BY <1>1, <1>5, <2>1
    <3> QED BY <1>2, <1>5, <2>1, <3>1 DEF Histories, n
  <2>2. CASE j = n + 1 /\ i = n + 1
    <3>1. NoLater(w, w)
        BY Itself
    <3> QED BY <1>2, <2>2, <3>1
  <2>3. CASE j = n + 1 /\ i \in 1..n
    <3>1. NoLater(H[i], H[n]) /\ Worktree(H[i]) /\ Worktree(H[n])
        BY <1>1, <2>3 DEF Histories, n
    <3>2. NoLater(H[n], w)
        BY DEF n
    <3>3. NoLater(H[i], w)
        BY <3>1, <3>2, Sooner
    <3> QED BY <1>2, <2>3, <3>3
  <2> QED BY <1>3, <1>5, <2>1, <2>2, <2>3
<1>6. Histories(G)
    BY <1>1, <1>2, <1>4, <1>5 DEF Histories
<1>7. Grown(H, G)
  <2>1. Len(H) = n /\ n \in Nat /\ Len(G) = n + 1
      BY <1>1, <1>2 DEF n
  <2>2. \A i \in 1..n : G[i] = H[i]
      BY <1>2
  <2> QED BY <2>1, <2>2 DEF Grown
<1> QED BY <1>2, <1>6, <1>7 DEF G

-----------------------------------------------------------------------------
(* A source is read for its bytes, and then for its git state.               *)

\* f was read of q somewhere from lo to hi; Taken: its git state is still to come.
ReadAt(f, q, H, lo, hi) ==
    \E j, k \in lo..hi :
        /\ j =< k /\ Content(H[j], q).present
        /\ f = Rules!Fingerprint(f.kind, Content(H[j], q), GitOf(H[k], q), f.dependencies)
Taken(f, q, H, lo) ==
    \E j \in lo..Len(H) :
        /\ Content(H[j], q).present
        /\ f = Rules!Fingerprint(f.kind, Content(H[j], q), Rules!NoGit, f.dependencies)

LEMMA Wider ==
    ASSUME NEW H, NEW G, Grown(H, G), NEW lo \in 1..Len(H), NEW hi \in lo..Len(H),
           NEW high \in hi..Len(G), NEW f, NEW q, ReadAt(f, q, H, lo, hi)
    PROVE  ReadAt(f, q, G, lo, high)
<1>1. PICK j \in lo..hi, k \in lo..hi :
         /\ j =< k /\ Content(H[j], q).present
         /\ f = Rules!Fingerprint(f.kind, Content(H[j], q), GitOf(H[k], q), f.dependencies)
    BY DEF ReadAt
<1>2. j \in lo..high /\ k \in lo..high /\ G[j] = H[j] /\ G[k] = H[k]
    BY DEF Grown
<1> QED BY <1>1, <1>2 DEF ReadAt

LEMMA StillTaken ==
    ASSUME NEW H, NEW G, Grown(H, G), NEW lo \in 1..Len(H), NEW f, NEW q, Taken(f, q, H, lo)
    PROVE  Taken(f, q, G, lo)
<1>1. PICK j \in lo..Len(H) :
         /\ Content(H[j], q).present
         /\ f = Rules!Fingerprint(f.kind, Content(H[j], q), Rules!NoGit, f.dependencies)
    BY DEF Taken
<1>2. j \in lo..Len(G) /\ G[j] = H[j]
    BY DEF Grown
<1> QED BY <1>1, <1>2 DEF Taken

LEMMA Prints ==
    ASSUME NEW kind, NEW content, NEW git, NEW deps,
           NEW f, f = Rules!Fingerprint(kind, content, git, deps)
    PROVE  /\ f.kind = kind /\ f.git = git /\ f.dependencies = deps
           /\ f.raw = <<content.text, content.eol>>
           /\ \A new : [f EXCEPT !.git = new] = Rules!Fingerprint(kind, content, new, deps)
BY DEF Rules!Fingerprint

LEMMA GitParts ==
    ASSUME NEW v, NEW w, NEW q
    PROVE  /\ GitOf(v, q) # Rules!NoGit
           /\ GitOf(v, q) = GitOf(w, q) => v.head[q] = w.head[q] /\ v.index[q] = w.index[q]
           /\ v.head[q] = w.head[q] /\ v.index[q] = w.index[q] /\ v.version[q] = w.version[q]
                => GitOf(v, q) = GitOf(w, q)
<1>1. \A w1 : GitOf(w1, q).head = w1.head[q] /\ GitOf(w1, q).index = w1.index[q]
    BY DEF GitOf, Rules!GitState
<1>2. GitOf(v, q) # Rules!NoGit
  <2>1. "index" \in DOMAIN GitOf(v, q) /\ "index" \notin DOMAIN Rules!NoGit
      BY DEF GitOf, Rules!GitState, Rules!NoGit
  <2> QED BY <2>1
<1>3. v.head[q] = w.head[q] /\ v.index[q] = w.index[q] /\ v.version[q] = w.version[q]
        => GitOf(v, q) = GitOf(w, q)
    BY DEF GitOf, Rules!GitState
<1> QED BY <1>1, <1>2, <1>3

\* What two readings agree on, one before i and one after e, held from i to e.
LEMMA Between ==
    ASSUME NothingReturns, NEW H, Histories(H), NEW q \in Paths, NEW f,
           NEW lo \in 1..Len(H), NEW i \in lo..Len(H), NEW e \in i..Len(H),
           ReadAt(f, q, H, lo, i), ReadAt(f, q, H, e, Len(H))
    PROVE  /\ f = Rules!Fingerprint(f.kind, Content(H[i], q), GitOf(H[i], q), f.dependencies)
           /\ H[e].version[q] = H[i].version[q] /\ Content(H[i], q).present
<1> DEFINE n == Len(H)
<1>0. n \in Nat
    BY DEF Histories
<1>1. PICK j1 \in lo..i, k1 \in lo..i :
         /\ j1 =< k1 /\ Content(H[j1], q).present
         /\ f = Rules!Fingerprint(f.kind, Content(H[j1], q), GitOf(H[k1], q), f.dependencies)
    BY DEF ReadAt
<1>2. PICK j2 \in e..n, k2 \in e..n :
         /\ j2 =< k2 /\ Content(H[j2], q).present
         /\ f = Rules!Fingerprint(f.kind, Content(H[j2], q), GitOf(H[k2], q), f.dependencies)
    BY DEF ReadAt
<1>3. /\ j1 \in 1..n /\ k1 \in 1..n /\ i \in 1..n /\ e \in 1..n /\ j2 \in 1..n /\ k2 \in 1..n
      /\ j1 =< k1 /\ k1 =< i /\ i =< e /\ e =< j2 /\ i =< k2
  <2>1. lo \in 1..n /\ i \in lo..n /\ e \in i..n
      OBVIOUS
  <2> HIDE DEF n
  <2>2. lo \in Int /\ i \in Int /\ e \in Int /\ 1 =< lo /\ lo =< i /\ i =< e /\ e =< n
      BY <1>0, <2>1
  <2>3. /\ j1 \in Int /\ k1 \in Int /\ lo =< j1 /\ j1 =< k1 /\ k1 =< i
        /\ j2 \in Int /\ k2 \in Int /\ e =< j2 /\ j2 =< n /\ e =< k2 /\ k2 =< n
      BY <1>0, <1>1, <1>2, <2>2
  <2>4. j1 \in 1..n /\ k1 \in 1..n /\ i \in 1..n /\ e \in 1..n
      BY <1>0, <2>2, <2>3
  <2>5. j2 \in 1..n /\ k2 \in 1..n /\ i =< k2
      BY <1>0, <2>2, <2>3
  <2> QED BY <2>2, <2>3, <2>4, <2>5
<1>4. \A x \in 1..n : /\ H[x].version[q] \in DOMAIN Versions[q] /\ H[x].version[q] \in Nat
                      /\ H[x].index[q] \in Nat /\ H[x].head[q] \in Nat
    BY Positions DEF Histories, Worktree, n
<1>5. \A x, y \in 1..n : x =< y => /\ H[x].version[q] =< H[y].version[q]
                                   /\ H[x].index[q] =< H[y].index[q]
                                   /\ H[x].head[q] =< H[y].head[q]
    BY DEF Histories, NoLater, n
<1>6. H[j1].version[q] = H[j2].version[q]
  <2>1. /\ f.raw = <<Content(H[j1], q).text, Content(H[j1], q).eol>>
        /\ f.raw = <<Content(H[j2], q).text, Content(H[j2], q).eol>>
      BY <1>1, <1>2, Prints
  <2>2. /\ Content(H[j1], q).text = Content(H[j2], q).text
        /\ Content(H[j1], q).eol = Content(H[j2], q).eol
      BY <2>1
  <2> QED BY <1>1, <1>2, <1>3, <1>4, <2>2 DEF NothingReturns, Content
<1>7. GitOf(H[k1], q) = GitOf(H[k2], q)
    BY <1>1, <1>2, Prints
<1>8. H[k1].head[q] = H[k2].head[q] /\ H[k1].index[q] = H[k2].index[q]
    BY <1>7, GitParts
<1> DEFINE x(m) == H[m].version[q]
<1> DEFINE y(m) == H[m].index[q]
<1> DEFINE z(m) == H[m].head[q]
<1>9. x(k1) = x(i) /\ x(i) = x(e) /\ x(j1) = x(i)
  <2>1. x(j1) =< x(k1) /\ x(k1) =< x(i) /\ x(i) =< x(e) /\ x(e) =< x(j2)
      BY <1>3, <1>5
  <2>2. /\ x(j1) \in Nat /\ x(k1) \in Nat /\ x(i) \in Nat /\ x(e) \in Nat /\ x(j2) \in Nat
        /\ x(j1) = x(j2)
      BY <1>3, <1>4, <1>6
  <2> HIDE DEF x
  <2> QED BY <2>1, <2>2
<1>10. y(k1) = y(i) /\ z(k1) = z(i)
  <2>1. y(k1) =< y(i) /\ y(i) =< y(k2) /\ z(k1) =< z(i) /\ z(i) =< z(k2)
      BY <1>3, <1>5
  <2>2. /\ y(k1) \in Nat /\ y(i) \in Nat /\ y(k2) \in Nat /\ y(k1) = y(k2)
        /\ z(k1) \in Nat /\ z(i) \in Nat /\ z(k2) \in Nat /\ z(k1) = z(k2)
      BY <1>3, <1>4, <1>8
  <2> HIDE DEF y, z
  <2> QED BY <2>1, <2>2
<1>11. Content(H[j1], q) = Content(H[i], q)
    BY <1>9 DEF Content
<1>12. GitOf(H[k1], q) = GitOf(H[i], q)
    BY <1>9, <1>10, GitParts
<1> QED BY <1>1, <1>9, <1>11, <1>12

\* What can be discovered: the least set with the chain and the extra rules that its
\* members' references do not leave.
Start(files, p) == Rules!ToSet(Rules!Chain(files)) \cup Options[p].extra

LEMMA DiscoveryIsClosed ==
    ASSUME NEW files, NEW p, Start(files, p) \subseteq Paths,
           \A q \in Paths : Rules!References(files[q]) \subseteq Paths
    PROVE  LET D == Rules!Discoverable(files, p)
           IN  /\ Start(files, p) \subseteq D /\ D \subseteq Paths
               /\ \A q \in D : Rules!References(files[q]) \subseteq D
<1> DEFINE refs == [q \in Paths |-> Rules!References(files[q])]
<1> DEFINE start == Start(files, p)
<1> DEFINE D == Rules!Discoverable(files, p)
<1>1. D = start \cup UNION {Rules!Reach(refs, q) : q \in start}
    BY DEF Rules!Discoverable, Start
<1>2. DOMAIN refs = Paths /\ \A q \in Paths : refs[q] = Rules!References(files[q])
    OBVIOUS
<1>3. start \subseteq Paths /\ \A q \in Paths : refs[q] \subseteq Paths
    BY <1>2
<1> HIDE DEF refs, start, D
<1>4. \A s : Rules!Reach(refs, s) =
               {q \in Paths \ {s} : \A S \in SUBSET Paths :
                   refs[s] \subseteq S /\ Rules!ClosedUnder(refs, S) => q \in S}
    BY <1>2 DEF Rules!Reach
<1>5. D \subseteq Paths
    BY <1>1, <1>3, <1>4
<1>6. ASSUME NEW q \in D, NEW r \in refs[q] PROVE r \in D
  <2>1. r \in Paths
      BY <1>3, <1>5, <1>6
  <2>2. CASE q \in start
    <3>1. r = q \/ r \in Rules!Reach(refs, q)
        BY <1>4, <1>6, <2>1
    <3> QED BY <1>1, <2>2, <3>1
  <2>3. CASE q \notin start
    <3>1. PICK s \in start : q \in Rules!Reach(refs, s)
        BY <1>1, <1>6, <2>3
    <3>2. ASSUME NEW S \in SUBSET Paths, refs[s] \subseteq S, Rules!ClosedUnder(refs, S)
          PROVE  r \in S
      <4>1. q \in S
          BY <1>4, <3>1, <3>2
      <4> QED BY <1>6, <3>2, <4>1 DEF Rules!ClosedUnder
    <3>3. r = s \/ r \in Rules!Reach(refs, s)
        BY <1>4, <2>1, <3>2
    <3> QED BY <1>1, <3>1, <3>3
  <2> QED BY <2>2, <2>3
<1> QED BY <1>1, <1>2, <1>5, <1>6 DEF D, start

LEMMA DiscoveryIsLeast ==
    ASSUME NEW files, NEW p, NEW D \in SUBSET Paths, Start(files, p) \subseteq D,
           \A q \in D : Rules!References(files[q]) \subseteq D
    PROVE  Rules!Discoverable(files, p) \subseteq D
<1> DEFINE refs == [q \in Paths |-> Rules!References(files[q])]
<1> DEFINE start == Start(files, p)
<1>1. Rules!Discoverable(files, p) = start \cup UNION {Rules!Reach(refs, q) : q \in start}
    BY DEF Rules!Discoverable, Start
<1>2. DOMAIN refs = Paths /\ \A q \in D : refs[q] \subseteq D
    OBVIOUS
<1>3. start \subseteq D
    OBVIOUS
<1> HIDE DEF refs, start
<1>4. ASSUME NEW s \in start, NEW q \in Rules!Reach(refs, s) PROVE q \in D
  <2>1. refs[s] \subseteq D /\ Rules!ClosedUnder(refs, D)
      BY <1>2, <1>3 DEF Rules!ClosedUnder
  <2>2. D \in SUBSET DOMAIN refs
      BY <1>2
  <2> QED BY <1>4, <2>1, <2>2 DEF Rules!Reach
<1> QED BY <1>1, <1>3, <1>4

LEMMA FilesOf ==
    ASSUME NEW w, Worktree(w), NEW p \in Processes
    PROVE  /\ \A q \in Paths : /\ Files(w)[q] = Content(w, q)
                               /\ Rules!References(Content(w, q)) \subseteq Paths
           /\ Start(Files(w), p) \subseteq Paths /\ Options[p].extra \subseteq Paths
<1>1. \A q \in Paths : Rules!References(Content(w, q)) \subseteq Paths
    BY CacheAssumption DEF Rules!CacheAssumption, Worktree, Content, Rules!References
<1>2. Options[p].extra \subseteq Paths
    BY CacheAssumption DEF Rules!CacheAssumption
<1>3. Rules!ToSet(Rules!Chain(Files(w))) \subseteq Paths
    BY ChainIsSeq, Queue
<1> QED BY <1>1, <1>2, <1>3 DEF Files, Start

-----------------------------------------------------------------------------
(* One pass, as it stands: the chain was listed at i, and the discovery has  *)
(* followed the references until e.                                          *)

KindIn(chain, q) == IF q \in Rules!ToSet(chain) THEN "instruction" ELSE "rule"
Kept(H, i, e, q) == H[e].version[q] = H[i].version[q]

Listed(a, H, i) ==
    /\ a.chain = Rules!Chain(Files(H[i])) /\ a.queue \in Seq(Paths)
    /\ Rules!ToSet(a.chain) \subseteq DOMAIN a.graph /\ DOMAIN a.graph \subseteq Paths
    /\ DOMAIN a.graph = a.processed \cup Rules!ToSet(a.queue)
    /\ \A q \in DOMAIN a.graph \ a.processed : a.graph[q] = {}
FirstSeen(a, H, hi) ==
    a.first # Rules!NoRecord =>
        \A q \in DOMAIN a.first.sources : ReadAt(a.first.sources[q], q, H, a.since, hi)
SourceRead(f, q, H, e) ==
    IF f.git = Rules!NoGit THEN Taken(f, q, H, e) ELSE ReadAt(f, q, H, e, Len(H))
SourcesRead(a, H, e) ==
    /\ a.sources = [q \in DOMAIN a.sources |-> a.sources[q]]
    /\ DOMAIN a.sources \subseteq DOMAIN a.graph
    /\ a.queue # <<>> => DOMAIN a.sources = {} /\ a.pc = "pass"
    /\ \A q \in DOMAIN a.sources :
          /\ SourceRead(a.sources[q], q, H, e)
          /\ a.sources[q].kind = KindIn(a.chain, q)
          /\ a.sources[q].dependencies = a.graph[q]
    /\ a.pc = "pass" => \A q \in DOMAIN a.sources : a.sources[q].git # Rules!NoGit
    /\ a.pc = "git" => \E q \in DOMAIN a.sources :
                           /\ a.sources[q].git = Rules!NoGit
                           /\ \A r \in DOMAIN a.sources \ {q} :
                                 a.sources[r].git # Rules!NoGit
\* What has no reason against it, and is as it was at i, names what it named at i.
Followed(p, a, H, i, e) ==
    a.reasons = {} =>
        /\ Rules!ChainReasons(Files(H[i]), Options[p].limit) = {}
        /\ \A q \in Options[p].extra : Content(H[i], q).present /\ q \in DOMAIN a.graph
        /\ \A q \in a.processed :
              /\ a.graph[q] \subseteq DOMAIN a.graph
              /\ Kept(H, i, e, q) =>
                    /\ a.graph[q] = Rules!References(Content(H[i], q))
                    /\ q \in Rules!ToSet(a.chain) => Content(H[i], q).utf8
                    /\ Content(H[i], q).utf8 => ~Content(H[i], q).broken
        /\ (\A q \in a.processed : Kept(H, i, e, q)) =>
              DOMAIN a.graph \subseteq Rules!Discoverable(Files(H[i]), p)
PassSound(p, a, H, i, e) ==
    Listed(a, H, i) /\ FirstSeen(a, H, i) /\ SourcesRead(a, H, e) /\ Followed(p, a, H, i, e)

\* _instruction_chain
LEMMA ChainListed ==
    ASSUME NEW H, Histories(H), NEW p \in Processes, NEW n, n = Len(H),
           NEW a, FirstSeen(a, H, n), a.sources = <<>>,
           NEW extra, extra = {q \in Options[p].extra \ Rules!ToSet(Rules!Chain(Files(H[n]))) :
                                  Files(H[n])[q].present},
           NEW b, b.pc = "pass", b.first = a.first, b.since = a.since, b.sources = a.sources,
           b.chain = Rules!Chain(Files(H[n])),
           b.queue = b.chain \o Rules!SetToSeq(extra), b.processed = {},
           b.graph = [q \in Rules!ToSet(b.chain) \cup extra |-> {}],
           b.reasons = Rules!ChainReasons(Files(H[n]), Options[p].limit)
                          \cup (IF \E q \in Options[p].extra : ~Files(H[n])[q].present
                                  THEN {"UNRESOLVED_REFERENCE"} ELSE {})
    PROVE  PassSound(p, b, H, n, n)
<1> DEFINE files == Files(H[n])
<1>1. Worktree(H[n]) /\ n \in 1..Len(H)
    BY DEF Histories
<1>2. /\ \A q \in Paths : files[q] = Content(H[n], q)
      /\ Options[p].extra \subseteq Paths /\ extra \subseteq Paths
    BY <1>1, FilesOf
<1>3. /\ b.chain \in Seq(Paths) /\ Rules!ToSet(b.chain) \subseteq Paths
      /\ b.queue \in Seq(Paths)
      /\ Rules!ToSet(b.queue) = Rules!ToSet(b.chain) \cup extra
    BY <1>2, ChainIsSeq, Elements, Queue
<1>4. Listed(b, H, n)
    BY <1>2, <1>3 DEF Listed
<1>5. SourcesRead(b, H, n)
  <2>1. b.sources = [q \in {} |-> b.sources[q]] /\ DOMAIN b.sources = {}
      OBVIOUS
  <2> QED BY <2>1 DEF SourcesRead
<1>6. FirstSeen(b, H, n)
    BY DEF FirstSeen
<1>7. Followed(p, b, H, n, n)
  <2> SUFFICES ASSUME b.reasons = {} PROVE Followed(p, b, H, n, n)
      BY DEF Followed
  <2>1. Rules!ChainReasons(files, Options[p].limit) = {}
      OBVIOUS
  <2>2. \A q \in Options[p].extra : files[q].present
    <3> HIDE DEF files
    <3> QED BY DEF files
  <2>3. \A q \in Options[p].extra : Content(H[n], q).present /\ q \in DOMAIN b.graph
      BY <1>2, <2>2
  <2>4. DOMAIN b.graph \subseteq Rules!Discoverable(files, p)
      BY <1>2 DEF Rules!Discoverable
  <2> QED BY <2>1, <2>3, <2>4 DEF Followed
<1> QED BY <1>4, <1>5, <1>6, <1>7 DEF PassSound

\* Looked at later, what is unchanged was unchanged before.
LEMMA KeptBefore ==
    ASSUME NEW H, Histories(H), NEW i \in 1..Len(H), NEW e \in i..Len(H), NEW q \in Paths,
           Kept(H, i, Len(H), q)
    PROVE  Kept(H, i, e, q)
<1>1. e \in 1..Len(H) /\ Len(H) \in 1..Len(H) /\ i =< e /\ e =< Len(H)
    BY DEF Histories
<1>2. /\ H[i].version[q] =< H[e].version[q] /\ H[e].version[q] =< H[Len(H)].version[q]
      /\ H[i].version[q] \in Nat /\ H[e].version[q] \in Nat
    BY <1>1, Positions DEF Histories, NoLater, Worktree
<1> QED BY <1>2 DEF Kept

\* _discover_sources has read the next source.
Advances(a, b, path, found, content) ==
    /\ path \in DOMAIN a.graph \ a.processed
    /\ b.processed = a.processed \cup {path} /\ b.chain = a.chain
    /\ DOMAIN b.graph = DOMAIN a.graph \cup found /\ b.graph[path] = found
    /\ \A q \in DOMAIN a.graph \ {path} : b.graph[q] = a.graph[q]
    /\ b.reasons = {} =>
          /\ a.reasons = {} /\ found = Rules!References(content)
          /\ path \in Rules!ToSet(a.chain) => content.utf8
          /\ content.utf8 => ~content.broken

LEMMA FollowedOn ==
    ASSUME NEW H, Histories(H), NEW p \in Processes, NEW n, n = Len(H),
           NEW i \in 1..n, NEW e \in i..n,
           NEW a, Listed(a, H, i), Followed(p, a, H, i, e),
           NEW path, NEW found, NEW b, Advances(a, b, path, found, Content(H[n], path))
    PROVE  Followed(p, b, H, i, n)
<1> USE DEF Advances
<1> SUFFICES ASSUME b.reasons = {} PROVE Followed(p, b, H, i, n)
    BY DEF Followed
<1> DEFINE D == Rules!Discoverable(Files(H[i]), p)
<1>1. /\ Rules!ChainReasons(Files(H[i]), Options[p].limit) = {}
      /\ \A q \in Options[p].extra : Content(H[i], q).present /\ q \in DOMAIN a.graph
      /\ \A q \in a.processed :
            /\ a.graph[q] \subseteq DOMAIN a.graph
            /\ Kept(H, i, e, q) =>
                  /\ a.graph[q] = Rules!References(Content(H[i], q))
                  /\ q \in Rules!ToSet(a.chain) => Content(H[i], q).utf8
                  /\ Content(H[i], q).utf8 => ~Content(H[i], q).broken
      /\ (\A q \in a.processed : Kept(H, i, e, q)) => DOMAIN a.graph \subseteq D
    BY DEF Followed
<1>2. /\ DOMAIN a.graph \subseteq Paths /\ a.processed \subseteq DOMAIN a.graph
      /\ path \in Paths
    BY DEF Listed
<1>3. \A q \in a.processed : Kept(H, i, n, q) => Kept(H, i, e, q)
    BY <1>2, KeptBefore
<1>4. Kept(H, i, n, path) => Content(H[n], path) = Content(H[i], path)
    BY DEF Kept, Content
<1>5. Worktree(H[i])
    BY DEF Histories
<1> HIDE DEF D
<1>6. ASSUME NEW q \in b.processed
      PROVE  /\ b.graph[q] \subseteq DOMAIN b.graph
             /\ Kept(H, i, n, q) =>
                   /\ b.graph[q] = Rules!References(Content(H[i], q))
                   /\ q \in Rules!ToSet(b.chain) => Content(H[i], q).utf8
                   /\ Content(H[i], q).utf8 => ~Content(H[i], q).broken
  <2>1. CASE q = path
      BY <1>4, <2>1
  <2>2. CASE q # path
      BY <1>1, <1>2, <1>3, <1>6, <2>2
  <2> QED BY <2>1, <2>2
<1>7. ASSUME \A q \in b.processed : Kept(H, i, n, q) PROVE DOMAIN b.graph \subseteq D
  <2>1. DOMAIN a.graph \subseteq D
      BY <1>1, <1>3, <1>7
  <2>2. found = Rules!References(Files(H[i])[path])
      BY <1>2, <1>4, <1>5, <1>7, FilesOf
  <2>3. \A q \in D : Rules!References(Files(H[i])[q]) \subseteq D
      BY <1>5, FilesOf, DiscoveryIsClosed DEF D
  <2> QED BY <2>1, <2>2, <2>3
<1> QED BY <1>1, <1>6, <1>7 DEF Followed, D

LEMMA SourceAgain ==
    ASSUME NEW H, NEW p, NEW i, NEW e, NEW a, PassSound(p, a, H, i, e),
           a.queue # <<>>, Head(a.queue) \in a.processed,
           NEW b, b.queue = Tail(a.queue), b.pc = a.pc, b.chain = a.chain,
           b.processed = a.processed, b.graph = a.graph, b.sources = a.sources,
           b.reasons = a.reasons, b.first = a.first, b.since = a.since
    PROVE  PassSound(p, b, H, i, e)
<1>1. /\ Tail(a.queue) \in Seq(Paths)
      /\ Rules!ToSet(a.queue) = {Head(a.queue)} \cup Rules!ToSet(Tail(a.queue))
    BY Queue DEF PassSound, Listed
<1>2. Listed(b, H, i)
    BY <1>1 DEF PassSound, Listed
<1>3. FirstSeen(b, H, i)
    BY DEF PassSound, FirstSeen
<1>4. SourcesRead(b, H, e)
    BY DEF PassSound, SourcesRead
<1>5. Followed(p, b, H, i, e)
    BY DEF PassSound, Followed
<1> QED BY <1>2, <1>3, <1>4, <1>5 DEF PassSound

\* A rule that is no text names nothing.
LEMMA SourceSkipped ==
    ASSUME NEW H, Histories(H), NEW p \in Processes, NEW n, n = Len(H),
           NEW i \in 1..n, NEW e \in i..n,
           NEW a, PassSound(p, a, H, i, e),
           NEW path, a.queue # <<>>, path = Head(a.queue), path \notin a.processed,
           ~Content(H[n], path).utf8,
           NEW b, b.queue = Tail(a.queue), b.pc = a.pc, b.chain = a.chain,
           b.processed = a.processed \cup {path}, b.graph = a.graph, b.sources = a.sources,
           b.reasons = {} => a.reasons = {} /\ path \notin Rules!ToSet(a.chain),
           b.first = a.first, b.since = a.since
    PROVE  PassSound(p, b, H, i, n)
<1>1. /\ Tail(a.queue) \in Seq(Paths)
      /\ Rules!ToSet(a.queue) = {path} \cup Rules!ToSet(Tail(a.queue))
    BY Queue DEF PassSound, Listed
<1>2. Listed(b, H, i)
    BY <1>1 DEF PassSound, Listed
<1>3. FirstSeen(b, H, i)
    BY DEF PassSound, FirstSeen
<1>4. SourcesRead(b, H, n)
    BY DEF PassSound, SourcesRead
<1>5. path \in DOMAIN a.graph \ a.processed /\ a.graph[path] = {}
    BY <1>1 DEF PassSound, Listed
<1>6. Rules!References(Content(H[n], path)) = {}
    BY DEF Rules!References
<1>7. Followed(p, b, H, i, n)
  <2> DEFINE found == {}
  <2>1. Listed(a, H, i) /\ Followed(p, a, H, i, e)
      BY DEF PassSound
  <2>2. /\ DOMAIN b.graph = DOMAIN a.graph \cup found /\ b.graph[path] = found
        /\ \A q \in DOMAIN a.graph \ {path} : b.graph[q] = a.graph[q]
      BY <1>5
  <2>3. b.reasons = {} =>
           /\ a.reasons = {} /\ found = Rules!References(Content(H[n], path))
           /\ path \in Rules!ToSet(a.chain) => Content(H[n], path).utf8
           /\ Content(H[n], path).utf8 => ~Content(H[n], path).broken
      BY <1>6
  <2> HIDE DEF found
  <2>4. Advances(a, b, path, found, Content(H[n], path))
      BY <1>5, <2>2, <2>3 DEF Advances
  <2> QED BY <2>1, <2>4, FollowedOn
<1> QED BY <1>2, <1>3, <1>4, <1>7 DEF PassSound

Follows(a, b, path, w, found, new) ==
    /\ found = {q \in Rules!References(Content(w, path)) : Content(w, q).present}
    /\ new = found \ DOMAIN a.graph
    /\ b.queue = Tail(a.queue) \o Rules!SetToSeq(new)
    /\ b.graph = [q \in DOMAIN a.graph \cup new |->
                    IF q = path THEN found ELSE IF q \in new THEN {} ELSE a.graph[q]]
    /\ b.reasons = a.reasons
          \cup (IF Content(w, path).broken \/ found # Rules!References(Content(w, path))
                  THEN {"UNRESOLVED_REFERENCE"} ELSE {})

LEMMA SourceFollowed ==
    ASSUME NEW H, Histories(H), NEW p \in Processes, NEW n, n = Len(H),
           NEW i \in 1..n, NEW e \in i..n,
           NEW a, PassSound(p, a, H, i, e),
           NEW path, a.queue # <<>>, path = Head(a.queue), path \notin a.processed,
           Content(H[n], path).utf8,
           NEW found, NEW new, NEW b, Follows(a, b, path, H[n], found, new),
           b.pc = a.pc, b.chain = a.chain, b.processed = a.processed \cup {path},
           b.sources = a.sources, b.first = a.first, b.since = a.since
    PROVE  PassSound(p, b, H, i, n)
<1> USE DEF Follows
<1>1. /\ Tail(a.queue) \in Seq(Paths)
      /\ Rules!ToSet(a.queue) = {path} \cup Rules!ToSet(Tail(a.queue))
    BY Queue DEF PassSound, Listed
<1>2. path \in DOMAIN a.graph \ a.processed /\ DOMAIN a.graph \subseteq Paths
    BY <1>1 DEF PassSound, Listed
<1>3. Worktree(H[n])
    BY DEF Histories
<1>4. found \subseteq Paths /\ new \subseteq Paths
    BY <1>2, <1>3, FilesOf
<1>5. /\ b.queue \in Seq(Paths)
      /\ Rules!ToSet(b.queue) = Rules!ToSet(Tail(a.queue)) \cup new
  <2>1. Rules!SetToSeq(new) \in Seq(Paths) /\ Rules!ToSet(Rules!SetToSeq(new)) = new
      BY <1>4, Elements
  <2> DEFINE u == Rules!SetToSeq(new)
  <2>2. b.queue = Tail(a.queue) \o u /\ u \in Seq(Paths) /\ Rules!ToSet(u) = new
      BY <2>1
  <2> DEFINE w == Tail(a.queue)
  <2> HIDE DEF u
  <2>3. w \in Seq(Paths) /\ b.queue = w \o u
      BY <1>1, <2>2
  <2> HIDE DEF w
  <2>4. w \o u \in Seq(Paths) /\ Rules!ToSet(w \o u) = Rules!ToSet(w) \cup Rules!ToSet(u)
      BY <2>2, <2>3, Queue
  <2>5. Rules!ToSet(u) = new
      BY <2>2
  <2>6. b.queue \in Seq(Paths) /\ Rules!ToSet(b.queue) = Rules!ToSet(w) \cup new
      BY <2>3, <2>4, <2>5, Zenon
  <2> QED BY <2>6, Zenon DEF w
<1>6. /\ DOMAIN b.graph = DOMAIN a.graph \cup found
      /\ b.graph[path] = found
      /\ \A q \in DOMAIN a.graph \ {path} : b.graph[q] = a.graph[q]
      /\ \A q \in new : b.graph[q] = {} /\ q \notin DOMAIN a.graph
    BY <1>2
<1>7. Listed(b, H, i)
  <2>1. DOMAIN b.graph = b.processed \cup Rules!ToSet(b.queue)
      BY <1>1, <1>5, <1>6 DEF PassSound, Listed
  <2>2. ASSUME NEW q \in DOMAIN b.graph \ b.processed PROVE b.graph[q] = {}
    <3>1. CASE q \in DOMAIN a.graph
        BY <1>6, <2>2, <3>1 DEF PassSound, Listed
    <3>2. CASE q \notin DOMAIN a.graph
        BY <1>6, <2>2, <3>2
    <3> QED BY <3>1, <3>2
  <2>3. /\ b.chain = Rules!Chain(Files(H[i]))
        /\ Rules!ToSet(b.chain) \subseteq DOMAIN a.graph
      BY DEF PassSound, Listed
  <2> QED BY <1>2, <1>4, <1>5, <1>6, <2>1, <2>2, <2>3 DEF Listed
<1>8. FirstSeen(b, H, i)
    BY DEF PassSound, FirstSeen
<1>9. SourcesRead(b, H, n)
    BY DEF PassSound, SourcesRead
<1>10. b.reasons = {} =>
          /\ a.reasons = {} /\ found = Rules!References(Content(H[n], path))
          /\ ~Content(H[n], path).broken
    OBVIOUS
<1>11. Followed(p, b, H, i, n)
  <2>1. Listed(a, H, i) /\ Followed(p, a, H, i, e)
      BY DEF PassSound
  <2>2. b.reasons = {} =>
           /\ a.reasons = {} /\ found = Rules!References(Content(H[n], path))
           /\ path \in Rules!ToSet(a.chain) => Content(H[n], path).utf8
           /\ Content(H[n], path).utf8 => ~Content(H[n], path).broken
      BY <1>10
  <2>3. Advances(a, b, path, found, Content(H[n], path))
      BY <1>2, <1>6, <2>2 DEF Advances
  <2> QED BY <2>1, <2>3, FollowedOn
<1> QED BY <1>7, <1>8, <1>9, <1>11 DEF PassSound

\* _fingerprint_source has read the bytes of the next source.
LEMMA SourceTaken ==
    ASSUME NEW H, Histories(H), NEW p, NEW n, n = Len(H), NEW i \in 1..n, NEW e \in i..n,
           NEW a, PassSound(p, a, H, i, e), a.pc = "pass", a.queue = <<>>,
           NEW path \in Rules!Remaining(a), Content(H[n], path).present,
           NEW f, f = Rules!Fingerprint(KindIn(a.chain, path), Content(H[n], path),
                                        Rules!NoGit, a.graph[path]),
           NEW b, b.pc = "git", b.queue = a.queue, b.chain = a.chain,
           b.processed = a.processed, b.graph = a.graph,
           DOMAIN b.sources = DOMAIN a.sources \cup {path}, b.sources[path] = f,
           \A q \in DOMAIN a.sources : b.sources[q] = a.sources[q],
           b.sources = [q \in DOMAIN b.sources |-> b.sources[q]],
           b.reasons = a.reasons, b.first = a.first, b.since = a.since
    PROVE  PassSound(p, b, H, i, e)
<1>1. path \in DOMAIN a.graph /\ path \notin DOMAIN a.sources
    BY DEF Rules!Remaining
<1>2. /\ f.kind = KindIn(a.chain, path) /\ f.git = Rules!NoGit
      /\ f.dependencies = a.graph[path]
    BY Prints
<1>3. Taken(f, path, H, e)
  <2>1. n \in e..Len(H)
      BY DEF Histories
  <2> QED BY <1>2, <2>1 DEF Taken
<1>4. SourceRead(f, path, H, e)
    BY <1>2, <1>3 DEF SourceRead
<1>5. SourcesRead(a, H, e)
    BY DEF PassSound
<1>6. ASSUME NEW q \in DOMAIN b.sources
      PROVE  /\ SourceRead(b.sources[q], q, H, e)
             /\ b.sources[q].kind = KindIn(b.chain, q)
             /\ b.sources[q].dependencies = b.graph[q]
  <2>1. CASE q = path
      BY <1>2, <1>4, <2>1
  <2>2. CASE q # path
      BY <1>5, <1>6, <2>2 DEF SourcesRead
  <2> QED BY <2>1, <2>2
<1>7. \A r \in DOMAIN b.sources \ {path} : b.sources[r].git # Rules!NoGit
    BY <1>5 DEF SourcesRead
<1>8. DOMAIN b.sources \subseteq DOMAIN b.graph
    BY <1>1, <1>5 DEF SourcesRead
<1>9. SourcesRead(b, H, e)
    BY <1>1, <1>2, <1>6, <1>7, <1>8 DEF SourcesRead
<1>10. Listed(b, H, i)
    BY DEF PassSound, Listed
<1>11. FirstSeen(b, H, i)
    BY DEF PassSound, FirstSeen
<1>12. Followed(p, b, H, i, e)
    BY DEF PassSound, Followed
<1> QED BY <1>9, <1>10, <1>11, <1>12 DEF PassSound

\* ... and then its git state.
Stamped(a, b, path, f, git) ==
    /\ path = CHOOSE q \in DOMAIN a.sources : a.sources[q].git = Rules!NoGit
    /\ f = [a.sources[path] EXCEPT !.git = git]
    /\ DOMAIN b.sources = DOMAIN a.sources /\ b.sources[path] = f
    /\ \A q \in DOMAIN a.sources \ {path} : b.sources[q] = a.sources[q]
    /\ b.sources = [q \in DOMAIN b.sources |-> b.sources[q]]

LEMMA SourceGit ==
    ASSUME NEW H, Histories(H), NEW p, NEW n, n = Len(H), NEW i \in 1..n, NEW e \in i..n,
           NEW a, PassSound(p, a, H, i, e), a.pc = "git",
           NEW path, NEW f, NEW b, Stamped(a, b, path, f, GitOf(H[n], path)),
           b.pc = "pass", b.queue = a.queue, b.chain = a.chain,
           b.processed = a.processed, b.graph = a.graph,
           b.reasons = a.reasons, b.first = a.first, b.since = a.since
    PROVE  PassSound(p, b, H, i, e)
<1> USE DEF Stamped
<1>1. SourcesRead(a, H, e)
    BY DEF PassSound
<1>2. PICK one \in DOMAIN a.sources :
         /\ a.sources[one].git = Rules!NoGit
         /\ \A r \in DOMAIN a.sources \ {one} : a.sources[r].git # Rules!NoGit
    BY <1>1 DEF SourcesRead
<1>3. path = one /\ path \in DOMAIN a.sources /\ a.sources[path].git = Rules!NoGit
  <2> DEFINE c == CHOOSE q \in DOMAIN a.sources : a.sources[q].git = Rules!NoGit
  <2>1. c \in DOMAIN a.sources /\ a.sources[c].git = Rules!NoGit
      BY <1>2
  <2>2. path = c
      OBVIOUS
  <2> HIDE DEF c
  <2> QED BY <1>2, <2>1, <2>2
<1> DEFINE old == a.sources[path]
<1>4. PICK j \in e..n :
         /\ Content(H[j], path).present
         /\ old = Rules!Fingerprint(old.kind, Content(H[j], path), Rules!NoGit,
                                    old.dependencies)
    BY <1>1, <1>3 DEF SourcesRead, SourceRead, Taken
<1>5. f = [old EXCEPT !.git = GitOf(H[n], path)]
    OBVIOUS
<1> HIDE DEF old
<1> DEFINE kind == old.kind
<1> DEFINE deps == old.dependencies
<1> DEFINE content == Content(H[j], path)
<1> DEFINE git == GitOf(H[n], path)
<1>6. f = Rules!Fingerprint(kind, content, git, deps)
  <2>1. old = Rules!Fingerprint(kind, content, Rules!NoGit, deps)
      BY <1>4
  <2>2. f = [old EXCEPT !.git = git]
      BY <1>5
  <2> HIDE DEF kind, deps, content, git
  <2>3. \A new : [old EXCEPT !.git = new] = Rules!Fingerprint(kind, content, new, deps)
      BY <2>1, Prints
  <2> QED BY <2>2, <2>3
<1>7. /\ f.kind = old.kind /\ f.git = GitOf(H[n], path)
      /\ f.dependencies = old.dependencies
  <2> HIDE DEF kind, deps, content, git
  <2>1. \A x : x = Rules!Fingerprint(kind, content, git, deps) =>
                  x.kind = kind /\ x.git = git /\ x.dependencies = deps
      BY Prints
  <2>2. f.kind = kind /\ f.git = git /\ f.dependencies = deps
      BY <1>6, <2>1, Zenon
  <2> QED BY <2>2 DEF kind, git, deps
<1>8. f.git # Rules!NoGit
    BY <1>7, GitParts
<1>9. ReadAt(f, path, H, e, n)
  <2>1. j \in e..n /\ n \in e..n /\ j =< n
      BY DEF Histories
  <2>2. f = Rules!Fingerprint(f.kind, Content(H[j], path), GitOf(H[n], path),
                              f.dependencies)
    <3>1. f.kind = kind /\ f.dependencies = deps
        BY <1>7
    <3> QED BY <1>6, <3>1
  <2>3. Content(H[j], path).present
      BY <1>4
  <2> QED BY <2>1, <2>2, <2>3 DEF ReadAt
<1>10. SourceRead(f, path, H, e)
    BY <1>8, <1>9 DEF SourceRead
<1>11. ASSUME NEW q \in DOMAIN b.sources
       PROVE  /\ SourceRead(b.sources[q], q, H, e)
              /\ b.sources[q].kind = KindIn(b.chain, q)
              /\ b.sources[q].dependencies = b.graph[q]
              /\ b.sources[q].git # Rules!NoGit
  <2>1. CASE q = path
    <3>1. old.kind = KindIn(a.chain, path) /\ old.dependencies = a.graph[path]
        BY <1>1, <1>3 DEF SourcesRead, old
    <3>2. b.sources[q] = f
        BY <2>1
    <3>3. f.kind = KindIn(b.chain, path) /\ f.dependencies = b.graph[path]
      <4>1. f.kind = KindIn(a.chain, path) /\ f.dependencies = a.graph[path]
          BY <1>7, <3>1, Zenon
      <4> QED BY <4>1, Zenon
    <3>4. SourceRead(f, path, H, e) /\ f.git # Rules!NoGit
        BY <1>8, <1>10
    <3> QED BY <2>1, <3>2, <3>3, <3>4, Zenon
  <2>2. CASE q # path
      BY <1>1, <1>2, <1>3, <1>11, <2>2 DEF SourcesRead
  <2> QED BY <2>1, <2>2
<1>12. SourcesRead(b, H, e)
  <2>1. a.queue = <<>>
      BY <1>1 DEF SourcesRead
  <2>2. DOMAIN b.sources \subseteq DOMAIN b.graph
      BY <1>1 DEF SourcesRead
  <2> QED BY <1>11, <2>1, <2>2 DEF SourcesRead
<1>13. Listed(b, H, i)
    BY DEF PassSound, Listed
<1>14. FirstSeen(b, H, i)
    BY DEF PassSound, FirstSeen
<1>15. Followed(p, b, H, i, e)
    BY DEF PassSound, Followed
<1> QED BY <1>12, <1>13, <1>14, <1>15 DEF PassSound

\* What a pass has read it has read since its snapshot began.
LEMMA PassSeen ==
    ASSUME NEW H, Histories(H), NEW p, NEW n, n = Len(H), NEW a, a.since \in 1..n,
           NEW i \in a.since..n, NEW e \in i..n, PassSound(p, a, H, i, e), a.pc = "pass",
           NEW b, b.first.sources = a.sources, b.since = a.since
    PROVE  FirstSeen(b, H, n)
<1> SUFFICES ASSUME NEW q \in DOMAIN a.sources
             PROVE  ReadAt(a.sources[q], q, H, a.since, n)
    BY DEF FirstSeen
<1>1. ReadAt(a.sources[q], q, H, e, n)
    BY DEF PassSound, SourcesRead, SourceRead
<1>2. e..n \subseteq a.since..n
    BY DEF Histories
<1> QED BY <1>1, <1>2 DEF ReadAt

\* Two passes that agree have seen the worktree of i.
LEMMA Agreed ==
    ASSUME NothingReturns, NEW H, Histories(H), NEW p \in Processes, NEW n, n = Len(H),
           NEW a, a.since \in 1..n, NEW i \in a.since..n, NEW e \in i..n,
           PassSound(p, a, H, i, e), a.pc = "pass", a.queue = <<>>,
           Rules!Remaining(a) = {}, a.reasons = {}, a.first # Rules!NoRecord,
           a.first = [chain |-> a.chain, sources |-> a.sources, cwd |-> ".",
                      discovery |-> Options[p].limit]
    PROVE  a.first = Rules!RecordOf(H[i], p) /\ Rules!Complete(H[i], p)
<1> DEFINE w == H[i]
<1> DEFINE files == Files(w)
<1> DEFINE D == Rules!Discoverable(files, p)
<1>0. n \in Nat /\ i \in 1..n /\ Worktree(w)
    BY DEF Histories
<1>1. /\ a.chain = Rules!Chain(files)
      /\ DOMAIN a.sources = DOMAIN a.graph /\ DOMAIN a.graph = a.processed
      /\ DOMAIN a.graph \subseteq Paths /\ Rules!ToSet(a.chain) \subseteq DOMAIN a.graph
  <2>1. Rules!ToSet(a.queue) = {}
      BY DEF Rules!ToSet
  <2> QED BY <2>1 DEF PassSound, Listed, SourcesRead, Rules!Remaining
<1>2. ASSUME NEW q \in DOMAIN a.sources
      PROVE  /\ a.sources[q] = Rules!Fingerprint(KindIn(a.chain, q), Content(w, q),
                                                 GitOf(w, q), a.graph[q])
             /\ Kept(H, i, e, q) /\ Content(w, q).present
  <2> DEFINE f == a.sources[q]
  <2>1. ReadAt(f, q, H, e, n)
      BY <1>2 DEF PassSound, SourcesRead, SourceRead
  <2>2. ReadAt(f, q, H, a.since, i)
      BY <1>2 DEF PassSound, FirstSeen
  <2>3. f.kind = KindIn(a.chain, q) /\ f.dependencies = a.graph[q] /\ q \in Paths
      BY <1>1, <1>2 DEF PassSound, SourcesRead
  <2> HIDE DEF f
  <2>4. /\ f = Rules!Fingerprint(f.kind, Content(H[i], q), GitOf(H[i], q), f.dependencies)
        /\ H[e].version[q] = H[i].version[q] /\ Content(H[i], q).present
      BY <2>1, <2>2, <2>3, Between
  <2> QED BY <2>3, <2>4 DEF f, Kept
<1>3. /\ Rules!ChainReasons(files, Options[p].limit) = {}
      /\ \A q \in Options[p].extra : Content(w, q).present /\ q \in DOMAIN a.graph
      /\ \A q \in DOMAIN a.graph :
            /\ a.graph[q] \subseteq DOMAIN a.graph
            /\ a.graph[q] = Rules!References(Content(w, q))
            /\ q \in Rules!ToSet(a.chain) => Content(w, q).utf8
            /\ Content(w, q).utf8 => ~Content(w, q).broken
      /\ DOMAIN a.graph \subseteq D
    BY <1>1, <1>2 DEF PassSound, Followed
<1>4. \A q \in Paths : files[q] = Content(w, q)
    BY <1>0, FilesOf
<1> HIDE DEF D, files
<1>5. DOMAIN a.graph = D
  <2>1. Start(files, p) \subseteq DOMAIN a.graph
      BY <1>1, <1>3 DEF Start
  <2>2. \A q \in DOMAIN a.graph : Rules!References(files[q]) \subseteq DOMAIN a.graph
      BY <1>1, <1>3, <1>4
  <2>3. D \subseteq DOMAIN a.graph
      BY <1>1, <2>1, <2>2, DiscoveryIsLeast DEF D
  <2> QED BY <1>3, <2>3
<1>6. files = [q \in Paths |-> Versions[q][w.version[q]]]
    BY DEF files, Files, Content
<1>7. Rules!Complete(w, p)
  <2>1. Rules!ChainReasons(files, Options[p].limit) = {}
      BY <1>3
  <2>2. \A q \in Options[p].extra : files[q].present
      BY <1>1, <1>3, <1>4
  <2>3. ASSUME NEW q \in D
        PROVE  /\ q \in Rules!ToSet(Rules!Chain(files)) => files[q].utf8
               /\ files[q].utf8 => ~files[q].broken
               /\ \A r \in Rules!References(files[q]) : files[r].present
      BY <1>1, <1>2, <1>3, <1>4, <1>5, <2>3
  <2> DEFINE fs == [q \in Paths |-> Versions[q][w.version[q]]]
  <2>4. Rules!Complete(w, p) =
          (/\ Rules!ChainReasons(fs, Options[p].limit) = {}
           /\ \A q \in Options[p].extra : fs[q].present
           /\ \A q \in Rules!Discoverable(fs, p) :
                 /\ q \in Rules!ToSet(Rules!Chain(fs)) => fs[q].utf8
                 /\ fs[q].utf8 => ~fs[q].broken
                 /\ \A r \in Rules!References(fs[q]) : fs[r].present)
      BY Zenon DEF Rules!Complete
  <2>5. fs = files
      BY <1>6
  <2> HIDE DEF fs
  <2> QED BY <2>1, <2>2, <2>3, <2>4, <2>5 DEF D
<1>8. a.sources = [q \in D |-> Rules!Fingerprint(
                        IF q \in Rules!ToSet(Rules!Chain(files)) THEN "instruction" ELSE "rule",
                        files[q], Rules!GitState(w.version, w.index, w.head, q),
                        Rules!References(files[q]))]
  <2>1. ASSUME NEW q \in D
        PROVE  a.sources[q] = Rules!Fingerprint(
                  IF q \in Rules!ToSet(Rules!Chain(files)) THEN "instruction" ELSE "rule",
                  files[q], Rules!GitState(w.version, w.index, w.head, q),
                  Rules!References(files[q]))
      BY <1>1, <1>2, <1>3, <1>4, <1>5, <2>1 DEF KindIn, GitOf
  <2>2. a.sources = [q \in D |-> a.sources[q]]
      BY <1>1, <1>5 DEF PassSound, SourcesRead
  <2> QED BY <2>1, <2>2
<1>9. a.first = Rules!RecordOf(w, p)
  <2> DEFINE sources == [q \in D |-> Rules!Fingerprint(
                  IF q \in Rules!ToSet(Rules!Chain(files)) THEN "instruction" ELSE "rule",
                  files[q], Rules!GitState(w.version, w.index, w.head, q),
                  Rules!References(files[q]))]
  <2>1. D \subseteq Paths
      BY <1>1, <1>5
  <2> DEFINE fs == [q \in Paths |-> Versions[q][w.version[q]]]
  <2> DEFINE refs == [q \in Paths |-> Rules!References(fs[q])]
  <2> DEFINE seen == [q \in Rules!Discoverable(fs, p) |-> Rules!Fingerprint(
                  IF q \in Rules!ToSet(Rules!Chain(fs)) THEN "instruction" ELSE "rule",
                  fs[q], Rules!GitState(w.version, w.index, w.head, q), refs[q])]
  <2>2. Rules!RecordOf(w, p) =
           [chain |-> Rules!Chain(fs), cwd |-> ".", discovery |-> Options[p].limit,
            sources |-> seen]
      BY Zenon DEF Rules!RecordOf
  <2>3. \A q \in Paths : refs[q] = Rules!References(fs[q])
      OBVIOUS
  <2>4. fs = files
      BY <1>6
  <2> HIDE DEF fs, refs
  <2>5. seen = sources
      BY <2>1, <2>3, <2>4 DEF D
  <2> HIDE DEF sources, seen
  <2>6. a.sources = sources
      BY <1>8 DEF sources
  <2> QED BY <1>1, <2>2, <2>4, <2>5, <2>6
<1> QED BY <1>7, <1>9 DEF w

-----------------------------------------------------------------------------
(* What each process is doing, against the history of the worktree.          *)

OneWorktree(p, a, H) ==
    /\ a.since \in 1..Len(H)
    /\ \E i \in a.since..Len(H) :
          a.first = Rules!RecordOf(H[i], p) /\ Rules!Complete(H[i], p)
PlaceSound(p, a, H) ==
    /\ a.pc \in {"chain", "pass", "git"} => a.since \in 1..Len(H)
    /\ a.pc = "chain" => a.sources = <<>> /\ FirstSeen(a, H, Len(H))
    /\ a.pc \in {"pass", "git"} =>
          \E i \in a.since..Len(H) : \E e \in i..Len(H) : PassSound(p, a, H, i, e)
    /\ a.pc \in {"lock", "release", "done"} /\ a.reasons = {} /\ a.first # Rules!NoRecord
          => OneWorktree(p, a, H)
SnapshotInv ==
    HistoryInv /\ AnswersInv /\ \A p \in Processes : PlaceSound(p, cacheAt[p], history)

LEMMA SeenGrows ==
    ASSUME NEW H, NEW G, Grown(H, G), NEW a, a.since \in 1..Len(H),
           NEW hi \in a.since..Len(H), NEW high \in hi..Len(G), FirstSeen(a, H, hi)
    PROVE  FirstSeen(a, G, high)
BY Wider DEF FirstSeen

LEMMA PassGrows ==
    ASSUME NEW H, NEW G, Grown(H, G), NEW p, NEW a, a.since \in 1..Len(H),
           NEW i \in a.since..Len(H), NEW e \in i..Len(H), PassSound(p, a, H, i, e)
    PROVE  PassSound(p, a, G, i, e)
<1>1. /\ Len(H) \in Nat /\ Len(G) \in Nat /\ Len(H) =< Len(G)
      /\ i \in 1..Len(H) /\ e \in 1..Len(H) /\ i =< e
    BY DEF Grown
<1>2. G[i] = H[i] /\ G[e] = H[e]
    BY <1>1 DEF Grown
<1>3. Listed(a, G, i)
    BY <1>2 DEF PassSound, Listed
<1>4. FirstSeen(a, G, i)
    BY <1>1, SeenGrows DEF PassSound
<1>5. ASSUME NEW q \in DOMAIN a.sources PROVE SourceRead(a.sources[q], q, G, e)
  <2> DEFINE f == a.sources[q]
  <2>1. SourceRead(f, q, H, e)
      BY <1>5 DEF PassSound, SourcesRead
  <2> HIDE DEF f
  <2>2. CASE f.git = Rules!NoGit
      BY <1>1, <2>1, <2>2, StillTaken DEF SourceRead, f
  <2>3. CASE f.git # Rules!NoGit
    <3>1. Len(H) \in e..Len(H) /\ Len(G) \in Len(H)..Len(G)
        BY <1>1
    <3>2. ReadAt(f, q, H, e, Len(H))
        BY <2>1, <2>3 DEF SourceRead
    <3>3. ReadAt(f, q, G, e, Len(G))
        BY <1>1, <3>1, <3>2, Wider
    <3> QED BY <2>3, <3>3 DEF SourceRead, f
  <2> QED BY <2>2, <2>3
<1>6. SourcesRead(a, G, e)
    BY <1>5 DEF PassSound, SourcesRead
<1>7. Followed(p, a, G, i, e)
    BY <1>2 DEF PassSound, Followed, Kept
<1> QED BY <1>3, <1>4, <1>6, <1>7 DEF PassSound

LEMMA PlaceGrows ==
    ASSUME NEW H, NEW G, Grown(H, G), NEW p, NEW a, PlaceSound(p, a, H)
    PROVE  PlaceSound(p, a, G)
<1>1. Len(H) \in Nat /\ Len(G) \in Nat /\ Len(H) =< Len(G)
    BY DEF Grown
<1>2. a.pc \in {"chain", "pass", "git"} => a.since \in 1..Len(G)
    BY <1>1 DEF PlaceSound
<1>3. ASSUME a.pc = "chain" PROVE FirstSeen(a, G, Len(G))
  <2>1. /\ a.since \in 1..Len(H) /\ FirstSeen(a, H, Len(H))
        /\ Len(H) \in a.since..Len(H) /\ Len(G) \in Len(H)..Len(G)
      BY <1>1, <1>3 DEF PlaceSound
  <2> QED BY <2>1, SeenGrows
<1>4. ASSUME a.pc \in {"pass", "git"}
      PROVE  \E i \in a.since..Len(G) : \E e \in i..Len(G) : PassSound(p, a, G, i, e)
  <2>1. PICK i \in a.since..Len(H) : \E e \in i..Len(H) : PassSound(p, a, H, i, e)
      BY <1>4 DEF PlaceSound
  <2>2. PICK e \in i..Len(H) : PassSound(p, a, H, i, e)
      BY <2>1
  <2>3. a.since \in 1..Len(H)
      BY <1>4 DEF PlaceSound
  <2>4. i \in a.since..Len(G) /\ e \in i..Len(G)
      BY <1>1, <2>3
  <2> QED BY <2>2, <2>3, <2>4, PassGrows
<1>5. ASSUME OneWorktree(p, a, H) PROVE OneWorktree(p, a, G)
  <2>1. PICK i \in a.since..Len(H) :
           a.first = Rules!RecordOf(H[i], p) /\ Rules!Complete(H[i], p)
      BY <1>5 DEF OneWorktree
  <2>2. a.since \in 1..Len(H)
      BY <1>5 DEF OneWorktree
  <2>3. i \in 1..Len(H) /\ i \in a.since..Len(G) /\ a.since \in 1..Len(G)
      BY <1>1, <2>2
  <2>4. G[i] = H[i]
      BY <2>3 DEF Grown
  <2> QED BY <2>1, <2>3, <2>4 DEF OneWorktree
<1> QED BY <1>2, <1>3, <1>4, <1>5 DEF PlaceSound

LEMMA NewPlaceSound ==
    ASSUME SnapshotInv, NEW p \in Processes, NEW b, cacheAt' = [cacheAt EXCEPT ![p] = b],
           history' = history, PlaceSound(p, b, history)
    PROVE  \A q \in Processes : PlaceSound(q, cacheAt'[q], history')
<1>1. DOMAIN cacheAt = Processes
    BY DEF SnapshotInv, AnswersInv
<1>2. cacheAt'[p] = b /\ \A q \in Processes \ {p} : cacheAt'[q] = cacheAt[q]
    BY <1>1
<1> QED BY <1>2 DEF SnapshotInv

\* A process reads what the last worktree of the history holds.
LEMMA WorktreeNow ==
    ASSUME SnapshotInv, NEW n, n = Len(history)
    PROVE  /\ n \in Nat \ {0} /\ n \in 1..n /\ Histories(history)
           /\ \A q : Rules!File(q) = Content(history[n], q)
           /\ \A q : Rules!GitState(version, gitIndex, head, q) = GitOf(history[n], q)
           /\ [q \in Paths |-> Rules!File(q)] = Files(history[n])
<1>1. n \in Nat \ {0} /\ Histories(history)
    BY DEF SnapshotInv, HistoryInv, Histories
<1>2. /\ version = history[n].version /\ gitIndex = history[n].index
      /\ head = history[n].head
    BY DEF SnapshotInv, HistoryInv
<1>3. \A q : Rules!File(q) = Content(history[n], q)
    BY <1>2 DEF Rules!File, Content
<1>4. \A q : Rules!GitState(version, gitIndex, head, q) = GitOf(history[n], q)
    BY <1>2 DEF GitOf
<1> QED BY <1>1, <1>3, <1>4 DEF Files

\* The snapshot that ends without a reason against it is one worktree.
LEMMA SnapshotIsSound ==
    ASSUME NothingReturns, SnapshotInv, NEW p \in Processes, Rules!SnapshotEnds(p),
           Rules!Reasons(p) = {}
    PROVE  /\ OneWorktree(p, cacheAt[p], history) /\ cacheAt[p].reasons = {}
           /\ cacheAt[p].first = Rules!Captured(p)
<1> DEFINE a == cacheAt[p]
<1> DEFINE n == Len(history)
<1>1. a.first # Rules!NoRecord /\ a.reasons = {} /\ a.first = Rules!Captured(p)
    BY DEF Rules!SnapshotEnds, Rules!Reasons, Rules!Stable
<1>2. a.pc = "pass" /\ a.queue = <<>> /\ Rules!Remaining(a) = {}
    BY DEF Rules!SnapshotEnds, Rules!PassEnds
<1>3. a.first = [chain |-> a.chain, sources |-> a.sources, cwd |-> ".",
                 discovery |-> Options[p].limit]
    BY <1>1 DEF Rules!Captured
<1>4. a.since \in 1..n
    BY <1>2 DEF SnapshotInv, PlaceSound
<1>5. PICK i \in a.since..n : \E e \in i..n : PassSound(p, a, history, i, e)
    BY <1>2 DEF SnapshotInv, PlaceSound
<1>6. PICK e \in i..n : PassSound(p, a, history, i, e)
    BY <1>5
<1>7. Histories(history)
    BY WorktreeNow
<1> HIDE DEF a, n
<1>8. a.first = Rules!RecordOf(history[i], p) /\ Rules!Complete(history[i], p)
    BY <1>1, <1>2, <1>3, <1>4, <1>5, <1>6, <1>7, Agreed DEF n
<1>9. OneWorktree(p, a, history)
    BY <1>4, <1>8 DEF OneWorktree, n
<1> QED BY <1>1, <1>9 DEF a

\* What a call that returns has seen.
LEMMA ReturnSound ==
    ASSUME NothingReturns, SnapshotInv, NEW p \in Processes, Rules!SnapshotEnds(p),
           NEW reasons, reasons = {} => Rules!Reasons(p) = {},
           NEW b, b.pc \in {"done", "release", "lock"}, b.reasons = reasons,
           b.first = Rules!Captured(p), b.since = cacheAt[p].since
    PROVE  PlaceSound(p, b, history)
<1>1. CASE reasons = {}
  <2>1. OneWorktree(p, cacheAt[p], history) /\ cacheAt[p].first = b.first
      BY <1>1, SnapshotIsSound
  <2>2. OneWorktree(p, b, history)
      BY <2>1 DEF OneWorktree
  <2> QED BY <2>2 DEF PlaceSound
<1>2. CASE reasons # {}
    BY <1>2 DEF PlaceSound
<1> QED BY <1>1, <1>2

LEMMA ReturnFields ==
    ASSUME NEW p, NEW previous, NEW record, NEW reasons
    PROVE  LET b == Rules!Returns(p, previous, [record |-> record, reasons |-> reasons])
               c == [b EXCEPT !.pc = "release"]
           IN  /\ b.pc = "done" /\ b.first = record /\ b.reasons = reasons
               /\ b.since = cacheAt[p].since
               /\ c.pc = "release" /\ c.first = record /\ c.reasons = reasons
               /\ c.since = cacheAt[p].since
<1> DEFINE snapshot == [record |-> record, reasons |-> reasons]
<1> DEFINE b == Rules!Returns(p, previous, snapshot)
<1> DEFINE c == [b EXCEPT !.pc = "release"]
<1>1. snapshot.record = record /\ snapshot.reasons = reasons
    OBVIOUS
<1> HIDE DEF snapshot
<1>2. /\ b.pc = "done" /\ b.first = record /\ b.reasons = reasons
      /\ b.since = cacheAt[p].since /\ DOMAIN b = Fields
    BY <1>1, IdlePlace DEF Rules!Returns, Fields
<1> HIDE DEF b
<1>3. /\ c.pc = "release" /\ c.first = record /\ c.reasons = reasons
      /\ c.since = cacheAt[p].since
    BY <1>2 DEF Fields
<1> QED BY <1>2, <1>3 DEF b, c, snapshot

LEMMA BeginsSound ==
    ASSUME SnapshotInv, NEW p \in Processes
    PROVE  PlaceSound(p, Rules!NewSnapshot(cacheAt[p]), history)
<1> DEFINE a == cacheAt[p]
<1> DEFINE b == Rules!NewSnapshot(a)
<1>1. DOMAIN a = Fields
    BY DEF SnapshotInv, AnswersInv
<1>2. /\ b.pc = "chain" /\ b.sources = <<>> /\ b.first = Rules!NoRecord
      /\ b.since = Len(history)
    BY <1>1 DEF Rules!NewSnapshot, Rules!Pass, Fields
<1> HIDE DEF b
<1>3. Len(history) \in 1..Len(history)
    BY WorktreeNow
<1> QED BY <1>2, <1>3 DEF PlaceSound, FirstSeen, b

LEMMA FailedSound ==
    ASSUME SnapshotInv, NEW p \in Processes, Rules!Failed(p)
    PROVE  \A q \in Processes : PlaceSound(q, cacheAt'[q], history')
<1> DEFINE b == [Rules!Idle EXCEPT !.pc = "done",
                                   !.result = [status |-> "CACHE_OPERATION_FAILED"]]
<1>1. cacheAt' = [cacheAt EXCEPT ![p] = b] /\ history' = history
    BY DEF Rules!Failed
<1>2. b.pc = "done" /\ b.first = Rules!NoRecord
    BY DEF Rules!Idle
<1> HIDE DEF b
<1>3. PlaceSound(p, b, history)
    BY <1>2 DEF PlaceSound
<1> QED BY <1>1, <1>3, NewPlaceSound

LEMMA ReadChainSound ==
    ASSUME SnapshotInv, NEW p \in Processes, Rules!ReadChain(p)
    PROVE  \A q \in Processes : PlaceSound(q, cacheAt'[q], history')
<1> DEFINE a == cacheAt[p]
<1> DEFINE n == Len(history)
<1> DEFINE fs == [q \in Paths |-> Rules!File(q)]
<1> DEFINE chain == Rules!Chain(fs)
<1> DEFINE extra == {q \in Options[p].extra \ Rules!ToSet(chain) : fs[q].present}
<1> DEFINE queue == chain \o Rules!SetToSeq(extra)
<1> DEFINE graph == [q \in Rules!ToSet(chain) \cup extra |-> {}]
<1> DEFINE reasons == Rules!ChainReasons(fs, Options[p].limit)
                        \cup (IF \E q \in Options[p].extra : ~fs[q].present
                                THEN {"UNRESOLVED_REFERENCE"} ELSE {})
<1> DEFINE b == [a EXCEPT !.pc = "pass", !.chain = chain, !.queue = queue,
                          !.processed = {}, !.graph = graph, !.reasons = reasons]
<1>1. a.pc = "chain" /\ cacheAt' = [cacheAt EXCEPT ![p] = b] /\ history' = history
    BY DEF Rules!ReadChain, Rules!Local, Rules!Step
<1>2. /\ fs = Files(history[n]) /\ n \in 1..n /\ n \in Nat /\ Histories(history)
    BY WorktreeNow
<1>3. a.sources = <<>> /\ FirstSeen(a, history, n) /\ a.since \in 1..n
    BY <1>1 DEF SnapshotInv, PlaceSound
<1>4. DOMAIN a = Fields
    BY DEF SnapshotInv, AnswersInv
<1> HIDE DEF chain, extra, queue, graph, reasons, a, fs
<1>5. /\ b.pc = "pass" /\ b.chain = chain /\ b.queue = queue /\ b.processed = {}
      /\ b.graph = graph /\ b.reasons = reasons /\ b.first = a.first /\ b.since = a.since
      /\ b.sources = a.sources
    BY <1>4 DEF Fields
<1> HIDE DEF b, n
<1>6. PassSound(p, b, history, n, n)
  <2>1. extra = {q \in Options[p].extra \ Rules!ToSet(Rules!Chain(Files(history[n]))) :
                    Files(history[n])[q].present}
      BY <1>2 DEF extra, chain
  <2>2. b.queue = b.chain \o Rules!SetToSeq(extra) /\ b.chain = Rules!Chain(Files(history[n]))
      BY <1>2, <1>5 DEF queue, chain
  <2>3. b.graph = [q \in Rules!ToSet(b.chain) \cup extra |-> {}]
      BY <1>5 DEF graph
  <2>4. b.reasons = Rules!ChainReasons(Files(history[n]), Options[p].limit)
                      \cup (IF \E q \in Options[p].extra : ~Files(history[n])[q].present
                              THEN {"UNRESOLVED_REFERENCE"} ELSE {})
      BY <1>2, <1>5 DEF reasons
  <2> QED BY <1>2, <1>3, <1>5, <2>1, <2>2, <2>3, <2>4, ChainListed DEF n
<1>7. n \in b.since..n /\ n \in n..n /\ b.since \in 1..n
    BY <1>2, <1>3, <1>5
<1>8. PlaceSound(p, b, history)
    BY <1>5, <1>6, <1>7 DEF PlaceSound, n
<1> QED BY <1>1, <1>8, NewPlaceSound DEF a

LEMMA DiscoverSound ==
    ASSUME SnapshotInv, NEW p \in Processes, Rules!Discover(p)
    PROVE  \A q \in Processes : PlaceSound(q, cacheAt'[q], history')
<1> DEFINE a == cacheAt[p]
<1> DEFINE n == Len(history)
<1> DEFINE path == Head(a.queue)
<1> DEFINE file == Rules!File(path)
<1> DEFINE kind == IF path \in Rules!ToSet(a.chain) THEN "instruction" ELSE "rule"
<1> DEFINE found == {q \in Rules!References(file) : Rules!File(q).present}
<1> DEFINE new == found \ DOMAIN a.graph
<1> DEFINE known == [q \in DOMAIN a.graph \cup new |->
                       IF q = path THEN found ELSE IF q \in new THEN {} ELSE a.graph[q]]
<1> DEFINE again == [a EXCEPT !.queue = Tail(@)]
<1> DEFINE skip == [a EXCEPT !.queue = Tail(@), !.processed = @ \cup {path},
                      !.reasons = @ \cup (IF kind = "instruction"
                        THEN {"RULE_SOURCE_ENCODING_UNSUPPORTED"} ELSE {})]
<1> DEFINE follow == [a EXCEPT !.queue = Tail(@) \o Rules!SetToSeq(new),
                        !.graph = known, !.processed = @ \cup {path},
                        !.reasons = @ \cup (IF file.broken \/ found # Rules!References(file)
                                              THEN {"UNRESOLVED_REFERENCE"} ELSE {})]
<1> DEFINE goes(b) == a.pc = "pass" /\ cacheAt' = [cacheAt EXCEPT ![p] = b]
                      /\ history' = history
<1>1. \/ Rules!Failed(p)
      \/ path \in a.processed /\ goes(again)
      \/ path \notin a.processed /\ ~file.utf8 /\ goes(skip)
      \/ path \notin a.processed /\ file.utf8 /\ goes(follow)
    BY DEF Rules!Discover, Rules!Local, Rules!Step
<1>2. a.queue # <<>>
    BY DEF Rules!Discover
<1>3. /\ n \in 1..n /\ n \in Nat /\ Histories(history)
      /\ \A q : Rules!File(q) = Content(history[n], q)
    BY WorktreeNow
<1>4. DOMAIN a = Fields
    BY DEF SnapshotInv, AnswersInv
<1>5. /\ again.queue = Tail(a.queue) /\ again.pc = a.pc /\ again.chain = a.chain
      /\ again.processed = a.processed /\ again.graph = a.graph /\ again.sources = a.sources
      /\ again.reasons = a.reasons /\ again.first = a.first /\ again.since = a.since
    BY <1>4 DEF Fields
<1> HIDE DEF again
<1>6. /\ skip.queue = Tail(a.queue) /\ skip.pc = a.pc /\ skip.chain = a.chain
      /\ skip.processed = a.processed \cup {path} /\ skip.graph = a.graph
      /\ skip.sources = a.sources
      /\ skip.reasons = a.reasons \cup (IF kind = "instruction"
                                          THEN {"RULE_SOURCE_ENCODING_UNSUPPORTED"} ELSE {})
      /\ skip.first = a.first /\ skip.since = a.since
    BY <1>4 DEF Fields
<1> HIDE DEF skip
<1>7. /\ follow.queue = Tail(a.queue) \o Rules!SetToSeq(new) /\ follow.pc = a.pc
      /\ follow.chain = a.chain /\ follow.processed = a.processed \cup {path}
      /\ follow.graph = known /\ follow.sources = a.sources
      /\ follow.reasons = a.reasons \cup (IF file.broken \/ found # Rules!References(file)
                                            THEN {"UNRESOLVED_REFERENCE"} ELSE {})
      /\ follow.first = a.first /\ follow.since = a.since
  <2> HIDE DEF known, new
  <2> QED BY <1>4 DEF Fields
<1> HIDE DEF follow
<1>8. ASSUME NEW b, goes(b), b.pc = a.pc, b.since = a.since,
             \A i \in a.since..n : \A e \in i..n :
                a.since \in 1..n /\ PassSound(p, a, history, i, e) =>
                    \E f \in i..n : PassSound(p, b, history, i, f)
      PROVE  \A q \in Processes : PlaceSound(q, cacheAt'[q], history')
  <2>1. a.since \in 1..n
      BY <1>8 DEF SnapshotInv, PlaceSound
  <2>2. PICK i \in a.since..n : \E e \in i..n : PassSound(p, a, history, i, e)
      BY <1>8 DEF SnapshotInv, PlaceSound
  <2>3. \E f \in i..n : PassSound(p, b, history, i, f)
      BY <1>8, <2>1, <2>2
  <2>4. PlaceSound(p, b, history)
      BY <1>8, <2>1, <2>2, <2>3 DEF PlaceSound
  <2> QED BY <1>8, <2>4, NewPlaceSound
<1>9. CASE path \in a.processed /\ goes(again)
  <2>1. \A i, e : PassSound(p, a, history, i, e) => PassSound(p, again, history, i, e)
    <3> HIDE DEF a
    <3> QED BY <1>2, <1>5, <1>9, SourceAgain
  <2> HIDE DEF a, goes
  <2> QED BY <1>5, <1>8, <1>9, <2>1
<1>10. CASE path \notin a.processed /\ ~file.utf8 /\ goes(skip)
  <2>1. skip.reasons = {} => a.reasons = {} /\ path \notin Rules!ToSet(a.chain)
      BY <1>6
  <2>2. ASSUME NEW i \in a.since..n, NEW e \in i..n, a.since \in 1..n,
               PassSound(p, a, history, i, e)
        PROVE  PassSound(p, skip, history, i, n) /\ n \in i..n
    <3>1. ~Content(history[n], path).utf8
        BY <1>3, <1>10
    <3>2. i \in 1..n /\ n \in i..n
        BY <1>3, <2>2
    <3> HIDE DEF a, path, n
    <3>3. path = Head(a.queue) /\ n = Len(history)
        BY DEF path, n
    <3> QED BY <1>2, <1>3, <1>6, <1>10, <2>1, <2>2, <3>1, <3>2, <3>3, SourceSkipped
  <2> HIDE DEF a, goes
  <2> QED BY <1>6, <1>8, <1>10, <2>2
<1>11. CASE path \notin a.processed /\ file.utf8 /\ goes(follow)
  <2>1. ASSUME NEW i \in a.since..n, NEW e \in i..n, a.since \in 1..n,
               PassSound(p, a, history, i, e)
        PROVE  PassSound(p, follow, history, i, n) /\ n \in i..n
    <3>1. file = Content(history[n], path) /\ Content(history[n], path).utf8
        BY <1>3, <1>11
    <3>2. i \in 1..n /\ n \in i..n
        BY <1>3, <2>1
    <3>3. found = {q \in Rules!References(Content(history[n], path)) :
                      Content(history[n], q).present}
        BY <1>3
    <3>4. new = found \ DOMAIN a.graph
        OBVIOUS
    <3>5. follow.graph = [q \in DOMAIN a.graph \cup new |->
                            IF q = path THEN found ELSE IF q \in new THEN {} ELSE a.graph[q]]
        BY <1>7
    <3>6. follow.reasons = a.reasons
             \cup (IF Content(history[n], path).broken
                        \/ found # Rules!References(Content(history[n], path))
                     THEN {"UNRESOLVED_REFERENCE"} ELSE {})
        BY <1>7, <3>1
    <3> HIDE DEF found, new, file
    <3>7. path = Head(a.queue) /\ n = Len(history)
        OBVIOUS
    <3> HIDE DEF a, path, n
    <3>8. Follows(a, follow, path, history[n], found, new)
        BY <1>7, <3>3, <3>4, <3>5, <3>6 DEF Follows
    <3> QED BY <1>2, <1>3, <1>7, <1>11, <2>1, <3>1, <3>2, <3>7, <3>8, SourceFollowed
  <2> HIDE DEF a, goes
  <2> QED BY <1>7, <1>8, <1>11, <2>1
<1> QED BY <1>1, <1>9, <1>10, <1>11, FailedSound

LEMMA ReadBytesSound ==
    ASSUME SnapshotInv, NEW p \in Processes, Rules!ReadBytes(p)
    PROVE  \A q \in Processes : PlaceSound(q, cacheAt'[q], history')
<1> DEFINE a == cacheAt[p]
<1> DEFINE n == Len(history)
<1> DEFINE path == CHOOSE q \in Rules!Remaining(a) : TRUE
<1> DEFINE kind == IF path \in Rules!ToSet(a.chain) THEN "instruction" ELSE "rule"
<1> DEFINE sources == [q \in DOMAIN a.sources \cup {path} |->
                         IF q = path
                           THEN Rules!Fingerprint(kind, Rules!File(q), Rules!NoGit, a.graph[q])
                           ELSE a.sources[q]]
<1> DEFINE b == [a EXCEPT !.pc = "git", !.sources = sources]
<1> DEFINE f == Rules!Fingerprint(kind, Rules!File(path), Rules!NoGit, a.graph[path])
<1>1. Rules!Failed(p) \/ /\ a.pc = "pass" /\ cacheAt' = [cacheAt EXCEPT ![p] = b]
                         /\ history' = history /\ ~Rules!Absent(path)
    BY DEF Rules!ReadBytes, Rules!Local, Rules!Step
<1>2. a.queue = <<>> /\ Rules!Remaining(a) # {}
    BY DEF Rules!ReadBytes
<1>3. path \in Rules!Remaining(a)
    BY <1>2
<1>4. /\ n \in 1..n /\ n \in Nat /\ Histories(history)
      /\ \A q : Rules!File(q) = Content(history[n], q)
    BY WorktreeNow
<1>5. DOMAIN a = Fields
    BY DEF SnapshotInv, AnswersInv
<1>6. path \notin DOMAIN a.sources
    BY <1>3 DEF Rules!Remaining
<1>7. kind = KindIn(a.chain, path)
    BY DEF KindIn
<1> HIDE DEF path, kind
<1>8. /\ DOMAIN sources = DOMAIN a.sources \cup {path} /\ sources[path] = f
      /\ \A q \in DOMAIN a.sources : sources[q] = a.sources[q]
      /\ sources = [q \in DOMAIN sources |-> sources[q]]
    BY <1>6
<1> HIDE DEF sources
<1>9. /\ b.pc = "git" /\ b.queue = a.queue /\ b.chain = a.chain
      /\ b.processed = a.processed /\ b.graph = a.graph /\ b.sources = sources
      /\ b.reasons = a.reasons /\ b.first = a.first /\ b.since = a.since
    BY <1>5 DEF Fields
<1> HIDE DEF b
<1>10. CASE a.pc = "pass" /\ cacheAt' = [cacheAt EXCEPT ![p] = b]
            /\ history' = history /\ ~Rules!Absent(path)
  <2>1. a.since \in 1..n
      BY <1>10 DEF SnapshotInv, PlaceSound
  <2>2. PICK i \in a.since..n : \E e \in i..n : PassSound(p, a, history, i, e)
      BY <1>10 DEF SnapshotInv, PlaceSound
  <2>3. PICK e \in i..n : PassSound(p, a, history, i, e)
      BY <2>2
  <2>4. Content(history[n], path).present
      BY <1>4, <1>10 DEF Rules!Absent
  <2>5. i \in 1..n /\ n = Len(history)
      BY <1>4, <2>1, <2>2
  <2>6. f = Rules!Fingerprint(KindIn(a.chain, path), Content(history[n], path),
                              Rules!NoGit, a.graph[path])
      BY <1>4, <1>7
  <2> HIDE DEF a, n, f
  <2>7. PassSound(p, b, history, i, e)
      BY <1>2, <1>3, <1>4, <1>8, <1>9, <1>10, <2>3, <2>4, <2>5, <2>6, SourceTaken
  <2>8. PlaceSound(p, b, history)
      BY <1>9, <2>1, <2>2, <2>3, <2>7 DEF PlaceSound, n
  <2> QED BY <1>10, <2>8, NewPlaceSound
<1> QED BY <1>1, <1>10, FailedSound

LEMMA ReadGitSound ==
    ASSUME SnapshotInv, NEW p \in Processes, Rules!ReadGit(p)
    PROVE  \A q \in Processes : PlaceSound(q, cacheAt'[q], history')
<1> DEFINE a == cacheAt[p]
<1> DEFINE n == Len(history)
<1> DEFINE path == CHOOSE q \in DOMAIN a.sources : a.sources[q].git = Rules!NoGit
<1> DEFINE git == Rules!GitState(version, gitIndex, head, path)
<1> DEFINE b == [a EXCEPT !.pc = "pass", !.sources[path].git = git]
<1> DEFINE f == [a.sources[path] EXCEPT !.git = git]
<1> DEFINE sources == [a.sources EXCEPT ![path] = f]
<1>1. a.pc = "git" /\ cacheAt' = [cacheAt EXCEPT ![p] = b] /\ history' = history
    BY DEF Rules!ReadGit, Rules!Local, Rules!Step
<1>2. /\ n \in 1..n /\ n \in Nat /\ Histories(history)
      /\ git = GitOf(history[n], path)
    BY WorktreeNow
<1>3. DOMAIN a = Fields
    BY DEF SnapshotInv, AnswersInv
<1>4. path = CHOOSE q \in DOMAIN a.sources : a.sources[q].git = Rules!NoGit
    OBVIOUS
<1> HIDE DEF path, git
<1>5. b = [a EXCEPT !.pc = "pass", !.sources = sources]
    OBVIOUS
<1> HIDE DEF b
<1>6. /\ DOMAIN sources = DOMAIN a.sources
      /\ path \in DOMAIN a.sources => sources[path] = f
      /\ \A q \in DOMAIN a.sources \ {path} : sources[q] = a.sources[q]
      /\ sources = [q \in DOMAIN sources |-> sources[q]]
  <2> HIDE DEF f
  <2> QED OBVIOUS
<1>7. f = [a.sources[path] EXCEPT !.git = GitOf(history[n], path)]
    BY <1>2
<1> HIDE DEF sources, f
<1>8. /\ b.pc = "pass" /\ b.queue = a.queue /\ b.chain = a.chain
      /\ b.processed = a.processed /\ b.graph = a.graph /\ b.sources = sources
      /\ b.reasons = a.reasons /\ b.first = a.first /\ b.since = a.since
    BY <1>3, <1>5 DEF Fields
<1>9. a.since \in 1..n
    BY <1>1 DEF SnapshotInv, PlaceSound
<1>10. PICK i \in a.since..n : \E e \in i..n : PassSound(p, a, history, i, e)
    BY <1>1 DEF SnapshotInv, PlaceSound
<1>11. PICK e \in i..n : PassSound(p, a, history, i, e)
    BY <1>10
<1>12. i \in 1..n /\ n = Len(history)
    BY <1>2, <1>9, <1>10
<1>13. path \in DOMAIN a.sources
    BY <1>1, <1>4, <1>11 DEF PassSound, SourcesRead
<1>14. DOMAIN b.sources = DOMAIN a.sources /\ b.sources[path] = f
    BY <1>6, <1>8, <1>13
<1>15. /\ \A q \in DOMAIN a.sources \ {path} : b.sources[q] = a.sources[q]
       /\ b.sources = [q \in DOMAIN b.sources |-> b.sources[q]]
    BY <1>6, <1>8
<1> HIDE DEF a, n
<1>16. PassSound(p, b, history, i, e)
  <2>1. Stamped(a, b, path, f, GitOf(history[n], path))
      BY <1>4, <1>7, <1>14, <1>15 DEF Stamped
  <2> QED BY <1>1, <1>2, <1>8, <1>11, <1>12, <2>1, SourceGit
<1>17. PlaceSound(p, b, history)
    BY <1>8, <1>9, <1>10, <1>11, <1>16 DEF PlaceSound, n
<1> QED BY <1>1, <1>17, NewPlaceSound

LEMMA SecondPassSound ==
    ASSUME SnapshotInv, NEW p \in Processes, Rules!SecondPass(p)
    PROVE  \A q \in Processes : PlaceSound(q, cacheAt'[q], history')
<1> DEFINE a == cacheAt[p]
<1> DEFINE n == Len(history)
<1> DEFINE first == Rules!Captured(p)
<1> DEFINE b == [Rules!Pass(a) EXCEPT !.first = first]
<1>1. a.pc = "pass" /\ cacheAt' = [cacheAt EXCEPT ![p] = b] /\ history' = history
    BY DEF Rules!SecondPass, Rules!Local, Rules!Step
<1>2. DOMAIN a = Fields
    BY DEF SnapshotInv, AnswersInv
<1>3. first.sources = a.sources
    BY DEF Rules!Captured
<1> HIDE DEF first
<1>4. b.pc = "chain" /\ b.sources = <<>> /\ b.since = a.since /\ b.first = first
    BY <1>2 DEF Rules!Pass, Fields
<1> HIDE DEF b
<1>5. a.since \in 1..n
    BY <1>1 DEF SnapshotInv, PlaceSound
<1>6. PICK i \in a.since..n : \E e \in i..n : PassSound(p, a, history, i, e)
    BY <1>1 DEF SnapshotInv, PlaceSound
<1>7. PICK e \in i..n : PassSound(p, a, history, i, e)
    BY <1>6
<1>8. Histories(history)
    BY WorktreeNow
<1> HIDE DEF a
<1>9. FirstSeen(b, history, n)
    BY <1>1, <1>3, <1>4, <1>5, <1>6, <1>7, <1>8, PassSeen
<1>10. PlaceSound(p, b, history)
    BY <1>4, <1>5, <1>9 DEF PlaceSound
<1> QED BY <1>1, <1>10, NewPlaceSound

LEMMA WorkSound ==
    ASSUME NothingReturns, SnapshotInv, NEW p \in Processes, Rules!Works(p)
    PROVE  \A q \in Processes : PlaceSound(q, cacheAt'[q], history')
<1> DEFINE a == cacheAt[p]
<1>1. DOMAIN a = Fields
    BY DEF SnapshotInv, AnswersInv
<1>2. \A from, b : Rules!Step(p, from, b) =>
         a.pc = from /\ cacheAt' = [cacheAt EXCEPT ![p] = b] /\ history' = history
    BY DEF Rules!Step
<1>3. \A from, b : Rules!Local(p, from, b) => Rules!Step(p, from, b)
    BY DEF Rules!Local
<1>4. \A from, b : Rules!Step(p, from, b) /\ PlaceSound(p, b, history) =>
         \A q \in Processes : PlaceSound(q, cacheAt'[q], history')
    BY <1>2, NewPlaceSound
<1>5. CASE Rules!Begin(p) \/ Rules!Acquire(p)
    BY <1>3, <1>4, <1>5, BeginsSound DEF Rules!Begin, Rules!Acquire
<1>6. CASE Rules!Check(p)
  <2> DEFINE b == Rules!Returns(p, Rules!Valid(cache), Rules!Snapshot(p, Rules!Reasons(p)))
  <2>1. Rules!Step(p, "pass", b) /\ Rules!SnapshotEnds(p)
      BY <1>3, <1>6 DEF Rules!Check
  <2>2. /\ b.pc = "done" /\ b.first = Rules!Captured(p) /\ b.reasons = Rules!Reasons(p)
        /\ b.since = a.since
      BY ReturnFields DEF Rules!Snapshot
  <2> HIDE DEF b
  <2> QED BY <1>4, <2>1, <2>2, ReturnSound
<1>7. CASE Rules!FirstSnapshot(p)
  <2> DEFINE over == Rules!Returns(p, Rules!NoRecord, Rules!Snapshot(p, Rules!Reasons(p)))
  <2> DEFINE b == [a EXCEPT !.pc = "lock", !.initial = Rules!Captured(p)]
  <2>1. /\ Rules!SnapshotEnds(p)
        /\ \/ Rules!Step(p, "pass", over)
           \/ Rules!Reasons(p) = {} /\ Rules!Step(p, "pass", b)
      BY <1>3, <1>7 DEF Rules!FirstSnapshot
  <2>2. /\ over.pc = "done" /\ over.first = Rules!Captured(p)
        /\ over.reasons = Rules!Reasons(p) /\ over.since = a.since
      BY ReturnFields DEF Rules!Snapshot
  <2>3. b.pc = "lock" /\ b.first = a.first /\ b.reasons = a.reasons /\ b.since = a.since
      BY <1>1 DEF Fields
  <2> HIDE DEF b, over
  <2>4. CASE Rules!Step(p, "pass", over)
      BY <1>4, <2>1, <2>2, <2>4, ReturnSound
  <2>5. CASE Rules!Reasons(p) = {} /\ Rules!Step(p, "pass", b)
    <3>1. a.reasons = {} /\ a.first = Rules!Captured(p)
        BY <2>1, <2>5, SnapshotIsSound
    <3>2. PlaceSound(p, b, history)
        BY <2>1, <2>3, <2>5, <3>1, ReturnSound
    <3> QED BY <1>4, <2>5, <3>2
  <2> QED BY <2>1, <2>4, <2>5
<1>8. CASE Rules!Write(p)
  <2> DEFINE b == [Rules!Returns(p, Rules!Captured(p), Rules!Snapshot(p, {}))
                     EXCEPT !.pc = "release"]
  <2>1. Rules!Step(p, "pass", b) /\ Rules!SnapshotEnds(p) /\ Rules!Reasons(p) = {}
      BY <1>8 DEF Rules!Write, Rules!UnchangedSince
  <2>2. /\ b.pc = "release" /\ b.first = Rules!Captured(p) /\ b.reasons = {}
        /\ b.since = a.since
      BY ReturnFields DEF Rules!Snapshot
  <2> HIDE DEF b
  <2> QED BY <1>4, <2>1, <2>2, ReturnSound
<1>9. CASE Rules!Decline(p)
  <2> DEFINE why == {"SOURCE_CHANGED_DURING_DISCOVERY"}
  <2> DEFINE b == [Rules!Returns(p, Rules!NoRecord, Rules!Snapshot(p, why))
                     EXCEPT !.pc = "release"]
  <2>1. Rules!Step(p, "pass", b)
      BY <1>9 DEF Rules!Decline
  <2>2. b.pc = "release" /\ b.reasons = why
      BY ReturnFields DEF Rules!Snapshot
  <2>3. why # {}
      OBVIOUS
  <2> HIDE DEF b, why
  <2>4. PlaceSound(p, b, history)
      BY <2>2, <2>3 DEF PlaceSound
  <2> QED BY <1>4, <2>1, <2>4
<1>10. CASE Rules!Release(p)
  <2> DEFINE b == [a EXCEPT !.pc = "done"]
  <2>1. Rules!Step(p, "release", b)
      BY <1>10 DEF Rules!Release
  <2>2. b.pc = "done" /\ b.first = a.first /\ b.reasons = a.reasons /\ b.since = a.since
      BY <1>1 DEF Fields
  <2>3. a.pc = "release" /\ PlaceSound(p, a, history)
      BY <1>2, <2>1 DEF SnapshotInv
  <2> HIDE DEF b, a
  <2>4. PlaceSound(p, b, history)
      BY <2>2, <2>3 DEF PlaceSound, OneWorktree
  <2> QED BY <1>4, <2>1, <2>4
<1>11. CASE Rules!Crash(p)
  <2> DEFINE b == [Rules!Idle EXCEPT !.pc = "dead"]
  <2>1. cacheAt' = [cacheAt EXCEPT ![p] = b] /\ history' = history
      BY <1>11 DEF Rules!Crash
  <2>2. b.pc = "dead"
      BY DEF Rules!Idle
  <2> HIDE DEF b
  <2>3. PlaceSound(p, b, history)
      BY <2>2 DEF PlaceSound
  <2> QED BY <2>1, <2>3, NewPlaceSound
<1>12. CASE Rules!TimedOut(p)
    BY <1>12, FailedSound DEF Rules!TimedOut
<1> QED BY <1>5, <1>6, <1>7, <1>8, <1>9, <1>10, <1>11, <1>12, ReadChainSound, DiscoverSound,
           ReadBytesSound, ReadGitSound, SecondPassSound DEF Rules!Works

\* Editors and git only add worktrees to the history.
LEMMA ChangeGrows ==
    ASSUME HistoryInv, NEW p \in Paths, Rules!Edit(p) \/ Rules!Stage(p) \/ Rules!Commit(p)
    PROVE  HistoryInv' /\ Grown(history, history') /\ cacheAt' = cacheAt
<1> DEFINE n == Len(history)
<1> DEFINE v == history[n]
<1> DEFINE w == [version |-> version', index |-> gitIndex', head |-> head']
<1>1. n \in 1..n /\ Worktree(v) /\ Histories(history)
    BY DEF HistoryInv, Histories
<1>2. version = v.version /\ gitIndex = v.index /\ head = v.head
    BY DEF HistoryInv
<1>3. history' = Append(history, w) /\ cacheAt' = cacheAt
    BY DEF Rules!Edit, Rules!Stage, Rules!Commit, Rules!Changed
<1>4. w.version = version' /\ w.index = gitIndex' /\ w.head = head'
    OBVIOUS
<1> HIDE DEF w
<1>5. /\ \A q \in Paths : /\ version[q] \in DOMAIN Versions[q] /\ version[q] \in Nat
                          /\ gitIndex[q] \in Nat /\ head[q] \in Nat
                          /\ head[q] =< gitIndex[q] /\ gitIndex[q] =< version[q]
      /\ version = [q \in Paths |-> version[q]] /\ gitIndex = [q \in Paths |-> gitIndex[q]]
      /\ head = [q \in Paths |-> head[q]]
    BY <1>1, <1>2, Positions DEF Worktree
<1> HIDE DEF v
<1>6. Worktree(w) /\ NoLater(v, w)
  <2>1. CASE Rules!Edit(p)
    <3>1. /\ version' = [version EXCEPT ![p] = @ + 1] /\ gitIndex' = gitIndex
          /\ head' = head /\ version[p] < Len(Versions[p])
        BY <2>1 DEF Rules!Edit
    <3>2. Len(Versions[p]) \in Nat /\ DOMAIN Versions[p] = 1..Len(Versions[p])
        BY CacheAssumption DEF Rules!CacheAssumption
    <3>3. version[p] + 1 \in DOMAIN Versions[p]
        BY <1>5, <3>1, <3>2
    <3>4. /\ \A q \in Paths : version'[q] = IF q = p THEN version[p] + 1 ELSE version[q]
          /\ version' = [q \in Paths |-> version'[q]]
        BY <1>5, <3>1
    <3>5. ASSUME NEW q \in Paths
          PROVE  /\ version'[q] \in DOMAIN Versions[q]
                 /\ version[q] =< version'[q] /\ gitIndex[q] =< version'[q]
        BY <1>5, <3>3, <3>4
    <3> QED BY <1>2, <1>4, <1>5, <3>1, <3>4, <3>5 DEF Worktree, NoLater
  <2>2. CASE Rules!Stage(p)
    <3>1. /\ gitIndex' = [gitIndex EXCEPT ![p] = version[p]] /\ version' = version
          /\ head' = head
        BY <2>2 DEF Rules!Stage
    <3>2. /\ \A q \in Paths : gitIndex'[q] = IF q = p THEN version[p] ELSE gitIndex[q]
          /\ gitIndex' = [q \in Paths |-> gitIndex'[q]]
        BY <1>5, <3>1
    <3>3. ASSUME NEW q \in Paths
          PROVE  /\ gitIndex'[q] \in Nat /\ gitIndex'[q] =< version[q]
                 /\ gitIndex[q] =< gitIndex'[q] /\ head[q] =< gitIndex'[q]
                 /\ version[q] =< version[q] /\ head[q] =< head[q]
        BY <1>5, <3>2
    <3> QED BY <1>2, <1>4, <1>5, <3>1, <3>2, <3>3 DEF Worktree, NoLater
  <2>3. CASE Rules!Commit(p)
    <3>1. /\ head' = [head EXCEPT ![p] = gitIndex[p]] /\ version' = version
          /\ gitIndex' = gitIndex
        BY <2>3 DEF Rules!Commit
    <3>2. /\ \A q \in Paths : head'[q] = IF q = p THEN gitIndex[p] ELSE head[q]
          /\ head' = [q \in Paths |-> head'[q]]
        BY <1>5, <3>1
    <3>3. ASSUME NEW q \in Paths
          PROVE  /\ head'[q] \in Nat /\ head'[q] =< gitIndex[q] /\ head[q] =< head'[q]
                 /\ version[q] =< version[q] /\ gitIndex[q] =< gitIndex[q]
        BY <1>5, <3>2
    <3> QED BY <1>2, <1>4, <1>5, <3>1, <3>2, <3>3 DEF Worktree, NoLater
  <2> QED BY <2>1, <2>2, <2>3
<1>7. /\ Histories(history') /\ Grown(history, history')
      /\ history'[Len(history')] = w
    BY <1>1, <1>3, <1>6, HistoryGrows DEF v
<1>8. HistoryInv'
    BY <1>4, <1>7 DEF HistoryInv
<1> QED BY <1>3, <1>7, <1>8

LEMMA InitSnapshots == PartInit => SnapshotInv
<1> SUFFICES ASSUME PartInit PROVE SnapshotInv
    OBVIOUS
<1>1. PICK s \in Scenarios :
         /\ version = s.start /\ gitIndex = s.start /\ head = s.start
         /\ history = <<[version |-> s.start, index |-> s.start, head |-> s.start]>>
         /\ cacheAt = [p \in Processes |-> IF p \in s.crew THEN Rules!Idle
                                           ELSE [Rules!Idle EXCEPT !.pc = "done"]]
    BY DEF PartInit, Rules!Init
<1> DEFINE w == [version |-> s.start, index |-> s.start, head |-> s.start]
<1>2. w.version = s.start /\ w.index = s.start /\ w.head = s.start
    OBVIOUS
<1>3. s.start \in [Paths -> Nat] /\ \A q \in Paths : s.start[q] \in DOMAIN Versions[q]
    BY CacheAssumption DEF Rules!CacheAssumption
<1>4. history = <<w>>
    BY <1>1
<1> HIDE DEF w
<1>5. Worktree(w)
    BY <1>2, <1>3 DEF Worktree
<1>6. Histories(history)
  <2>1. /\ Len(history) = 1 /\ history[1] = w
        /\ history = [i \in 1..Len(history) |-> history[i]]
      BY <1>4
  <2>2. \A i \in 1..Len(history) : i = 1
      BY <2>1
  <2>3. NoLater(w, w)
      BY <1>5, Itself
  <2> QED BY <1>5, <2>1, <2>2, <2>3 DEF Histories
<1>7. HistoryInv
  <2>1. history[Len(history)] = w
      BY <1>4
  <2> QED BY <1>1, <1>2, <1>6, <2>1 DEF HistoryInv
<1>8. ASSUME NEW p \in Processes PROVE PlaceSound(p, cacheAt[p], history)
  <2> DEFINE b == [Rules!Idle EXCEPT !.pc = "done"]
  <2>1. /\ b.pc = "done" /\ b.first = Rules!NoRecord
        /\ Rules!Idle.pc = "idle"
      BY DEF Rules!Idle
  <2>2. cacheAt[p] = Rules!Idle \/ cacheAt[p] = b
      BY <1>1
  <2> HIDE DEF b
  <2> QED BY <2>1, <2>2 DEF PlaceSound
<1> QED BY <1>7, <1>8, InitAnswers DEF SnapshotInv

LEMMA NextSnapshots ==
    ASSUME NothingReturns, SnapshotInv, [Rules!Next]_(Rules!vars)
    PROVE  SnapshotInv'
<1>1. AnswersInv'
    BY NextAnswers DEF SnapshotInv
<1>2. CASE UNCHANGED Rules!vars
  <2>1. /\ version' = version /\ gitIndex' = gitIndex /\ head' = head
        /\ history' = history /\ cacheAt' = cacheAt
      BY <1>2 DEF Rules!vars
  <2> QED BY <1>1, <2>1 DEF SnapshotInv, HistoryInv
<1>3. CASE \E p \in Processes : Rules!Works(p)
  <2>1. PICK p \in Processes : Rules!Works(p)
      BY <1>3
  <2>2. /\ version' = version /\ gitIndex' = gitIndex /\ head' = head
        /\ history' = history
      BY <2>1 DEF Rules!Works, Rules!Begin, Rules!ReadChain, Rules!Discover, Rules!ReadBytes,
                  Rules!ReadGit, Rules!SecondPass, Rules!Check, Rules!FirstSnapshot,
                  Rules!Acquire, Rules!TimedOut, Rules!Write, Rules!Decline, Rules!Release,
                  Rules!Crash, Rules!Local, Rules!Step, Rules!Failed
  <2>3. HistoryInv'
      BY <2>2 DEF SnapshotInv, HistoryInv
  <2> QED BY <1>1, <2>1, <2>3, WorkSound DEF SnapshotInv
<1>4. CASE \E p \in Paths : Rules!Edit(p) \/ Rules!Stage(p) \/ Rules!Commit(p)
  <2>1. HistoryInv' /\ Grown(history, history') /\ cacheAt' = cacheAt
      BY <1>4, ChangeGrows DEF SnapshotInv
  <2>2. \A p \in Processes : PlaceSound(p, cacheAt'[p], history')
      BY <2>1, PlaceGrows DEF SnapshotInv
  <2> QED BY <1>1, <2>1, <2>2 DEF SnapshotInv
<1> QED BY <1>2, <1>3, <1>4 DEF Rules!Next

\* What capture_snapshot returns as complete is one worktree that existed during the call,
\* in its files and in git, and complete there, whatever the files refer to and however many
\* processes, editors and git commands work meanwhile: so long as no editor gives a file
\* back what it held before.
THEOREM SnapshotsAreOneWorktree ==
    ASSUME NothingReturns
    PROVE  PartSpec => []SnapshotIsOneWorktree
<1>1. SnapshotInv /\ [PartNext]_allVars => SnapshotInv'
    BY PartSteps, NextSnapshots
<1>2. SnapshotInv => SnapshotIsOneWorktree
  <2> SUFFICES ASSUME SnapshotInv, NEW p \in Processes,
                      cacheAt[p].pc \in {"lock", "release", "done"},
                      cacheAt[p].reasons = {}, cacheAt[p].first # Rules!NoRecord
               PROVE  \E i \in cacheAt[p].since..Len(history) :
                         /\ cacheAt[p].first = Rules!RecordOf(history[i], p)
                         /\ Rules!Complete(history[i], p)
      BY DEF SnapshotIsOneWorktree, Rules!SnapshotIsOneWorktree
  <2>1. OneWorktree(p, cacheAt[p], history)
      BY DEF SnapshotInv, PlaceSound
  <2> QED BY <2>1 DEF OneWorktree
<1> QED BY InitSnapshots, <1>1, <1>2, PTL DEF PartSpec

=============================================================================
