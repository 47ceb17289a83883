------------------------ MODULE EvidenceStore_proofs ------------------------
(***************************************************************************)
(* For any number of callers, sources and models: two writers never undo   *)
(* each other's evidence, and as long as no caller is killed the attempts  *)
(* at a source are spaced, whoever makes them.  The argument: a caller     *)
(* that has the lock has it alone, so what it read of the two files is     *)
(* what they still hold when it replaces them.                             *)
(***************************************************************************)
EXTENDS EvidenceStore, TLAPS

Has(c) == at[c].pc \in {"ask", "merge", "schedule"}

Files == [Models -> UNION {[seen : Nat, until : Nat, profile : Profiles], {None}}]
Schedules == [Source -> Int]
Waiting == [pc : {"wait"}, does : {"ask", "merge"}, got : Files]
Working == [pc : {"ask", "merge", "schedule"}, does : {"ask", "merge"}, got : Files,
            i : Nat \ {0}, old : Files, next : Schedules]

Shapes ==
    /\ now \in Nat /\ locked \in BOOLEAN /\ evidence \in Files /\ next \in Schedules
    /\ contacts \in [Source -> Int]
    /\ at \in [Callers -> {Idle} \union Waiting \union Working]

\* Who has the lock has it alone, and knows what the evidence file holds.
LockInv ==
    /\ \A c \in Callers : Has(c) => locked
    /\ \A c, d \in Callers : Has(c) /\ Has(d) => c = d
    /\ \A c \in Callers : at[c].pc \in {"ask", "merge"} => at[c].old = Read(evidence, now)

IInv == Shapes /\ LockInv

\* The schedule that counts: in memory while somebody refreshes, else the file.
SpacedInv ==
    \A s \in Source :
        /\ \A c \in Callers : at[c].pc \in {"ask", "schedule"} =>
              contacts[s] + Interval <= at[c].next[s]
        /\ (\A c \in Callers : at[c].pc \notin {"ask", "schedule"}) =>
              contacts[s] + Interval <= next[s]

-----------------------------------------------------------------------------
LEMMA NothingIsAFile == Nothing \in Files
BY DEF Nothing, Files

LEMMA ReadIsAFile ==
    ASSUME NEW file \in Files, NEW t \in Nat
    PROVE  Read(file, t) \in Files
BY DEF Read, Files

LEMMA MergeIsAFile ==
    ASSUME NEW old \in Files, NEW new \in Files
    PROVE  Merge(old, new) \in Files
BY DEF Merge, Files

\* What a source or a host says is about one model and holds for Validity.
LEMMA CandidatesAreFiles ==
    ASSUME NEW t \in Nat, NEW record \in Seen(t), NEW candidate \in About(record)
    PROVE  candidate \in Files
<1>1. record \in [seen : Nat, until : Nat, profile : Profiles]
  BY EvidenceAssumption DEF Seen
<1> QED
  BY <1>1 DEF About, Files, Nothing

\* A record that holds is kept by a merge, unless the merge brings another one.
LEMMA MergeKeepsFresh ==
    ASSUME NEW file \in Files, NEW new \in Files, NEW t \in Nat, NEW k \in Models,
           Fresh(file[k], t)
    PROVE  Merge(Read(file, t), new)[k] \in {file[k], new[k]}
BY DEF Merge, Read

\* The kinds of callers are told apart by where they are.
LEMMA Kinds ==
    ASSUME Shapes, NEW c \in Callers
    PROVE  /\ at[c].pc = "wait" => at[c] \in Waiting
           /\ Has(c) => at[c] \in Working
           /\ Idle.pc = "idle"
           /\ at[c].pc = "idle" => at[c] = Idle
BY DEF Shapes, Has, Idle, Waiting, Working

-----------------------------------------------------------------------------
LEMMA InitIInv == Init => IInv /\ SpacedInv
<1> SUFFICES ASSUME Init PROVE IInv /\ SpacedInv
  OBVIOUS
<1> USE DEF Init, EvidenceInit
<1>1. Shapes
  <2>1. Interval \in Int
    BY EvidenceAssumption
  <2>2. contacts \in [Source -> Int] /\ next \in Schedules
    BY <2>1 DEF Schedules
  <2>3. at \in [Callers -> {Idle} \union Waiting \union Working]
    OBVIOUS
  <2> QED
    BY <2>2, <2>3, NothingIsAFile DEF Shapes
<1>2. \A c \in Callers : at[c].pc = "idle"
  BY DEF Idle
<1>3. LockInv
  BY <1>2 DEF LockInv, Has
<1>4. SpacedInv
  BY <1>2, EvidenceAssumption DEF SpacedInv
<1> QED
  BY <1>1, <1>3, <1>4 DEF IInv

\* A caller gives the lock back, and has not changed what others know.
LEMMA LeaveStep ==
    ASSUME IInv, NEW c \in Callers, Has(c), Leave(c), now' = now,
           evidence' \in Files, next' \in Schedules, contacts' \in [Source -> Int]
    PROVE  IInv'
<1>1. /\ at'[c] = Idle /\ at'[c].pc = "idle"
      /\ \A d \in Callers : d # c => at'[d] = at[d] /\ ~Has(d)
  BY DEF IInv, Shapes, LockInv, Leave, Idle
<1>2. Shapes'
  BY DEF IInv, Shapes, Leave
<1>3. \A d \in Callers : at'[d].pc \notin {"ask", "merge", "schedule"}
  BY <1>1 DEF Has
<1> QED
  BY <1>2, <1>3 DEF IInv, LockInv, Has

\* A caller that has the lock goes on; the files stay as they are.
LEMMA WorkStep ==
    ASSUME IInv, NEW c \in Callers, Has(c), NEW me \in Working,
           at' = [at EXCEPT ![c] = me], me.old = at[c].old,
           me.pc # "schedule" => me.pc = at[c].pc,
           UNCHANGED <<now, locked, evidence, next>>, contacts' \in [Source -> Int]
    PROVE  IInv'
<1>1. /\ at'[c] = me
      /\ \A d \in Callers : d # c => at'[d] = at[d] /\ ~Has(d)
  BY DEF IInv, Shapes, LockInv
<1>2. Shapes'
  BY DEF IInv, Shapes
<1>3. LockInv'
  BY <1>1 DEF IInv, LockInv, Has
<1> QED
  BY <1>2, <1>3 DEF IInv

LEMMA CallStep ==
    ASSUME IInv, NEW c \in Callers, CallRefresh(c) \/ CallAccept(c)
    PROVE  IInv' /\ (SpacedInv => SpacedInv')
<1>1. PICK what \in {"ask", "merge"}, got \in Files : Enter(c, what, got)
  BY NothingIsAFile, CandidatesAreFiles DEF IInv, Shapes, CallRefresh, CallAccept
<1>2. /\ at[c] = Idle /\ UNCHANGED <<now, evidence, next, locked, contacts>>
      /\ at' = [at EXCEPT ![c] = [pc |-> "wait", does |-> what, got |-> got]]
  BY <1>1 DEF Enter
<1>3. /\ at'[c] = [pc |-> "wait", does |-> what, got |-> got] /\ at'[c] \in Waiting
      /\ at'[c].pc = "wait" /\ at[c].pc = "idle"
      /\ \A d \in Callers : d # c => at'[d] = at[d]
  BY <1>2 DEF IInv, Shapes, Waiting, Idle
<1>4. Shapes'
  BY <1>2, <1>3 DEF IInv, Shapes
<1>5. LockInv'
  BY <1>2, <1>3 DEF IInv, LockInv, Has
<1>6. SpacedInv => SpacedInv'
  BY <1>2, <1>3 DEF SpacedInv
<1> QED
  BY <1>4, <1>5, <1>6 DEF IInv

LEMMA LockStep ==
    ASSUME IInv, NEW c \in Callers, Lock(c) \/ LockTimeout(c)
    PROVE  IInv' /\ (SpacedInv => SpacedInv')
<1>1. CASE Lock(c)
  <2> DEFINE me == [pc |-> at[c].does, does |-> at[c].does, got |-> at[c].got, i |-> 1,
                    old |-> Read(evidence, now), next |-> next]
  <2>1. /\ at[c].pc = "wait" /\ ~locked /\ locked' = TRUE /\ at' = [at EXCEPT ![c] = me]
        /\ UNCHANGED <<now, evidence, next, contacts>>
    BY <1>1 DEF Lock, Locked
  <2>2. at[c] \in Waiting /\ Read(evidence, now) \in Files
    BY <2>1, Kinds, ReadIsAFile DEF IInv, Shapes
  <2>3. /\ me \in Working /\ me.pc \in {"ask", "merge"} /\ me.old = Read(evidence, now)
        /\ me.next = next
    BY <2>2 DEF Waiting, Working, IInv, Shapes
  <2>4. /\ at'[c] = me /\ \A d \in Callers : d # c => at'[d] = at[d]
        /\ \A d \in Callers : ~Has(d)
    BY <2>1 DEF IInv, Shapes, LockInv
  <2> HIDE DEF me
  <2>5. Shapes'
    BY <2>1, <2>3 DEF IInv, Shapes
  <2>6. LockInv'
    BY <2>1, <2>3, <2>4 DEF IInv, LockInv, Has
  <2>7. SpacedInv => SpacedInv'
    BY <2>1, <2>3, <2>4 DEF SpacedInv, Has
  <2> QED
    BY <2>5, <2>6, <2>7 DEF IInv
<1>2. CASE LockTimeout(c)
  <2>1. /\ at[c].pc = "wait" /\ at' = [at EXCEPT ![c] = Idle]
        /\ UNCHANGED <<now, evidence, next, locked, contacts>>
    BY <1>2 DEF LockTimeout
  <2>2. at'[c].pc = "idle" /\ \A d \in Callers : d # c => at'[d] = at[d]
    BY <2>1 DEF IInv, Shapes, Idle
  <2>3. Shapes'
    BY <2>1 DEF IInv, Shapes
  <2>4. LockInv'
    BY <2>1, <2>2 DEF IInv, LockInv, Has
  <2>5. SpacedInv => SpacedInv'
    BY <2>1, <2>2 DEF SpacedInv
  <2> QED
    BY <2>3, <2>4, <2>5 DEF IInv
<1> QED
  BY <1>1, <1>2

\* What a step of one caller may do to the evidence and to the sources.
Stays ==
    \A k \in Models : Fresh(evidence[k], now) =>
        \/ evidence'[k] = evidence[k]
        \/ \E c \in Callers : at[c].pc \in {"ask", "merge"} /\ evidence'[k] = at[c].got[k]
Apart == \A s \in Source : contacts'[s] # contacts[s] => contacts'[s] >= contacts[s] + Interval

\* A source that is not due is passed over.
LEMMA TooSoonStep ==
    ASSUME IInv, NEW c \in Callers, TooSoon(c)
    PROVE  IInv' /\ (SpacedInv => SpacedInv')
<1> DEFINE me == [at[c] EXCEPT !.i = @ + 1]
<1>1. /\ at[c].pc = "ask" /\ at' = [at EXCEPT ![c] = me]
      /\ UNCHANGED <<now, evidence, next, locked, contacts>>
  BY DEF TooSoon, Asking
<1>2. at[c] \in Working /\ Has(c)
  BY <1>1, Kinds DEF IInv, Has
<1>3. me \in Working /\ me.old = at[c].old /\ me.pc = at[c].pc /\ me.next = at[c].next
  BY <1>2 DEF Working
<1>4. at'[c] = me /\ \A d \in Callers : d # c => at'[d] = at[d]
  BY <1>1 DEF IInv, Shapes
<1> HIDE DEF me
<1>5. IInv'
  BY <1>1, <1>2, <1>3, WorkStep DEF IInv, Shapes
<1>6. SpacedInv => SpacedInv'
  BY <1>1, <1>3, <1>4 DEF SpacedInv
<1> QED
  BY <1>5, <1>6

\* A caller after an answer: the next source, the schedule, what it has learned.
LEMMA Answered ==
    ASSUME NEW w \in Working, NEW schedule \in Schedules, NEW got \in Files
    PROVE  LET new == [w EXCEPT !.i = @ + 1, !.next = schedule, !.got = got]
           IN  new \in Working /\ new.old = w.old /\ new.pc = w.pc /\ new.next = schedule
<1> DEFINE one == [w EXCEPT !.i = @ + 1]
           two == [one EXCEPT !.next = schedule]
           three == [two EXCEPT !.got = got]
<1>1. one \in Working /\ one.old = w.old /\ one.pc = w.pc
  BY DEF Working
<1> HIDE DEF one
<1>2. two \in Working /\ two.old = one.old /\ two.pc = one.pc /\ two.next = schedule
  BY <1>1 DEF Working
<1> HIDE DEF two
<1>3. three \in Working /\ three.old = two.old /\ three.pc = two.pc /\ three.next = two.next
  BY <1>2 DEF Working
<1>4. three = [w EXCEPT !.i = @ + 1, !.next = schedule, !.got = got]
  BY DEF one, two
<1> HIDE DEF three
<1> QED
  BY <1>1, <1>2, <1>3, <1>4

\* A source is asked when it is due: the schedule in memory moves with it.
LEMMA AskStep ==
    ASSUME IInv, NEW c \in Callers, Ask(c)
    PROVE  /\ IInv'
           /\ SpacedInv => Apart
           /\ SpacedInv /\ "killed" \notin Endings => SpacedInv'
<1> DEFINE s == Mine(c)
<1>1. /\ at[c].pc = "ask" /\ at[c].i <= Len(Sources) /\ now >= at[c].next[s]
      /\ contacts' = [contacts EXCEPT ![s] = now]
      /\ UNCHANGED <<now, evidence, next>>
  BY DEF Ask, Asking, Contacted
<1>2. at[c] \in Working /\ Has(c)
  BY <1>1, Kinds DEF IInv, Has
<1>3. s \in Source
  BY <1>1, <1>2, EvidenceAssumption DEF Mine, Source, Working
<1>4. /\ contacts' \in [Source -> Int] /\ contacts'[s] = now
      /\ \A t \in Source : t # s => contacts'[t] = contacts[t]
      /\ now \in Int /\ Interval \in Int /\ Interval > 0
  BY <1>1, <1>3, EvidenceAssumption DEF IInv, Shapes
<1>5. SpacedInv => Apart
  <2>1. ASSUME SpacedInv PROVE contacts[s] + Interval <= at[c].next[s]
    BY <1>1, <1>3, <2>1 DEF SpacedInv
  <2>2. at[c].next[s] \in Int /\ contacts[s] \in Int
    BY <1>2, <1>3 DEF IInv, Shapes, Working, Schedules
  <2>3. SpacedInv => now >= contacts[s] + Interval
    BY <1>1, <1>4, <2>1, <2>2
  <2> QED
    BY <1>4, <2>3 DEF Apart
<1>6. Attempt(c, "answer") = Attempt(c, "failed") /\ Attempt(c, "answer") \in Schedules
  <2>1. at[c].next \in [Source -> Int] /\ now + Interval \in Int
    BY <1>2, <1>4 DEF Working, Schedules
  <2>2. [at[c].next EXCEPT ![Mine(c)] = now + Interval] \in [Source -> Int]
    BY <2>1
  <2> QED
    BY <2>2, Zenon DEF Attempt, Schedules
<1>7. ASSUME NEW got \in Files, UNCHANGED locked,
             at' = [at EXCEPT ![c] = [at[c] EXCEPT !.i = @ + 1, !.next = Attempt(c, "answer"),
                                                   !.got = got]]
      PROVE  IInv' /\ (SpacedInv => SpacedInv')
  <2> DEFINE me == [at[c] EXCEPT !.i = @ + 1, !.next = Attempt(c, "answer"), !.got = got]
  <2>1. Attempt(c, "answer") = [at[c].next EXCEPT ![s] = now + Interval]
    BY DEF Attempt
  <2>2. /\ me \in Working /\ me.old = at[c].old /\ me.pc = at[c].pc
        /\ me.next = [at[c].next EXCEPT ![s] = now + Interval]
    <3>1. \A w \in Working : \A n \in Schedules : \A g \in Files :
             LET new == [w EXCEPT !.i = @ + 1, !.next = n, !.got = g]
             IN  new \in Working /\ new.old = w.old /\ new.pc = w.pc /\ new.next = n
      BY Answered, Zenon
    <3>2. /\ me \in Working /\ me.old = at[c].old /\ me.pc = at[c].pc
          /\ me.next = Attempt(c, "answer")
      BY <1>2, <1>6, <3>1, Zenon
    <3> QED
      BY <2>1, <3>2, Zenon
  <2>3. at' = [at EXCEPT ![c] = me]
    BY <1>7
  <2>4. at'[c] = me /\ \A d \in Callers : d # c => at'[d] = at[d] /\ ~Has(d)
    BY <1>2, <2>3 DEF IInv, Shapes, LockInv
  <2> HIDE DEF me
  <2>5. IInv'
    BY <1>1, <1>2, <1>4, <1>7, <2>2, <2>3, WorkStep DEF IInv, Shapes
  <2>6. ASSUME SpacedInv PROVE SpacedInv'
    <3>1. ASSUME NEW t \in Source PROVE contacts'[t] + Interval <= me.next[t]
      <4>1. at[c].next \in [Source -> Int] /\ contacts[t] + Interval <= at[c].next[t]
        BY <1>1, <1>2, <2>6 DEF SpacedInv, Working, Schedules
      <4> QED
        BY <1>3, <1>4, <2>2, <4>1
    <3>2. \A d \in Callers : at'[d].pc \in {"ask", "schedule"} => d = c
      BY <2>4 DEF Has
    <3>3. at'[c].pc = "ask"
      BY <1>1, <2>2, <2>4
    <3> QED
      BY <2>4, <3>1, <3>2, <3>3 DEF SpacedInv
  <2> QED
    BY <2>5, <2>6
<1>8. \/ \E record \in Seen(now) : \E answer \in About(record) :
            /\ at' = [at EXCEPT ![c].i = @ + 1, ![c].next = Attempt(c, "answer"),
                                ![c].got = Merge(@, Read(answer, now))]
            /\ UNCHANGED locked
      \/ /\ at' = [at EXCEPT ![c].i = @ + 1, ![c].next = Attempt(c, "failed")]
         /\ UNCHANGED locked
      \/ "killed" \in Endings /\ Leave(c)
  BY DEF Ask
<1>9. CASE \E record \in Seen(now) : \E answer \in About(record) :
            /\ at' = [at EXCEPT ![c].i = @ + 1, ![c].next = Attempt(c, "answer"),
                                ![c].got = Merge(@, Read(answer, now))]
            /\ UNCHANGED locked
  <2>0. PICK record \in Seen(now) : \E answer \in About(record) :
            /\ at' = [at EXCEPT ![c].i = @ + 1, ![c].next = Attempt(c, "answer"),
                                ![c].got = Merge(@, Read(answer, now))]
            /\ UNCHANGED locked
    BY <1>9
  <2>1. PICK answer \in About(record) :
            /\ at' = [at EXCEPT ![c].i = @ + 1, ![c].next = Attempt(c, "answer"),
                                ![c].got = Merge(@, Read(answer, now))]
            /\ UNCHANGED locked
    BY <2>0
  <2> DEFINE got == Merge(at[c].got, Read(answer, now))
  <2>2. now \in Nat
    BY DEF IInv, Shapes
  <2>3. answer \in Files
    BY <2>2, CandidatesAreFiles
  <2>4. got \in Files
    BY <1>2, <2>2, <2>3, ReadIsAFile, MergeIsAFile DEF Working
  <2>5. at' = [at EXCEPT ![c] = [at[c] EXCEPT !.i = @ + 1, !.next = Attempt(c, "answer"),
                                              !.got = got]]
    BY <1>2, <2>1 DEF Working
  <2> HIDE DEF got
  <2> QED
    BY <1>5, <1>7, <2>1, <2>4, <2>5
<1>10. CASE /\ at' = [at EXCEPT ![c].i = @ + 1, ![c].next = Attempt(c, "failed")]
            /\ UNCHANGED locked
  <2>1. at[c].got \in Files
    BY <1>2 DEF Working
  <2>2. [at[c] EXCEPT !.i = @ + 1, !.next = Attempt(c, "answer")]
          = [at[c] EXCEPT !.i = @ + 1, !.next = Attempt(c, "answer"), !.got = at[c].got]
    BY <1>2 DEF Working
  <2>3. at' = [at EXCEPT ![c] = [at[c] EXCEPT !.i = @ + 1, !.next = Attempt(c, "answer"),
                                              !.got = at[c].got]]
    BY <1>6, <1>10, <2>2
  <2> QED
    BY <1>5, <1>7, <1>10, <2>1, <2>3
<1>11. CASE "killed" \in Endings /\ Leave(c)
  BY <1>1, <1>2, <1>4, <1>5, <1>11, LeaveStep DEF IInv, Shapes
<1> QED
  BY <1>8, <1>9, <1>10, <1>11

\* The evidence is replaced by what the file held and what was learned.
LEMMA KeepAnswersStep ==
    ASSUME IInv, NEW c \in Callers, KeepAnswers(c)
    PROVE  IInv' /\ Stays /\ (SpacedInv => SpacedInv')
<1> DEFINE me == [at[c] EXCEPT !.pc = "schedule"]
<1>1. /\ at[c].pc = "ask" /\ at' = [at EXCEPT ![c] = me]
      /\ evidence' = IF at[c].got = Nothing THEN evidence ELSE Merge(at[c].old, at[c].got)
      /\ UNCHANGED <<now, next, locked, contacts>>
  BY DEF KeepAnswers
<1>2. /\ at[c] \in Working /\ Has(c) /\ at[c].old = Read(evidence, now)
      /\ at[c].got \in Files /\ at[c].old \in Files
  BY <1>1, Kinds DEF IInv, LockInv, Has, Working
<1>3. evidence' \in Files /\ evidence \in Files /\ now \in Nat
  BY <1>1, <1>2, MergeIsAFile DEF IInv, Shapes
<1>4. me \in Working /\ me.pc = "schedule" /\ me.next = at[c].next
  BY <1>2 DEF Working
<1>5. at'[c] = me /\ \A d \in Callers : d # c => at'[d] = at[d] /\ ~Has(d)
  BY <1>1, <1>2 DEF IInv, Shapes, LockInv
<1> HIDE DEF me
<1>6. Shapes'
  BY <1>1, <1>3, <1>4 DEF IInv, Shapes
<1>7. LockInv'
  BY <1>1, <1>2, <1>4, <1>5 DEF IInv, LockInv, Has
<1>8. Stays
  <2>1. ASSUME NEW k \in Models, Fresh(evidence[k], now)
        PROVE  evidence'[k] \in {evidence[k], at[c].got[k]}
    BY <1>1, <1>2, <1>3, <2>1, MergeKeepsFresh
  <2> QED
    BY <1>1, <2>1 DEF Stays
<1>9. SpacedInv => SpacedInv'
  BY <1>1, <1>4, <1>5 DEF SpacedInv
<1> QED
  BY <1>6, <1>7, <1>8, <1>9 DEF IInv

\* The schedule becomes the file's.
LEMMA KeepScheduleStep ==
    ASSUME IInv, NEW c \in Callers, KeepSchedule(c)
    PROVE  IInv' /\ (SpacedInv => SpacedInv')
<1>1. /\ at[c].pc = "schedule" /\ next' = at[c].next /\ Leave(c)
      /\ UNCHANGED <<now, evidence, contacts>>
  BY DEF KeepSchedule
<1>2. at[c] \in Working /\ Has(c) /\ next' \in Schedules
  BY <1>1, Kinds DEF IInv, Has, Working
<1>3. IInv'
  BY <1>1, <1>2, LeaveStep DEF IInv, Shapes
<1>4. /\ at'[c].pc = "idle"
      /\ \A d \in Callers : d # c => at'[d] = at[d] /\ ~Has(d)
  BY <1>1, <1>2 DEF IInv, Shapes, LockInv, Leave, Idle
<1>5. SpacedInv => SpacedInv'
  BY <1>1, <1>4 DEF SpacedInv, Has
<1> QED
  BY <1>3, <1>5

\* accept_evidence merges or refuses, and asks nobody.
LEMMA AcceptStep ==
    ASSUME IInv, NEW c \in Callers, Accept(c) \/ Reject(c)
    PROVE  IInv' /\ Stays /\ (SpacedInv => SpacedInv')
<1>1. /\ at[c].pc = "merge" /\ Leave(c) /\ UNCHANGED <<now, next, contacts>>
      /\ evidence' \in {evidence, Merge(at[c].old, at[c].got)}
  BY DEF Accept, Reject
<1>2. /\ at[c] \in Working /\ Has(c) /\ at[c].old = Read(evidence, now)
      /\ at[c].got \in Files /\ at[c].old \in Files
  BY <1>1, Kinds DEF IInv, LockInv, Has, Working
<1>3. evidence' \in Files /\ evidence \in Files /\ now \in Nat
  BY <1>1, <1>2, MergeIsAFile DEF IInv, Shapes
<1>4. IInv'
  BY <1>1, <1>2, <1>3, LeaveStep DEF IInv, Shapes
<1>5. Stays
  <2>1. ASSUME NEW k \in Models, Fresh(evidence[k], now)
        PROVE  evidence'[k] \in {evidence[k], at[c].got[k]}
    BY <1>1, <1>2, <1>3, <2>1, MergeKeepsFresh
  <2> QED
    BY <1>1, <2>1 DEF Stays
<1>6. /\ at'[c].pc = "idle"
      /\ \A d \in Callers : d # c => at'[d] = at[d] /\ ~Has(d)
  BY <1>1, <1>2 DEF IInv, Shapes, LockInv, Leave, Idle
<1>7. SpacedInv => SpacedInv'
  BY <1>1, <1>6 DEF SpacedInv, Has
<1> QED
  BY <1>4, <1>5, <1>7

\* The time moves when nobody has the lock; what was read is not compared then.
LEMMA TickStep ==
    ASSUME IInv, Tick \/ UNCHANGED vars
    PROVE  IInv' /\ (SpacedInv => SpacedInv')
<1>1. UNCHANGED <<evidence, next, locked, at, contacts>> /\ now' \in Nat
  BY DEF Tick, vars, evidenceVars, IInv, Shapes
<1>2. now' = now \/ \A c \in Callers : ~Has(c)
  BY DEF Tick, vars, Idle, Has
<1>3. IInv'
  BY <1>1, <1>2 DEF IInv, Shapes, LockInv, Has
<1> QED
  BY <1>1, <1>3 DEF SpacedInv

-----------------------------------------------------------------------------
LEMMA NextIInv ==
    IInv /\ [Next]_vars =>
        /\ IInv'
        /\ Stays
        /\ SpacedInv => Apart
        /\ SpacedInv /\ "killed" \notin Endings => SpacedInv'
<1> DEFINE Goal == /\ IInv' /\ Stays /\ (SpacedInv => Apart)
                   /\ (SpacedInv /\ "killed" \notin Endings => SpacedInv')
<1> SUFFICES ASSUME IInv, [Next]_vars PROVE Goal
  OBVIOUS
<1>1. evidence' = evidence => Stays
  BY DEF Stays
<1>2. contacts' = contacts => Apart
  BY DEF Apart
<1>3. ASSUME NEW c \in Callers, CallRefresh(c) \/ CallAccept(c) PROVE Goal
  BY <1>1, <1>2, <1>3, CallStep DEF CallRefresh, CallAccept, Enter
<1>4. ASSUME NEW c \in Callers, Lock(c) \/ LockTimeout(c) PROVE Goal
  BY <1>1, <1>2, <1>4, LockStep DEF Lock, Locked, LockTimeout
<1>5. ASSUME NEW c \in Callers, TooSoon(c) PROVE Goal
  BY <1>1, <1>2, <1>5, TooSoonStep DEF TooSoon
<1>6. ASSUME NEW c \in Callers, Ask(c) PROVE Goal
  BY <1>1, <1>6, AskStep DEF Ask
<1>7. ASSUME NEW c \in Callers, KeepAnswers(c) PROVE Goal
  BY <1>2, <1>7, KeepAnswersStep DEF KeepAnswers
<1>8. ASSUME NEW c \in Callers, KeepSchedule(c) PROVE Goal
  BY <1>1, <1>2, <1>8, KeepScheduleStep DEF KeepSchedule
<1>9. ASSUME NEW c \in Callers, Accept(c) \/ Reject(c) PROVE Goal
  BY <1>2, <1>9, AcceptStep DEF Accept, Reject
<1>10. CASE Tick \/ UNCHANGED vars
  BY <1>1, <1>2, <1>10, TickStep DEF Tick, vars, evidenceVars
<1> QED
  BY <1>3, <1>4, <1>5, <1>6, <1>7, <1>8, <1>9, <1>10 DEF Next, Keeps

\* Who has the lock has it alone and works on what the evidence file holds.
THEOREM Invariance == Spec => []IInv
<1>1. Init => IInv
  BY InitIInv
<1>2. IInv /\ [Next]_vars => IInv'
  BY NextIInv
<1> QED
  BY <1>1, <1>2, PTL DEF Spec

\* A record that still holds is only replaced by what the replacing caller has
\* itself brought: two writers never undo each other.
THEOREM HeldStays == Spec => HeldEvidenceStays
<1>1. IInv /\ [Next]_vars => [Stays]_vars
  BY NextIInv
<1>2. [][Stays]_vars => HeldEvidenceStays
  BY DEF Stays, HeldEvidenceStays
<1> QED
  BY <1>1, <1>2, Invariance, PTL DEF Spec

\* As long as no caller is killed between asking and saving, every source is
\* asked at most once an interval, whoever asks and however the asking ends.
THEOREM AttemptsSpaced ==
    ASSUME "killed" \notin Endings
    PROVE  Spec => AttemptsAreSpaced
<1>1. Init => IInv /\ SpacedInv
  BY InitIInv
<1>2. IInv /\ SpacedInv /\ [Next]_vars => (IInv /\ SpacedInv)'
  BY NextIInv
<1>3. IInv /\ SpacedInv /\ [Next]_vars => [Apart]_vars
  BY NextIInv
<1>4. [][Apart]_vars => AttemptsAreSpaced
  BY DEF Apart, AttemptsAreSpaced
<1> QED
  BY <1>1, <1>2, <1>3, <1>4, PTL DEF Spec
=============================================================================
